--------------------------- MODULE RecursionLemmas ---------------------------
(***************************************************************************)
(* Recursive definitions over data, for proofs.  A recursive function is a *)
(* choice among the functions that satisfy its equation, so that it has to *)
(* be shown that there is one; induction is a least counterexample.  All   *)
(* statements are about functions and sets instead of operators: a step of *)
(* a recursion is a function of an argument and of what has been computed. *)
(***************************************************************************)
EXTENDS Integers, FiniteSets, Functions, FiniteSetsExt, FiniteSetTheorems, WellFoundedInduction, TLAPS

\* Of naturals there is a least one.
LEMMA LeastNatural ==
  ASSUME NEW T, T \subseteq Nat, T # {}
  PROVE  \E x \in T : \A y \in T : x <= y
<1>1. PICK x \in T : \A y \in T : ~(<<y, x>> \in OpToRel(<, Nat))
  BY NatLessThanWellFounded, WFMin
<1>2. \A y \in T : ~(y < x)
  BY <1>1 DEF OpToRel
<1> QED BY <1>2

\* Of elements with a measure there is one with the least.
LEMMA LeastMeasure ==
  ASSUME NEW S, NEW measure \in [S -> Nat], NEW T, T \subseteq S, T # {}
  PROVE  \E x \in T : \A y \in T : measure[x] <= measure[y]
<1>1. PICK m \in {measure[x] : x \in T} : \A n \in {measure[x] : x \in T} : m <= n
  <2>1. {measure[x] : x \in T} \subseteq Nat /\ {measure[x] : x \in T} # {}
    OBVIOUS
  <2> QED BY <2>1, LeastNatural
<1> QED BY <1>1

\* Induction over the naturals, for a set instead of a predicate.
LEMMA NaturalsFromSteps ==
  ASSUME NEW T, 0 \in T, \A n \in Nat : n \in T => n + 1 \in T
  PROVE  Nat \subseteq T
<1> SUFFICES ASSUME Nat \ T # {} PROVE FALSE
  OBVIOUS
<1>1. PICK x \in Nat \ T : \A y \in Nat \ T : x <= y
  BY LeastNatural
<1>2. x - 1 \in Nat /\ x # 0
  OBVIOUS
<1>3. x - 1 \in T
  BY <1>1, <1>2
<1>4. x - 1 + 1 \in T
  BY <1>2, <1>3
<1> QED BY <1>4

-----------------------------------------------------------------------------
\* The functions that satisfy the equation of step for what measures less than n.
Partial(S, V, measure, step, n) ==
  {g \in [S -> V] : \A y \in S : measure[y] < n => g[y] = step[<<y, g>>]}

\* step[<<x, g>>] depends on what g is for arguments of a lesser measure.
Recursive(S, V, measure, step) ==
  /\ measure \in [S -> Nat]
  /\ step \in [S \X [S -> V] -> V]
  /\ \A x \in S, g \in [S -> V], h \in [S -> V] :
       (\A y \in S : measure[y] < measure[x] => g[y] = h[y]) => step[<<x, g>>] = step[<<x, h>>]

\* Two functions that satisfy the equation so far agree so far.
LEMMA PartialsAgree ==
  ASSUME NEW S, NEW V, NEW measure, NEW step, Recursive(S, V, measure, step),
         NEW n \in Nat, NEW m \in Nat, n <= m,
         NEW g \in Partial(S, V, measure, step, n), NEW h \in Partial(S, V, measure, step, m)
  PROVE  \A y \in S : measure[y] < n => g[y] = h[y]
<1> DEFINE Bad == {y \in S : measure[y] < n /\ g[y] # h[y]}
<1> SUFFICES ASSUME Bad # {} PROVE FALSE
  OBVIOUS
<1>0. measure \in [S -> Nat] /\ g \in [S -> V] /\ h \in [S -> V]
  BY DEF Recursive, Partial
<1>1. PICK y \in Bad : \A z \in Bad : measure[y] <= measure[z]
  BY <1>0, LeastMeasure
<1>2. \A z \in S : measure[z] < measure[y] => g[z] = h[z]
  BY <1>0, <1>1
<1>3. step[<<y, g>>] = step[<<y, h>>]
  BY <1>0, <1>1, <1>2 DEF Recursive
<1>4. g[y] = step[<<y, g>>] /\ h[y] = step[<<y, h>>]
  BY <1>0, <1>1 DEF Partial
<1> QED BY <1>1, <1>3, <1>4

\* However far, there is a function that satisfies the equation so far.
LEMMA PartialExists ==
  ASSUME NEW S, NEW V, NEW base \in V, NEW measure, NEW step, Recursive(S, V, measure, step),
         NEW n \in Nat
  PROVE  Partial(S, V, measure, step, n) # {}
<1> DEFINE T == {k \in Nat : Partial(S, V, measure, step, k) # {}}
<1>0. measure \in [S -> Nat] /\ step \in [S \X [S -> V] -> V]
  BY DEF Recursive
<1>1. 0 \in T
  <2>1. [x \in S |-> base] \in Partial(S, V, measure, step, 0)
    BY <1>0 DEF Partial
  <2> QED BY <2>1
<1>2. ASSUME NEW k \in Nat, k \in T PROVE k + 1 \in T
  <2>1. PICK g : g \in Partial(S, V, measure, step, k)
    BY <1>2
  <2>2. g \in [S -> V] /\ \A y \in S : measure[y] < k => g[y] = step[<<y, g>>]
    BY <2>1 DEF Partial
  <2>3. PICK h : h = [x \in S |-> IF measure[x] = k THEN step[<<x, g>>] ELSE g[x]]
    OBVIOUS
  <2>4. h \in [S -> V]
    BY <1>0, <2>2, <2>3
  <2>5. \A y \in S : measure[y] < k => h[y] = g[y]
    BY <1>0, <2>3
  <2>6. ASSUME NEW y \in S, measure[y] < k + 1 PROVE h[y] = step[<<y, h>>]
    <3>1. measure[y] \in Nat /\ measure[y] <= k
      BY <1>0, <2>6
    <3>2. \A z \in S : measure[z] < measure[y] => g[z] = h[z]
      BY <1>0, <2>5, <3>1
    <3>3. step[<<y, g>>] = step[<<y, h>>]
      BY <2>2, <2>4, <3>2 DEF Recursive
    <3>4. CASE measure[y] = k
      BY <2>3, <3>3, <3>4
    <3>5. CASE measure[y] < k
      BY <2>2, <2>5, <3>3, <3>5
    <3> QED BY <3>1, <3>4, <3>5
  <2>7. h \in Partial(S, V, measure, step, k + 1)
    BY <2>4, <2>6 DEF Partial
  <2> QED BY <2>7
<1>3. Nat \subseteq T
  <2> HIDE DEF T
  <2> QED BY <1>1, <1>2, NaturalsFromSteps
<1> QED BY <1>3

\* There is a function that satisfies the equation of a recursive step.
LEMMA RecursionHasSolution ==
  ASSUME NEW S, NEW V, NEW base \in V, NEW measure, NEW step, Recursive(S, V, measure, step)
  PROVE  \E f \in [S -> V] : \A x \in S : f[x] = step[<<x, f>>]
<1> DEFINE P(n) == Partial(S, V, measure, step, n)
           f == [x \in S |-> (CHOOSE g : g \in P(measure[x] + 1))[x]]
<1>0. measure \in [S -> Nat] /\ step \in [S \X [S -> V] -> V]
  BY DEF Recursive
<1>1. ASSUME NEW x \in S
      PROVE  \E g \in P(measure[x] + 1) : g = (CHOOSE u : u \in P(measure[x] + 1)) /\ f[x] = g[x]
  <2>1. measure[x] + 1 \in Nat
    BY <1>0
  <2>2. P(measure[x] + 1) # {}
    BY <2>1, PartialExists
  <2>3. (CHOOSE u : u \in P(measure[x] + 1)) \in P(measure[x] + 1)
    <3> HIDE DEF P
    <3> QED BY <2>2
  <2> QED BY <2>3
<1>2. f \in [S -> V]
  <2>1. ASSUME NEW x \in S PROVE f[x] \in V
    <3>1. PICK g \in P(measure[x] + 1) : f[x] = g[x]
      BY <1>1
    <3> QED BY <3>1 DEF Partial
  <2> QED BY <2>1
<1>3. ASSUME NEW x \in S PROVE f[x] = step[<<x, f>>]
  <2>1. PICK g \in P(measure[x] + 1) : f[x] = g[x]
    BY <1>1
  <2>2. g \in [S -> V] /\ g[x] = step[<<x, g>>]
    BY <1>0, <2>1 DEF Partial
  <2>3. ASSUME NEW y \in S, measure[y] < measure[x] PROVE f[y] = g[y]
    <3>1. PICK h \in P(measure[y] + 1) : f[y] = h[y]
      BY <1>1
    <3>2. measure[x] + 1 \in Nat /\ measure[y] + 1 \in Nat /\ measure[y] + 1 <= measure[x] + 1 /\ measure[y] < measure[y] + 1
      BY <1>0, <2>3
    <3>3. h[y] = g[y]
      BY <2>1, <3>1, <3>2, PartialsAgree
    <3> QED BY <3>1, <3>3
  <2>4. step[<<x, f>>] = step[<<x, g>>]
    <3> HIDE DEF f, P
    <3> QED BY <1>2, <2>2, <2>3 DEF Recursive
  <2> QED BY <2>1, <2>2, <2>4
<1> HIDE DEF f
<1> QED BY <1>2, <1>3

-----------------------------------------------------------------------------
\* Of subsets of a finite set there is one that is least.
LEMMA LeastSubset ==
  ASSUME NEW S, IsFiniteSet(S), NEW T, T \subseteq SUBSET S, T # {}
  PROVE  \E s \in T : \A x \in s : s \ {x} \notin T
<1>1. PICK D : D = SUBSET S
  OBVIOUS
<1>2. PICK measure : measure = [s \in D |-> Cardinality(s)]
  OBVIOUS
<1>3. \A s \in D : IsFiniteSet(s) /\ Cardinality(s) \in Nat
  BY <1>1, FS_Subset, FS_CardinalityType
<1>4. measure \in [D -> Nat]
  BY <1>2, <1>3
<1>5. PICK s \in T : \A t \in T : measure[s] <= measure[t]
  BY <1>1, <1>4, LeastMeasure
<1>6. ASSUME NEW x \in s, s \ {x} \in T PROVE FALSE
  <2>1. s \in D /\ s \ {x} \in D
    BY <1>1, <1>6
  <2>2. Cardinality(s \ {x}) = Cardinality(s) - 1
    BY <1>3, <2>1, FS_RemoveElement
  <2>3. measure[s] <= measure[s \ {x}]
    BY <1>5, <1>6
  <2> QED BY <1>2, <1>3, <2>1, <2>2, <2>3
<1> QED BY <1>6

\* A fold takes the picked element of a set and combines it with the rest.
Folds(S, V, pick, op) ==
  /\ \A s \in SUBSET S : s # {} => pick[s] \in s
  /\ \A x \in S, v \in V : op[<<x, v>>] \in V

\* The values of a fold over subsets of S.
FoldOf(S, base, pick, op, g) ==
  /\ g[{}] = base
  /\ \A s \in SUBSET S : s # {} => g[s] = op[<<pick[s], g[s \ {pick[s]}]>>]

\* A fold over a finite set has a value for each of its subsets.
LEMMA FoldHasSolution ==
  ASSUME NEW S, IsFiniteSet(S), NEW V, NEW base \in V, NEW pick, NEW op, Folds(S, V, pick, op)
  PROVE  \E g \in [SUBSET S -> V] : FoldOf(S, base, pick, op, g)
<1>0. /\ \A s \in SUBSET S : s # {} => pick[s] \in s
      /\ \A x \in S, v \in V : op[<<x, v>>] \in V
  BY DEF Folds
<1>1. PICK measure : measure = [s \in SUBSET S |-> Cardinality(s)]
  OBVIOUS
<1>2. \A s \in SUBSET S : IsFiniteSet(s) /\ Cardinality(s) \in Nat
  BY FS_Subset, FS_CardinalityType
<1>3. measure \in [SUBSET S -> Nat]
  BY <1>1, <1>2
<1>4. \A s \in SUBSET S, x \in S : x \in s => s \ {x} \in SUBSET S /\ measure[s \ {x}] < measure[s]
  <2> SUFFICES ASSUME NEW s \in SUBSET S, NEW x \in s
               PROVE  s \ {x} \in SUBSET S /\ measure[s \ {x}] < measure[s]
    OBVIOUS
  <2>1. Cardinality(s \ {x}) = Cardinality(s) - 1
    BY <1>2, FS_RemoveElement
  <2>2. s \ {x} \in SUBSET S
    OBVIOUS
  <2>3. measure[s] = Cardinality(s) /\ measure[s \ {x}] = Cardinality(s \ {x})
    BY <1>1, <2>2
  <2> QED BY <1>2, <2>1, <2>2, <2>3
<1>5. PICK step : step = [c \in (SUBSET S) \X [SUBSET S -> V] |->
                     IF c[1] = {} THEN base ELSE op[<<pick[c[1]], c[2][c[1] \ {pick[c[1]]}]>>]]
  OBVIOUS
<1>6. \A s \in SUBSET S, g \in [SUBSET S -> V] :
        step[<<s, g>>] = IF s = {} THEN base ELSE op[<<pick[s], g[s \ {pick[s]}]>>]
  BY <1>5
<1>7. \A s \in SUBSET S, g \in [SUBSET S -> V] : step[<<s, g>>] \in V
  <2> SUFFICES ASSUME NEW s \in SUBSET S, NEW g \in [SUBSET S -> V] PROVE step[<<s, g>>] \in V
    OBVIOUS
  <2>1. CASE s = {}
    BY <1>6, <2>1
  <2>2. CASE s # {}
    <3>1. pick[s] \in s /\ s \ {pick[s]} \in SUBSET S
      BY <1>0, <2>2
    <3>2. g[s \ {pick[s]}] \in V
      BY <3>1
    <3>3. PICK v \in V : v = g[s \ {pick[s]}]
      BY <3>2
    <3>4. PICK x \in S : x = pick[s]
      BY <3>1
    <3>5. step[<<s, g>>] = op[<<x, v>>]
      BY <1>6, <2>2, <3>3, <3>4
    <3> QED BY <1>0, <3>5
  <2> QED BY <2>1, <2>2
<1>8. step \in [(SUBSET S) \X [SUBSET S -> V] -> V]
  BY <1>5, <1>7
<1>9. \A s \in SUBSET S, g \in [SUBSET S -> V], h \in [SUBSET S -> V] :
        (\A y \in SUBSET S : measure[y] < measure[s] => g[y] = h[y]) => step[<<s, g>>] = step[<<s, h>>]
  <2> SUFFICES ASSUME NEW s \in SUBSET S, NEW g \in [SUBSET S -> V], NEW h \in [SUBSET S -> V],
                      \A y \in SUBSET S : measure[y] < measure[s] => g[y] = h[y]
               PROVE  step[<<s, g>>] = step[<<s, h>>]
    OBVIOUS
  <2>1. CASE s = {}
    BY <1>6, <2>1
  <2>2. CASE s # {}
    <3>1. pick[s] \in s /\ pick[s] \in S
      BY <1>0, <2>2
    <3>2. g[s \ {pick[s]}] = h[s \ {pick[s]}]
      BY <1>4, <3>1
    <3>3. step[<<s, g>>] = op[<<pick[s], g[s \ {pick[s]}]>>]
      BY <1>6, <2>2
    <3>4. step[<<s, h>>] = op[<<pick[s], h[s \ {pick[s]}]>>]
      BY <1>6, <2>2
    <3> QED BY <3>2, <3>3, <3>4
  <2> QED BY <2>1, <2>2
<1>10. Recursive(SUBSET S, V, measure, step)
  BY <1>3, <1>8, <1>9 DEF Recursive
<1>11. PICK D : D = SUBSET S
  OBVIOUS
<1>12. Recursive(D, V, measure, step)
  BY <1>10, <1>11
<1>13. \E f \in [D -> V] : \A s \in D : f[s] = step[<<s, f>>]
  BY <1>12, RecursionHasSolution
<1>14. PICK f \in [SUBSET S -> V] : \A s \in SUBSET S : f[s] = step[<<s, f>>]
  BY <1>11, <1>13
<1>15. f[{}] = base
  BY <1>6, <1>14
<1>16. \A s \in SUBSET S : s # {} => f[s] = op[<<pick[s], f[s \ {pick[s]}]>>]
  BY <1>6, <1>14
<1> QED BY <1>14, <1>15, <1>16 DEF FoldOf

\* The element that the library's folds take first.
Chosen(s) == CHOOSE x \in s : TRUE

\* What a function adds up to over each subset.
SumsUp(f, S, g) ==
  g = [s \in SUBSET S |-> IF s = {} THEN 0 ELSE f[Chosen(s)] + g[s \ {Chosen(s)}]]

LEMMA ChosenIn == ASSUME NEW s, s # {} PROVE Chosen(s) \in s
  BY DEF Chosen

\* Integers add up to integers.
LEMMA SumsUpType ==
  ASSUME NEW S, IsFiniteSet(S), NEW f, \A x \in S : f[x] \in Int, NEW g, SumsUp(f, S, g)
  PROVE  g \in [SUBSET S -> Int]
<1> DEFINE Bad == {s \in SUBSET S : g[s] \notin Int}
<1>1. ASSUME Bad # {} PROVE FALSE
  <2>1. PICK s \in Bad : \A x \in s : s \ {x} \notin Bad
    <3>1. Bad \subseteq SUBSET S
      OBVIOUS
    <3> HIDE DEF Bad
    <3> QED BY <1>1, <3>1, LeastSubset
  <2>2. s # {}
    BY <2>1 DEF SumsUp
  <2>3. Chosen(s) \in s
    BY <2>2, ChosenIn
  <2>4. g[s \ {Chosen(s)}] \in Int
    BY <2>1, <2>3
  <2>5. g[s] = f[Chosen(s)] + g[s \ {Chosen(s)}]
    BY <2>1, <2>2 DEF SumsUp
  <2> QED BY <2>1, <2>3, <2>4, <2>5
<1>2. DOMAIN g = SUBSET S /\ g = [s \in SUBSET S |-> g[s]]
  BY DEF SumsUp
<1> QED BY <1>1, <1>2

\* The library's sum is what the function adds up to over the whole set.
LEMMA SumIsSum ==
  ASSUME NEW S, IsFiniteSet(S), NEW f, \A x \in S : f[x] \in Int
  PROVE  \E g \in [SUBSET S -> Int] : SumsUp(f, S, g) /\ SumFunctionOnSet(f, S) = g[S]
<1>1. PICK pick : pick = [s \in SUBSET S |-> Chosen(s)]
  OBVIOUS
<1>2. PICK op : op = [c \in S \X Int |-> f[c[1]] + c[2]]
  OBVIOUS
<1>3. \A s \in SUBSET S : s # {} => pick[s] \in s /\ pick[s] = Chosen(s)
  BY <1>1, ChosenIn
<1>4. \A x \in S, v \in Int : op[<<x, v>>] = f[x] + v /\ op[<<x, v>>] \in Int
  BY <1>2
<1>5. PICK g \in [SUBSET S -> Int] : FoldOf(S, 0, pick, op, g)
  <2>1. Folds(S, Int, pick, op)
    BY <1>3, <1>4 DEF Folds
  <2>2. PICK V : V = Int
    OBVIOUS
  <2>3. PICK base \in V : base = 0
    BY <2>2
  <2>4. \E g \in [SUBSET S -> V] : FoldOf(S, base, pick, op, g)
    BY <2>1, <2>2, FoldHasSolution
  <2> QED BY <2>2, <2>3, <2>4
<1>6. SumsUp(f, S, g)
  <2>1. ASSUME NEW s \in SUBSET S
        PROVE  g[s] = IF s = {} THEN 0 ELSE f[Chosen(s)] + g[s \ {Chosen(s)}]
    <3>1. CASE s = {}
      BY <1>5, <3>1 DEF FoldOf
    <3>2. CASE s # {}
      <4>1. pick[s] = Chosen(s) /\ Chosen(s) \in S /\ g[s \ {Chosen(s)}] \in Int
        BY <1>3, <3>2
      <4>2. g[s] = op[<<Chosen(s), g[s \ {Chosen(s)}]>>]
        BY <1>5, <3>2, <4>1 DEF FoldOf
      <4> QED BY <1>4, <3>2, <4>1, <4>2
    <3> QED BY <3>1, <3>2
  <2> QED BY <2>1 DEF SumsUp
<1>7. SumFunctionOnSet(f, S) = (CHOOSE h : SumsUp(f, S, h))[S]
  BY DEF SumFunctionOnSet, FoldFunctionOnSet, MapThenFoldSet, SumsUp, Chosen
<1>8. SumsUp(f, S, CHOOSE h : SumsUp(f, S, h))
  BY <1>6
<1> QED BY <1>7, <1>8, SumsUpType

\* What a function adds up to does not depend on the set the subset is taken of.
LEMMA SumsUpAgree ==
  ASSUME NEW S, IsFiniteSet(S), NEW A \in SUBSET S, NEW f, NEW g, NEW h,
         SumsUp(f, A, g), SumsUp(f, S, h)
  PROVE  \A s \in SUBSET A : g[s] = h[s]
<1> DEFINE Bad == {s \in SUBSET A : g[s] # h[s]}
<1>1. ASSUME Bad # {} PROVE FALSE
  <2>1. PICK s \in Bad : \A x \in s : s \ {x} \notin Bad
    <3>1. Bad \subseteq SUBSET S
      OBVIOUS
    <3> HIDE DEF Bad
    <3> QED BY <1>1, <3>1, LeastSubset
  <2>2. s # {}
    BY <2>1 DEF SumsUp
  <2>3. Chosen(s) \in s
    BY <2>2, ChosenIn
  <2>4. g[s \ {Chosen(s)}] = h[s \ {Chosen(s)}]
    BY <2>1, <2>3
  <2>5. g[s] = f[Chosen(s)] + g[s \ {Chosen(s)}]
    BY <2>1, <2>2 DEF SumsUp
  <2>6. h[s] = f[Chosen(s)] + h[s \ {Chosen(s)}]
    BY <2>1, <2>2 DEF SumsUp
  <2> QED BY <2>1, <2>4, <2>5, <2>6
<1> QED BY <1>1

\* Of nothing, the sum is 0.
LEMMA SumEmpty == ASSUME NEW f PROVE SumFunctionOnSet(f, {}) = 0
<1>1. IsFiniteSet({})
  BY FS_EmptySet
<1>2. PICK g \in [SUBSET {} -> Int] : SumsUp(f, {}, g) /\ SumFunctionOnSet(f, {}) = g[{}]
  BY <1>1, SumIsSum
<1> QED BY <1>2 DEF SumsUp

\* A sum of integers is an integer.
LEMMA SumType ==
  ASSUME NEW S, IsFiniteSet(S), NEW f, \A x \in S : f[x] \in Int
  PROVE  SumFunctionOnSet(f, S) \in Int
<1>1. PICK g \in [SUBSET S -> Int] : SumsUp(f, S, g) /\ SumFunctionOnSet(f, S) = g[S]
  BY SumIsSum
<1> QED BY <1>1

\* A sum begins with the chosen element.
LEMMA SumChosen ==
  ASSUME NEW S, IsFiniteSet(S), S # {}, NEW f, \A x \in S : f[x] \in Int
  PROVE  SumFunctionOnSet(f, S) = f[Chosen(S)] + SumFunctionOnSet(f, S \ {Chosen(S)})
<1>1. PICK A \in SUBSET S : A = S \ {Chosen(S)}
  OBVIOUS
<1>2. IsFiniteSet(A)
  BY FS_Subset
<1>3. PICK g : SumsUp(f, A, g) /\ SumFunctionOnSet(f, A) = g[A]
  BY <1>2, SumIsSum
<1>4. PICK h : SumsUp(f, S, h) /\ SumFunctionOnSet(f, S) = h[S]
  BY SumIsSum
<1>5. g[A] = h[A]
  BY <1>3, <1>4, SumsUpAgree
<1>6. h[S] = f[Chosen(S)] + h[A]
  BY <1>1, <1>4 DEF SumsUp
<1> QED BY <1>1, <1>3, <1>4, <1>5, <1>6

\* Any element can be taken out of a sum.
LEMMA SumTake ==
  ASSUME NEW S, IsFiniteSet(S), NEW f, \A x \in S : f[x] \in Int, NEW x \in S
  PROVE  SumFunctionOnSet(f, S) = f[x] + SumFunctionOnSet(f, S \ {x})
<1> DEFINE Bad == {s \in SUBSET S : \E y \in s : SumFunctionOnSet(f, s) # f[y] + SumFunctionOnSet(f, s \ {y})}
<1>1. ASSUME Bad # {} PROVE FALSE
  <2>1. PICK s \in Bad : \A y \in s : s \ {y} \notin Bad
    <3>1. Bad \subseteq SUBSET S
      OBVIOUS
    <3> HIDE DEF Bad
    <3> QED BY <1>1, <3>1, LeastSubset
  <2>2. PICK y \in s : SumFunctionOnSet(f, s) # f[y] + SumFunctionOnSet(f, s \ {y})
    BY <2>1
  <2>3. PICK c \in s : c = Chosen(s)
    BY ChosenIn
  <2>4. IsFiniteSet(s) /\ IsFiniteSet(s \ {y}) /\ IsFiniteSet(s \ {c}) /\ IsFiniteSet((s \ {y}) \ {c})
    BY <2>1, FS_Subset
  <2>5. SumFunctionOnSet(f, s) = f[c] + SumFunctionOnSet(f, s \ {c})
    BY <2>1, <2>3, <2>4, SumChosen
  <2>6. y # c
    BY <2>2, <2>5
  <2>7. y \in s \ {c} /\ c \in s \ {y} /\ (s \ {y}) \ {c} = (s \ {c}) \ {y}
    BY <2>6
  <2>8. s \ {c} \in SUBSET S /\ s \ {y} \in SUBSET S
    BY <2>1
  <2>9. SumFunctionOnSet(f, s \ {c}) = f[y] + SumFunctionOnSet(f, (s \ {c}) \ {y})
    BY <2>1, <2>7, <2>8
  <2>10. SumFunctionOnSet(f, s \ {y}) = f[c] + SumFunctionOnSet(f, (s \ {y}) \ {c})
    BY <2>1, <2>7, <2>8
  <2>11. SumFunctionOnSet(f, (s \ {y}) \ {c}) \in Int
    BY <2>1, <2>4, SumType
  <2>12. f[y] \in Int /\ f[c] \in Int
    BY <2>1
  <2>13. PICK m \in Int : m = SumFunctionOnSet(f, (s \ {y}) \ {c})
    BY <2>11
  <2>14. SumFunctionOnSet(f, s \ {c}) = f[y] + m /\ SumFunctionOnSet(f, s \ {y}) = f[c] + m
    BY <2>7, <2>9, <2>10, <2>13
  <2>15. f[y] + SumFunctionOnSet(f, s \ {y}) = f[c] + SumFunctionOnSet(f, s \ {c})
    BY <2>12, <2>14
  <2> QED BY <2>2, <2>5, <2>15
<1> QED BY <1>1

\* A sum depends only on what is added up.
LEMMA SumAgree ==
  ASSUME NEW S, IsFiniteSet(S), NEW f, NEW g, \A x \in S : f[x] = g[x] /\ f[x] \in Int
  PROVE  SumFunctionOnSet(f, S) = SumFunctionOnSet(g, S)
<1>1. PICK h : SumsUp(f, S, h) /\ SumFunctionOnSet(f, S) = h[S]
  BY SumIsSum
<1>2. PICK k : SumsUp(g, S, k) /\ SumFunctionOnSet(g, S) = k[S]
  BY SumIsSum
<1>3. \A s \in SUBSET S : s # {} => f[Chosen(s)] = g[Chosen(s)]
  BY ChosenIn
<1>4. SumsUp(g, S, h)
  BY <1>1, <1>3 DEF SumsUp
<1>5. h[S] = k[S]
  BY <1>2, <1>4, SumsUpAgree
<1> QED BY <1>1, <1>2, <1>5

\* The sum over a union of disjoint sets.
LEMMA SumUnion ==
  ASSUME NEW A, IsFiniteSet(A), NEW B, IsFiniteSet(B), A \cap B = {},
         NEW f, \A x \in A \cup B : f[x] \in Int
  PROVE  SumFunctionOnSet(f, A \cup B) = SumFunctionOnSet(f, A) + SumFunctionOnSet(f, B)
<1> DEFINE Bad == {s \in SUBSET A : SumFunctionOnSet(f, s \cup B) # SumFunctionOnSet(f, s) + SumFunctionOnSet(f, B)}
<1>1. ASSUME Bad # {} PROVE FALSE
  <2>1. PICK s \in Bad : \A y \in s : s \ {y} \notin Bad
    <3>1. Bad \subseteq SUBSET A
      OBVIOUS
    <3> HIDE DEF Bad
    <3> QED BY <1>1, <3>1, LeastSubset
  <2>2. SumFunctionOnSet(f, B) \in Int
    BY SumType
  <2>3. s # {}
    <3> SUFFICES ASSUME s = {} PROVE FALSE
      OBVIOUS
    <3>1. s \cup B = B
      OBVIOUS
    <3>2. SumFunctionOnSet(f, s) = 0
      BY SumEmpty
    <3> QED BY <2>1, <2>2, <3>1, <3>2
  <2>4. PICK y \in s : TRUE
    BY <2>3
  <2>5. IsFiniteSet(s) /\ IsFiniteSet(s \cup B) /\ IsFiniteSet(s \ {y})
    BY <2>1, FS_Subset, FS_Union
  <2>6. (s \cup B) \ {y} = (s \ {y}) \cup B /\ y \in s \cup B /\ s \ {y} \in SUBSET A
    BY <2>1
  <2>7. \A x \in s \cup B : f[x] \in Int
    BY <2>1
  <2>8. SumFunctionOnSet(f, s \cup B) = f[y] + SumFunctionOnSet(f, (s \cup B) \ {y})
    BY <2>5, <2>6, <2>7, SumTake
  <2>9. SumFunctionOnSet(f, s) = f[y] + SumFunctionOnSet(f, s \ {y})
    BY <2>5, <2>7, SumTake
  <2>10. SumFunctionOnSet(f, (s \ {y}) \cup B) = SumFunctionOnSet(f, s \ {y}) + SumFunctionOnSet(f, B)
    BY <2>1, <2>6
  <2>11. SumFunctionOnSet(f, s \ {y}) \in Int /\ f[y] \in Int
    BY <2>5, <2>7, SumType
  <2> QED BY <2>1, <2>2, <2>6, <2>8, <2>9, <2>10, <2>11
<1>2. A \in SUBSET A
  OBVIOUS
<1> QED BY <1>1, <1>2

\* The sum over sets that are pairwise disjoint, each of which has its sum in g.
LEMMA SumFamily ==
  ASSUME NEW C, IsFiniteSet(C), NEW part, \A c \in C : IsFiniteSet(part[c]),
         \A c \in C, d \in C : c # d => part[c] \cap part[d] = {},
         NEW f, \A c \in C : \A x \in part[c] : f[x] \in Int,
         NEW g, \A c \in C : g[c] = SumFunctionOnSet(f, part[c])
  PROVE  SumFunctionOnSet(g, C) = SumFunctionOnSet(f, UNION {part[c] : c \in C})
<1> DEFINE U(s) == UNION {part[c] : c \in s}
           Bad == {s \in SUBSET C : SumFunctionOnSet(g, s) # SumFunctionOnSet(f, U(s))}
<1>0. \A c \in C : g[c] \in Int
  BY SumType
<1>1. ASSUME Bad # {} PROVE FALSE
  <2>1. PICK s \in Bad : \A y \in s : s \ {y} \notin Bad
    <3>1. Bad \subseteq SUBSET C
      OBVIOUS
    <3> HIDE DEF Bad
    <3> QED BY <1>1, <3>1, LeastSubset
  <2>2. s # {}
    <3> SUFFICES ASSUME s = {} PROVE FALSE
      OBVIOUS
    <3>1. U(s) = {}
      OBVIOUS
    <3>2. SumFunctionOnSet(f, U(s)) = 0 /\ SumFunctionOnSet(g, s) = 0
      BY <3>1, SumEmpty
    <3> QED BY <2>1, <3>2
  <2>3. PICK c \in s : TRUE
    BY <2>2
  <2>4. PICK t \in SUBSET C : t = s \ {c}
    BY <2>1
  <2>5. IsFiniteSet(s) /\ IsFiniteSet(t)
    BY <2>1, FS_Subset
  <2>6. SumFunctionOnSet(g, s) = g[c] + SumFunctionOnSet(g, t)
    <3>1. \A x \in s : g[x] \in Int
      BY <1>0, <2>1
    <3> QED BY <2>4, <2>5, <3>1, SumTake
  <2>7. SumFunctionOnSet(g, t) = SumFunctionOnSet(f, U(t))
    BY <2>1, <2>4
  <2>8. IsFiniteSet(U(t))
    <3>1. IsFiniteSet({part[d] : d \in t})
      <4>1. PICK F : F = [d \in t |-> part[d]]
        OBVIOUS
      <4>2. F \in Surjection(t, {part[d] : d \in t})
        BY <4>1 DEF Surjection
      <4> QED BY <2>5, <4>2, FS_Surjection
    <3>2. \A p \in {part[d] : d \in t} : IsFiniteSet(p)
      BY <2>4
    <3> QED BY <3>1, <3>2, FS_UNION
  <2>9. part[c] \cap U(t) = {} /\ U(s) = part[c] \cup U(t)
    BY <2>1, <2>3, <2>4
  <2>10. IsFiniteSet(part[c])
    BY <2>1
  <2>11. \A x \in part[c] \cup U(t) : f[x] \in Int
    BY <2>1, <2>4
  <2>12. SumFunctionOnSet(f, part[c] \cup U(t)) = SumFunctionOnSet(f, part[c]) + SumFunctionOnSet(f, U(t))
    <3> HIDE DEF U
    <3> QED BY <2>8, <2>9, <2>10, <2>11, SumUnion
  <2>13. g[c] = SumFunctionOnSet(f, part[c])
    BY <2>1
  <2>14. SumFunctionOnSet(g, s) = SumFunctionOnSet(f, U(s))
    <3> HIDE DEF U
    <3> QED BY <2>6, <2>7, <2>9, <2>12, <2>13
  <2> QED BY <2>1, <2>14
<1>2. C \in SUBSET C
  OBVIOUS
<1> QED BY <1>1, <1>2

\* The set has a least and a largest element.
HasExtrema(S) == \E lo \in S, hi \in S : \A y \in S : lo <= y /\ y <= hi

\* A finite set of integers has a largest and a least element.
LEMMA ExtremaExist ==
  ASSUME NEW S, IsFiniteSet(S), S \subseteq Int, S # {}
  PROVE  /\ Max(S) \in S /\ \A y \in S : y <= Max(S)
         /\ Min(S) \in S /\ \A y \in S : Min(S) <= y
<1> DEFINE Bad == {s \in SUBSET S : s # {} /\ ~HasExtrema(s)}
<1>1. ASSUME Bad # {} PROVE FALSE
  <2>1. PICK s \in Bad : \A x \in s : s \ {x} \notin Bad
    <3>1. Bad \subseteq SUBSET S
      OBVIOUS
    <3> HIDE DEF Bad
    <3> QED BY <1>1, <3>1, LeastSubset
  <2>2. PICK x \in s : TRUE
    BY <2>1
  <2>3. s \ {x} # {}
    <3> SUFFICES ASSUME s = {x} PROVE FALSE
      BY <2>2
    <3>1. x \in Int
      BY <2>1
    <3> QED BY <2>1, <3>1 DEF HasExtrema
  <2>4. PICK lo \in s \ {x}, hi \in s \ {x} : \A y \in s \ {x} : lo <= y /\ y <= hi
    BY <2>1, <2>2, <2>3 DEF HasExtrema
  <2>5. x \in Int /\ lo \in Int /\ hi \in Int /\ s \subseteq Int
    BY <2>1, <2>4
  <2>6. PICK l \in s : l <= x /\ l <= lo
    <3>1. x <= lo \/ lo <= x
      BY <2>5
    <3> QED BY <2>2, <2>4, <2>5, <3>1
  <2>7. PICK h \in s : x <= h /\ hi <= h
    <3>1. x <= hi \/ hi <= x
      BY <2>5
    <3> QED BY <2>2, <2>4, <2>5, <3>1
  <2>8. ASSUME NEW y \in s PROVE l <= y /\ y <= h
    <3>1. l \in Int /\ h \in Int /\ y \in Int
      BY <2>5, <2>6, <2>7
    <3>2. CASE y = x
      BY <2>6, <2>7, <3>2
    <3>3. CASE y # x
      <4>1. y \in s \ {x}
        BY <3>3
      <4>2. lo <= y /\ y <= hi
        BY <2>4, <4>1
      <4>3. lo \in Int /\ hi \in Int /\ l <= lo /\ hi <= h
        BY <2>5, <2>6, <2>7
      <4> QED BY <3>1, <4>2, <4>3
    <3> QED BY <3>2, <3>3
  <2>9. HasExtrema(s)
    BY <2>8 DEF HasExtrema
  <2> QED BY <2>1, <2>9
<1>2. PICK lo \in S, hi \in S : \A y \in S : lo <= y /\ y <= hi
  BY <1>1 DEF HasExtrema
<1>3. Max(S) \in S /\ \A y \in S : Max(S) >= y
  BY <1>2 DEF Max
<1>4. Min(S) \in S /\ \A y \in S : Min(S) <= y
  BY <1>2 DEF Min
<1> QED BY <1>3, <1>4
=============================================================================
