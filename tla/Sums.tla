-------------------------------- MODULE Sums --------------------------------
(***************************************************************************)
(* Sums of numbers over finite sets, as FinanceAmounts and AuthRateLimiter *)
(* take them.  A sum is a recursive function on the subsets of its set; an *)
(* induction on the set is the choice of a least subset that breaks a law. *)
(***************************************************************************)
EXTENDS Integers, FiniteSets, Functions, FiniteSetTheorems, WellFoundedInduction, TLAPS

Sum(f, S) == SumFunctionOnSet(f, S)

\* What SumFunctionOnSet iterates.
Step(f, g, s) ==
    IF s = {} THEN 0 ELSE LET x == CHOOSE y \in s : TRUE IN f[x] + g[s \ {x}]
Iterates(f, S, g) == g = [s \in SUBSET S |-> Step(f, g, s)]

\* A set of subsets of a finite set has a least one.
LEMMA LeastSubset ==
    ASSUME NEW S, IsFiniteSet(S), NEW T \in SUBSET SUBSET S, T # {}
    PROVE  \E s \in T : IsFiniteSet(s) /\ \A r \in T : ~(r \subseteq s /\ r # s)
<1>1. \A s \in T : s \in FiniteSubsetsOf(S)
  BY FS_Subset DEF FiniteSubsetsOf
<1>2. IsWellFoundedOn(StrictSubsetOrdering(S), FiniteSubsetsOf(S))
  BY FS_StrictSubsetOrderingWellFounded
<1>3. PICK s \in T : \A r \in T : ~(<<r, s>> \in StrictSubsetOrdering(S))
  BY <1>1, <1>2, WFMin
<1>. QED
  BY <1>1, <1>3 DEF StrictSubsetOrdering, FiniteSubsetsOf

\* Induction on a finite set, for a law given by the subsets that obey it.
LEMMA SetInduction ==
    ASSUME NEW S, IsFiniteSet(S), NEW Good \in SUBSET SUBSET S, {} \in Good,
           \A s \in Good, x \in S : x \notin s => s \cup {x} \in Good
    PROVE  S \in Good
<1>. SUFFICES ASSUME S \notin Good PROVE FALSE
  OBVIOUS
<1>. DEFINE Fails == (SUBSET S) \ Good
<1>1. PICK s \in Fails : \A r \in Fails : ~(r \subseteq s /\ r # s)
  <2>1. Fails \in SUBSET SUBSET S /\ Fails # {}
    OBVIOUS
  <2>. HIDE DEF Fails
  <2>. QED
    BY <2>1, LeastSubset
<1>2. PICK x : x \in s
  BY <1>1
<1>3. s \ {x} \in Good /\ x \in S /\ (s \ {x}) \cup {x} = s
  BY <1>1, <1>2
<1>. QED
  BY <1>1, <1>3

\* The iteration is defined, one size of subsets after the other.
LEMMA IterationExists ==
    ASSUME NEW f, NEW S, IsFiniteSet(S)
    PROVE  \E g : Iterates(f, S, g)
<1>. DEFINE Upto(n, g) ==
              /\ g = [s \in SUBSET S |-> g[s]]
              /\ \A s \in SUBSET S : Cardinality(s) < n => g[s] = Step(f, g, s)
            Fails == {n \in Nat : ~ \E g : Upto(n, g)}
<1>1. \A s \in SUBSET S : IsFiniteSet(s) /\ Cardinality(s) \in Nat
  BY FS_Subset, FS_CardinalityType
<1>2. Fails = {}
  <2>. SUFFICES ASSUME Fails # {} PROVE FALSE
    OBVIOUS
  <2>1. PICK n \in Fails : \A m \in Fails : ~(<<m, n>> \in OpToRel(<, Nat))
    BY NatLessThanWellFounded, WFMin
  <2>2. n \in Nat /\ \A m \in Fails : ~(m < n)
    BY <2>1 DEF OpToRel
  <2>3. n # 0
    <3>1. Upto(0, [s \in SUBSET S |-> 0])
      BY <1>1
    <3>. QED
      BY <2>1, <3>1
  <2>4. PICK g : Upto(n - 1, g)
    <3>1. n - 1 \in Nat /\ n - 1 < n
      BY <2>2, <2>3
    <3>. HIDE DEF Upto
    <3>. QED
      BY <2>2, <3>1
  <2>. DEFINE h == [s \in SUBSET S |-> IF Cardinality(s) < n - 1 THEN g[s] ELSE Step(f, g, s)]
  <2>5. \A s \in SUBSET S : Cardinality(s) < n => h[s] = Step(f, h, s)
    <3>. SUFFICES ASSUME NEW s \in SUBSET S, Cardinality(s) < n PROVE h[s] = Step(f, h, s)
      OBVIOUS
    <3>1. h[s] = Step(f, g, s)
      BY <2>4
    <3>2. CASE s = {}
      BY <3>1, <3>2 DEF Step
    <3>3. CASE s # {}
      <4>. DEFINE x == CHOOSE y \in s : TRUE
      <4>1. x \in s
        BY <3>3
      <4>2. s \ {x} \in SUBSET S /\ Cardinality(s \ {x}) = Cardinality(s) - 1
        BY <1>1, <4>1, FS_RemoveElement
      <4>3. h[s \ {x}] = g[s \ {x}]
        BY <1>1, <2>2, <4>2
      <4>. QED
        BY <3>1, <3>3, <4>3 DEF Step
    <3>. QED
      BY <3>2, <3>3
  <2>6. Upto(n, h)
    BY <2>5
  <2>. QED
    BY <2>1, <2>6
<1>3. Cardinality(S) + 1 \in Nat
  BY FS_CardinalityType
<1>4. PICK g : Upto(Cardinality(S) + 1, g)
  BY <1>2, <1>3
<1>5. \A s \in SUBSET S : Cardinality(s) < Cardinality(S) + 1
  BY FS_Subset, FS_CardinalityType
<1>. QED
  BY <1>4, <1>5 DEF Iterates

\* SumFunctionOnSet iterates.
LEMMA SumIterates ==
    ASSUME NEW f, NEW S, IsFiniteSet(S)
    PROVE  \E g : Iterates(f, S, g) /\ Sum(f, S) = g[S]
<1>. DEFINE iter[s \in SUBSET S] ==
       IF s = {} THEN 0 ELSE LET x == CHOOSE y \in s : TRUE IN f[x] + iter[s \ {x}]
<1>1. Sum(f, S) = iter[S]
  BY DEF Sum, SumFunctionOnSet, FoldFunctionOnSet, MapThenFoldSet
<1>2. iter = CHOOSE g : Iterates(f, S, g)
  BY DEF Iterates, Step
<1>. HIDE DEF iter
<1>3. Iterates(f, S, iter)
  BY <1>2, IterationExists
<1>. QED
  BY <1>1, <1>3

\* Two iterations agree where both are defined.
LEMMA IterationIsUnique ==
    ASSUME NEW f, NEW S, IsFiniteSet(S), NEW R \in SUBSET S, NEW g, NEW h,
           Iterates(f, S, g), Iterates(f, R, h)
    PROVE  g[R] = h[R]
<1>. DEFINE Differs == {s \in SUBSET R : g[s] # h[s]}
<1>. SUFFICES ASSUME Differs # {} PROVE FALSE
  OBVIOUS
<1>1. IsFiniteSet(R) /\ Differs \in SUBSET SUBSET R
  BY FS_Subset
<1>2. PICK s \in Differs : IsFiniteSet(s) /\ \A r \in Differs : ~(r \subseteq s /\ r # s)
  <2>. HIDE DEF Differs
  <2>. QED
    BY <1>1, LeastSubset
<1>3. g[s] = Step(f, g, s) /\ h[s] = Step(f, h, s)
  BY DEF Iterates
<1>4. s # {}
  BY <1>3 DEF Step
<1>. DEFINE x == CHOOSE y \in s : TRUE
<1>5. x \in s
  BY <1>4
<1>6. g[s \ {x}] = h[s \ {x}]
  BY <1>2, <1>5
<1>. QED
  BY <1>3, <1>4, <1>6 DEF Step

LEMMA SumStep ==
    ASSUME NEW f, NEW S, IsFiniteSet(S)
    PROVE  /\ S = {} => Sum(f, S) = 0
           /\ S # {} => \E x \in S : Sum(f, S) = f[x] + Sum(f, S \ {x})
<1>1. PICK g : Iterates(f, S, g) /\ Sum(f, S) = g[S]
  BY SumIterates
<1>2. g[S] = Step(f, g, S)
  BY <1>1 DEF Iterates
<1>3. ASSUME S # {} PROVE \E x \in S : Sum(f, S) = f[x] + Sum(f, S \ {x})
  <2>. DEFINE x == CHOOSE y \in S : TRUE
              R == S \ {x}
  <2>1. x \in S /\ R \in SUBSET S
    BY <1>3
  <2>2. IsFiniteSet(R)
    BY FS_RemoveElement
  <2>3. PICK h : Iterates(f, R, h) /\ Sum(f, R) = h[R]
    BY <2>2, SumIterates
  <2>4. g[R] = h[R]
    BY <1>1, <2>1, <2>3, IterationIsUnique
  <2>5. Sum(f, S) = f[x] + g[R]
    BY <1>1, <1>2, <1>3 DEF Step
  <2>. QED
    BY <2>1, <2>3, <2>4, <2>5
<1>. QED
  BY <1>1, <1>2, <1>3 DEF Step

-----------------------------------------------------------------------------
(* Laws of sums *)

NumbersOn(f, S) == \A x \in S : f[x] \in Int

LEMMA SumType ==
    ASSUME NEW f, NEW S, IsFiniteSet(S), NumbersOn(f, S)
    PROVE  Sum(f, S) \in Int
<1>. DEFINE Fails == {s \in SUBSET S : Sum(f, s) \notin Int}
<1>. SUFFICES ASSUME Fails # {} PROVE FALSE
  OBVIOUS
<1>1. PICK s \in Fails : IsFiniteSet(s) /\ \A r \in Fails : ~(r \subseteq s /\ r # s)
  <2>1. Fails \in SUBSET SUBSET S
    OBVIOUS
  <2>. HIDE DEF Fails
  <2>. QED
    BY <2>1, LeastSubset
<1>2. s # {}
  BY <1>1, SumStep
<1>3. PICK x \in s : Sum(f, s) = f[x] + Sum(f, s \ {x})
  BY <1>1, <1>2, SumStep
<1>4. Sum(f, s \ {x}) \in Int
  BY <1>1
<1>. QED
  BY <1>1, <1>3, <1>4 DEF NumbersOn

\* Any element may be the first.
LEMMA SumRemove ==
    ASSUME NEW f, NEW S, IsFiniteSet(S), NumbersOn(f, S), NEW x \in S
    PROVE  Sum(f, S) = f[x] + Sum(f, S \ {x})
<1>. DEFINE Fails == {s \in SUBSET S : \E y \in s : Sum(f, s) # f[y] + Sum(f, s \ {y})}
<1>. SUFFICES ASSUME Fails # {} PROVE FALSE
  OBVIOUS
<1>1. PICK s \in Fails : IsFiniteSet(s) /\ \A r \in Fails : ~(r \subseteq s /\ r # s)
  <2>1. Fails \in SUBSET SUBSET S
    OBVIOUS
  <2>. HIDE DEF Fails
  <2>. QED
    BY <2>1, LeastSubset
<1>2. PICK y \in s : Sum(f, s) # f[y] + Sum(f, s \ {y})
  BY <1>1
<1>3. PICK z \in s : Sum(f, s) = f[z] + Sum(f, s \ {z})
  BY <1>1, <1>2, SumStep
<1>4. y # z
  BY <1>2, <1>3
<1>. DEFINE t == s \ {y, z}
<1>5. ASSUME NEW a \in s, NEW b \in s, a # b, {a, b} = {y, z}
      PROVE  Sum(f, s \ {a}) = f[b] + Sum(f, t)
  <2>1. s \ {a} \notin Fails /\ b \in s \ {a} /\ s \ {a} \in SUBSET S
    BY <1>1, <1>5
  <2>2. (s \ {a}) \ {b} = t
    BY <1>5
  <2>. QED
    BY <2>1, <2>2
<1>6. Sum(f, s \ {y}) = f[z] + Sum(f, t) /\ Sum(f, s \ {z}) = f[y] + Sum(f, t)
  BY <1>4, <1>5
<1>7. Sum(f, t) \in Int /\ f[y] \in Int /\ f[z] \in Int
  <2>1. t \in SUBSET S /\ y \in S /\ z \in S
    BY <1>1
  <2>2. IsFiniteSet(t) /\ NumbersOn(f, t)
    BY <2>1, FS_Subset DEF NumbersOn
  <2>. HIDE DEF t
  <2>. QED
    BY <2>1, <2>2, SumType DEF NumbersOn
<1>. HIDE DEF t, Fails
<1>. QED
  BY <1>2, <1>3, <1>6, <1>7

LEMMA SumAdd ==
    ASSUME NEW f, NEW S, IsFiniteSet(S), NumbersOn(f, S), NEW s \in SUBSET S, NEW x \in S,
           x \notin s
    PROVE  /\ Sum(f, s \cup {x}) = f[x] + Sum(f, s)
           /\ f[x] \in Int /\ Sum(f, s) \in Int
<1>1. /\ IsFiniteSet(s) /\ IsFiniteSet(s \cup {x}) /\ (s \cup {x}) \ {x} = s
      /\ NumbersOn(f, s) /\ NumbersOn(f, s \cup {x})
  BY FS_Subset DEF NumbersOn
<1>. QED
  BY <1>1, SumRemove, SumType DEF NumbersOn

LEMMA SumOfEmpty == ASSUME NEW f PROVE Sum(f, {}) = 0
BY SumStep, FS_EmptySet

\* If f and g differ by a multiple of m everywhere, so do their sums.
Congruent(a, b, m) == \E k \in Int : a = b + m * k

LEMMA SumCongruent ==
    ASSUME NEW f, NEW g, NEW S, IsFiniteSet(S), NumbersOn(f, S), NumbersOn(g, S), NEW m \in Int,
           \A x \in S : Congruent(f[x], g[x], m)
    PROVE  Congruent(Sum(f, S), Sum(g, S), m)
<1>. DEFINE Good == {s \in SUBSET S : \E k \in Int : Sum(f, s) = Sum(g, s) + m * k}
<1>1. {} \in Good
  <2>1. Sum(f, {}) = Sum(g, {}) + m * 0
    BY SumOfEmpty
  <2>. QED
    BY <2>1
<1>2. ASSUME NEW s \in Good, NEW x \in S, x \notin s PROVE s \cup {x} \in Good
  <2>1. PICK k \in Int : Sum(f, s) = Sum(g, s) + m * k
    OBVIOUS
  <2>2. PICK l \in Int : f[x] = g[x] + m * l
    BY DEF Congruent
  <2>3. /\ Sum(f, s \cup {x}) = f[x] + Sum(f, s) /\ Sum(g, s \cup {x}) = g[x] + Sum(g, s)
        /\ f[x] \in Int /\ g[x] \in Int /\ Sum(f, s) \in Int /\ Sum(g, s) \in Int
    BY <1>2, SumAdd
  <2>4. m * (k + l) = m * k + m * l /\ k + l \in Int /\ m * k \in Int /\ m * l \in Int
    OBVIOUS
  <2>5. Sum(f, s \cup {x}) = Sum(g, s \cup {x}) + m * (k + l)
    BY <2>1, <2>2, <2>3, <2>4
  <2>. QED
    BY <2>4, <2>5
<1>3. Good \in SUBSET SUBSET S
  OBVIOUS
<1>. HIDE DEF Good
<1>4. S \in Good
  BY <1>1, <1>2, <1>3, SetInduction
<1>. QED
  BY <1>4 DEF Good, Congruent

\* Equal numbers have equal sums.
LEMMA SumSame ==
    ASSUME NEW f, NEW g, NEW S, IsFiniteSet(S), NumbersOn(f, S), \A x \in S : f[x] = g[x]
    PROVE  Sum(f, S) = Sum(g, S)
<1>1. NumbersOn(g, S) /\ \A x \in S : Congruent(f[x], g[x], 0)
  <2>1. \A x \in S : f[x] = g[x] + 0 * 0 /\ f[x] \in Int
    BY DEF NumbersOn
  <2>. QED
    BY <2>1 DEF NumbersOn, Congruent
<1>2. Congruent(Sum(f, S), Sum(g, S), 0)
  BY <1>1, SumCongruent
<1>. QED
  BY <1>1, <1>2, SumType DEF Congruent

\* The sum of sums is the sum of both.
LEMMA SumPlus ==
    ASSUME NEW f, NEW g, NEW h, NEW S, IsFiniteSet(S), NumbersOn(f, S), NumbersOn(g, S),
           \A x \in S : h[x] = f[x] + g[x]
    PROVE  Sum(h, S) = Sum(f, S) + Sum(g, S)
<1>. DEFINE Good == {s \in SUBSET S : Sum(h, s) = Sum(f, s) + Sum(g, s)}
<1>1. {} \in Good
  BY SumOfEmpty
<1>2. NumbersOn(h, S)
  BY DEF NumbersOn
<1>3. ASSUME NEW s \in Good, NEW x \in S, x \notin s PROVE s \cup {x} \in Good
  <2>1. /\ Sum(f, s \cup {x}) = f[x] + Sum(f, s) /\ Sum(g, s \cup {x}) = g[x] + Sum(g, s)
        /\ Sum(h, s \cup {x}) = h[x] + Sum(h, s)
        /\ f[x] \in Int /\ g[x] \in Int /\ Sum(f, s) \in Int /\ Sum(g, s) \in Int
    BY <1>2, <1>3, SumAdd
  <2>2. h[x] = f[x] + g[x] /\ Sum(h, s) = Sum(f, s) + Sum(g, s)
    OBVIOUS
  <2>3. Sum(h, s \cup {x}) = Sum(f, s \cup {x}) + Sum(g, s \cup {x})
    BY <2>1, <2>2
  <2>. QED
    BY <2>3
<1>4. Good \in SUBSET SUBSET S
  OBVIOUS
<1>. HIDE DEF Good
<1>5. S \in Good
  BY <1>1, <1>3, <1>4, SetInduction
<1>. QED
  BY <1>5 DEF Good

\* A sum is taken part by part.
LEMMA SumSplit ==
    ASSUME NEW f, NEW S, IsFiniteSet(S), NumbersOn(f, S), NEW T \in SUBSET S
    PROVE  Sum(f, S) = Sum(f, S \ T) + Sum(f, T)
<1>. DEFINE Good == {s \in SUBSET T : Sum(f, (S \ T) \cup s) = Sum(f, S \ T) + Sum(f, s)}
<1>1. IsFiniteSet(T) /\ IsFiniteSet(S \ T) /\ NumbersOn(f, T) /\ NumbersOn(f, S \ T)
  BY FS_Subset DEF NumbersOn
<1>2. {} \in Good
  <2>1. (S \ T) \cup {} = S \ T /\ Sum(f, {}) = 0 /\ Sum(f, S \ T) \in Int
    BY <1>1, SumOfEmpty, SumType
  <2>. QED
    BY <2>1
<1>3. ASSUME NEW s \in Good, NEW x \in T, x \notin s PROVE s \cup {x} \in Good
  <2>. DEFINE r == (S \ T) \cup s
  <2>1. r \in SUBSET S /\ x \in S /\ x \notin r /\ r \cup {x} = (S \ T) \cup (s \cup {x})
    BY <1>3
  <2>2. Sum(f, r) = Sum(f, S \ T) + Sum(f, s)
    OBVIOUS
  <2>3. /\ Sum(f, s \cup {x}) = f[x] + Sum(f, s) /\ f[x] \in Int /\ Sum(f, s) \in Int
        /\ Sum(f, S \ T) \in Int
    BY <1>1, <1>3, SumAdd, SumType
  <2>. HIDE DEF r
  <2>4. Sum(f, r \cup {x}) = f[x] + Sum(f, r) /\ Sum(f, r) \in Int
    BY <2>1, SumAdd
  <2>5. Sum(f, r \cup {x}) = Sum(f, S \ T) + Sum(f, s \cup {x})
    BY <2>2, <2>3, <2>4
  <2>. QED
    BY <2>1, <2>5
<1>4. Good \in SUBSET SUBSET T
  OBVIOUS
<1>5. (S \ T) \cup T = S
  OBVIOUS
<1>. HIDE DEF Good
<1>6. T \in Good
  BY <1>1, <1>2, <1>3, <1>4, SetInduction
<1>. QED
  BY <1>5, <1>6 DEF Good

\* A table is added up row by row or column by column.
LEMMA SumExchange ==
    ASSUME NEW f, NEW S, NEW T, IsFiniteSet(S), IsFiniteSet(T),
           \A x \in S : NumbersOn(f[x], T)
    PROVE  Sum([x \in S |-> Sum(f[x], T)], S) = Sum([y \in T |-> Sum([x \in S |-> f[x][y]], S)], T)
<1>. DEFINE row == [x \in S |-> Sum(f[x], T)]
            column(y) == [x \in S |-> f[x][y]]
            columns(s) == [y \in T |-> Sum(column(y), s)]
            Good == {s \in SUBSET S : Sum(row, s) = Sum(columns(s), T)}
<1>1. NumbersOn(row, S) /\ \A y \in T : NumbersOn(column(y), S)
  BY SumType DEF NumbersOn
<1>2. ASSUME NEW s \in SUBSET S PROVE NumbersOn(columns(s), T)
  <2>1. IsFiniteSet(s) /\ \A y \in T : NumbersOn(column(y), s)
    BY <1>1, FS_Subset DEF NumbersOn
  <2>. HIDE DEF column
  <2>. QED
    BY <2>1, SumType DEF NumbersOn
<1>3. {} \in Good
  <2>. DEFINE zero == [y \in T |-> 0]
  <2>1. columns({}) = zero /\ Sum(row, {}) = 0
    BY SumOfEmpty
  <2>2. NumbersOn(zero, T) /\ \A y \in T : zero[y] = zero[y] + zero[y]
    BY DEF NumbersOn
  <2>3. Sum(zero, T) = Sum(zero, T) + Sum(zero, T) /\ Sum(zero, T) \in Int
    <3>. HIDE DEF zero
    <3>. QED
      BY <2>2, SumPlus, SumType
  <2>4. Sum(zero, T) = 0
    <3>. HIDE DEF zero
    <3>. QED
      BY <2>3
  <2>. QED
    BY <2>1, <2>4
<1>4. ASSUME NEW s \in Good, NEW x \in S, x \notin s PROVE s \cup {x} \in Good
  <2>. DEFINE more == columns(s \cup {x})
  <2>1. Sum(row, s \cup {x}) = Sum(f[x], T) + Sum(row, s)
    <3>1. Sum(row, s \cup {x}) = row[x] + Sum(row, s)
      <4>. HIDE DEF row
      <4>. QED
        BY <1>1, <1>4, SumAdd
    <3>. QED
      BY <3>1
  <2>2. \A y \in T : more[y] = f[x][y] + columns(s)[y]
    <3>. SUFFICES ASSUME NEW y \in T PROVE Sum(column(y), s \cup {x}) = f[x][y] + Sum(column(y), s)
      OBVIOUS
    <3>1. column(y)[x] = f[x][y]
      OBVIOUS
    <3>. HIDE DEF column
    <3>. QED
      BY <1>1, <1>4, <3>1, SumAdd
  <2>3. NumbersOn(f[x], T) /\ NumbersOn(columns(s), T)
    BY <1>2
  <2>. HIDE DEF more, columns
  <2>4. Sum(more, T) = Sum(f[x], T) + Sum(columns(s), T)
    BY <2>2, <2>3, SumPlus
  <2>. QED
    BY <2>1, <2>4 DEF more
<1>5. Good \in SUBSET SUBSET S
  OBVIOUS
<1>. HIDE DEF Good
<1>6. S \in Good
  BY <1>3, <1>4, <1>5, SetInduction
<1>. QED
  BY <1>6 DEF Good

\* Numbers that are at most others have at most their sum.
LEMMA SumAtMost ==
    ASSUME NEW f, NEW g, NEW S, IsFiniteSet(S), NumbersOn(f, S), NumbersOn(g, S),
           \A x \in S : f[x] <= g[x]
    PROVE  Sum(f, S) <= Sum(g, S)
<1>. DEFINE Good == {s \in SUBSET S : Sum(f, s) <= Sum(g, s)}
<1>1. {} \in Good
  BY SumOfEmpty
<1>2. ASSUME NEW s \in Good, NEW x \in S, x \notin s PROVE s \cup {x} \in Good
  <2>1. /\ Sum(f, s \cup {x}) = f[x] + Sum(f, s) /\ Sum(g, s \cup {x}) = g[x] + Sum(g, s)
        /\ f[x] \in Int /\ g[x] \in Int /\ Sum(f, s) \in Int /\ Sum(g, s) \in Int
    BY <1>2, SumAdd
  <2>2. f[x] <= g[x] /\ Sum(f, s) <= Sum(g, s)
    OBVIOUS
  <2>3. Sum(f, s \cup {x}) <= Sum(g, s \cup {x})
    BY <2>1, <2>2
  <2>. QED
    BY <2>3
<1>3. Good \in SUBSET SUBSET S
  OBVIOUS
<1>. HIDE DEF Good
<1>4. S \in Good
  BY <1>1, <1>2, <1>3, SetInduction
<1>. QED
  BY <1>4 DEF Good

\* Amounts are worth nothing together only when each of them is.
LEMMA SumOfNaturals ==
    ASSUME NEW f, NEW S, IsFiniteSet(S), \A x \in S : f[x] \in Nat
    PROVE  /\ Sum(f, S) \in Nat
           /\ \A x \in S : f[x] <= Sum(f, S)
<1>1. ASSUME NEW s \in SUBSET S PROVE Sum(f, s) \in Nat
  <2>. DEFINE zero == [x \in s |-> 0]
  <2>1. IsFiniteSet(s) /\ NumbersOn(f, s) /\ NumbersOn(zero, s)
    BY FS_Subset DEF NumbersOn
  <2>2. \A x \in s : zero[x] <= f[x] /\ zero[x] = zero[x] + zero[x]
    OBVIOUS
  <2>. HIDE DEF zero
  <2>3. /\ Sum(zero, s) <= Sum(f, s) /\ Sum(zero, s) = Sum(zero, s) + Sum(zero, s)
        /\ Sum(zero, s) \in Int /\ Sum(f, s) \in Int
    BY <2>1, <2>2, SumAtMost, SumPlus, SumType
  <2>. QED
    BY <2>3
<1>2. ASSUME NEW x \in S PROVE f[x] <= Sum(f, S)
  <2>1. NumbersOn(f, S)
    BY DEF NumbersOn
  <2>2. Sum(f, S) = f[x] + Sum(f, S \ {x})
    BY <2>1, SumRemove
  <2>3. Sum(f, S \ {x}) \in Nat
    BY <1>1
  <2>. QED
    BY <2>2, <2>3
<1>. QED
  BY <1>1, <1>2

LEMMA SumOfZeros ==
    ASSUME NEW f, NEW S, IsFiniteSet(S), \A x \in S : f[x] = 0
    PROVE  Sum(f, S) = 0
<1>1. NumbersOn(f, S) /\ \A x \in S : f[x] = f[x] + f[x]
  BY DEF NumbersOn
<1>2. Sum(f, S) = Sum(f, S) + Sum(f, S) /\ Sum(f, S) \in Int
  BY <1>1, SumPlus, SumType
<1>. QED
  BY <1>2

\* One more in one place is one more in all.
LEMMA SumOneMore ==
    ASSUME NEW S, IsFiniteSet(S), NEW f \in [S -> Int], NEW x \in S
    PROVE  Sum([f EXCEPT ![x] = @ + 1], S) = Sum(f, S) + 1
<1>. DEFINE g == [f EXCEPT ![x] = @ + 1]
            r == S \ {x}
<1>1. /\ NumbersOn(f, S) /\ NumbersOn(g, S) /\ NumbersOn(f, r) /\ IsFiniteSet(r)
      /\ g[x] = f[x] + 1 /\ \A y \in r : f[y] = g[y]
  BY FS_RemoveElement DEF NumbersOn
<1>. HIDE DEF g
<1>2. Sum(g, S) = g[x] + Sum(g, r) /\ Sum(f, S) = f[x] + Sum(f, r)
  BY <1>1, SumRemove
<1>3. Sum(f, r) = Sum(g, r) /\ Sum(f, r) \in Int
  <2>. HIDE DEF r
  <2>. QED
    BY <1>1, SumSame, SumType
<1>4. f[x] \in Int
  OBVIOUS
<1>. QED
  BY <1>1, <1>2, <1>3, <1>4 DEF g

\* A set of numbers has a least one.
LEMMA LeastNumber ==
    ASSUME NEW S \in SUBSET Nat, S # {}
    PROVE  \E m \in S : \A n \in S : m <= n
<1>1. PICK m \in S : \A n \in S : ~(<<n, m>> \in OpToRel(<, Nat))
  BY NatLessThanWellFounded, WFMin
<1>2. ASSUME NEW n \in S, n < m PROVE <<n, m>> \in OpToRel(<, Nat)
  BY <1>2 DEF OpToRel
<1>3. ASSUME NEW n \in S PROVE m <= n
  <2>1. ~(n < m)
    BY <1>1, <1>2
  <2>2. n \in Int /\ m \in Int
    OBVIOUS
  <2>. QED
    BY <2>1, <2>2
<1>. QED
  BY <1>3

\* What holds of zero, and of a number when of the one before, holds of all.
LEMMA NumberInduction ==
    ASSUME NEW Good \in SUBSET Nat, 0 \in Good, \A n \in Good : n + 1 \in Good
    PROVE  Good = Nat
<1>. DEFINE Fails == Nat \ Good
<1>. SUFFICES ASSUME Fails # {} PROVE FALSE
  OBVIOUS
<1>1. PICK m \in Fails : \A n \in Fails : m <= n
  <2>1. Fails \in SUBSET Nat
    OBVIOUS
  <2>. HIDE DEF Fails
  <2>. QED
    BY <2>1, LeastNumber
<1>2. m \in Nat /\ m \notin Good /\ m # 0
  OBVIOUS
<1>3. m - 1 \in Nat /\ (m - 1) + 1 = m /\ ~(m <= m - 1)
  BY <1>2
<1>4. m - 1 \in Good
  BY <1>1, <1>3
<1>. QED
  BY <1>2, <1>3, <1>4

\* When every number moves one place up, the sum loses the last.
OnePlaceUp(f, g, n) == g[0] = 0 /\ \A m \in 1 .. n : g[m] = f[m - 1]

LEMMA SumOfShift ==
    ASSUME NEW n \in Nat, NEW f, NEW g, NumbersOn(f, 0 .. n), NumbersOn(g, 0 .. n),
           OnePlaceUp(f, g, n)
    PROVE  Sum(g, 0 .. n) = Sum(f, (0 .. n) \ {n})
<1>. DEFINE Upto(m) == 0 .. m
            Below(m) == (0 .. m) \ {m}
            Fails == {m \in 0 .. n : Sum(g, Upto(m)) # Sum(f, Below(m))}
<1>1. IsFiniteSet(Upto(n)) /\ NumbersOn(f, Upto(n)) /\ NumbersOn(g, Upto(n))
  <2>1. IsFiniteSet(0 .. n)
    BY FS_Interval
  <2>. QED
    BY <2>1
<1>2. ASSUME NEW m \in 0 .. n, \A l \in 0 .. n : l < m => Sum(g, Upto(l)) = Sum(f, Below(l))
      PROVE  Sum(g, Upto(m)) = Sum(f, Below(m))
  <2>1. CASE m = 0
    <3>1. /\ Upto(m) = Below(m) \cup {m} /\ Below(m) \in SUBSET Upto(n) /\ m \notin Below(m)
          /\ m \in Upto(n)
      BY <2>1
    <3>1a. Below(m) = {} /\ g[m] = 0
      BY <2>1 DEF OnePlaceUp
    <3>. HIDE DEF Upto, Below
    <3>2. Sum(g, Below(m) \cup {m}) = g[m] + Sum(g, Below(m))
      BY <1>1, <3>1, SumAdd
    <3>3. Sum(g, {}) = 0 /\ Sum(f, {}) = 0
      BY SumOfEmpty
    <3>. QED
      BY <3>1, <3>1a, <3>2, <3>3
  <2>2. CASE m # 0
    <3>. DEFINE l == m - 1
    <3>1. /\ l \in 0 .. n /\ l < m /\ g[m] = f[l] /\ l \in Upto(n) /\ m \in Upto(n)
          /\ Upto(m) = Upto(l) \cup {m} /\ m \notin Upto(l) /\ Upto(l) \in SUBSET Upto(n)
          /\ Below(m) = Below(l) \cup {l} /\ Upto(l) = Below(l) \cup {l}
          /\ l \notin Below(l) /\ Below(l) \in SUBSET Upto(n)
      BY <2>2 DEF OnePlaceUp
    <3>. HIDE DEF l, Upto, Below
    <3>2. Sum(g, Upto(l) \cup {m}) = g[m] + Sum(g, Upto(l))
      BY <1>1, <3>1, SumAdd
    <3>3. Sum(f, Below(l) \cup {l}) = f[l] + Sum(f, Below(l))
      BY <1>1, <3>1, SumAdd
    <3>. QED
      BY <1>2, <3>1, <3>2, <3>3
  <2>. QED
    BY <2>1, <2>2
<1>3. Fails = {}
  <2>. SUFFICES ASSUME Fails # {} PROVE FALSE
    OBVIOUS
  <2>1. Fails \in SUBSET Nat
    OBVIOUS
  <2>2. PICK m \in Fails : \A l \in Fails : m <= l
    <3>. HIDE DEF Fails
    <3>. QED
      BY <2>1, LeastNumber
  <2>3. \A l \in 0 .. n : l < m => l \notin Fails
    <3>1. ASSUME NEW l \in Fails, l < m PROVE FALSE
      <4>1. l \in Int /\ m \in Int
        BY <2>1
      <4>. HIDE DEF Fails
      <4>. QED
        BY <2>2, <3>1, <4>1
    <3>. HIDE DEF Fails
    <3>. QED
      BY <3>1
  <2>4. m \in 0 .. n /\ Sum(g, Upto(m)) # Sum(f, Below(m))
    OBVIOUS
  <2>5. \A l \in 0 .. n : l < m => Sum(g, Upto(l)) = Sum(f, Below(l))
    BY <2>3
  <2>. HIDE DEF Fails, Upto, Below
  <2>. QED
    BY <1>2, <2>4, <2>5
<1>4. n \in 0 .. n
  OBVIOUS
<1>. QED
  BY <1>3, <1>4

=============================================================================
