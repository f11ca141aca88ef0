---------------------------------- MODULE Sums ----------------------------------
(***************************************************************************)
(* Induction over numbers and finite sets, as facts about sets, and what   *)
(* it gives for the sums of Functions: SumFunctionOnSet(f, S).             *)
(***************************************************************************)
EXTENDS Integers, FiniteSets, FiniteSetsExt, Functions, FiniteSetTheorems, WellFoundedInduction, TLAPS

LessThan == OpToRel(<, Nat)

LEMMA LessThanIsWellFounded == IsWellFoundedOn(LessThan, Nat)
BY NatLessThanWellFounded DEF LessThan

LEMMA LessThanIsLess == \A x, y \in Nat : <<x, y>> \in LessThan <=> x < y
BY DEF LessThan, OpToRel

LEMMA NumberInduction ==
  ASSUME NEW N, 0 \in N, \A n \in Nat : n \in N => n + 1 \in N
  PROVE  \A n \in Nat : n \in N
<1>. DEFINE M == {n \in Nat : n \notin N}
<1>1. SUFFICES ASSUME M # {} PROVE FALSE
  OBVIOUS
<1>2. PICK m \in M : \A n \in M : <<n, m>> \notin LessThan
  BY <1>1, LessThanIsWellFounded, WFMin
<1>3. m \in Nat /\ m # 0 /\ m - 1 \in Nat /\ m - 1 < m
  OBVIOUS
<1>4. <<m - 1, m>> \in LessThan
  BY <1>3, LessThanIsLess
<1>5. m - 1 \in N /\ (m - 1) + 1 = m
  BY <1>2, <1>3, <1>4
<1>. QED BY <1>3, <1>5

LEMMA SetInduction ==
  ASSUME NEW S, IsFiniteSet(S), NEW Q, {} \in Q,
         \A T \in SUBSET S, x \in S : T \in Q /\ x \notin T => T \cup {x} \in Q
  PROVE  S \in Q
<1>. DEFINE N == {n \in Nat : \A T \in SUBSET S : Cardinality(T) = n => T \in Q}
<1>1. \A T \in SUBSET S : IsFiniteSet(T) /\ Cardinality(T) \in Nat
  BY FS_Subset, FS_CardinalityType
<1>2. 0 \in N
  BY <1>1, FS_EmptySet
<1>3. ASSUME NEW n \in Nat, n \in N PROVE n + 1 \in N
  <2>1. SUFFICES ASSUME NEW T \in SUBSET S, Cardinality(T) = n + 1 PROVE T \in Q
    OBVIOUS
  <2>2. PICK x \in T : TRUE
    BY <2>1, FS_EmptySet
  <2>3. Cardinality(T \ {x}) = n /\ T \ {x} \in SUBSET S
    <3>1. Cardinality(T \ {x}) = Cardinality(T) - 1
      BY <1>1, <2>2, FS_RemoveElement
    <3>. QED BY <2>1, <3>1
  <2>4. T \ {x} \in Q /\ T = (T \ {x}) \cup {x} /\ x \in S
    BY <1>3, <2>2, <2>3
  <2>. QED BY <2>4
<1>4. \A n \in Nat : n \in N
  <2>. HIDE DEF N
  <2>. QED BY <1>2, <1>3, NumberInduction
<1>. QED BY <1>1, <1>4

-----------------------------------------------------------------------------
(* The sum is the value of a recursive function over the subsets.          *)

Chosen(s)     == CHOOSE x \in s : TRUE
Step(f, g, s) == IF s = {} THEN 0 ELSE f[Chosen(s)] + g[s \ {Chosen(s)}]

LEMMA RecursionExists ==
  ASSUME NEW f, NEW S, IsFiniteSet(S)
  PROVE  \E g : g = [s \in SUBSET S |-> Step(f, g, s)]
<1>. DEFINE D(n) == {s \in SUBSET S : Cardinality(s) <= n}
            P(n) == \E g : g = [s \in D(n) |-> Step(f, g, s)]
            N    == {n \in Nat : P(n)}
<1>1. \A s \in SUBSET S : IsFiniteSet(s) /\ Cardinality(s) \in Nat /\ Cardinality(s) <= Cardinality(S)
  BY FS_Subset, FS_CardinalityType
<1>2. \A s \in SUBSET S : s # {} =>
        Chosen(s) \in s /\ s \ {Chosen(s)} \in SUBSET S /\ Cardinality(s \ {Chosen(s)}) = Cardinality(s) - 1
  BY <1>1, FS_RemoveElement DEF Chosen
<1>3. P(0)
  <2>. DEFINE g == [s \in D(0) |-> 0]
  <2>1. \A s \in D(0) : s = {}
    BY <1>1, FS_EmptySet
  <2>2. g = [s \in D(0) |-> Step(f, g, s)]
    BY <2>1 DEF Step
  <2>. QED BY <2>2
<1>4. ASSUME NEW n \in Nat, P(n) PROVE P(n + 1)
  <2>1. PICK g : g = [s \in D(n) |-> Step(f, g, s)]
    BY <1>4
  <2>. DEFINE h == [s \in D(n + 1) |-> Step(f, g, s)]
  <2>2. \A s \in D(n) : s \in D(n + 1) /\ h[s] = g[s]
    BY <1>1, <2>1
  <2>3. \A s \in D(n + 1) : s # {} => s \ {Chosen(s)} \in D(n)
    BY <1>1, <1>2
  <2>4. \A s \in D(n + 1) : Step(f, g, s) = Step(f, h, s)
    BY <2>2, <2>3 DEF Step
  <2>5. h = [s \in D(n + 1) |-> Step(f, h, s)]
    BY <2>4
  <2>. QED BY <2>5, Zenon
<1>5. Cardinality(S) \in N
  <2>1. 0 \in N /\ \A n \in Nat : n \in N => n + 1 \in N
    <3>. HIDE DEF P
    <3>. QED BY <1>3, <1>4
  <2>2. \A n \in Nat : n \in N
    <3>. HIDE DEF N
    <3>. QED BY <2>1, NumberInduction
  <2>. QED BY <1>1, <2>2
<1>6. D(Cardinality(S)) = SUBSET S
  BY <1>1
<1>. QED BY <1>5, <1>6

LEMMA SumRecursion ==
  ASSUME NEW f, NEW S, IsFiniteSet(S)
  PROVE  \E g : g = [s \in SUBSET S |-> Step(f, g, s)] /\ SumFunctionOnSet(f, S) = g[S]
<1>. DEFINE P(g) == g = [s \in SUBSET S |-> Step(f, g, s)]
            it == CHOOSE g : P(g)
<1>1. \E g : P(g)
  BY RecursionExists
<1>2. P(it)
  BY <1>1, Zenon
<1>3. SumFunctionOnSet(f, S) = it[S]
  BY DEF SumFunctionOnSet, FoldFunctionOnSet, MapThenFoldSet, Step, Chosen
<1>. QED BY <1>2, <1>3

LEMMA SumEmpty == \A f : SumFunctionOnSet(f, {}) = 0
<1>. TAKE f
<1>1. PICK g : g = [s \in SUBSET {} |-> Step(f, g, s)] /\ SumFunctionOnSet(f, {}) = g[{}]
  BY SumRecursion, FS_EmptySet
<1>. QED BY <1>1 DEF Step

\* The sums over the subsets of S are those of one recursive function.
LEMMA OneRecursion ==
  ASSUME NEW f, NEW S, IsFiniteSet(S), NEW g, g = [s \in SUBSET S |-> Step(f, g, s)]
  PROVE  \A T \in SUBSET S : SumFunctionOnSet(f, T) = g[T]
<1>1. SUFFICES ASSUME NEW T \in SUBSET S PROVE SumFunctionOnSet(f, T) = g[T]
  OBVIOUS
<1>2. IsFiniteSet(T)
  BY <1>1, FS_Subset
<1>3. PICK h : h = [s \in SUBSET T |-> Step(f, h, s)] /\ SumFunctionOnSet(f, T) = h[T]
  BY <1>2, SumRecursion
<1>. DEFINE P(n) == \A s \in SUBSET T : Cardinality(s) = n => g[s] = h[s]
            N    == {n \in Nat : P(n)}
<1>4. \A s \in SUBSET T : IsFiniteSet(s) /\ Cardinality(s) \in Nat
  BY <1>2, FS_Subset, FS_CardinalityType
<1>5. \A s \in SUBSET T : s # {} =>
        Chosen(s) \in s /\ s \ {Chosen(s)} \in SUBSET T /\ Cardinality(s \ {Chosen(s)}) = Cardinality(s) - 1
  BY <1>4, FS_RemoveElement DEF Chosen
<1>6. \A s \in SUBSET T : g[s] = Step(f, g, s) /\ h[s] = Step(f, h, s)
  BY <1>3
<1>7. P(0)
  BY <1>4, <1>6, FS_EmptySet DEF Step
<1>8. ASSUME NEW n \in Nat, P(n) PROVE P(n + 1)
  <2>1. SUFFICES ASSUME NEW s \in SUBSET T, Cardinality(s) = n + 1 PROVE g[s] = h[s]
    OBVIOUS
  <2>2. s # {}
    BY <2>1, FS_EmptySet
  <2>3. s \ {Chosen(s)} \in SUBSET T /\ Cardinality(s \ {Chosen(s)}) = n
    BY <1>5, <2>1, <2>2
  <2>4. g[s \ {Chosen(s)}] = h[s \ {Chosen(s)}]
    BY <1>8, <2>3
  <2>. QED BY <1>6, <2>2, <2>4 DEF Step
<1>9. 0 \in N /\ \A n \in Nat : n \in N => n + 1 \in N
  <2>. HIDE DEF P
  <2>. QED BY <1>7, <1>8
<1>10. \A n \in Nat : n \in N
  <2>. HIDE DEF N
  <2>. QED BY <1>9, NumberInduction
<1>. QED BY <1>3, <1>4, <1>10

LEMMA SumChoice ==
  ASSUME NEW S, IsFiniteSet(S), NEW f
  PROVE  \A T \in SUBSET S :
           T # {} => SumFunctionOnSet(f, T) = f[Chosen(T)] + SumFunctionOnSet(f, T \ {Chosen(T)})
<1>1. PICK g : g = [s \in SUBSET S |-> Step(f, g, s)]
  BY RecursionExists
<1>2. \A T \in SUBSET S : SumFunctionOnSet(f, T) = g[T]
  BY <1>1, OneRecursion
<1>3. ASSUME NEW T \in SUBSET S, T # {}
      PROVE  SumFunctionOnSet(f, T) = f[Chosen(T)] + SumFunctionOnSet(f, T \ {Chosen(T)})
  <2>1. g[T] = f[Chosen(T)] + g[T \ {Chosen(T)}]
    BY <1>1, <1>3 DEF Step
  <2>2. SumFunctionOnSet(f, T) = g[T] /\ SumFunctionOnSet(f, T \ {Chosen(T)}) = g[T \ {Chosen(T)}]
    BY <1>2
  <2>. QED BY <2>1, <2>2
<1>. QED BY <1>3

LEMMA Smaller ==
  ASSUME NEW S, IsFiniteSet(S)
  PROVE  \A T \in SUBSET S :
           /\ IsFiniteSet(T) /\ Cardinality(T) \in Nat
           /\ T # {} => Chosen(T) \in T
           /\ \A x \in T : T \ {x} \in SUBSET S /\ Cardinality(T \ {x}) = Cardinality(T) - 1
<1>. SUFFICES ASSUME NEW T \in SUBSET S
              PROVE  /\ IsFiniteSet(T) /\ Cardinality(T) \in Nat
                     /\ T # {} => Chosen(T) \in T
                     /\ \A x \in T : T \ {x} \in SUBSET S /\ Cardinality(T \ {x}) = Cardinality(T) - 1
  OBVIOUS
<1>1. IsFiniteSet(T) /\ Cardinality(T) \in Nat
  BY FS_Subset, FS_CardinalityType
<1>2. \A x \in T : Cardinality(T \ {x}) = Cardinality(T) - 1
  BY <1>1, FS_RemoveElement
<1>. QED BY <1>1, <1>2 DEF Chosen

\* A sum of integers is an integer.
LEMMA SumIsInt ==
  ASSUME NEW S, IsFiniteSet(S), NEW f, \A x \in S : f[x] \in Int
  PROVE  SumFunctionOnSet(f, S) \in Int
<1>. DEFINE P(n) == \A T \in SUBSET S : Cardinality(T) = n => SumFunctionOnSet(f, T) \in Int
            N    == {n \in Nat : P(n)}
<1>1. P(0)
  <2>1. \A T \in SUBSET S : Cardinality(T) = 0 => T = {}
    BY Smaller, FS_EmptySet
  <2>. QED BY <2>1, SumEmpty
<1>2. ASSUME NEW n \in Nat, P(n) PROVE P(n + 1)
  <2>1. SUFFICES ASSUME NEW T \in SUBSET S, Cardinality(T) = n + 1
                 PROVE  SumFunctionOnSet(f, T) \in Int
    OBVIOUS
  <2>2. T # {} /\ Chosen(T) \in T
    BY <2>1, Smaller, FS_EmptySet
  <2>3. SumFunctionOnSet(f, T \ {Chosen(T)}) \in Int
    BY <1>2, <2>1, <2>2, Smaller
  <2>. QED BY <2>2, <2>3, SumChoice
<1>3. 0 \in N /\ \A n \in Nat : n \in N => n + 1 \in N
  <2>. HIDE DEF P
  <2>. QED BY <1>1, <1>2
<1>4. \A n \in Nat : n \in N
  <2>. HIDE DEF N
  <2>. QED BY <1>3, NumberInduction
<1>. QED BY <1>4, Smaller

\* Any summand may be taken out.
LEMMA SumRemove ==
  ASSUME NEW S, IsFiniteSet(S), NEW f, \A x \in S : f[x] \in Int
  PROVE  \A x \in S : SumFunctionOnSet(f, S) = f[x] + SumFunctionOnSet(f, S \ {x})
<1>. DEFINE Sum(T) == SumFunctionOnSet(f, T)
            Good(T) == \A x \in T : Sum(T) = f[x] + Sum(T \ {x})
            P(n) == \A T \in SUBSET S : Cardinality(T) = n => Good(T)
            N    == {n \in Nat : P(n)}
<1>1. \A T \in SUBSET S : Sum(T) \in Int
  BY Smaller, SumIsInt
<1>2. \A T \in SUBSET S : T # {} => Chosen(T) \in T /\ Sum(T) = f[Chosen(T)] + Sum(T \ {Chosen(T)})
  BY Smaller, SumChoice
<1>. HIDE DEF Sum
<1>3. P(0)
  BY Smaller, FS_EmptySet
<1>4. ASSUME NEW n \in Nat, P(n) PROVE P(n + 1)
  <2>1. SUFFICES ASSUME NEW T \in SUBSET S, Cardinality(T) = n + 1, NEW x \in T
                 PROVE  Sum(T) = f[x] + Sum(T \ {x})
    OBVIOUS
  <2>. DEFINE c == Chosen(T)
              R == T \ {c}
  <2>2. c \in T /\ Sum(T) = f[c] + Sum(R)
    BY <1>2
  <2>3. R \in SUBSET S /\ Cardinality(R) = n
    BY <2>1, <2>2, Smaller
  <2>4. CASE x = c
    BY <2>2, <2>4
  <2>5. CASE x # c
    <3>1. T \ {x} \in SUBSET S /\ Cardinality(T \ {x}) = n /\ c \in T \ {x}
      BY <2>1, <2>2, <2>5, Smaller
    <3>2. Sum(T \ {x}) = f[c] + Sum((T \ {x}) \ {c})
      BY <1>4, <3>1
    <3>3. Sum(R) = f[x] + Sum(R \ {x})
      BY <1>4, <2>3, <2>5
    <3>4. Sum((T \ {x}) \ {c}) = Sum(R \ {x})
      <4>1. (T \ {x}) \ {c} = R \ {x}
        OBVIOUS
      <4>. QED BY <4>1
    <3>5. f[x] \in Int /\ f[c] \in Int /\ Sum(R \ {x}) \in Int
      BY <1>1, <2>2
    <3>. HIDE DEF c, R
    <3>. QED BY <2>2, <3>2, <3>3, <3>4, <3>5
  <2>. QED BY <2>4, <2>5
<1>5. 0 \in N /\ \A n \in Nat : n \in N => n + 1 \in N
  <2>. HIDE DEF P
  <2>. QED BY <1>3, <1>4
<1>6. \A n \in Nat : n \in N
  <2>. HIDE DEF N
  <2>. QED BY <1>5, NumberInduction
<1>7. Good(S)
  BY <1>6, Smaller
<1>. QED BY <1>7 DEF Sum

-----------------------------------------------------------------------------
(* What the invariants need.                                               *)

LEMMA SumAdd ==
  ASSUME NEW S, IsFiniteSet(S), NEW x, x \notin S, NEW f, \A y \in S \cup {x} : f[y] \in Int
  PROVE  SumFunctionOnSet(f, S \cup {x}) = f[x] + SumFunctionOnSet(f, S)
<1>1. IsFiniteSet(S \cup {x}) /\ (S \cup {x}) \ {x} = S
  BY FS_AddElement
<1>. QED BY <1>1, SumRemove

\* Only the summands count.
LEMMA SumCongruence ==
  ASSUME NEW S, IsFiniteSet(S), NEW f, NEW g, \A x \in S : f[x] \in Int /\ f[x] = g[x]
  PROVE  SumFunctionOnSet(f, S) = SumFunctionOnSet(g, S)
<1>. DEFINE Q == {T \in SUBSET S : SumFunctionOnSet(f, T) = SumFunctionOnSet(g, T)}
<1>1. {} \in Q
  BY SumEmpty
<1>2. ASSUME NEW T \in SUBSET S, NEW x \in S, T \in Q, x \notin T PROVE T \cup {x} \in Q
  <2>1. IsFiniteSet(T)
    BY FS_Subset
  <2>2. \A y \in T \cup {x} : f[y] \in Int /\ g[y] \in Int
    OBVIOUS
  <2>3. SumFunctionOnSet(f, T \cup {x}) = f[x] + SumFunctionOnSet(f, T)
    BY <1>2, <2>1, <2>2, SumAdd
  <2>4. SumFunctionOnSet(g, T \cup {x}) = g[x] + SumFunctionOnSet(g, T)
    BY <1>2, <2>1, <2>2, SumAdd
  <2>. QED BY <1>2, <2>3, <2>4
<1>3. S \in Q
  <2>. HIDE DEF Q
  <2>. QED BY <1>1, <1>2, SetInduction
<1>. QED BY <1>3

\* One element more, where the summands are written as a function of it.
LEMMA SumMore ==
  ASSUME NEW S, IsFiniteSet(S), NEW x, x \notin S, NEW f, NEW g,
         f[x] \in Int, \A y \in S : f[y] \in Int /\ f[y] = g[y]
  PROVE  SumFunctionOnSet(f, S \cup {x}) = f[x] + SumFunctionOnSet(g, S)
<1>1. SumFunctionOnSet(f, S \cup {x}) = f[x] + SumFunctionOnSet(f, S)
  BY SumAdd
<1>2. SumFunctionOnSet(f, S) = SumFunctionOnSet(g, S)
  BY SumCongruence
<1>. QED BY <1>1, <1>2

\* A summand changes, and the sum with it.
LEMMA SumChange ==
  ASSUME NEW S, IsFiniteSet(S), NEW f, NEW g, NEW x \in S,
         \A y \in S : f[y] \in Int /\ g[y] \in Int,
         \A y \in S \ {x} : g[y] = f[y]
  PROVE  SumFunctionOnSet(g, S) = SumFunctionOnSet(f, S) - f[x] + g[x]
<1>1. IsFiniteSet(S \ {x})
  BY FS_RemoveElement
<1>2. SumFunctionOnSet(f, S \ {x}) = SumFunctionOnSet(g, S \ {x})
  BY <1>1, SumCongruence
<1>3. SumFunctionOnSet(f, S \ {x}) \in Int
  BY <1>1, SumIsInt
<1>4. SumFunctionOnSet(f, S) = f[x] + SumFunctionOnSet(f, S \ {x})
  BY SumRemove
<1>5. SumFunctionOnSet(g, S) = g[x] + SumFunctionOnSet(g, S \ {x})
  BY SumRemove
<1>6. f[x] \in Int /\ g[x] \in Int
  OBVIOUS
<1>. QED BY <1>2, <1>3, <1>4, <1>5, <1>6

\* The sum of sums.
LEMMA SumPlus ==
  ASSUME NEW S, IsFiniteSet(S), NEW f, NEW g, NEW h,
         \A x \in S : f[x] \in Int /\ g[x] \in Int /\ h[x] = f[x] + g[x]
  PROVE  SumFunctionOnSet(h, S) = SumFunctionOnSet(f, S) + SumFunctionOnSet(g, S)
<1>. DEFINE Q == {T \in SUBSET S : SumFunctionOnSet(h, T) = SumFunctionOnSet(f, T) + SumFunctionOnSet(g, T)}
<1>1. {} \in Q
  BY SumEmpty
<1>2. ASSUME NEW T \in SUBSET S, NEW x \in S, T \in Q, x \notin T PROVE T \cup {x} \in Q
  <2>1. IsFiniteSet(T)
    BY FS_Subset
  <2>2. \A y \in T \cup {x} : f[y] \in Int /\ g[y] \in Int /\ h[y] \in Int /\ h[y] = f[y] + g[y]
    OBVIOUS
  <2>3. SumFunctionOnSet(f, T \cup {x}) = f[x] + SumFunctionOnSet(f, T)
    BY <1>2, <2>1, <2>2, SumAdd
  <2>4. SumFunctionOnSet(g, T \cup {x}) = g[x] + SumFunctionOnSet(g, T)
    BY <1>2, <2>1, <2>2, SumAdd
  <2>5. SumFunctionOnSet(h, T \cup {x}) = h[x] + SumFunctionOnSet(h, T)
    BY <1>2, <2>1, <2>2, SumAdd
  <2>6. SumFunctionOnSet(f, T) \in Int /\ SumFunctionOnSet(g, T) \in Int
    BY <2>1, <2>2, SumIsInt
  <2>7. SumFunctionOnSet(h, T) = SumFunctionOnSet(f, T) + SumFunctionOnSet(g, T)
    BY <1>2
  <2>. QED BY <2>2, <2>3, <2>4, <2>5, <2>6, <2>7
<1>3. S \in Q
  <2>. HIDE DEF Q
  <2>. QED BY <1>1, <1>2, SetInduction
<1>. QED BY <1>3

\* Greater summands, greater sum.
LEMMA SumMonotone ==
  ASSUME NEW S, IsFiniteSet(S), NEW f, NEW g,
         \A x \in S : f[x] \in Int /\ g[x] \in Int /\ f[x] <= g[x]
  PROVE  SumFunctionOnSet(f, S) <= SumFunctionOnSet(g, S)
<1>. DEFINE Q == {T \in SUBSET S : SumFunctionOnSet(f, T) <= SumFunctionOnSet(g, T)}
<1>1. {} \in Q
  BY SumEmpty
<1>2. ASSUME NEW T \in SUBSET S, NEW x \in S, T \in Q, x \notin T PROVE T \cup {x} \in Q
  <2>1. IsFiniteSet(T)
    BY FS_Subset
  <2>2. \A y \in T \cup {x} : f[y] \in Int /\ g[y] \in Int
    OBVIOUS
  <2>3. SumFunctionOnSet(f, T \cup {x}) = f[x] + SumFunctionOnSet(f, T)
    BY <1>2, <2>1, <2>2, SumAdd
  <2>4. SumFunctionOnSet(g, T \cup {x}) = g[x] + SumFunctionOnSet(g, T)
    BY <1>2, <2>1, <2>2, SumAdd
  <2>5. SumFunctionOnSet(f, T) \in Int /\ SumFunctionOnSet(g, T) \in Int
    BY <2>1, <2>2, SumIsInt
  <2>6. SumFunctionOnSet(f, T) <= SumFunctionOnSet(g, T) /\ f[x] <= g[x]
    BY <1>2
  <2>. QED BY <2>2, <2>3, <2>4, <2>5, <2>6
<1>3. S \in Q
  <2>. HIDE DEF Q
  <2>. QED BY <1>1, <1>2, SetInduction
<1>. QED BY <1>3

\* Nothing but zeros.
LEMMA SumZero ==
  ASSUME NEW S, IsFiniteSet(S), NEW f, \A x \in S : f[x] = 0
  PROVE  SumFunctionOnSet(f, S) = 0
<1>. DEFINE Q == {T \in SUBSET S : SumFunctionOnSet(f, T) = 0}
<1>1. {} \in Q
  BY SumEmpty
<1>2. ASSUME NEW T \in SUBSET S, NEW x \in S, T \in Q, x \notin T PROVE T \cup {x} \in Q
  <2>1. IsFiniteSet(T) /\ \A y \in T \cup {x} : f[y] \in Int
    BY FS_Subset
  <2>2. SumFunctionOnSet(f, T \cup {x}) = f[x] + SumFunctionOnSet(f, T)
    BY <1>2, <2>1, SumAdd
  <2>. QED BY <1>2, <2>2
<1>3. S \in Q
  <2>. HIDE DEF Q
  <2>. QED BY <1>1, <1>2, SetInduction
<1>. QED BY <1>3

\* Naturals add up to a natural.
LEMMA SumIsNat ==
  ASSUME NEW S, IsFiniteSet(S), NEW f, \A x \in S : f[x] \in Nat
  PROVE  SumFunctionOnSet(f, S) \in Nat
<1>. DEFINE o == [x \in S |-> 0]
<1>1. SumFunctionOnSet(o, S) = 0
  BY SumZero
<1>2. SumFunctionOnSet(o, S) <= SumFunctionOnSet(f, S)
  <2>. HIDE DEF o
  <2>1. \A x \in S : o[x] \in Int /\ f[x] \in Int /\ o[x] <= f[x]
    BY DEF o
  <2>. QED BY <2>1, SumMonotone
<1>3. SumFunctionOnSet(f, S) \in Int
  BY SumIsInt
<1>. QED BY <1>1, <1>2, <1>3

\* What one gives another gets.
LEMMA SumTransfer ==
  ASSUME NEW S, IsFiniteSet(S), NEW f, NEW g, NEW x \in S, NEW y \in S, x # y, NEW n \in Int,
         \A z \in S : f[z] \in Int /\ g[z] \in Int,
         g[x] = f[x] - n, g[y] = f[y] + n, \A z \in S \ {x, y} : g[z] = f[z]
  PROVE  SumFunctionOnSet(g, S) = SumFunctionOnSet(f, S)
<1>. DEFINE h == [z \in S |-> IF z = x THEN f[x] - n ELSE f[z]]
<1>1. SumFunctionOnSet(h, S) = SumFunctionOnSet(f, S) - f[x] + h[x]
  <2>1. (\A z \in S : f[z] \in Int /\ h[z] \in Int) /\ \A z \in S \ {x} : h[z] = f[z]
    OBVIOUS
  <2>. HIDE DEF h
  <2>. QED BY <2>1, SumChange
<1>2. SumFunctionOnSet(g, S) = SumFunctionOnSet(h, S) - h[y] + g[y]
  <2>1. (\A z \in S : h[z] \in Int /\ g[z] \in Int) /\ \A z \in S \ {y} : g[z] = h[z]
    OBVIOUS
  <2>. HIDE DEF h
  <2>. QED BY <2>1, SumChange
<1>3. SumFunctionOnSet(f, S) \in Int
  BY SumIsInt
<1>4. h[x] = f[x] - n /\ h[y] = f[y] /\ f[x] \in Int /\ f[y] \in Int
  OBVIOUS
<1>. HIDE DEF h
<1>. QED BY <1>1, <1>2, <1>3, <1>4

\* The greatest of finitely many numbers.
LEMMA MaxOfFinite ==
  ASSUME NEW S \in SUBSET Nat, IsFiniteSet(S), S # {}
  PROVE  Max(S) \in S /\ \A x \in S : x <= Max(S)
<1>. DEFINE Greatest(T) == \E m \in T : \A x \in T : x <= m
            Q == {T \in SUBSET S : T = {} \/ Greatest(T)}
<1>1. {} \in Q
  OBVIOUS
<1>2. ASSUME NEW T \in SUBSET S, NEW x \in S, T \in Q, x \notin T PROVE T \cup {x} \in Q
  <2>1. CASE T = {}
    BY <2>1
  <2>2. CASE Greatest(T)
    <3>1. PICK m \in T : \A y \in T : y <= m
      BY <2>2
    <3>2. CASE x <= m
      BY <3>1, <3>2
    <3>3. CASE m <= x
      <4>1. \A y \in T : y <= x
        BY <3>1, <3>3
      <4>. QED BY <4>1
    <3>. QED BY <3>2, <3>3
  <2>. QED BY <1>2, <2>1, <2>2
<1>3. S \in Q
  <2>. HIDE DEF Q
  <2>. QED BY <1>1, <1>2, SetInduction
<1>. QED BY <1>3 DEF Max
=============================================================================
