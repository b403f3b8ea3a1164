---------------------------- MODULE SumTheorems ----------------------------
(***************************************************************************)
(* What a sum over a finite set is: facts about SumFunctionOnSet, which the *)
(* models add up balances, allocations and deposits with.                   *)
(*                                                                          *)
(* The operator is a recursive function over the subsets of a set, chosen   *)
(* among the functions that satisfy its equation; that there is exactly one *)
(* such function on a finite set (SumOnExists, SumOnUnique) is proved by    *)
(* looking at a smallest subset where it fails, since strict inclusion of   *)
(* finite sets is well founded.                                             *)
(***************************************************************************)
EXTENDS Integers, Functions, FiniteSetTheorems, WellFoundedInduction, TLAPS

\* The element a sum over s takes off first.
OneOf(s) == CHOOSE x \in s : TRUE

\* The equation of a sum of the weights w over the subsets of S.
IsSumOn(g, w, S) ==
  g = [s \in SUBSET S |-> IF s = {} THEN 0 ELSE w[OneOf(s)] + g[s \ {OneOf(s)}]]

\* What a sum takes off a set first is in the set.
LEMMA AnyIsElement ==
  ASSUME NEW s, s # {}
  PROVE  OneOf(s) \in s
BY Zenon DEF OneOf

\* Among some subsets of a finite set there is one without a smaller one.
LEMMA SmallestSet ==
  ASSUME NEW S, IsFiniteSet(S), NEW Bad, Bad \subseteq SUBSET S, Bad # {}
  PROVE  \E T \in Bad : \A U \in SUBSET T : U # T => U \notin Bad
<1>1. IsWellFoundedOn(StrictSubsetOrdering(S), SUBSET S)
  BY FS_StrictSubsetOrderingWellFounded, FS_FiniteSubsetsOfFinite
<1>2. PICK T \in Bad : \A U \in Bad : <<U, T>> \notin StrictSubsetOrdering(S)
  BY <1>1, WFMin
<1>3. ASSUME NEW U \in SUBSET T, U # T, U \in Bad PROVE FALSE
  BY <1>2, <1>3 DEF StrictSubsetOrdering
<1> QED
  BY <1>2, <1>3

\* Two functions that satisfy the equation agree where both are defined.
LEMMA SumOnUnique ==
  ASSUME NEW w, NEW S, IsFiniteSet(S), NEW g, IsSumOn(g, w, S),
         NEW T, NEW h, IsSumOn(h, w, T), NEW U, U \subseteq S, U \subseteq T
  PROVE  g[U] = h[U]
<1> DEFINE Bad == {s \in SUBSET S : s \subseteq T /\ g[s] # h[s]}
<1>1. SUFFICES ASSUME Bad # {} PROVE FALSE
  OBVIOUS
<1>2. PICK s \in Bad : \A r \in SUBSET s : r # s => r \notin Bad
  <2>1. Bad \subseteq SUBSET S
    OBVIOUS
  <2> HIDE DEF Bad
  <2> QED
    BY <1>1, <2>1, SmallestSet
<1>3. g[s] = (IF s = {} THEN 0 ELSE w[OneOf(s)] + g[s \ {OneOf(s)}])
  <2> s \in SUBSET S
    BY <1>2
  <2> QED
    BY DEF IsSumOn
<1>4. h[s] = (IF s = {} THEN 0 ELSE w[OneOf(s)] + h[s \ {OneOf(s)}])
  <2> s \in SUBSET T
    BY <1>2
  <2> QED
    BY DEF IsSumOn
<1>5. s # {} => g[s \ {OneOf(s)}] = h[s \ {OneOf(s)}]
  <2> SUFFICES ASSUME s # {} PROVE s \ {OneOf(s)} \notin Bad /\ s \ {OneOf(s)} \in SUBSET S
                                   /\ s \ {OneOf(s)} \subseteq T
    OBVIOUS
  <2>1. s \ {OneOf(s)} # s
    BY AnyIsElement
  <2> QED
    BY <1>2, <2>1
<1> QED
  BY <1>2, <1>3, <1>4, <1>5

\* Some function satisfies the equation on a finite set.
LEMMA SumOnExists ==
  ASSUME NEW w, NEW S, IsFiniteSet(S)
  PROVE  \E g : IsSumOn(g, w, S)
<1> DEFINE Bad == {s \in SUBSET S : ~ \E g : IsSumOn(g, w, s)}
<1>1. SUFFICES ASSUME Bad # {} PROVE FALSE
  OBVIOUS
<1>2. PICK T \in Bad : \A U \in SUBSET T : U # T => U \notin Bad
  <2>1. Bad \subseteq SUBSET S
    OBVIOUS
  <2> HIDE DEF Bad
  <2> QED
    BY <1>1, <2>1, SmallestSet
<1> DEFINE G(s) == CHOOSE g : IsSumOn(g, w, s)
           g == [s \in SUBSET T |-> IF s = {} THEN 0
                                    ELSE w[OneOf(s)] + G(s \ {OneOf(s)})[s \ {OneOf(s)}]]
<1>3. ASSUME NEW U \in SUBSET T, U # T PROVE IsSumOn(G(U), w, U)
  <2>1. \E f : IsSumOn(f, w, U)
    BY <1>2, <1>3
  <2> QED
    BY <2>1, Zenon
<1> HIDE DEF G
<1>4. ASSUME NEW s \in SUBSET T, s # {}, NEW r, r = s \ {OneOf(s)}
      PROVE  g[r] = G(r)[r]
  <2>1. r \in SUBSET T /\ r # T
    BY <1>4, AnyIsElement
  <2>2. IsSumOn(G(r), w, r)
    BY <1>3, <2>1
  <2>3. G(r)[r] = IF r = {} THEN 0 ELSE w[OneOf(r)] + G(r)[r \ {OneOf(r)}]
    BY <2>2, r \in SUBSET r DEF IsSumOn
  <2>4. g[r] = IF r = {} THEN 0 ELSE w[OneOf(r)] + G(r \ {OneOf(r)})[r \ {OneOf(r)}]
    BY <2>1
  <2>5. CASE r = {}
    BY <2>3, <2>4, <2>5
  <2>6. CASE r # {}
    <3> DEFINE q == r \ {OneOf(r)}
    <3>1. q \in SUBSET T /\ q # T /\ q \subseteq r
      BY <2>1
    <3>2. IsSumOn(G(q), w, q)
      BY <1>3, <3>1
    <3>3. IsFiniteSet(r)
      BY <1>2, <2>1, FS_Subset
    <3>4. G(r)[q] = G(q)[q]
      BY <2>2, <3>1, <3>2, <3>3, SumOnUnique
    <3> QED
      BY <2>3, <2>4, <2>6, <3>4
  <2> QED
    BY <2>5, <2>6
<1>5. g = [s \in SUBSET T |-> IF s = {} THEN 0 ELSE w[OneOf(s)] + g[s \ {OneOf(s)}]]
  <2>1. \A s \in SUBSET T : s # {} => g[s \ {OneOf(s)}] = G(s \ {OneOf(s)})[s \ {OneOf(s)}]
    BY <1>4
  <2> DEFINE h == [s \in SUBSET T |-> IF s = {} THEN 0 ELSE w[OneOf(s)] + g[s \ {OneOf(s)}]]
  <2>2. \A s \in SUBSET T : g[s] = h[s]
    BY <2>1
  <2> QED
    BY <2>2
<1> QED
  BY <1>2, <1>5 DEF IsSumOn

\* A sum is an element's weight and the sum of the others.
LEMMA SumUnfolds ==
  ASSUME NEW w, NEW S, IsFiniteSet(S)
  PROVE  SumFunctionOnSet(w, S) =
           IF S = {} THEN 0 ELSE w[OneOf(S)] + SumFunctionOnSet(w, S \ {OneOf(S)})
<1> DEFINE G(s) == CHOOSE g : IsSumOn(g, w, s)
<1>1. \A s : SumFunctionOnSet(w, s) = G(s)[s]
  BY DEF SumFunctionOnSet, FoldFunctionOnSet, MapThenFoldSet, IsSumOn, OneOf
<1>2. ASSUME NEW s \in SUBSET S PROVE IsSumOn(G(s), w, s)
  <2>1. \E g : IsSumOn(g, w, s)
    BY FS_Subset, SumOnExists
  <2> QED
    BY <2>1, Zenon
<1> HIDE DEF G
<1>3. G(S)[S] = IF S = {} THEN 0 ELSE w[OneOf(S)] + G(S)[S \ {OneOf(S)}]
  BY <1>2 DEF IsSumOn
<1>4. G(S)[S \ {OneOf(S)}] = G(S \ {OneOf(S)})[S \ {OneOf(S)}]
  <2> DEFINE r == S \ {OneOf(S)}
  <2>1. IsSumOn(G(S), w, S) /\ IsSumOn(G(r), w, r) /\ r \subseteq S
    BY <1>2
  <2> HIDE DEF r
  <2>2. G(S)[r] = G(r)[r]
    BY <2>1, SumOnUnique
  <2> QED
    BY <2>2 DEF r
<1> QED
  BY <1>1, <1>3, <1>4

\* The sum over nothing.
LEMMA SumEmpty ==
  ASSUME NEW w
  PROVE  SumFunctionOnSet(w, {}) = 0
BY SumUnfolds, FS_EmptySet

-----------------------------------------------------------------------------
\* Induction on a finite set, for a property given by the set of the subsets
\* that have it: it holds of S when it holds of the empty set, and of every
\* subset whenever it holds of the subset without one of its elements.
LEMMA SetInduction ==
  ASSUME NEW S, IsFiniteSet(S), NEW Good, {} \in Good,
         \A T \in SUBSET S : T # {} /\ (\A y \in T : T \ {y} \in Good) => T \in Good
  PROVE  S \in Good
<1> DEFINE Bad == {s \in SUBSET S : s \notin Good}
<1>1. SUFFICES ASSUME Bad # {} PROVE FALSE
  BY S \in SUBSET S
<1>2. PICK T \in Bad : \A U \in SUBSET T : U # T => U \notin Bad
  <2>1. Bad \subseteq SUBSET S
    OBVIOUS
  <2> HIDE DEF Bad
  <2> QED
    BY <1>1, <2>1, SmallestSet
<1>3. T # {}
  BY <1>2
<1>4. ASSUME NEW y \in T PROVE T \ {y} \in Good
  <2>1. T \ {y} \in SUBSET T /\ T \ {y} # T /\ T \ {y} \in SUBSET S
    BY <1>2
  <2> QED
    BY <1>2, <2>1
<1> QED
  BY <1>2, <1>3, <1>4

\* A sum of integers is an integer.
LEMMA SumType ==
  ASSUME NEW S, IsFiniteSet(S), NEW w, \A x \in S : w[x] \in Int
  PROVE  SumFunctionOnSet(w, S) \in Int
<1> DEFINE Good == {T \in SUBSET S : SumFunctionOnSet(w, T) \in Int}
<1>1. {} \in Good
  BY SumEmpty
<1>2. ASSUME NEW T \in SUBSET S, T # {}, \A y \in T : T \ {y} \in Good
      PROVE  T \in Good
  <2>1. OneOf(T) \in T /\ IsFiniteSet(T)
    BY <1>2, AnyIsElement, FS_Subset
  <2>2. SumFunctionOnSet(w, T) = w[OneOf(T)] + SumFunctionOnSet(w, T \ {OneOf(T)})
    BY <1>2, <2>1, SumUnfolds
  <2> QED
    BY <1>2, <2>1, <2>2
<1> HIDE DEF Good
<1>3. S \in Good
  BY <1>1, <1>2, SetInduction
<1> QED
  BY <1>3 DEF Good

\* A sum of natural numbers is a natural number.
LEMMA SumNat ==
  ASSUME NEW S, IsFiniteSet(S), NEW w, \A x \in S : w[x] \in Nat
  PROVE  SumFunctionOnSet(w, S) \in Nat
<1> DEFINE Good == {T \in SUBSET S : SumFunctionOnSet(w, T) \in Nat}
<1>1. {} \in Good
  BY SumEmpty
<1>2. ASSUME NEW T \in SUBSET S, T # {}, \A y \in T : T \ {y} \in Good
      PROVE  T \in Good
  <2>1. OneOf(T) \in T /\ IsFiniteSet(T)
    BY <1>2, AnyIsElement, FS_Subset
  <2>2. SumFunctionOnSet(w, T) = w[OneOf(T)] + SumFunctionOnSet(w, T \ {OneOf(T)})
    BY <1>2, <2>1, SumUnfolds
  <2> QED
    BY <1>2, <2>1, <2>2
<1> HIDE DEF Good
<1>3. S \in Good
  BY <1>1, <1>2, SetInduction
<1> QED
  BY <1>3 DEF Good

\* A sum depends only on the weights of its own elements.
LEMMA SumCongruence ==
  ASSUME NEW S, IsFiniteSet(S), NEW w, NEW v, \A x \in S : w[x] = v[x]
  PROVE  SumFunctionOnSet(w, S) = SumFunctionOnSet(v, S)
<1> DEFINE Good == {T \in SUBSET S : SumFunctionOnSet(w, T) = SumFunctionOnSet(v, T)}
<1>1. {} \in Good
  BY SumEmpty
<1>2. ASSUME NEW T \in SUBSET S, T # {}, \A y \in T : T \ {y} \in Good
      PROVE  T \in Good
  <2>1. OneOf(T) \in T /\ IsFiniteSet(T)
    BY <1>2, AnyIsElement, FS_Subset
  <2>2. /\ SumFunctionOnSet(w, T) = w[OneOf(T)] + SumFunctionOnSet(w, T \ {OneOf(T)})
        /\ SumFunctionOnSet(v, T) = v[OneOf(T)] + SumFunctionOnSet(v, T \ {OneOf(T)})
    BY <1>2, <2>1, SumUnfolds
  <2> QED
    BY <1>2, <2>1, <2>2
<1> HIDE DEF Good
<1>3. S \in Good
  BY <1>1, <1>2, SetInduction
<1> QED
  BY <1>3 DEF Good

\* OneOf element may be taken off a sum first.
LEMMA SumRemove ==
  ASSUME NEW S, IsFiniteSet(S), NEW w, \A x \in S : w[x] \in Int, NEW y \in S
  PROVE  SumFunctionOnSet(w, S) = w[y] + SumFunctionOnSet(w, S \ {y})
<1> DEFINE Good == {T \in SUBSET S : \A x \in T : SumFunctionOnSet(w, T)
                                       = w[x] + SumFunctionOnSet(w, T \ {x})}
<1>1. {} \in Good
  OBVIOUS
<1>2. ASSUME NEW T \in SUBSET S, T # {}, \A z \in T : T \ {z} \in Good
      PROVE  T \in Good
  <2> SUFFICES ASSUME NEW x \in T
               PROVE  SumFunctionOnSet(w, T) = w[x] + SumFunctionOnSet(w, T \ {x})
    OBVIOUS
  <2> DEFINE a == OneOf(T)
  <2>1. a \in T /\ IsFiniteSet(T) /\ w[a] \in Int /\ w[x] \in Int
    BY <1>2, AnyIsElement, FS_Subset
  <2>2. SumFunctionOnSet(w, T) = w[a] + SumFunctionOnSet(w, T \ {a})
    BY <1>2, <2>1, SumUnfolds
  <2> HIDE DEF a
  <2>3. CASE x = a
    BY <2>2, <2>3
  <2>4. CASE x # a
    <3>1. SumFunctionOnSet(w, T \ {a}) = w[x] + SumFunctionOnSet(w, (T \ {a}) \ {x})
      BY <1>2, <2>1, <2>4
    <3>2. SumFunctionOnSet(w, T \ {x}) = w[a] + SumFunctionOnSet(w, (T \ {x}) \ {a})
      BY <1>2, <2>1, <2>4
    <3>3. (T \ {x}) \ {a} = (T \ {a}) \ {x}
      OBVIOUS
    <3> DEFINE s == SumFunctionOnSet(w, (T \ {a}) \ {x})
    <3>4. s \in Int
      BY <2>1, FS_Subset, SumType
    <3>5. /\ SumFunctionOnSet(w, T) = w[a] + (w[x] + s)
          /\ SumFunctionOnSet(w, T \ {x}) = w[a] + s
      BY <2>2, <3>1, <3>2, <3>3
    <3> HIDE DEF s
    <3> QED
      BY <2>1, <3>4, <3>5
  <2> QED
    BY <2>3, <2>4
<1> HIDE DEF Good
<1>3. S \in Good
  BY <1>1, <1>2, SetInduction
<1> QED
  BY <1>3 DEF Good
-----------------------------------------------------------------------------
\* One element more adds its weight.
LEMMA SumInsert ==
  ASSUME NEW S, IsFiniteSet(S), NEW y, y \notin S,
         NEW w, w[y] \in Int, \A x \in S : w[x] \in Int
  PROVE  SumFunctionOnSet(w, S \union {y}) = w[y] + SumFunctionOnSet(w, S)
<1>1. IsFiniteSet(S \union {y}) /\ (S \union {y}) \ {y} = S
  BY FS_AddElement
<1>2. \A x \in S \union {y} : w[x] \in Int
  OBVIOUS
<1> HIDE <1>1
<1> QED
  BY <1>1, <1>2, SumRemove

\* The sum of x * w[i] + v[i] is x times the sum of w and the sum of v.
LEMMA SumLinear ==
  ASSUME NEW S, IsFiniteSet(S), NEW w, NEW v, NEW u, NEW k \in Int,
         \A x \in S : w[x] \in Int /\ v[x] \in Int /\ u[x] = k * w[x] + v[x]
  PROVE  SumFunctionOnSet(u, S) = k * SumFunctionOnSet(w, S) + SumFunctionOnSet(v, S)
<1> DEFINE Good == {T \in SUBSET S : SumFunctionOnSet(u, T)
                      = k * SumFunctionOnSet(w, T) + SumFunctionOnSet(v, T)}
<1>1. {} \in Good
  BY SumEmpty
<1>2. ASSUME NEW T \in SUBSET S, T # {}, \A y \in T : T \ {y} \in Good
      PROVE  T \in Good
  <2> DEFINE a == OneOf(T)
             W == SumFunctionOnSet(w, T \ {a})
             V == SumFunctionOnSet(v, T \ {a})
             U == SumFunctionOnSet(u, T \ {a})
  <2>1. a \in T /\ IsFiniteSet(T) /\ IsFiniteSet(T \ {a})
    BY <1>2, AnyIsElement, FS_Subset
  <2>2. /\ SumFunctionOnSet(w, T) = w[a] + W
        /\ SumFunctionOnSet(v, T) = v[a] + V
        /\ SumFunctionOnSet(u, T) = u[a] + U
    BY <1>2, <2>1, SumUnfolds
  <2>3. W \in Int /\ V \in Int
    BY <2>1, SumType
  <2>4. U = k * W + V
    BY <1>2, <2>1
  <2>5. w[a] \in Int /\ v[a] \in Int /\ u[a] = k * w[a] + v[a]
    BY <2>1
  <2> HIDE DEF a, W, V, U
  <2>6. k * (w[a] + W) = k * w[a] + k * W /\ k * w[a] \in Int /\ k * W \in Int
    BY <2>3, <2>5
  <2>7. u[a] + U = k * (w[a] + W) + (v[a] + V)
    BY <2>3, <2>4, <2>5, <2>6
  <2> QED
    BY <2>2, <2>7
<1> HIDE DEF Good
<1>3. S \in Good
  BY <1>1, <1>2, SetInduction
<1> QED
  BY <1>3 DEF Good

\* Weights of zero add up to zero.
LEMMA SumZero ==
  ASSUME NEW S, IsFiniteSet(S), NEW w, \A x \in S : w[x] = 0
  PROVE  SumFunctionOnSet(w, S) = 0
<1> DEFINE z == SumFunctionOnSet(w, S)
<1>1. z \in Int
  BY SumType
<1>2. z = 1 * z + z
  BY SumLinear
<1> HIDE DEF z
<1>3. z = 0
  BY <1>1, <1>2
<1> QED
  BY <1>3 DEF z

\* Elements that weigh nothing may be left out.
LEMMA SumSupport ==
  ASSUME NEW S, IsFiniteSet(S), NEW T \in SUBSET S, NEW w, \A x \in S : w[x] \in Int,
         \A x \in S \ T : w[x] = 0
  PROVE  SumFunctionOnSet(w, S) = SumFunctionOnSet(w, T)
<1> DEFINE Good == {U \in SUBSET (S \ T) : SumFunctionOnSet(w, T \union U)
                                             = SumFunctionOnSet(w, T)}
<1>1. {} \in Good
  <2>1. T \union {} = T
    OBVIOUS
  <2> QED
    BY <2>1
<1>2. ASSUME NEW U \in SUBSET (S \ T), U # {}, \A y \in U : U \ {y} \in Good
      PROVE  U \in Good
  <2>1. PICK y \in U : U \ {y} \in Good
    BY <1>2
  <2>2. IsFiniteSet(T \union U)
    <3>1. T \union U \subseteq S
      OBVIOUS
    <3> QED
      BY <3>1, FS_Subset
  <2>3. y \in T \union U /\ (T \union U) \ {y} = T \union (U \ {y})
    OBVIOUS
  <2>4. SumFunctionOnSet(w, T \union U)
          = w[y] + SumFunctionOnSet(w, (T \union U) \ {y})
    <3>1. \A x \in T \union U : w[x] \in Int
      OBVIOUS
    <3> QED
      BY <2>2, <2>3, <3>1, SumRemove
  <2>5. SumFunctionOnSet(w, T) \in Int
    BY FS_Subset, SumType
  <2>6. SumFunctionOnSet(w, T \union (U \ {y})) = SumFunctionOnSet(w, T)
    BY <2>1
  <2>7. w[y] = 0
    OBVIOUS
  <2>8. SumFunctionOnSet(w, T \union U) = w[y] + SumFunctionOnSet(w, T)
    BY <2>3, <2>4, <2>6, Zenon
  <2>9. SumFunctionOnSet(w, T \union U) = SumFunctionOnSet(w, T)
    BY <2>5, <2>7, <2>8
  <2> QED
    BY <2>9
<1>3. IsFiniteSet(S \ T)
  BY FS_Subset
<1> HIDE DEF Good
<1>4. S \ T \in Good
  BY <1>1, <1>2, <1>3, SetInduction
<1>5. T \union (S \ T) = S
  OBVIOUS
<1> QED
  BY <1>4, <1>5 DEF Good

\* A sum of natural numbers over fewer elements is not greater.
LEMMA SumMonotone ==
  ASSUME NEW S, IsFiniteSet(S), NEW T \in SUBSET S, NEW w, \A x \in S : w[x] \in Nat
  PROVE  SumFunctionOnSet(w, T) <= SumFunctionOnSet(w, S)
<1> DEFINE v == [x \in S |-> IF x \in T THEN 0 ELSE w[x]]
           u == [x \in S |-> IF x \in T THEN w[x] ELSE 0]
<1>1. IsFiniteSet(T)
  BY FS_Subset
<1>2. SumFunctionOnSet(w, S) = 1 * SumFunctionOnSet(u, S) + SumFunctionOnSet(v, S)
  <2>1. \A x \in S : u[x] \in Int /\ v[x] \in Int /\ w[x] = 1 * u[x] + v[x]
    OBVIOUS
  <2> HIDE DEF u, v
  <2> QED
    BY <2>1, SumLinear
<1>3. SumFunctionOnSet(v, S) \in Nat
  BY SumNat
<1>4. SumFunctionOnSet(u, S) = SumFunctionOnSet(u, T)
  <2>1. \A x \in S : u[x] \in Int
    OBVIOUS
  <2>2. \A x \in S \ T : u[x] = 0
    OBVIOUS
  <2> HIDE DEF u
  <2> QED
    BY <2>1, <2>2, SumSupport
<1>5. SumFunctionOnSet(u, T) = SumFunctionOnSet(w, T)
  BY <1>1, SumCongruence
<1>6. SumFunctionOnSet(w, T) \in Nat
  BY <1>1, SumNat
<1> HIDE DEF u, v
<1> QED
  BY <1>2, <1>3, <1>4, <1>5, <1>6

\* A sum of weights none of which is greater is not greater.
LEMMA SumAtMost ==
  ASSUME NEW S, IsFiniteSet(S), NEW w, NEW v,
         \A x \in S : w[x] \in Int /\ v[x] \in Int /\ w[x] <= v[x]
  PROVE  SumFunctionOnSet(w, S) <= SumFunctionOnSet(v, S)
<1> DEFINE u == [x \in S |-> v[x] - w[x]]
<1>1. \A x \in S : u[x] \in Nat /\ u[x] \in Int /\ v[x] = 1 * w[x] + u[x]
  OBVIOUS
<1> HIDE DEF u
<1> DEFINE W == SumFunctionOnSet(w, S)
           U == SumFunctionOnSet(u, S)
<1>2. W \in Int /\ U \in Nat
  BY <1>1, SumType, SumNat
<1>3. SumFunctionOnSet(v, S) = 1 * W + U
  BY <1>1, SumLinear
<1> HIDE DEF W, U
<1>4. W <= 1 * W + U
  BY <1>2
<1> QED
  BY <1>3, <1>4 DEF W

\* The sum over two sets without a common element is the sum of their sums.
LEMMA SumDisjoint ==
  ASSUME NEW S, IsFiniteSet(S), NEW T, IsFiniteSet(T), S \intersect T = {},
         NEW w, \A x \in S \union T : w[x] \in Int
  PROVE  SumFunctionOnSet(w, S \union T) = SumFunctionOnSet(w, S) + SumFunctionOnSet(w, T)
<1> DEFINE R == S \union T
           u == [x \in R |-> IF x \in S THEN w[x] ELSE 0]
           v == [x \in R |-> IF x \in T THEN w[x] ELSE 0]
<1>1. IsFiniteSet(R) /\ S \in SUBSET R /\ T \in SUBSET R
  BY FS_Union
<1>2. /\ \A x \in R : u[x] \in Int /\ v[x] \in Int /\ w[x] = 1 * u[x] + v[x]
      /\ \A x \in S : u[x] = w[x]
      /\ \A x \in T : v[x] = w[x]
      /\ \A x \in R \ S : u[x] = 0
      /\ \A x \in R \ T : v[x] = 0
  OBVIOUS
<1> HIDE DEF u, v
<1>3. SumFunctionOnSet(w, R) = 1 * SumFunctionOnSet(u, R) + SumFunctionOnSet(v, R)
  BY <1>1, <1>2, SumLinear
<1>4. SumFunctionOnSet(u, R) = SumFunctionOnSet(u, S)
      /\ SumFunctionOnSet(v, R) = SumFunctionOnSet(v, T)
  <2> HIDE DEF R
  <2> QED
    BY <1>1, <1>2, SumSupport
<1>5. SumFunctionOnSet(u, S) = SumFunctionOnSet(w, S)
      /\ SumFunctionOnSet(v, T) = SumFunctionOnSet(w, T)
  BY <1>2, SumCongruence
<1> DEFINE a == SumFunctionOnSet(w, S)
           b == SumFunctionOnSet(w, T)
<1>6. a \in Int /\ b \in Int
  BY SumType
<1>7. SumFunctionOnSet(w, R) = 1 * a + b
  BY <1>3, <1>4, <1>5
<1> HIDE DEF a, b, R
<1>8. SumFunctionOnSet(w, R) = a + b
  BY <1>6, <1>7
<1> QED
  BY <1>8 DEF a, b, R

\* The values of a function on a finite set are finitely many.
LEMMA FiniteImage ==
  ASSUME NEW S, IsFiniteSet(S), NEW f
  PROVE  IsFiniteSet({f[x] : x \in S})
<1> DEFINE T == {f[x] : x \in S}
           g == [x \in S |-> f[x]]
<1>1. g \in Surjection(S, T)
  BY DEF Surjection
<1> QED
  BY <1>1, FS_Surjection
-----------------------------------------------------------------------------
\* A sum of products with one factor.
LEMMA ScaledSum ==
  ASSUME NEW S, IsFiniteSet(S), NEW k \in Int, NEW w, NEW u,
         \A x \in S : w[x] \in Int /\ u[x] = k * w[x]
  PROVE  SumFunctionOnSet(u, S) = k * SumFunctionOnSet(w, S)
<1> DEFINE z == [x \in S |-> 0]
           W == SumFunctionOnSet(w, S)
<1>1. \A x \in S : w[x] \in Int /\ z[x] \in Int /\ u[x] = k * w[x] + z[x]
  OBVIOUS
<1>2. SumFunctionOnSet(z, S) = 0
  BY SumZero
<1>3. W \in Int
  BY SumType
<1> HIDE DEF z
<1>4. SumFunctionOnSet(u, S) = k * W + SumFunctionOnSet(z, S)
  BY <1>1, SumLinear
<1> HIDE DEF W
<1>5. SumFunctionOnSet(u, S) = k * W + 0 /\ k * W \in Int
  BY <1>2, <1>3, <1>4
<1>6. SumFunctionOnSet(u, S) = k * W
  BY <1>5
<1> QED
  BY <1>6 DEF W

\* x \div y, multiplied back, is at most x.
LEMMA QuotientBelow ==
  ASSUME NEW x \in Nat, NEW y \in Nat \ {0}
  PROVE  x \div y \in Nat /\ y * (x \div y) <= x
<1>1. x \div y \in Int /\ x % y \in 0 .. (y - 1)
      /\ x = y * (x \div y) + (x % y)
  OBVIOUS
<1> QED
  BY <1>1

\* The rounded-down shares that all but one take of an amount, in proportion
\* to their weights, do not exceed the amount.
LEMMA FloorSharesBound ==
  ASSUME NEW S, IsFiniteSet(S), NEW w, \A x \in S : w[x] \in Nat, NEW last \in S,
         NEW amount \in Nat \ {0}, NEW total \in Nat, amount <= total,
         total = SumFunctionOnSet(w, S),
         NEW share, \A x \in S \ {last} : share[x] = (amount * w[x]) \div total
  PROVE  SumFunctionOnSet(share, S \ {last}) \in 0 .. amount
<1> DEFINE O == S \ {last}
           scaledShare == [x \in O |-> total * share[x]]
           scaledWeight == [x \in O |-> amount * w[x]]
           F == SumFunctionOnSet(share, O)
           B == SumFunctionOnSet(w, O)
<1>1. IsFiniteSet(O) /\ O \subseteq S
  BY FS_Subset
<1>2. total \in Nat \ {0} /\ \A x \in S : w[x] \in Int
  OBVIOUS
<1>3. ASSUME NEW x \in O
      PROVE  /\ share[x] \in Nat /\ share[x] \in Int
             /\ scaledShare[x] = total * share[x] /\ scaledShare[x] \in Int
             /\ scaledWeight[x] = amount * w[x] /\ scaledWeight[x] \in Int
             /\ scaledShare[x] <= scaledWeight[x]
  <2> DEFINE y == amount * w[x]
  <2>1. y \in Nat /\ w[x] \in Nat
    OBVIOUS
  <2>2. share[x] = y \div total
    OBVIOUS
  <2> HIDE DEF y
  <2>3. share[x] \in Nat /\ total * share[x] <= y
    BY <1>2, <2>1, <2>2, QuotientBelow
  <2>4. total * share[x] \in Int
    BY <2>3
  <2> QED
    BY <2>1, <2>3, <2>4 DEF y
<1> HIDE DEF scaledShare, scaledWeight
<1>4. F \in Nat
  BY <1>1, <1>3, SumNat
<1>5. SumFunctionOnSet(scaledShare, O) = total * F
  BY <1>1, <1>3, ScaledSum
<1>6. B \in Nat
  BY <1>1, SumNat
<1>7. SumFunctionOnSet(scaledWeight, O) = amount * B
  <2>1. \A x \in O : w[x] \in Int /\ scaledWeight[x] = amount * w[x]
    BY <1>2, <1>3
  <2> HIDE DEF O
  <2> QED
    BY <1>1, <2>1, ScaledSum
<1>8. SumFunctionOnSet(scaledShare, O) <= SumFunctionOnSet(scaledWeight, O)
  BY <1>1, <1>3, SumAtMost
<1>9. total = w[last] + B
  BY <1>2, SumRemove
<1> HIDE DEF F, B
<1>10. B <= total
  BY <1>6, <1>9
<1>11. total * F <= amount * total
  <2>1. amount * B <= amount * total
    BY <1>6, <1>10
  <2>2. total * F <= amount * B
    BY <1>5, <1>7, <1>8
  <2>3. total * F \in Int /\ amount * B \in Int /\ amount * total \in Int
    BY <1>4, <1>6
  <2> QED
    BY <2>1, <2>2, <2>3
<1>12. F <= amount
  <2> SUFFICES ASSUME F > amount PROVE FALSE
    BY <1>4
  <2>1. F >= amount + 1
    BY <1>4
  <2>2. total * F >= total * (amount + 1)
    BY <1>4, <2>1
  <2>3. total * (amount + 1) = amount * total + total /\ amount * total \in Int
    OBVIOUS
  <2>4. total * F \in Int
    BY <1>4
  <2> QED
    BY <1>2, <1>11, <2>2, <2>3, <2>4
<1>13. F \in 0 .. amount
  BY <1>4, <1>12
<1> QED
  BY <1>13 DEF F

\* A sum over the different values of f is one over what they are the values of.
LEMMA SumImage ==
  ASSUME NEW S, IsFiniteSet(S), NEW f, \A x, y \in S : f[x] = f[y] => x = y,
         NEW w, NEW v, \A x \in S : v[x] \in Int /\ w[f[x]] = v[x]
  PROVE  SumFunctionOnSet(w, {f[x] : x \in S}) = SumFunctionOnSet(v, S)
<1> DEFINE Image(T) == {f[x] : x \in T}
           Good == {T \in SUBSET S : SumFunctionOnSet(w, Image(T)) = SumFunctionOnSet(v, T)}
<1>1. {} \in Good
  <2>1. Image({}) = {}
    OBVIOUS
  <2> HIDE DEF Image
  <2> QED
    BY <2>1, SumEmpty
<1>2. ASSUME NEW T \in SUBSET S, T # {}, \A y \in T : T \ {y} \in Good
      PROVE  T \in Good
  <2>1. PICK y \in T : T \ {y} \in Good
    BY <1>2
  <2>2. PICK U : U = T \ {y}
    OBVIOUS
  <2>3. IsFiniteSet(T) /\ IsFiniteSet(U) /\ IsFiniteSet(Image(U))
    BY <2>2, FS_Subset, FiniteImage
  <2>4. Image(T) = Image(U) \union {f[y]} /\ f[y] \notin Image(U)
    BY <2>1, <2>2
  <2>5. w[f[y]] = v[y] /\ v[y] \in Int /\ \A z \in Image(U) : w[z] \in Int
    BY <2>1, <2>2
  <2>6. SumFunctionOnSet(w, Image(U)) = SumFunctionOnSet(v, U)
    BY <2>1, <2>2
  <2>7. \A x \in T : v[x] \in Int
    OBVIOUS
  <2> HIDE DEF Image
  <2>8. SumFunctionOnSet(w, Image(T)) = v[y] + SumFunctionOnSet(w, Image(U))
    <3>1. PICK J, y1 : J = Image(U) /\ y1 = f[y]
      OBVIOUS
    <3>2. IsFiniteSet(J) /\ y1 \notin J /\ w[y1] \in Int /\ \A z \in J : w[z] \in Int
      BY <2>3, <2>4, <2>5, <3>1
    <3>3. SumFunctionOnSet(w, J \union {y1}) = w[y1] + SumFunctionOnSet(w, J)
      BY <3>2, SumInsert
    <3> QED
      BY <2>4, <2>5, <3>1, <3>3
  <2>9. SumFunctionOnSet(v, T) = v[y] + SumFunctionOnSet(v, U)
    BY <2>1, <2>2, <2>3, <2>7, SumRemove
  <2> QED
    BY <2>6, <2>8, <2>9
<1> HIDE DEF Good
<1>3. S \in Good
  BY <1>1, <1>2, SetInduction
<1> QED
  BY <1>3 DEF Good
=============================================================================
