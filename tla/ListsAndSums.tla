------------------------------ MODULE ListsAndSums ------------------------------
(***************************************************************************)
(* Facts about the operators the models take from the community modules:   *)
(* lists that hold each element once, folds, and sums over finite sets,    *)
(* and induction over numbers.                                             *)
(*                                                                         *)
(* A fold, and a sum is one, is a recursive function: that such a function *)
(* exists, and that it does not matter which element a sum takes first, is *)
(* proved here by looking at a least set for which it would fail.          *)
(***************************************************************************)
EXTENDS Integers, SequencesExt, FiniteSetsExt, SequenceTheorems, FiniteSetTheorems, TLAPS

-----------------------------------------------------------------------------
(* Least elements.                                                          *)

\* Among subsets of a finite set there is a least one.
LEMMA LeastSet ==
    ASSUME NEW A, IsFiniteSet(A), NEW B, B \subseteq SUBSET A, B # {}
    PROVE  \E T \in B : \A U \in B : ~ (U \subseteq T /\ U # T)
<1> DEFINE R == StrictSubsetOrdering(A)
<1>1. B \subseteq FiniteSubsetsOf(A)
  BY FS_FiniteSubsetsOfFinite
<1>2. PICK T \in B : \A U \in B : ~ (<<U, T>> \in R)
  <2>1. IsWellFoundedOn(R, FiniteSubsetsOf(A))
    BY FS_StrictSubsetOrderingWellFounded
  <2> HIDE DEF R
  <2>2. QED
    BY <1>1, <2>1, WFMin
<1>3. ASSUME NEW U \in B, U \subseteq T, U # T PROVE FALSE
  <2>1. <<U, T>> \in R
    BY <1>3 DEF StrictSubsetOrdering
  <2>2. QED
    BY <1>2, <2>1
<1>4. QED
  BY <1>3

\* The least number principle.
LEMMA Least ==
    ASSUME NEW T, T \subseteq Nat, T # {}
    PROVE  \E m \in T : \A n \in T : m =< n
<1> DEFINE R == StrictSubsetOrdering(Nat)
           Intervals == {1..n : n \in T}
<1>1. \A n \in T : n \in Nat /\ 1..n \subseteq Nat /\ IsFiniteSet(1..n)
  BY FS_Interval
<1>2. Intervals \subseteq FiniteSubsetsOf(Nat) /\ Intervals # {}
  BY <1>1 DEF FiniteSubsetsOf
<1>3. PICK x \in Intervals : \A y \in Intervals : ~ (<<y, x>> \in R)
  <2>1. IsWellFoundedOn(R, FiniteSubsetsOf(Nat))
    BY FS_StrictSubsetOrderingWellFounded
  <2> HIDE DEF R, Intervals
  <2>2. QED
    BY <1>2, <2>1, WFMin
<1>4. PICK m \in T : x = 1..m
  BY <1>3
<1>5. ASSUME NEW n \in T, n < m PROVE FALSE
  <2>1. 1..n \subseteq 1..m /\ m \in 1..m /\ m \notin 1..n
    BY <1>1, <1>5
  <2>2. <<1..n, 1..m>> \in R
    BY <1>1, <2>1 DEF StrictSubsetOrdering
  <2>3. QED
    BY <1>3, <1>4, <2>2
<1>6. QED
  BY <1>1, <1>5

\* A set of natural numbers has a least one.
LEMMA MinIsLeast ==
    ASSUME NEW T, T \subseteq Nat, T # {}
    PROVE  Min(T) \in T /\ \A n \in T : Min(T) =< n
BY Least DEF Min

\* Induction upwards, as a fact about a set of numbers.
LEMMA UpFrom ==
    ASSUME NEW a \in Nat, NEW n \in Nat, NEW S, a \in S,
           \A i \in a..(n - 1) : i \in S => i + 1 \in S
    PROVE  \A i \in a..n : i \in S
<1> DEFINE Bad == {i \in a..n : i \notin S}
<1>1. SUFFICES ASSUME Bad # {} PROVE FALSE
  OBVIOUS
<1>2. PICK i \in Bad : \A j \in Bad : i =< j
  <2>1. Bad \subseteq Nat
    OBVIOUS
  <2> HIDE DEF Bad
  <2>2. QED
    BY <1>1, <2>1, Least
<1>3. i \in a..n /\ i \notin S
  BY <1>2
<1>4. i - 1 \in a..(n - 1) /\ i - 1 < i
  BY <1>3
<1>5. i - 1 \in S
  BY <1>2, <1>3, <1>4
<1>6. QED
  BY <1>3, <1>4, <1>5

\* Induction downwards.
LEMMA DownFrom ==
    ASSUME NEW a \in Nat, NEW n \in Nat, NEW S, n \in S,
           \A i \in a..(n - 1) : i + 1 \in S => i \in S
    PROVE  \A i \in a..n : i \in S
<1> DEFINE D == {n - i : i \in {j \in a..n : j \in S}}
<1>1. SUFFICES ASSUME NEW i \in a..n PROVE i \in S
  OBVIOUS
<1>2. 0 \in D
  <2>1. n \in a..n /\ 0 = n - n
    BY <1>1
  <2>2. QED
    BY <2>1
<1>3. ASSUME NEW d \in 0..(n - a - 1), d \in D PROVE d + 1 \in D
  <2>1. PICK j \in a..n : j \in S /\ d = n - j
    BY <1>3
  <2>2. j - 1 \in a..(n - 1) /\ (j - 1) + 1 \in S
    BY <1>3, <2>1
  <2>3. j - 1 \in S /\ j - 1 \in a..n /\ d + 1 = n - (j - 1)
    BY <2>1, <2>2
  <2>4. QED
    BY <2>3
<1>4. \A d \in 0..(n - a) : d \in D
  <2>1. 0 \in Nat /\ n - a \in Nat
    BY <1>1
  <2> HIDE DEF D
  <2>2. QED
    BY <1>2, <1>3, <2>1, UpFrom
<1>5. n - i \in D
  <2>1. n - i \in 0..(n - a)
    BY <1>1
  <2> HIDE DEF D
  <2>2. QED
    BY <1>4, <2>1
<1>6. PICK j \in a..n : j \in S /\ n - i = n - j
  BY <1>5
<1>7. QED
  BY <1>1, <1>6

\* Complete induction.
LEMMA AllNumbers ==
    ASSUME NEW S, \A n \in Nat : (\A m \in Nat : m < n => m \in S) => n \in S
    PROVE  \A n \in Nat : n \in S
<1> DEFINE Bad == {n \in Nat : n \notin S}
<1>1. SUFFICES ASSUME Bad # {} PROVE FALSE
  OBVIOUS
<1>2. PICK n \in Bad : \A m \in Bad : n =< m
  <2>1. Bad \subseteq Nat
    OBVIOUS
  <2> HIDE DEF Bad
  <2>2. QED
    BY <1>1, <2>1, Least
<1>3. \A m \in Nat : m < n => m \in S
  BY <1>2
<1>4. QED
  BY <1>2, <1>3

-----------------------------------------------------------------------------
(* Sums over finite sets.                                                   *)

Chosen(s) == CHOOSE x \in s : TRUE

\* g is the recursive function that sums up size over the subsets of S.
IsSum(size, S, g) ==
    g = [s \in SUBSET S |->
           IF s = {} THEN 0 ELSE size[Chosen(s)] + g[s \ {Chosen(s)}]]

LEMMA SumIsChosen ==
    ASSUME NEW size, NEW S
    PROVE  SumFunctionOnSet(size, S) = (CHOOSE g : IsSum(size, S, g))[S]
BY DEF SumFunctionOnSet, FoldFunctionOnSet, MapThenFoldSet, IsSum, Chosen

\* The two ways in which the models write a sum are the same.
LEMMA SumOfMap ==
    ASSUME NEW size, NEW S
    PROVE  MapThenSumSet(LAMBDA x : size[x], S) = SumFunctionOnSet(size, S)
BY DEF SumFunctionOnSet, FoldFunctionOnSet, MapThenSumSet, MapThenFoldSet

LEMMA SumEquation ==
    ASSUME NEW size, NEW S, NEW g, IsSum(size, S, g), NEW T, T \subseteq S
    PROVE  g[T] = IF T = {} THEN 0 ELSE size[Chosen(T)] + g[T \ {Chosen(T)}]
BY DEF IsSum

\* Two such functions agree where both are defined.
LEMMA SumsAgree ==
    ASSUME NEW size, NEW A, IsFiniteSet(A), NEW B, NEW f, NEW g,
           IsSum(size, A, f), IsSum(size, B, g),
           NEW T, T \subseteq A, T \subseteq B
    PROVE  f[T] = g[T]
<1> DEFINE Bad == {U \in SUBSET A : U \subseteq B /\ f[U] # g[U]}
<1>1. SUFFICES ASSUME Bad # {} PROVE FALSE
  OBVIOUS
<1>2. PICK U \in Bad : \A V \in Bad : ~ (V \subseteq U /\ V # U)
  <2>1. Bad \subseteq SUBSET A
    OBVIOUS
  <2> HIDE DEF Bad
  <2>2. QED
    BY <1>1, <2>1, LeastSet
<1>3. /\ f[U] = IF U = {} THEN 0 ELSE size[Chosen(U)] + f[U \ {Chosen(U)}]
      /\ g[U] = IF U = {} THEN 0 ELSE size[Chosen(U)] + g[U \ {Chosen(U)}]
  <2>1. U \subseteq A /\ U \subseteq B
    BY <1>2
  <2> HIDE DEF Bad
  <2>2. QED
    BY <2>1 DEF IsSum
<1>4. U # {}
  BY <1>2, <1>3
<1>5. Chosen(U) \in U
  BY <1>4 DEF Chosen
<1>6. f[U \ {Chosen(U)}] = g[U \ {Chosen(U)}]
  BY <1>2, <1>5
<1>7. QED
  BY <1>2, <1>3, <1>4, <1>6

\* There is such a function on the subsets of a finite set.
LEMMA SumExists ==
    ASSUME NEW size, NEW S, IsFiniteSet(S)
    PROVE  \E g : IsSum(size, S, g)
<1> DEFINE Bad == {T \in SUBSET S : ~ \E g : IsSum(size, T, g)}
<1>1. SUFFICES ASSUME Bad # {} PROVE FALSE
  OBVIOUS
<1>2. PICK T \in Bad : \A U \in Bad : ~ (U \subseteq T /\ U # T)
  <2>1. Bad \subseteq SUBSET S
    OBVIOUS
  <2> HIDE DEF Bad
  <2>2. QED
    BY <1>1, <2>1, LeastSet
<1> DEFINE h(u) == CHOOSE g : IsSum(size, u, g)
           rest(s) == s \ {Chosen(s)}
           f == [s \in SUBSET T |->
                   IF s = {} THEN 0 ELSE size[Chosen(s)] + h(rest(s))[rest(s)]]
<1>3. ASSUME NEW u, u \subseteq T, u # T PROVE IsSum(size, u, h(u)) /\ IsFiniteSet(u)
  <2>1. \E g : IsSum(size, u, g)
    BY <1>2, <1>3
  <2>2. IsFiniteSet(u)
    BY <1>2, <1>3, FS_Subset
  <2>3. QED
    BY <2>1, <2>2
<1>4. ASSUME NEW s \in SUBSET T, s # {}
      PROVE  rest(s) \subseteq s /\ rest(s) # s /\ rest(s) # T
  BY <1>4 DEF Chosen
<1>5. ASSUME NEW u, u \subseteq T, u # T PROVE f[u] = h(u)[u]
  <2>1. h(u)[u] = IF u = {} THEN 0 ELSE size[Chosen(u)] + h(u)[rest(u)]
    <3>1. IsSum(size, u, h(u))
      BY <1>3, <1>5
    <3> HIDE DEF h
    <3>2. QED
      BY <3>1, SumEquation
  <2>2. u # {} => h(u)[rest(u)] = h(rest(u))[rest(u)]
    <3>1. SUFFICES ASSUME u # {} PROVE h(u)[rest(u)] = h(rest(u))[rest(u)]
      OBVIOUS
    <3>2. rest(u) \subseteq u /\ rest(u) # T
      BY <1>4, <1>5, <3>1
    <3>3. /\ IsSum(size, u, h(u)) /\ IsFiniteSet(u)
          /\ IsSum(size, rest(u), h(rest(u)))
      BY <1>3, <1>5, <3>2
    <3> HIDE DEF h, rest
    <3>4. QED
      BY <3>2, <3>3, SumsAgree
  <2>3. f[u] = IF u = {} THEN 0 ELSE size[Chosen(u)] + h(rest(u))[rest(u)]
    BY <1>5
  <2>4. QED
    BY <2>1, <2>2, <2>3
<1>6. IsSum(size, T, f)
  <2>1. \A s \in SUBSET T : s # {} => f[rest(s)] = h(rest(s))[rest(s)]
    BY <1>4, <1>5
  <2>2. f = [s \in SUBSET T |-> IF s = {} THEN 0 ELSE size[Chosen(s)] + f[rest(s)]]
    <3>1. /\ f = [s \in SUBSET T |-> f[s]]
          /\ \A s \in SUBSET T : f[s] = IF s = {} THEN 0 ELSE size[Chosen(s)] + h(rest(s))[rest(s)]
      OBVIOUS
    <3> HIDE DEF f, h, rest
    <3>2. \A s \in SUBSET T : f[s] = IF s = {} THEN 0 ELSE size[Chosen(s)] + f[rest(s)]
      BY <2>1, <3>1
    <3>3. QED
      BY <3>1, <3>2
  <2>3. QED
    BY <2>2 DEF IsSum
<1>7. QED
  BY <1>2, <1>6

\* The sum of a set, with the element that comes first split off.
LEMMA SumUnfolds ==
    ASSUME NEW size, NEW S, IsFiniteSet(S)
    PROVE  SumFunctionOnSet(size, S) =
             IF S = {} THEN 0
             ELSE size[Chosen(S)] + SumFunctionOnSet(size, S \ {Chosen(S)})
<1> DEFINE T == S \ {Chosen(S)}
           g == CHOOSE g : IsSum(size, S, g)
           h == CHOOSE h : IsSum(size, T, h)
<1>1. IsFiniteSet(T) /\ T \subseteq S
  BY FS_Subset
<1>2. IsSum(size, S, g) /\ IsSum(size, T, h)
  <2>1. IsSum(size, S, g)
    BY SumExists
  <2>2. IsSum(size, T, h)
    <3> HIDE DEF T
    <3>1. QED
      BY <1>1, SumExists
  <2>3. QED
    BY <2>1, <2>2
<1>3. SumFunctionOnSet(size, S) = g[S] /\ SumFunctionOnSet(size, T) = h[T]
  BY SumIsChosen
<1> HIDE DEF g, h
<1>4. g[S] = IF S = {} THEN 0 ELSE size[Chosen(S)] + g[T]
  BY <1>2, SumEquation
<1>5. g[T] = h[T]
  <2> HIDE DEF T
  <2>1. QED
    BY <1>1, <1>2, SumsAgree
<1>6. QED
  BY <1>3, <1>4, <1>5

LEMMA SumOfNone ==
    ASSUME NEW size
    PROVE  SumFunctionOnSet(size, {}) = 0
BY SumUnfolds, FS_EmptySet

\* The sum of natural numbers is one.
LEMMA SumIsNat ==
    ASSUME NEW size, NEW S, IsFiniteSet(S), \A x \in S : size[x] \in Nat
    PROVE  SumFunctionOnSet(size, S) \in Nat
<1> DEFINE Bad == {T \in SUBSET S : SumFunctionOnSet(size, T) \notin Nat}
<1>1. SUFFICES ASSUME Bad # {} PROVE FALSE
  OBVIOUS
<1>2. PICK T \in Bad : \A U \in Bad : ~ (U \subseteq T /\ U # T)
  <2>1. Bad \subseteq SUBSET S
    OBVIOUS
  <2> HIDE DEF Bad
  <2>2. QED
    BY <1>1, <2>1, LeastSet
<1>3. T \subseteq S /\ IsFiniteSet(T) /\ T # {}
  <2>1. T \subseteq S /\ SumFunctionOnSet(size, T) \notin Nat
    BY <1>2
  <2>2. IsFiniteSet(T)
    BY <2>1, FS_Subset
  <2>3. QED
    BY <2>1, <2>2, SumOfNone
<1>4. SumFunctionOnSet(size, T) = size[Chosen(T)] + SumFunctionOnSet(size, T \ {Chosen(T)})
  BY <1>3, SumUnfolds
<1>5. Chosen(T) \in T
  BY <1>3 DEF Chosen
<1>6. SumFunctionOnSet(size, T \ {Chosen(T)}) \in Nat
  BY <1>2, <1>3, <1>5
<1>7. size[Chosen(T)] \in Nat
  BY <1>3, <1>5
<1>8. QED
  BY <1>2, <1>4, <1>6, <1>7

\* It does not matter which element is split off.
LEMMA SumWithout ==
    ASSUME NEW size, NEW S, IsFiniteSet(S), \A y \in S : size[y] \in Nat, NEW x \in S
    PROVE  SumFunctionOnSet(size, S) = size[x] + SumFunctionOnSet(size, S \ {x})
<1> DEFINE Sum(T) == SumFunctionOnSet(size, T)
           Splits(T) == \A y \in T : Sum(T) = size[y] + Sum(T \ {y})
           Bad == {T \in SUBSET S : ~ Splits(T)}
<1>1. SUFFICES ASSUME Bad # {} PROVE FALSE
  OBVIOUS
<1>2. PICK T \in Bad : \A U \in Bad : ~ (U \subseteq T /\ U # T)
  <2>1. Bad \subseteq SUBSET S
    OBVIOUS
  <2> HIDE DEF Bad
  <2>2. QED
    BY <1>1, <2>1, LeastSet
<1>3. T \subseteq S /\ ~ Splits(T)
  BY <1>2
<1>4. \A U \in SUBSET T : U # T => Splits(U)
  BY <1>2, <1>3
<1> HIDE DEF Bad
<1>5. PICK y \in T : Sum(T) # size[y] + Sum(T \ {y})
  BY <1>3
<1> DEFINE c == Chosen(T)
<1>6. IsFiniteSet(T)
  BY <1>3, FS_Subset
<1>7. c \in T /\ size[c] \in Nat /\ size[y] \in Nat
  BY <1>3, <1>5 DEF Chosen
<1>8. Sum(T) = size[c] + Sum(T \ {c})
  BY <1>5, <1>6, SumUnfolds
<1>9. c # y
  BY <1>5, <1>8
<1>10. Sum(T \ {c}) = size[y] + Sum((T \ {c}) \ {y})
  BY <1>4, <1>5, <1>7, <1>9
<1>11. Sum(T \ {y}) = size[c] + Sum((T \ {y}) \ {c})
  BY <1>4, <1>5, <1>7, <1>9
<1>12. (T \ {y}) \ {c} = (T \ {c}) \ {y}
  OBVIOUS
<1>13. Sum((T \ {c}) \ {y}) \in Nat
  <2>1. IsFiniteSet((T \ {c}) \ {y}) /\ \A z \in (T \ {c}) \ {y} : size[z] \in Nat
    BY <1>3, <1>6, FS_Subset
  <2>2. QED
    BY <2>1, SumIsNat
<1> HIDE DEF Sum, c
<1>14. QED
  BY <1>5, <1>7, <1>8, <1>10, <1>11, <1>12, <1>13

\* The sum of a set and one more element.
LEMMA SumWith ==
    ASSUME NEW size, NEW S, IsFiniteSet(S), \A y \in S : size[y] \in Nat,
           NEW x, x \notin S, size[x] \in Nat
    PROVE  SumFunctionOnSet(size, S \cup {x}) = SumFunctionOnSet(size, S) + size[x]
<1> DEFINE T == S \cup {x}
<1>1. IsFiniteSet(T) /\ x \in T /\ T \ {x} = S /\ \A y \in T : size[y] \in Nat
  BY FS_AddElement
<1>2. SumFunctionOnSet(size, S) \in Nat
  BY SumIsNat
<1>3. SumFunctionOnSet(size, T) = size[x] + SumFunctionOnSet(size, T \ {x})
  <2> HIDE DEF T
  <2>1. QED
    BY <1>1, SumWithout
<1>4. QED
  BY <1>1, <1>2, <1>3

\* A sum is the sum of a part and that of the rest.
LEMMA SumOfParts ==
    ASSUME NEW size, NEW S, IsFiniteSet(S), \A y \in S : size[y] \in Nat,
           NEW P, P \subseteq S
    PROVE  SumFunctionOnSet(size, S) =
             SumFunctionOnSet(size, P) + SumFunctionOnSet(size, S \ P)
<1> DEFINE Sum(T) == SumFunctionOnSet(size, T)
           Bad == {T \in SUBSET S : Sum(S) # Sum(T) + Sum(S \ T)}
<1>1. SUFFICES ASSUME Bad # {} PROVE FALSE
  OBVIOUS
<1>2. PICK T \in Bad : \A U \in Bad : ~ (U \subseteq T /\ U # T)
  <2>1. Bad \subseteq SUBSET S
    OBVIOUS
  <2> HIDE DEF Bad
  <2>2. QED
    BY <1>1, <2>1, LeastSet
<1>3. T \subseteq S /\ Sum(S) # Sum(T) + Sum(S \ T)
  BY <1>2
<1>4. \A U \in SUBSET T : U # T => Sum(S) = Sum(U) + Sum(S \ U)
  BY <1>2, <1>3
<1> HIDE DEF Bad
<1>5. ASSUME NEW U \in SUBSET S
      PROVE  IsFiniteSet(U) /\ (\A y \in U : size[y] \in Nat) /\ Sum(U) \in Nat
  <2>1. IsFiniteSet(U) /\ \A y \in U : size[y] \in Nat
    BY FS_Subset
  <2>2. QED
    BY <2>1, SumIsNat
<1>6. T # {}
  <2>1. SUFFICES ASSUME T = {} PROVE FALSE
    OBVIOUS
  <2>2. S \ T = S /\ Sum(T) = 0 /\ Sum(S) \in Nat
    BY <1>5, <2>1, SumOfNone
  <2>3. QED
    BY <1>3, <2>2
<1>7. PICK x \in T : TRUE
  BY <1>6
<1>8. Sum(S) = Sum(T \ {x}) + Sum(S \ (T \ {x}))
  BY <1>4
<1>9. Sum(T) = size[x] + Sum(T \ {x})
  BY <1>3, <1>5, SumWithout
<1>10. Sum((S \ T) \cup {x}) = Sum(S \ T) + size[x]
  <2>1. x \notin S \ T /\ size[x] \in Nat
    BY <1>3, <1>5
  <2>2. QED
    BY <1>5, <2>1, SumWith
<1>11. (S \ T) \cup {x} = S \ (T \ {x})
  BY <1>3, <1>7
<1>12. Sum(T \ {x}) \in Nat /\ Sum(S \ T) \in Nat /\ size[x] \in Nat
  BY <1>3, <1>5, <1>7
<1>13. Sum(S \ (T \ {x})) = Sum(S \ T) + size[x]
  BY <1>10, <1>11
<1> HIDE DEF Sum
<1>14. QED
  BY <1>3, <1>8, <1>9, <1>12, <1>13

\* A larger set has a sum that is no smaller.
LEMMA SumGrows ==
    ASSUME NEW size, NEW S, IsFiniteSet(S), \A y \in S : size[y] \in Nat,
           NEW P, P \subseteq S
    PROVE  SumFunctionOnSet(size, P) =< SumFunctionOnSet(size, S)
<1>1. IsFiniteSet(P) /\ IsFiniteSet(S \ P)
  BY FS_Subset
<1>2. SumFunctionOnSet(size, P) \in Nat /\ SumFunctionOnSet(size, S \ P) \in Nat
  BY <1>1, SumIsNat
<1>3. QED
  BY <1>2, SumOfParts

-----------------------------------------------------------------------------
(* Folds.                                                                   *)

\* g is the recursive function behind a fold over S: c chooses an element of
\* each set, and F[x] does to what was made of the others what x does to it.
IsFold(F, c, base, S, g) ==
    g = [T \in SUBSET S |-> IF T = {} THEN base ELSE F[c[T]][g[T \ {c[T]}]]]

IsChoice(c, S) == \A T \in SUBSET S : T # {} => c[T] \in T

\* Two such functions agree where both are defined.
LEMMA FoldsAgree ==
    ASSUME NEW F, NEW c, NEW base, NEW A, IsFiniteSet(A), IsChoice(c, A), NEW B, NEW f, NEW g,
           IsFold(F, c, base, A, f), IsFold(F, c, base, B, g),
           NEW T, T \subseteq A, T \subseteq B
    PROVE  f[T] = g[T]
<1> DEFINE Bad == {U \in SUBSET A : U \subseteq B /\ f[U] # g[U]}
<1>1. SUFFICES ASSUME Bad # {} PROVE FALSE
  OBVIOUS
<1>2. PICK U \in Bad : \A V \in Bad : ~ (V \subseteq U /\ V # U)
  <2>1. Bad \subseteq SUBSET A
    OBVIOUS
  <2> HIDE DEF Bad
  <2>2. QED
    BY <1>1, <2>1, LeastSet
<1>3. U \subseteq A /\ U \subseteq B /\ f[U] # g[U]
  BY <1>2
<1>4. /\ f[U] = IF U = {} THEN base ELSE F[c[U]][f[U \ {c[U]}]]
      /\ g[U] = IF U = {} THEN base ELSE F[c[U]][g[U \ {c[U]}]]
  <2> HIDE DEF Bad
  <2>1. QED
    BY <1>3 DEF IsFold
<1>5. U # {}
  BY <1>3, <1>4
<1>6. c[U] \in U
  BY <1>3, <1>5 DEF IsChoice
<1>7. f[U \ {c[U]}] = g[U \ {c[U]}]
  BY <1>2, <1>3, <1>6
<1>8. QED
  BY <1>3, <1>4, <1>5, <1>7

\* There is such a function on the subsets of a finite set.
LEMMA FoldExists ==
    ASSUME NEW F, NEW c, NEW base, NEW S, IsFiniteSet(S), IsChoice(c, S)
    PROVE  \E g : IsFold(F, c, base, S, g)
<1> DEFINE Bad == {T \in SUBSET S : ~ \E g : IsFold(F, c, base, T, g)}
<1>1. SUFFICES ASSUME Bad # {} PROVE FALSE
  OBVIOUS
<1>2. PICK T \in Bad : \A U \in Bad : ~ (U \subseteq T /\ U # T)
  <2>1. Bad \subseteq SUBSET S
    OBVIOUS
  <2> HIDE DEF Bad
  <2>2. QED
    BY <1>1, <2>1, LeastSet
<1>3. T \subseteq S
  BY <1>2
<1> DEFINE h(u) == CHOOSE g : IsFold(F, c, base, u, g)
           rest(s) == s \ {c[s]}
           f == [s \in SUBSET T |-> IF s = {} THEN base ELSE F[c[s]][h(rest(s))[rest(s)]]]
<1>4. ASSUME NEW u, u \subseteq T, u # T
      PROVE  IsFold(F, c, base, u, h(u)) /\ IsFiniteSet(u) /\ IsChoice(c, u)
  <2>1. \E g : IsFold(F, c, base, u, g)
    BY <1>2, <1>3, <1>4
  <2>2. IsFiniteSet(u)
    BY <1>3, <1>4, FS_Subset
  <2>3. IsChoice(c, u)
    BY <1>3, <1>4 DEF IsChoice
  <2>4. QED
    BY <2>1, <2>2, <2>3
<1>5. ASSUME NEW s \in SUBSET T, s # {}
      PROVE  rest(s) \subseteq s /\ rest(s) # s /\ rest(s) # T
  <2>1. c[s] \in s
    BY <1>3, <1>5 DEF IsChoice
  <2>2. QED
    BY <2>1
<1>6. ASSUME NEW u, u \subseteq T, u # T PROVE f[u] = h(u)[u]
  <2>1. h(u)[u] = IF u = {} THEN base ELSE F[c[u]][h(u)[rest(u)]]
    <3>1. IsFold(F, c, base, u, h(u))
      BY <1>4, <1>6
    <3> HIDE DEF h
    <3>2. QED
      BY <1>6, <3>1 DEF IsFold
  <2>2. u # {} => h(u)[rest(u)] = h(rest(u))[rest(u)]
    <3>1. SUFFICES ASSUME u # {} PROVE h(u)[rest(u)] = h(rest(u))[rest(u)]
      OBVIOUS
    <3>2. rest(u) \subseteq u /\ rest(u) # T /\ rest(u) \subseteq T
      BY <1>5, <1>6, <3>1
    <3>3. /\ IsFold(F, c, base, u, h(u)) /\ IsFiniteSet(u) /\ IsChoice(c, u)
          /\ IsFold(F, c, base, rest(u), h(rest(u)))
      BY <1>4, <1>6, <3>2
    <3> HIDE DEF h, rest
    <3>4. QED
      BY <3>2, <3>3, FoldsAgree
  <2>3. f[u] = IF u = {} THEN base ELSE F[c[u]][h(rest(u))[rest(u)]]
    BY <1>6
  <2>4. QED
    BY <2>1, <2>2, <2>3
<1>7. IsFold(F, c, base, T, f)
  <2>1. \A s \in SUBSET T : s # {} => f[rest(s)] = h(rest(s))[rest(s)]
    BY <1>5, <1>6
  <2>2. f = [s \in SUBSET T |-> IF s = {} THEN base ELSE F[c[s]][f[rest(s)]]]
    <3>1. /\ f = [s \in SUBSET T |-> f[s]]
          /\ \A s \in SUBSET T : f[s] = IF s = {} THEN base ELSE F[c[s]][h(rest(s))[rest(s)]]
      OBVIOUS
    <3> HIDE DEF f, h, rest
    <3>2. \A s \in SUBSET T : f[s] = IF s = {} THEN base ELSE F[c[s]][f[rest(s)]]
      BY <2>1, <3>1
    <3>3. QED
      BY <3>1, <3>2
  <2>3. QED
    BY <2>2 DEF IsFold
<1>8. QED
  BY <1>2, <1>7

\* Its values are in a set that the elements map to itself.
LEMMA FoldRange ==
    ASSUME NEW A, NEW F, NEW c, NEW base \in A, NEW S, IsFiniteSet(S), IsChoice(c, S),
           \A x \in S : \A a \in A : F[x][a] \in A,
           NEW g, IsFold(F, c, base, S, g), NEW T, T \subseteq S
    PROVE  g[T] \in A
<1> DEFINE Bad == {U \in SUBSET S : g[U] \notin A}
<1>1. SUFFICES ASSUME Bad # {} PROVE FALSE
  OBVIOUS
<1>2. PICK U \in Bad : \A V \in Bad : ~ (V \subseteq U /\ V # U)
  <2>1. Bad \subseteq SUBSET S
    OBVIOUS
  <2> HIDE DEF Bad
  <2>2. QED
    BY <1>1, <2>1, LeastSet
<1>3. U \subseteq S /\ g[U] \notin A
  BY <1>2
<1>4. g[U] = IF U = {} THEN base ELSE F[c[U]][g[U \ {c[U]}]]
  <2> HIDE DEF Bad
  <2>1. QED
    BY <1>3 DEF IsFold
<1>5. U # {}
  BY <1>3, <1>4
<1>6. c[U] \in U
  BY <1>3, <1>5 DEF IsChoice
<1>7. g[U \ {c[U]}] \in A /\ c[U] \in S
  BY <1>2, <1>3, <1>6
<1>8. QED
  BY <1>3, <1>4, <1>5, <1>7

-----------------------------------------------------------------------------
(* Positions of a sequence.                                                 *)

LEMMA MaxIsLast ==
    ASSUME NEW n \in Nat, NEW T, T \subseteq 1..n, T # {}
    PROVE  Max(T) \in T /\ \A i \in T : i =< Max(T)
<1> DEFINE M == {n - i : i \in T}
<1>1. M \subseteq Nat /\ M # {}
  <2>1. \A i \in T : n - i \in Nat
    OBVIOUS
  <2>2. QED
    BY <2>1
<1>2. PICK m \in M : \A k \in M : m =< k
  <2> HIDE DEF M
  <2>1. QED
    BY <1>1, Least
<1>3. PICK j \in T : m = n - j
  BY <1>2
<1>4. \A i \in T : i \in 1..n /\ n - i \in M
  OBVIOUS
<1>5. j \in T /\ \A i \in T : j >= i
  <2>1. \A i \in T : n - j =< n - i
    BY <1>2, <1>3, <1>4
  <2>2. QED
    BY <1>4, <2>1
<1>6. Max(T) \in T /\ \A i \in T : Max(T) >= i
  BY <1>5 DEF Max
<1>7. QED
  BY <1>4, <1>6

\* The last of the positions up to m.
LEMMA LastPosition ==
    ASSUME NEW m \in Nat, m # 0
    PROVE  1..m # {} /\ Max(1..m) = m /\ (1..m) \ {m} = 1..(m - 1)
<1>1. 1..m # {} /\ m \in 1..m
  OBVIOUS
<1>2. Max(1..m) \in 1..m /\ \A i \in 1..m : i =< Max(1..m)
  BY <1>1, MaxIsLast
<1>3. QED
  BY <1>1, <1>2

\* g is the recursive function behind a fold of n positions from the left, where
\* F[i] is what the element at i does to the members of A.
IsPositionFold(F, base, n, A, g) ==
    /\ g = [T \in SUBSET (1..n) |-> g[T]]
    /\ \A T \in SUBSET (1..n) :
         /\ T # {} => Max(T) \in 1..n /\ g[T \ {Max(T)}] \in A
         /\ g[T] = IF T = {} THEN base ELSE F[Max(T)][g[T \ {Max(T)}]]

LEMMA FoldOfPositions ==
    ASSUME NEW n \in Nat, NEW A, NEW base \in A, NEW F,
           \A i \in 1..n : \A a \in A : F[i][a] \in A
    PROVE  \E g : IsPositionFold(F, base, n, A, g)
<1> DEFINE c == [T \in SUBSET (1..n) |-> Max(T)]
<1>1. IsFiniteSet(1..n)
  BY FS_Interval
<1>2. \A T \in SUBSET (1..n) : c[T] = Max(T) /\ (T # {} => Max(T) \in T)
  BY MaxIsLast
<1>3. IsChoice(c, 1..n)
  BY <1>2 DEF IsChoice
<1> HIDE DEF c
<1>4. PICK g : IsFold(F, c, base, 1..n, g)
  BY <1>1, <1>3, FoldExists
<1>5. \A T \in SUBSET (1..n) : g[T] \in A
  BY <1>1, <1>3, <1>4, FoldRange
<1>6. \A T \in SUBSET (1..n) : g[T] = IF T = {} THEN base ELSE F[c[T]][g[T \ {c[T]}]]
  BY <1>4 DEF IsFold
<1>7. g = [T \in SUBSET (1..n) |-> g[T]]
  BY <1>4 DEF IsFold
<1>8. ASSUME NEW T \in SUBSET (1..n)
      PROVE  /\ T # {} => Max(T) \in 1..n /\ g[T \ {Max(T)}] \in A
             /\ g[T] = IF T = {} THEN base ELSE F[Max(T)][g[T \ {Max(T)}]]
  BY <1>2, <1>5, <1>6
<1>9. IsPositionFold(F, base, n, A, g)
  BY <1>7, <1>8 DEF IsPositionFold
<1>10. QED
  BY <1>9

\* The first of the positions from i.
LEMMA FirstPosition ==
    ASSUME NEW n \in Nat, NEW i \in 1..n
    PROVE  i..n # {} /\ Min(i..n) = i /\ (i..n) \ {i} = (i + 1)..n
<1>1. i..n # {} /\ i \in i..n /\ i..n \subseteq Nat
  OBVIOUS
<1>2. Min(i..n) \in i..n /\ \A j \in i..n : Min(i..n) =< j
  BY <1>1, MinIsLeast
<1>3. QED
  BY <1>1, <1>2

\* g is the recursive function behind a fold of n positions from the right.
IsRightFold(F, base, n, A, g) ==
    /\ g = [T \in SUBSET (1..n) |-> g[T]]
    /\ \A T \in SUBSET (1..n) :
         /\ T # {} => Min(T) \in 1..n /\ g[T \ {Min(T)}] \in A
         /\ g[T] = IF T = {} THEN base ELSE F[Min(T)][g[T \ {Min(T)}]]

LEMMA FoldFromRight ==
    ASSUME NEW n \in Nat, NEW A, NEW base \in A, NEW F,
           \A i \in 1..n : \A a \in A : F[i][a] \in A
    PROVE  \E g : IsRightFold(F, base, n, A, g)
<1> DEFINE c == [T \in SUBSET (1..n) |-> Min(T)]
<1>1. IsFiniteSet(1..n)
  BY FS_Interval
<1>2. \A T \in SUBSET (1..n) : c[T] = Min(T) /\ (T # {} => Min(T) \in T)
  <2>1. 1..n \subseteq Nat
    OBVIOUS
  <2>2. ASSUME NEW T \in SUBSET (1..n), T # {} PROVE Min(T) \in T
    BY <2>1, <2>2, MinIsLeast
  <2>3. QED
    BY <2>2
<1>3. IsChoice(c, 1..n)
  BY <1>2 DEF IsChoice
<1> HIDE DEF c
<1>4. PICK g : IsFold(F, c, base, 1..n, g)
  BY <1>1, <1>3, FoldExists
<1>5. \A T \in SUBSET (1..n) : g[T] \in A
  BY <1>1, <1>3, <1>4, FoldRange
<1>6. \A T \in SUBSET (1..n) : g[T] = IF T = {} THEN base ELSE F[c[T]][g[T \ {c[T]}]]
  BY <1>4 DEF IsFold
<1>7. g = [T \in SUBSET (1..n) |-> g[T]]
  BY <1>4 DEF IsFold
<1>8. ASSUME NEW T \in SUBSET (1..n)
      PROVE  /\ T # {} => Min(T) \in 1..n /\ g[T \ {Min(T)}] \in A
             /\ g[T] = IF T = {} THEN base ELSE F[Min(T)][g[T \ {Min(T)}]]
  BY <1>2, <1>5, <1>6
<1>9. IsRightFold(F, base, n, A, g)
  BY <1>7, <1>8 DEF IsRightFold
<1>10. QED
  BY <1>9

-----------------------------------------------------------------------------
(* Parts of a sequence.                                                     *)

\* Some elements in a row.
LEMMA PartOfSequence ==
    ASSUME NEW S, NEW s \in Seq(S), NEW m \in Nat \ {0}, NEW n \in Nat, n =< Len(s)
    PROVE  SubSeq(s, m, n) \in Seq(S)
<1>1. \A i \in m..n : s[i] \in S
  <2>1. \A i \in m..n : i \in 1..Len(s)
    OBVIOUS
  <2>2. QED
    BY <2>1
<1>2. m \in Int /\ n \in Int
  OBVIOUS
<1>3. QED
  BY <1>1, <1>2, SubSeqProperties

\* All but its last element.
LEMMA AllButLast ==
    ASSUME NEW S, NEW s \in Seq(S), s # <<>>
    PROVE  /\ SubSeq(s, 1, Len(s) - 1) \in Seq(S)
           /\ Len(SubSeq(s, 1, Len(s) - 1)) = Len(s) - 1
           /\ \A i \in 1..(Len(s) - 1) : SubSeq(s, 1, Len(s) - 1)[i] = s[i]
<1> DEFINE n == Len(s) - 1
           t == SubSeq(s, 1, n)
<1>1. Len(s) \in Nat /\ Len(s) # 0 /\ n \in Nat /\ n - 1 + 1 = n
  OBVIOUS
<1>2. \A i \in 1..n : s[i] \in S
  BY <1>1
<1>3. n \in Int /\ 1 \in Int
  BY <1>1
<1> HIDE DEF n
<1>4. /\ t \in Seq(S)
      /\ Len(t) = IF 1 <= n THEN n - 1 + 1 ELSE 0
      /\ \A i \in 1..(n - 1 + 1) : t[i] = s[1 + i - 1]
  BY <1>2, <1>3, SubSeqProperties
<1> HIDE DEF t
<1>5. Len(t) = n /\ \A i \in 1..n : t[i] = s[i]
  BY <1>1, <1>4
<1>6. QED
  BY <1>4, <1>5 DEF t, n

\* Its first elements are a prefix.
LEMMA PartIsPrefix ==
    ASSUME NEW S, NEW s \in Seq(S), NEW j \in 0..Len(s)
    PROVE  IsPrefix(SubSeq(s, 1, j), s)
<1> DEFINE t == SubSeq(s, 1, j)
<1>1. t \in Seq(S) /\ Len(t) = j
  <2>1. j \in Nat /\ j =< Len(s) /\ Len(s) \in Nat
    OBVIOUS
  <2>2. \A i \in 1..j : s[i] \in S
    BY <2>1
  <2>3. Len(t) = IF 1 <= j THEN j - 1 + 1 ELSE 0
    BY <2>1, <2>2, SubSeqProperties
  <2>4. t \in Seq(S)
    BY <2>1, <2>2, SubSeqProperties
  <2> HIDE DEF t
  <2>5. QED
    BY <2>1, <2>3, <2>4
<1>2. SubSeq(t, 1, Len(t)) = t
  <2> HIDE DEF t
  <2>1. QED
    BY <1>1, SubSeqFull
<1>3. QED
  BY <1>1, <1>2 DEF IsPrefix

-----------------------------------------------------------------------------
(* Lists that hold each element once.                                       *)

LEMMA ListDomain ==
    ASSUME NEW S, NEW s \in Seq(S)
    PROVE  /\ Len(s) \in Nat /\ DOMAIN s = 1..Len(s)
           /\ \A i \in 1..Len(s) : s[i] \in S
           /\ s = <<>> <=> Len(s) = 0
           /\ ToSet(s) = {s[i] : i \in 1..Len(s)} /\ ToSet(s) \subseteq S
<1>1. Len(s) \in Nat /\ DOMAIN s = 1..Len(s) /\ \A i \in 1..Len(s) : s[i] \in S
  BY LenProperties
<1>2. s = <<>> <=> Len(s) = 0
  BY EmptySeq
<1>3. QED
  BY <1>1, <1>2 DEF ToSet

LEMMA ListOfItsElements ==
    ASSUME NEW S, NEW s \in Seq(S)
    PROVE  s \in Seq(ToSet(s))
<1>1. Len(s) \in Nat /\ s \in [1..Len(s) -> ToSet(s)]
  BY LenProperties DEF ToSet
<1>2. QED
  BY <1>1, SeqDef

\* A list has finitely many elements, as many as it is long.
LEMMA ListCounts ==
    ASSUME NEW S, NEW s \in Seq(S), IsInjective(s)
    PROVE  IsFiniteSet(ToSet(s)) /\ Cardinality(ToSet(s)) = Len(s)
<1> DEFINE D == 1..Len(s)
<1>1. Len(s) \in Nat /\ DOMAIN s = D /\ s \in [D -> S]
  BY LenProperties
<1>2. s \in Bijection(D, ToSet(s))
  BY <1>1 DEF IsInjective, ToSet, Injection, Surjection, Bijection
<1>3. IsFiniteSet(D) /\ Cardinality(D) = Len(s)
  BY <1>1, FS_Interval
<1>4. QED
  <2> HIDE DEF D
  <2>1. ExistsBijection(D, ToSet(s))
    BY <1>2 DEF ExistsBijection
  <2>2. QED
    BY <1>3, <2>1, FS_Bijection

\* A list made from a finite set holds each of its elements once.
LEMMA ListOfSet ==
    ASSUME NEW S, IsFiniteSet(S), NEW s \in SetToSeqs(S)
    PROVE  s \in Seq(S) /\ ToSet(s) = S /\ IsInjective(s)
<1> DEFINE D == 1..Cardinality(S)
<1>1. s \in [D -> S] /\ IsInjective(s)
  BY DEF SetToSeqs, IsInjective
<1>2. Cardinality(S) \in Nat
  BY FS_CardinalityType
<1>3. IsFiniteSet(D) /\ Cardinality(D) = Cardinality(S)
  BY <1>2, FS_Interval
<1>4. s \in Injection(D, S)
  BY <1>1 DEF Injection
<1>5. s \in Surjection(D, S)
  <2> HIDE DEF D
  <2>1. QED
    BY <1>3, <1>4, FS_Injection
<1>6. s \in Seq(S)
  BY <1>1, <1>2, SeqDef
<1>7. QED
  BY <1>1, <1>5, <1>6 DEF Surjection, ToSet

\* A new element at the end.
LEMMA AppendToList ==
    ASSUME NEW S, NEW s \in Seq(S), IsInjective(s), NEW e, e \notin ToSet(s)
    PROVE  /\ Append(s, e) \in Seq(S \cup {e})
           /\ IsInjective(Append(s, e))
           /\ ToSet(Append(s, e)) = ToSet(s) \cup {e}
<1> DEFINE T == S \cup {e}
           n == Len(s)
           r == Append(s, e)
<1>1. s \in Seq(T)
  BY SeqMonotonic
<1>2. /\ n \in Nat /\ DOMAIN s = 1..n
      /\ \A i \in 1..n : s[i] \in ToSet(s)
  BY ListDomain
<1>3. r \in Seq(T) /\ DOMAIN r = 1..n + 1
  BY <1>1
<1>4. /\ \A i \in 1..n : r[i] = s[i]
      /\ r[n + 1] = e
  BY <1>1, <1>2
<1> HIDE DEF r
<1>5. IsInjective(r)
  <2>1. SUFFICES ASSUME NEW i \in 1..n + 1, NEW j \in 1..n + 1, r[i] = r[j]
                 PROVE  i = j
    BY <1>3 DEF IsInjective
  <2>2. /\ i = n + 1 \/ i \in 1..n
        /\ j = n + 1 \/ j \in 1..n
    BY <1>2
  <2>3. \A l, m \in 1..n : s[l] = s[m] => l = m
    BY <1>2 DEF IsInjective
  <2>4. QED
    BY <1>2, <1>4, <2>1, <2>2, <2>3
<1>6. ToSet(r) = ToSet(s) \cup {e}
  <2>1. ToSet(r) \subseteq ToSet(s) \cup {e}
    BY <1>2, <1>3, <1>4 DEF ToSet
  <2>2. ASSUME NEW x \in ToSet(s) PROVE x \in ToSet(r)
    <3>1. PICK i \in 1..n : s[i] = x
      BY <1>2 DEF ToSet
    <3>2. QED
      BY <1>2, <1>3, <1>4, <3>1 DEF ToSet
  <2>3. e \in ToSet(r)
    BY <1>2, <1>3, <1>4 DEF ToSet
  <2>4. QED
    BY <2>1, <2>2, <2>3
<1>7. QED
  BY <1>3, <1>5, <1>6 DEF r

\* The first k elements, and the others.
LEMMA Prefix ==
    ASSUME NEW S, NEW s \in Seq(S), IsInjective(s), NEW k \in 0..Len(s)
    PROVE  LET a == SubSeq(s, 1, k) IN
           /\ a \in Seq(S) /\ Len(a) = k /\ IsInjective(a)
           /\ ToSet(a) = {s[i] : i \in 1..k}
<1> DEFINE a == SubSeq(s, 1, k)
<1>1. Len(s) \in Nat /\ DOMAIN s = 1..Len(s) /\ k \in Nat /\ k =< Len(s)
  BY ListDomain
<1>2. \A i \in 1..k : s[i] \in S
  BY <1>1, ListDomain
<1>3. /\ a \in Seq(S)
      /\ Len(a) = IF 1 =< k THEN k - 1 + 1 ELSE 0
      /\ \A i \in 1..k - 1 + 1 : a[i] = s[1 + i - 1]
  BY <1>1, <1>2, SubSeqProperties
<1> HIDE DEF a
<1>4. Len(a) = k /\ DOMAIN a = 1..k
  BY <1>1, <1>3, LenProperties
<1>5. \A i \in 1..k : a[i] = s[i]
  <2>1. SUFFICES ASSUME NEW i \in 1..k PROVE a[i] = s[i]
    OBVIOUS
  <2>2. i \in 1..k - 1 + 1 /\ 1 + i - 1 = i
    BY <1>1
  <2>3. QED
    BY <1>3, <2>2
<1>6. IsInjective(a)
  BY <1>1, <1>4, <1>5 DEF IsInjective
<1>7. ToSet(a) = {s[i] : i \in 1..k}
  BY <1>4, <1>5 DEF ToSet
<1>8. QED
  BY <1>3, <1>4, <1>6, <1>7 DEF a

LEMMA Suffix ==
    ASSUME NEW S, NEW s \in Seq(S), IsInjective(s), NEW k \in 0..Len(s)
    PROVE  LET b == SubSeq(s, k + 1, Len(s)) IN
           /\ b \in Seq(S) /\ Len(b) = Len(s) - k /\ IsInjective(b)
           /\ ToSet(b) = {s[i] : i \in k + 1..Len(s)}
<1> DEFINE n == Len(s)
           b == SubSeq(s, k + 1, n)
<1>1. n \in Nat /\ DOMAIN s = 1..n /\ k \in Nat /\ k =< n
  BY ListDomain
<1>2. \A i \in k + 1..n : s[i] \in S
  BY <1>1, ListDomain
<1>3. /\ b \in Seq(S)
      /\ Len(b) = IF k + 1 =< n THEN n - (k + 1) + 1 ELSE 0
      /\ \A i \in 1..n - (k + 1) + 1 : b[i] = s[(k + 1) + i - 1]
  BY <1>1, <1>2, SubSeqProperties
<1> HIDE DEF n, b
<1>4. Len(b) = n - k /\ DOMAIN b = 1..n - k
  <2>1. Len(b) = n - k
    BY <1>1, <1>3
  <2>2. QED
    BY <1>3, <2>1, LenProperties
<1>5. ASSUME NEW i \in 1..n - k PROVE b[i] = s[k + i]
  <2>1. i \in 1..n - (k + 1) + 1 /\ (k + 1) + i - 1 = k + i
    BY <1>1
  <2>2. QED
    BY <1>3, <2>1
<1>6. IsInjective(b)
  <2>1. SUFFICES ASSUME NEW i \in 1..n - k, NEW j \in 1..n - k, b[i] = b[j]
                 PROVE  i = j
    BY <1>4 DEF IsInjective
  <2>2. k + i \in 1..n /\ k + j \in 1..n /\ s[k + i] = s[k + j]
    BY <1>1, <1>5, <2>1
  <2>3. k + i = k + j
    BY <1>1, <2>2 DEF IsInjective
  <2>4. QED
    BY <1>1, <2>3
<1>7. ToSet(b) = {s[i] : i \in k + 1..n}
  <2>1. ToSet(b) = {b[i] : i \in 1..n - k}
    BY <1>4 DEF ToSet
  <2>2. ASSUME NEW i \in 1..n - k PROVE b[i] \in {s[j] : j \in k + 1..n}
    <3>1. k + i \in k + 1..n
      BY <1>1
    <3>2. QED
      BY <1>5, <3>1
  <2>3. ASSUME NEW j \in k + 1..n PROVE s[j] \in {b[i] : i \in 1..n - k}
    <3>1. j - k \in 1..n - k /\ k + (j - k) = j
      BY <1>1
    <3>2. b[j - k] = s[j]
      BY <1>5, <3>1
    <3>3. QED
      BY <3>1, <3>2
  <2>4. QED
    BY <2>1, <2>2, <2>3
<1>8. QED
  BY <1>3, <1>4, <1>6, <1>7 DEF n, b

\* Two lists with nothing in common, one after the other.
LEMMA ConcatLists ==
    ASSUME NEW S, NEW a \in Seq(S), NEW b \in Seq(S), IsInjective(a), IsInjective(b),
           ToSet(a) \cap ToSet(b) = {}
    PROVE  /\ a \o b \in Seq(S)
           /\ IsInjective(a \o b)
           /\ ToSet(a \o b) = ToSet(a) \cup ToSet(b)
<1> DEFINE m == Len(a)
           n == Len(b)
           r == a \o b
<1>1. /\ m \in Nat /\ DOMAIN a = 1..m /\ \A i \in 1..m : a[i] \in ToSet(a)
      /\ n \in Nat /\ DOMAIN b = 1..n /\ \A i \in 1..n : b[i] \in ToSet(b)
  BY ListDomain
<1>2. /\ r \in Seq(S) /\ Len(r) = m + n
      /\ \A i \in 1..m + n : r[i] = IF i =< m THEN a[i] ELSE b[i - m]
  BY ConcatProperties
<1>3. DOMAIN r = 1..m + n
  <2> HIDE DEF m, n, r
  <2>1. QED
    BY <1>2, LenProperties
<1> HIDE DEF m, n, r
<1>4. /\ \A i \in 1..m : i \in 1..m + n /\ r[i] = a[i]
      /\ \A i \in 1..m + n : i \notin 1..m => i - m \in 1..n /\ r[i] = b[i - m]
  BY <1>1, <1>2
<1>5. ASSUME NEW i \in 1..n PROVE m + i \in 1..m + n /\ r[m + i] = b[i]
  <2>1. m + i \in 1..m + n /\ ~ (m + i =< m) /\ (m + i) - m = i
    BY <1>1
  <2>2. QED
    BY <1>2, <2>1
<1>6. IsInjective(r)
  <2>1. SUFFICES ASSUME NEW i \in 1..m + n, NEW j \in 1..m + n, r[i] = r[j]
                 PROVE  i = j
    BY <1>3 DEF IsInjective
  <2>2. CASE i \in 1..m /\ j \in 1..m
    BY <1>1, <1>4, <2>1, <2>2 DEF IsInjective
  <2>3. CASE i \notin 1..m /\ j \notin 1..m
    <3>1. i - m \in 1..n /\ j - m \in 1..n /\ b[i - m] = b[j - m]
      BY <1>4, <2>1, <2>3
    <3>2. i - m = j - m
      BY <1>1, <3>1 DEF IsInjective
    <3>3. QED
      BY <1>1, <3>2
  <2>4. CASE i \in 1..m /\ j \notin 1..m
    BY <1>1, <1>4, <2>1, <2>4
  <2>5. CASE i \notin 1..m /\ j \in 1..m
    BY <1>1, <1>4, <2>1, <2>5
  <2>6. QED
    BY <2>2, <2>3, <2>4, <2>5
<1>7. ToSet(r) = ToSet(a) \cup ToSet(b)
  <2>1. ToSet(r) \subseteq ToSet(a) \cup ToSet(b)
    BY <1>1, <1>3, <1>4 DEF ToSet
  <2>2. ToSet(a) \subseteq ToSet(r)
    <3>1. \A i \in 1..m : a[i] \in ToSet(r)
      BY <1>3, <1>4 DEF ToSet
    <3>2. ToSet(a) = {a[i] : i \in 1..m}
      BY <1>1 DEF ToSet
    <3>3. QED
      BY <3>1, <3>2
  <2>3. ToSet(b) \subseteq ToSet(r)
    BY <1>1, <1>3, <1>5 DEF ToSet
  <2>4. QED
    BY <2>1, <2>2, <2>3
<1>8. QED
  BY <1>2, <1>6, <1>7 DEF r

\* A list cut in two.
LEMMA CutList ==
    ASSUME NEW S, NEW s \in Seq(S), IsInjective(s), NEW k \in 0..Len(s)
    PROVE  LET a == SubSeq(s, 1, k)
               b == SubSeq(s, k + 1, Len(s)) IN
           /\ b \in Seq(S) /\ IsInjective(b)
           /\ ToSet(a) \cup ToSet(b) = ToSet(s) /\ ToSet(a) \cap ToSet(b) = {}
           /\ ToSet(b) # {} <=> k < Len(s)
<1> DEFINE n == Len(s)
           a == SubSeq(s, 1, k)
           b == SubSeq(s, k + 1, n)
<1>1. /\ n \in Nat /\ DOMAIN s = 1..n /\ k \in Nat /\ k =< n
      /\ ToSet(s) = {s[i] : i \in 1..n}
  BY ListDomain
<1>2. ToSet(a) = {s[i] : i \in 1..k}
  BY Prefix
<1>3. b \in Seq(S) /\ IsInjective(b) /\ ToSet(b) = {s[i] : i \in k + 1..n}
  BY Suffix
<1> HIDE DEF n, a, b
<1>4. /\ \A i \in 1..k : i \in 1..n
      /\ \A i \in k + 1..n : i \in 1..n /\ i \notin 1..k
      /\ \A i \in 1..n : i \in 1..k \/ i \in k + 1..n
  BY <1>1
<1>5. ToSet(a) \cup ToSet(b) = ToSet(s)
  BY <1>1, <1>2, <1>3, <1>4
<1>6. ToSet(a) \cap ToSet(b) = {}
  BY <1>1, <1>2, <1>3, <1>4 DEF IsInjective
<1>7. ToSet(b) # {} <=> k < n
  <2>1. k < n => k + 1 \in k + 1..n
    BY <1>1
  <2>2. \A i \in k + 1..n : k < n
    BY <1>1
  <2>3. QED
    BY <1>3, <2>1, <2>2
<1>8. QED
  BY <1>3, <1>5, <1>6, <1>7 DEF n, a, b

\* Without its first element.
LEMMA TailOfList ==
    ASSUME NEW S, NEW s \in Seq(S), IsInjective(s), s # <<>>
    PROVE  Tail(s) \in Seq(S) /\ IsInjective(Tail(s)) /\ ToSet(Tail(s)) \subseteq ToSet(s)
<1>1. Len(s) \in Nat /\ Len(s) # 0
  BY ListDomain
<1>2. 1 \in 0..Len(s)
  BY <1>1
<1> DEFINE b == SubSeq(s, 1 + 1, Len(s))
<1>3. b \in Seq(S) /\ IsInjective(b) /\ ToSet(b) \subseteq ToSet(s)
  BY <1>2, CutList
<1>4. Tail(s) = b
  BY TailIsSubSeq
<1>5. QED
  BY <1>3, <1>4

\* Without one element, wherever it is.
LEMMA RemoveFromList ==
    ASSUME NEW S, NEW s \in Seq(S), IsInjective(s), NEW e \in ToSet(s)
    PROVE  /\ RemoveFirst(s, e) \in Seq(S)
           /\ IsInjective(RemoveFirst(s, e))
           /\ ToSet(RemoveFirst(s, e)) = ToSet(s) \ {e}
<1> DEFINE n == Len(s)
<1>1. n \in Nat /\ DOMAIN s = 1..n /\ ToSet(s) = {s[i] : i \in 1..n}
  BY ListDomain
<1>2. PICK k \in 1..n : s[k] = e
  BY <1>1
<1>3. \A i, j \in 1..n : s[i] = s[j] => i = j
  BY <1>1 DEF IsInjective
<1> DEFINE a == SubSeq(s, 1, k - 1)
           b == SubSeq(s, k + 1, n)
<1>4. SelectInSeq(s, LAMBDA v : v = e) = k
  <2>1. {i \in 1..n : s[i] = e} = {k}
    BY <1>2, <1>3
  <2>2. Min({k}) = k
    BY DEF Min
  <2>3. QED
    BY <2>1, <2>2 DEF SelectInSeq
<1>5. RemoveFirst(s, e) = a \o b
  BY <1>2, <1>4 DEF RemoveFirst, RemoveAt
<1>6. k - 1 \in 0..n /\ k \in 0..n
  BY <1>1
<1>7. a \in Seq(S) /\ IsInjective(a) /\ ToSet(a) = {s[i] : i \in 1..k - 1}
  BY <1>6, Prefix
<1>8. b \in Seq(S) /\ IsInjective(b) /\ ToSet(b) = {s[i] : i \in k + 1..n}
  BY <1>6, Suffix
<1>9. /\ \A i \in 1..k - 1 : i \in 1..n /\ i # k
      /\ \A i \in k + 1..n : i \in 1..n /\ i # k /\ i \notin 1..k - 1
      /\ \A i \in 1..n : i = k \/ i \in 1..k - 1 \/ i \in k + 1..n
  BY <1>1
<1> HIDE DEF n, a, b
<1>10. ToSet(a) \cap ToSet(b) = {}
  BY <1>3, <1>7, <1>8, <1>9
<1>11. ToSet(a) \cup ToSet(b) = ToSet(s) \ {e}
  BY <1>1, <1>2, <1>3, <1>7, <1>8, <1>9
<1>12. /\ a \o b \in Seq(S) /\ IsInjective(a \o b)
       /\ ToSet(a \o b) = ToSet(a) \cup ToSet(b)
  <2>1. a \in Seq(S) /\ b \in Seq(S) /\ IsInjective(a) /\ IsInjective(b)
    BY <1>7, <1>8
  <2>2. QED
    BY <2>1, <1>10, ConcatLists
<1>13. QED
  BY <1>5, <1>11, <1>12

=============================================================================
