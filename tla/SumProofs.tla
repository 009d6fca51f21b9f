------------------------------ MODULE SumProofs ------------------------------
(***************************************************************************)
(* Recursive functions and sums over finite sets.  A function that is      *)
(* defined along a text or a list of lines exists, which is what a proof   *)
(* must know before it can unfold one (RecursionExists).  A sum, by which  *)
(* the models total the rows of a table, is a fold over a set, that is a   *)
(* recursive function on its subsets: there is such a function, and only   *)
(* one.  In each induction the claim fails for a number or a set and for   *)
(* nothing below it, and that is led to a contradiction.                   *)
(***************************************************************************)
EXTENDS Integers, FiniteSets, Functions, FiniteSetTheorems, WellFoundedInduction, TLAPS

Chosen(S) == CHOOSE x \in S : TRUE

\* The function on the subsets of D by which f is summed.
Tabulates(sum, f, D) ==
    sum = [S \in SUBSET D |-> IF S = {} THEN 0 ELSE f[Chosen(S)] + sum[S \ {Chosen(S)}]]

\* Of the subsets of a finite set that are in Failing, one is smallest.
LEMMA SmallestSet ==
    ASSUME NEW D, IsFiniteSet(D), NEW Failing, Failing \subseteq SUBSET D, Failing # {}
    PROVE  \E S \in Failing : \A U \in Failing : U \subseteq S => U = S
<1>1. IsWellFoundedOn(StrictSubsetOrdering(D), SUBSET D)
  BY FS_StrictSubsetOrderingWellFounded, FS_FiniteSubsetsOfFinite
<1>2. PICK S \in Failing : \A U \in Failing : ~ (<<U, S>> \in StrictSubsetOrdering(D))
  BY <1>1, WFMin
<1>3. ASSUME NEW U \in Failing, U \subseteq S
      PROVE  U = S
  BY <1>2, <1>3 DEF StrictSubsetOrdering
<1> QED BY <1>3

\* Of a set of numbers, one is least.
LEMMA SmallestNumber ==
    ASSUME NEW S, S \subseteq Nat, S # {}
    PROVE  \E n \in S : \A m \in S : n <= m
<1>1. PICK k \in S : TRUE
  OBVIOUS
<1> DEFINE D == 0..k
           Failing == {0..m : m \in {m \in S : m <= k}}
<1>2. PICK U \in Failing : \A W \in Failing : W \subseteq U => W = U
  <2>1. IsFiniteSet(D)
    BY FS_Interval
  <2>2. Failing \subseteq SUBSET D
    OBVIOUS
  <2>3. Failing # {}
    OBVIOUS
  <2> HIDE DEF Failing, D
  <2> QED BY <2>1, <2>2, <2>3, SmallestSet
<1>3. PICK n \in S : n <= k /\ U = 0..n
  OBVIOUS
<1>4. ASSUME NEW m \in S, m < n
      PROVE  FALSE
  <2>1. 0..m \in Failing /\ 0..m \subseteq U
    BY <1>3, <1>4
  <2>2. 0..m = 0..n
    BY <1>2, <1>3, <2>1
  <2>3. n \in 0..m
    BY <2>2
  <2> QED BY <1>4, <2>3
<1>5. \A m \in S : n <= m
  BY <1>4
<1> QED BY <1>5

\* Induction, for the numbers up to n.
LEMMA NumbersUpTo ==
    ASSUME NEW n \in Nat, NEW Good, 0 \in Good, \A i \in 1..n : i - 1 \in Good => i \in Good
    PROVE  \A i \in 0..n : i \in Good
<1> DEFINE Failing == (0..n) \ Good
<1>1. ASSUME Failing # {}
      PROVE  FALSE
  <2>1. PICK m \in Failing : \A k \in Failing : m <= k
    <3>1. Failing \subseteq Nat
      OBVIOUS
    <3> HIDE DEF Failing
    <3> QED BY <1>1, <3>1, SmallestNumber
  <2>2. m \in 1..n /\ m \notin Good
    OBVIOUS
  <2>3. m - 1 \in 0..n /\ ~ (m <= m - 1)
    BY <2>2
  <2>4. m - 1 \in Good
    BY <2>1, <2>3
  <2> QED BY <2>2, <2>4
<1> QED BY <1>1

\* f begins with the base, and each of its values follows from the one before.
Recurs(f, n, V, base, step) ==
    /\ f \in [0..n -> V] /\ f[0] = base
    /\ \A i \in 1..n : f[i] = step[<<i, f[i - 1]>>]

\* There is such a function.
LEMMA RecursionExists ==
    ASSUME NEW n \in Nat, NEW V, NEW base \in V, NEW step \in [(1..n) \X V -> V]
    PROVE  \E f : Recurs(f, n, V, base, step)
<1> DEFINE Runs(f, m) == Recurs(f, m, V, base, step)
           Failing == {m \in 0..n : ~ \E f : Runs(f, m)}
<1> SUFFICES ASSUME ~ \E f : Runs(f, n) PROVE FALSE
  OBVIOUS
<1>1. PICK m \in Failing : \A k \in Failing : m <= k
  <2>1. Failing \subseteq Nat /\ n \in Failing
    OBVIOUS
  <2> HIDE DEF Failing
  <2> QED BY <2>1, SmallestNumber
<1>2. CASE m = 0
  <2>1. Runs([i \in 0..0 |-> base], 0)
    BY DEF Recurs
  <2> QED BY <1>2, <2>1
<1>3. CASE m # 0
  <2>1. m - 1 \in 0..n /\ m - 1 \notin Failing
    <3>1. m \in 1..n
      BY <1>3
    <3> HIDE DEF Failing
    <3> QED BY <1>1, <3>1
  <2>2. PICK f : Runs(f, m - 1)
    BY <2>1
  <2> DEFINE g == [i \in 0..m |-> IF i = m THEN step[<<m, f[m - 1]>>] ELSE f[i]]
  <2>3. f[m - 1] \in V /\ m \in 1..n
    BY <1>3, <2>2 DEF Recurs
  <2>4. step[<<m, f[m - 1]>>] \in V
    BY <2>3
  <2>5. g \in [0..m -> V] /\ g[0] = base
    BY <1>3, <2>2, <2>4 DEF Recurs
  <2>6. ASSUME NEW i \in 1..m
        PROVE  g[i] = step[<<i, g[i - 1]>>]
    <3>1. i - 1 \in 0..m /\ i - 1 # m
      OBVIOUS
    <3>2. g[i - 1] = f[i - 1]
      BY <3>1
    <3>3. CASE i = m
      <4>1. g[m] = step[<<m, f[m - 1]>>] /\ g[m - 1] = f[m - 1]
        BY <3>2, <3>3
      <4> HIDE DEF g
      <4> QED BY <3>3, <4>1
    <3>4. CASE i # m
      BY <2>2, <3>2, <3>4 DEF Recurs
    <3> QED BY <3>3, <3>4
  <2>7. Runs(g, m)
    BY <2>5, <2>6 DEF Recurs
  <2> QED BY <2>7
<1> QED BY <1>2, <1>3

\* An element that is chosen is one of the set.
LEMMA ChosenIsIn ==
    ASSUME NEW S, S # {}
    PROVE  Chosen(S) \in S
BY DEF Chosen

\* Two tables agree where the functions they sum do.
LEMMA TablesAgree ==
    ASSUME NEW D, IsFiniteSet(D), NEW C, D \subseteq C, NEW f, NEW g, \A x \in D : f[x] = g[x],
           NEW sum, Tabulates(sum, f, D), NEW tum, Tabulates(tum, g, C)
    PROVE  \A S \in SUBSET D : sum[S] = tum[S]
<1> DEFINE Failing == {S \in SUBSET D : sum[S] # tum[S]}
<1> SUFFICES ASSUME Failing # {} PROVE FALSE
  OBVIOUS
<1>1. PICK S \in Failing : \A U \in Failing : U \subseteq S => U = S
  <2>1. Failing \subseteq SUBSET D
    OBVIOUS
  <2> HIDE DEF Failing
  <2> QED BY <2>1, SmallestSet
<1>2. S \in SUBSET D /\ S \in SUBSET C
  OBVIOUS
<1>3. /\ sum[S] = (IF S = {} THEN 0 ELSE f[Chosen(S)] + sum[S \ {Chosen(S)}])
      /\ tum[S] = (IF S = {} THEN 0 ELSE g[Chosen(S)] + tum[S \ {Chosen(S)}])
  BY <1>2 DEF Tabulates
<1>4. S # {}
  BY <1>3
<1>5. Chosen(S) \in S
  BY <1>4, ChosenIsIn
<1>6. S \ {Chosen(S)} \notin Failing
  BY <1>1, <1>5
<1>7. sum[S \ {Chosen(S)}] = tum[S \ {Chosen(S)}]
  BY <1>6
<1>8. f[Chosen(S)] = g[Chosen(S)]
  BY <1>5
<1> QED BY <1>3, <1>7, <1>8

\* There is a table for every finite set.
LEMMA TableExists ==
    ASSUME NEW f, NEW D, IsFiniteSet(D)
    PROVE  \E sum : Tabulates(sum, f, D)
<1> DEFINE Failing == {S \in SUBSET D : ~ \E sum : Tabulates(sum, f, S)}
<1> SUFFICES ASSUME Failing # {} PROVE FALSE
  OBVIOUS
<1>1. PICK S \in Failing : \A U \in Failing : U \subseteq S => U = S
  <2>1. Failing \subseteq SUBSET D
    OBVIOUS
  <2> HIDE DEF Failing
  <2> QED BY <2>1, SmallestSet
<1> DEFINE Table(U) == CHOOSE sum : Tabulates(sum, f, U)
           Last == IF S = {} THEN 0 ELSE f[Chosen(S)] + Table(S \ {Chosen(S)})[S \ {Chosen(S)}]
           table == [U \in SUBSET S |-> IF U = S THEN Last ELSE Table(U)[U]]
<1>2. ASSUME NEW U \in SUBSET S, U # S
      PROVE  Tabulates(Table(U), f, U)
  <2>1. U \notin Failing
    BY <1>1, <1>2
  <2> QED BY <2>1
<1> HIDE DEF Table
<1>3. ASSUME NEW U \in SUBSET S
      PROVE  table[U] = IF U = {} THEN 0 ELSE f[Chosen(U)] + table[U \ {Chosen(U)}]
  <2>1. CASE U = {}
    <3>1. CASE U = S
      BY <2>1, <3>1
    <3>2. CASE U # S
      BY <1>2, <2>1, <3>2 DEF Tabulates
    <3> QED BY <3>1, <3>2
  <2>2. CASE U # {}
    <3> DEFINE R == U \ {Chosen(U)}
    <3>1. Chosen(U) \in U
      BY <2>2, ChosenIsIn
    <3>2. R \in SUBSET S /\ R # S /\ R \in SUBSET U
      BY <3>1
    <3>3. table[R] = Table(R)[R]
      BY <3>2
    <3>4. CASE U = S
      BY <2>2, <3>3, <3>4
    <3>5. CASE U # S
      <4>1. Tabulates(Table(U), f, U) /\ Tabulates(Table(R), f, R)
        BY <1>2, <3>2, <3>5
      <4>2. Table(U)[U] = f[Chosen(U)] + Table(U)[R]
        BY <4>1, <2>2 DEF Tabulates
      <4>3. IsFiniteSet(R)
        BY <3>2, FS_Subset
      <4>4. Table(R)[R] = Table(U)[R]
        <5> HIDE DEF R, table
        <5>1. \A V \in SUBSET R : Table(R)[V] = Table(U)[V]
          BY <4>1, <4>3, <3>2, TablesAgree
        <5> QED BY <5>1
      <4> QED BY <2>2, <3>3, <3>5, <4>2, <4>4
    <3> QED BY <3>4, <3>5
  <2> QED BY <2>1, <2>2
<1>4. table = [U \in SUBSET S |-> table[U]]
  OBVIOUS
<1>5. Tabulates(table, f, S)
  BY <1>3, <1>4 DEF Tabulates
<1> QED BY <1>5

\* A sum is the last entry of its table.
LEMMA SumIsTabulated ==
    ASSUME NEW f, NEW D, IsFiniteSet(D)
    PROVE  \E sum : Tabulates(sum, f, D) /\ SumFunctionOnSet(f, D) = sum[D]
<1> DEFINE table == CHOOSE sum : sum = [S \in SUBSET D |->
             IF S = {} THEN 0
             ELSE f[CHOOSE x \in S : TRUE] + sum[S \ {CHOOSE x \in S : TRUE}]]
<1>1. SumFunctionOnSet(f, D) = table[D]
  BY DEF SumFunctionOnSet, FoldFunctionOnSet, MapThenFoldSet
<1>2. Tabulates(table, f, D)
  <2>1. \E sum : Tabulates(sum, f, D)
    BY TableExists
  <2> QED BY <2>1 DEF Tabulates, Chosen
<1> QED BY <1>1, <1>2

-------------------------------------------------------------------------------

\* Nothing adds up to nothing.
LEMMA SumOfNone ==
    ASSUME NEW f
    PROVE  SumFunctionOnSet(f, {}) = 0
<1>1. IsFiniteSet({})
  BY FS_EmptySet
<1>2. PICK sum : Tabulates(sum, f, {}) /\ SumFunctionOnSet(f, {}) = sum[{}]
  BY <1>1, SumIsTabulated
<1>3. {} \in SUBSET {}
  OBVIOUS
<1> QED
  BY <1>2, <1>3 DEF Tabulates

\* Functions that agree on a set have the same sum over it.
LEMMA SumOfSame ==
    ASSUME NEW D, IsFiniteSet(D), NEW f, NEW g, \A x \in D : f[x] = g[x]
    PROVE  SumFunctionOnSet(f, D) = SumFunctionOnSet(g, D)
<1>1. PICK sum : Tabulates(sum, f, D) /\ SumFunctionOnSet(f, D) = sum[D]
  BY SumIsTabulated
<1>2. PICK tum : Tabulates(tum, g, D) /\ SumFunctionOnSet(g, D) = tum[D]
  BY SumIsTabulated
<1>3. \A S \in SUBSET D : sum[S] = tum[S]
  BY <1>1, <1>2, TablesAgree
<1> QED BY <1>1, <1>2, <1>3

\* A sum takes the element chosen first and goes on with the others.
LEMMA SumTakesChosen ==
    ASSUME NEW f, NEW D, IsFiniteSet(D), D # {}
    PROVE  SumFunctionOnSet(f, D) = f[Chosen(D)] + SumFunctionOnSet(f, D \ {Chosen(D)})
<1> DEFINE R == D \ {Chosen(D)}
<1>1. PICK sum : Tabulates(sum, f, D) /\ SumFunctionOnSet(f, D) = sum[D]
  BY SumIsTabulated
<1>2. IsFiniteSet(R)
  BY FS_RemoveElement
<1>3. PICK tum : Tabulates(tum, f, R) /\ SumFunctionOnSet(f, R) = tum[R]
  BY <1>2, SumIsTabulated
<1>4. tum[R] = sum[R]
  BY <1>1, <1>2, <1>3, TablesAgree
<1> QED BY <1>1, <1>3, <1>4 DEF Tabulates

\* Integers add up to an integer.
LEMMA SumIsInt ==
    ASSUME NEW f, NEW D, IsFiniteSet(D), \A x \in D : f[x] \in Int
    PROVE  SumFunctionOnSet(f, D) \in Int
<1> DEFINE Failing == {S \in SUBSET D : SumFunctionOnSet(f, S) \notin Int}
<1> SUFFICES ASSUME Failing # {} PROVE FALSE
  OBVIOUS
<1>1. PICK S \in Failing : \A U \in Failing : U \subseteq S => U = S
  <2>1. Failing \subseteq SUBSET D
    OBVIOUS
  <2> HIDE DEF Failing
  <2> QED BY <2>1, SmallestSet
<1>2. S # {}
  BY SumOfNone
<1>3. Chosen(S) \in S
  BY <1>2, ChosenIsIn
<1>4. S \ {Chosen(S)} \notin Failing
  BY <1>1, <1>3
<1>5. IsFiniteSet(S)
  BY FS_Subset
<1>6. SumFunctionOnSet(f, S) = f[Chosen(S)] + SumFunctionOnSet(f, S \ {Chosen(S)})
  BY <1>2, <1>5, SumTakesChosen
<1>7. SumFunctionOnSet(f, S \ {Chosen(S)}) \in Int /\ f[Chosen(S)] \in Int
  BY <1>3, <1>4
<1>8. SumFunctionOnSet(f, S) \in Int
  BY <1>6, <1>7
<1> QED BY <1>8

\* Natural numbers add up to a natural number.
LEMMA SumIsNat ==
    ASSUME NEW f, NEW D, IsFiniteSet(D), \A x \in D : f[x] \in Nat
    PROVE  SumFunctionOnSet(f, D) \in Nat
<1> DEFINE Failing == {S \in SUBSET D : SumFunctionOnSet(f, S) \notin Nat}
<1> SUFFICES ASSUME Failing # {} PROVE FALSE
  OBVIOUS
<1>1. PICK S \in Failing : \A U \in Failing : U \subseteq S => U = S
  <2>1. Failing \subseteq SUBSET D
    OBVIOUS
  <2> HIDE DEF Failing
  <2> QED BY <2>1, SmallestSet
<1>2. S # {}
  BY SumOfNone
<1>3. Chosen(S) \in S
  BY <1>2, ChosenIsIn
<1>4. S \ {Chosen(S)} \notin Failing
  BY <1>1, <1>3
<1>5. IsFiniteSet(S)
  BY FS_Subset
<1>6. SumFunctionOnSet(f, S) = f[Chosen(S)] + SumFunctionOnSet(f, S \ {Chosen(S)})
  BY <1>2, <1>5, SumTakesChosen
<1>7. SumFunctionOnSet(f, S \ {Chosen(S)}) \in Nat /\ f[Chosen(S)] \in Nat
  BY <1>3, <1>4
<1>8. SumFunctionOnSet(f, S) \in Nat
  BY <1>6, <1>7
<1> QED BY <1>8

\* A sum may take any of its elements out first.
LEMMA SumTakes ==
    ASSUME NEW f, NEW D, IsFiniteSet(D), \A x \in D : f[x] \in Int, NEW a \in D
    PROVE  SumFunctionOnSet(f, D) = f[a] + SumFunctionOnSet(f, D \ {a})
<1> DEFINE Failing ==
        {S \in SUBSET D : \E x \in S :
            SumFunctionOnSet(f, S) # f[x] + SumFunctionOnSet(f, S \ {x})}
<1> SUFFICES ASSUME Failing # {} PROVE FALSE
  OBVIOUS
<1>1. PICK S \in Failing : \A U \in Failing : U \subseteq S => U = S
  <2>1. Failing \subseteq SUBSET D
    OBVIOUS
  <2> HIDE DEF Failing
  <2> QED BY <2>1, SmallestSet
<1>2. PICK x \in S : SumFunctionOnSet(f, S) # f[x] + SumFunctionOnSet(f, S \ {x})
  OBVIOUS
<1> DEFINE c == Chosen(S)
<1>3. c \in S
  BY <1>2, ChosenIsIn
<1>4. /\ IsFiniteSet(S)
      /\ IsFiniteSet(S \ {x})
      /\ IsFiniteSet(S \ {c})
      /\ IsFiniteSet((S \ {c}) \ {x})
  BY FS_Subset
<1>5. SumFunctionOnSet(f, S) = f[c] + SumFunctionOnSet(f, S \ {c})
  BY <1>2, <1>4, SumTakesChosen
<1> HIDE DEF c
<1>6. c # x
  BY <1>2, <1>5
<1>7. S \ {c} \notin Failing /\ S \ {x} \notin Failing
  BY <1>1, <1>2, <1>3
<1>8. /\ SumFunctionOnSet(f, S \ {c}) = f[x] + SumFunctionOnSet(f, (S \ {c}) \ {x})
      /\ SumFunctionOnSet(f, S \ {x}) = f[c] + SumFunctionOnSet(f, (S \ {x}) \ {c})
  BY <1>3, <1>6, <1>7
<1>9. (S \ {x}) \ {c} = (S \ {c}) \ {x}
  OBVIOUS
<1>10. f[x] \in Int /\ f[c] \in Int
  BY <1>3
<1>11. SumFunctionOnSet(f, (S \ {c}) \ {x}) \in Int
  <2>1. \A y \in (S \ {c}) \ {x} : f[y] \in Int
    OBVIOUS
  <2> QED BY <1>4, <2>1, SumIsInt
<1>12. SumFunctionOnSet(f, S) = f[x] + SumFunctionOnSet(f, S \ {x})
  <2> DEFINE rest == SumFunctionOnSet(f, (S \ {c}) \ {x})
  <2>1. SumFunctionOnSet(f, S) = f[c] + (f[x] + rest)
    BY <1>5, <1>8
  <2>2. SumFunctionOnSet(f, S \ {x}) = f[c] + rest
    BY <1>8, <1>9
  <2>3. rest \in Int
    BY <1>11
  <2> HIDE DEF rest
  <2>4. f[c] + (f[x] + rest) = f[x] + (f[c] + rest)
    BY <1>10, <2>3
  <2> QED BY <2>1, <2>2, <2>4
<1> QED BY <1>2, <1>12

\* One more element adds its value.
LEMMA SumAdds ==
    ASSUME NEW f, NEW D, IsFiniteSet(D), NEW a, a \notin D, \A x \in D \cup {a} : f[x] \in Int
    PROVE  SumFunctionOnSet(f, D \cup {a}) = f[a] + SumFunctionOnSet(f, D)
<1>1. IsFiniteSet(D \cup {a})
  BY FS_AddElement
<1>2. (D \cup {a}) \ {a} = D
  OBVIOUS
<1>3. SumFunctionOnSet(f, D \cup {a}) = f[a] + SumFunctionOnSet(f, (D \cup {a}) \ {a})
  <2> DEFINE E == D \cup {a}
  <2>1. a \in E /\ \A x \in E : f[x] \in Int
    OBVIOUS
  <2> HIDE DEF E
  <2>2. SumFunctionOnSet(f, E) = f[a] + SumFunctionOnSet(f, E \ {a})
    BY <1>1, <2>1, SumTakes DEF E
  <2> QED BY <2>2 DEF E
<1> QED BY <1>2, <1>3

\* The sum over two sets that share nothing is the sum of their sums.
LEMMA SumOfUnion ==
    ASSUME NEW f, NEW C, IsFiniteSet(C), NEW D, IsFiniteSet(D), C \cap D = {},
           \A x \in C \cup D : f[x] \in Int
    PROVE  SumFunctionOnSet(f, C \cup D) = SumFunctionOnSet(f, C) + SumFunctionOnSet(f, D)
<1> DEFINE Failing ==
        {S \in SUBSET D :
            SumFunctionOnSet(f, C \cup S) # SumFunctionOnSet(f, C) + SumFunctionOnSet(f, S)}
<1> SUFFICES ASSUME Failing # {} PROVE FALSE
  OBVIOUS
<1>1. PICK S \in Failing : \A U \in Failing : U \subseteq S => U = S
  <2>1. Failing \subseteq SUBSET D
    OBVIOUS
  <2> HIDE DEF Failing
  <2> QED BY <2>1, SmallestSet
<1>2. SumFunctionOnSet(f, C) \in Int
  BY SumIsInt
<1>3. S # {}
  <2>1. C \cup {} = C
    OBVIOUS
  <2> QED BY <1>2, <2>1, SumOfNone
<1>4. PICK a \in S : TRUE
  BY <1>3
<1> DEFINE R == S \ {a}
<1>5. /\ IsFiniteSet(R) /\ a \notin R /\ S = R \cup {a}
      /\ \A x \in R \cup {a} : f[x] \in Int
      /\ f[a] \in Int
  BY FS_Subset
<1>6. R \notin Failing /\ R \in SUBSET D
  BY <1>1
<1>7. SumFunctionOnSet(f, C \cup R) = SumFunctionOnSet(f, C) + SumFunctionOnSet(f, R)
  BY <1>6
<1>8. /\ IsFiniteSet(C \cup R) /\ a \notin C \cup R /\ C \cup S = (C \cup R) \cup {a}
      /\ \A x \in (C \cup R) \cup {a} : f[x] \in Int
  BY <1>5, FS_Union
<1> HIDE DEF R, Failing
<1>9. SumFunctionOnSet(f, S) = f[a] + SumFunctionOnSet(f, R)
  BY <1>5, SumAdds
<1>10. SumFunctionOnSet(f, C \cup S) = f[a] + SumFunctionOnSet(f, C \cup R)
  <2> DEFINE E == C \cup R
  <2>1. IsFiniteSet(E) /\ a \notin E /\ C \cup S = E \cup {a} /\ \A x \in E \cup {a} : f[x] \in Int
    BY <1>8
  <2> HIDE DEF E
  <2>2. SumFunctionOnSet(f, E \cup {a}) = f[a] + SumFunctionOnSet(f, E)
    BY <2>1, SumAdds
  <2> QED BY <2>1, <2>2 DEF E
<1>11. SumFunctionOnSet(f, R) \in Int
  BY <1>5, SumIsInt
<1>12. SumFunctionOnSet(f, C \cup S) = SumFunctionOnSet(f, C) + SumFunctionOnSet(f, S)
  BY <1>2, <1>5, <1>7, <1>9, <1>10, <1>11
<1> QED BY <1>12 DEF Failing

\* Zeros add up to zero.
LEMMA SumOfZeros ==
    ASSUME NEW f, NEW D, IsFiniteSet(D), \A x \in D : f[x] = 0
    PROVE  SumFunctionOnSet(f, D) = 0
<1> DEFINE Failing == {S \in SUBSET D : SumFunctionOnSet(f, S) # 0}
<1> SUFFICES ASSUME Failing # {} PROVE FALSE
  OBVIOUS
<1>1. PICK S \in Failing : \A U \in Failing : U \subseteq S => U = S
  <2>1. Failing \subseteq SUBSET D
    OBVIOUS
  <2> HIDE DEF Failing
  <2> QED BY <2>1, SmallestSet
<1>2. S # {}
  BY SumOfNone
<1>3. Chosen(S) \in S
  BY <1>2, ChosenIsIn
<1>4. S \ {Chosen(S)} \notin Failing
  BY <1>1, <1>3
<1>5. IsFiniteSet(S)
  BY FS_Subset
<1>6. SumFunctionOnSet(f, S) = f[Chosen(S)] + SumFunctionOnSet(f, S \ {Chosen(S)})
  BY <1>2, <1>5, SumTakesChosen
<1>7. SumFunctionOnSet(f, S \ {Chosen(S)}) = 0 /\ f[Chosen(S)] = 0
  BY <1>3, <1>4
<1> QED BY <1>6, <1>7

\* When each value of C has its opposite in D, and nothing else is there, the
\* sums are opposite too.
LEMMA SumOfOpposites ==
    ASSUME NEW f, NEW C, IsFiniteSet(C), \A x \in C : f[x] \in Int,
           NEW m, \A x, y \in C : m[x] = m[y] => x = y,
           \A x \in C : f[m[x]] = - f[x],
           NEW D, D = {m[x] : x \in C}, IsFiniteSet(D)
    PROVE  SumFunctionOnSet(f, D) = - SumFunctionOnSet(f, C)
<1> DEFINE Image(S) == {m[x] : x \in S}
           Failing ==
               {S \in SUBSET C : SumFunctionOnSet(f, Image(S)) # - SumFunctionOnSet(f, S)}
<1> SUFFICES ASSUME Failing # {} PROVE FALSE
  OBVIOUS
<1>1. PICK S \in Failing : \A U \in Failing : U \subseteq S => U = S
  <2>1. Failing \subseteq SUBSET C
    OBVIOUS
  <2> HIDE DEF Failing
  <2> QED BY <2>1, SmallestSet
<1>2. S # {}
  <2>1. Image({}) = {}
    OBVIOUS
  <2>2. SumFunctionOnSet(f, Image({})) = 0 /\ SumFunctionOnSet(f, {}) = 0
    BY <2>1, SumOfNone
  <2>3. {} \notin Failing
    BY <2>2
  <2> QED BY <2>3
<1>3. PICK a \in S : TRUE
  BY <1>2
<1> DEFINE R == S \ {a}
<1>4. R \notin Failing /\ R \in SUBSET C
  BY <1>1
<1>5. SumFunctionOnSet(f, Image(R)) = - SumFunctionOnSet(f, R)
  BY <1>4
<1>6. /\ IsFiniteSet(R) /\ a \notin R /\ S = R \cup {a}
      /\ \A x \in R \cup {a} : f[x] \in Int
      /\ f[a] \in Int
  BY FS_Subset
<1>7. Image(S) = Image(R) \cup {m[a]}
  OBVIOUS
<1>8. m[a] \notin Image(R)
  OBVIOUS
<1>9. IsFiniteSet(Image(R))
  <2>1. Image(R) \subseteq D
    OBVIOUS
  <2> HIDE DEF Image
  <2> QED BY <2>1, FS_Subset
<1>10. f[m[a]] = - f[a]
  OBVIOUS
<1>11. \A y \in Image(R) \cup {m[a]} : f[y] \in Int
  OBVIOUS
<1> HIDE DEF Image, R
<1>12. SumFunctionOnSet(f, S) = f[a] + SumFunctionOnSet(f, R)
  BY <1>6, SumAdds
<1>13. SumFunctionOnSet(f, Image(R) \cup {m[a]}) = f[m[a]] + SumFunctionOnSet(f, Image(R))
  BY <1>8, <1>9, <1>11, SumAdds
<1>14. SumFunctionOnSet(f, R) \in Int
  BY <1>6, SumIsInt
<1>15. SumFunctionOnSet(f, Image(S)) = - SumFunctionOnSet(f, S)
  <2> DEFINE v == f[a]
             rest == SumFunctionOnSet(f, R)
  <2>1. SumFunctionOnSet(f, Image(S)) = - v + - rest /\ SumFunctionOnSet(f, S) = v + rest
    BY <1>5, <1>7, <1>10, <1>12, <1>13
  <2>2. v \in Int /\ rest \in Int
    BY <1>6, <1>14
  <2> HIDE DEF v, rest
  <2>3. - v + - rest = - (v + rest)
    BY <2>2
  <2> QED BY <2>1, <2>3
<1> QED BY <1>15 DEF Failing

===============================================================================
