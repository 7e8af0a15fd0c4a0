------------------------------ MODULE SetLemmas ------------------------------
(***************************************************************************)
(* Facts about numbers, finite sets and sums that the other proofs rest    *)
(* on: none of them is about the program.                                  *)
(***************************************************************************)
EXTENDS Integers, FiniteSets, FiniteSetsExt, TLAPS, FiniteSetTheorems, WellFoundedInduction

-----------------------------------------------------------------------------
(* Induction, as least counterexample over numbers and as a closure over   *)
(* finite sets.                                                            *)

LEMMA LeastNumber ==
  ASSUME NEW S \in SUBSET Nat, S # {}
  PROVE  \E m \in S : \A k \in S : m <= k
<1>. DEFINE R == OpToRel(<, Nat)
<1>1. IsWellFoundedOn(R, Nat)
  BY NatLessThanWellFounded
<1>2. PICK m \in S : \A k \in S : ~ (<<k, m>> \in R)
  BY <1>1, WFMin, Zenon
<1>3. \A k \in S : ~ (k < m)
  BY <1>2 DEF OpToRel
<1>. QED BY <1>3

\* Induction up to a number.
LEMMA CountUp ==
  ASSUME NEW L \in Nat, NEW G, 0 \in G, \A n \in 1..L : n - 1 \in G => n \in G
  PROVE  0..L \subseteq G
<1>. DEFINE Bad == {n \in 0..L : n \notin G}
<1>. SUFFICES ASSUME Bad # {} PROVE FALSE
  OBVIOUS
<1>1. PICK m \in Bad : \A k \in Bad : m <= k
  <2>1. Bad \in SUBSET Nat
    OBVIOUS
  <2>. HIDE DEF Bad
  <2>. QED BY <2>1, LeastNumber
<1>2. m \in 1..L
  BY <1>1
<1>3. m - 1 \in 0..L /\ m - 1 \notin Bad
  BY <1>1, <1>2
<1>. QED BY <1>1, <1>2, <1>3

\* Min and Max of a nonempty set of numbers, Max of one that is bounded.
LEMMA MinOfNumbers ==
  ASSUME NEW S \in SUBSET Nat, S # {}
  PROVE  Min(S) \in S /\ \A k \in S : Min(S) <= k
<1>1. \E m \in S : \A k \in S : m =< k
  BY LeastNumber
<1>. QED BY <1>1 DEF Min

LEMMA MaxOfNumbers ==
  ASSUME NEW n \in Nat, NEW S \in SUBSET (0..n), S # {}
  PROVE  Max(S) \in S /\ \A k \in S : Max(S) >= k
<1>. DEFINE T == {n - k : k \in S}
<1>1. T \in SUBSET Nat /\ T # {}
  <2>1. PICK k \in S : TRUE
    OBVIOUS
  <2>2. n - k \in T
    OBVIOUS
  <2>3. \A j \in S : n - j \in Nat
    OBVIOUS
  <2>. QED BY <2>2, <2>3
<1>2. PICK m \in T : \A k \in T : m <= k
  BY <1>1, LeastNumber
<1>3. PICK x \in S : m = n - x
  BY <1>2
<1>4. \A k \in S : x >= k
  <2>. SUFFICES ASSUME NEW k \in S PROVE x >= k
    OBVIOUS
  <2>1. m <= n - k
    BY <1>2
  <2>. QED BY <2>1, <1>3
<1>. QED BY <1>4 DEF Max

\* A family of subsets that holds the empty set, and with a set any set of one
\* element more, holds them all.
LEMMA SetInduction ==
  ASSUME NEW S, IsFiniteSet(S), NEW G,
         {} \in G,
         \A T \in SUBSET S : T \in G => \A x \in S \ T : T \union {x} \in G
  PROVE  S \in G
<1>. DEFINE Bad == {T \in SUBSET S : T \notin G}
            Sizes == {Cardinality(T) : T \in Bad}
<1>1. \A T \in SUBSET S : IsFiniteSet(T) /\ Cardinality(T) \in Nat
  BY FS_Subset, FS_CardinalityType
<1>. SUFFICES ASSUME S \notin G PROVE FALSE
  OBVIOUS
<1>2. Sizes # {} /\ Sizes \in SUBSET Nat
  BY <1>1
<1>3. PICK m \in Sizes : \A k \in Sizes : m <= k
  BY <1>2, LeastNumber
<1>4. PICK T \in Bad : m = Cardinality(T)
  BY <1>3
<1>5. PICK x \in T : TRUE
  BY <1>4
<1>. DEFINE U == T \ {x}
<1>6. Cardinality(U) = Cardinality(T) - 1
  BY <1>1, FS_RemoveElement
<1>7. U \notin Bad
  <2>. SUFFICES ASSUME U \in Bad PROVE FALSE
    OBVIOUS
  <2>1. Cardinality(U) \in Sizes
    OBVIOUS
  <2>2. m <= Cardinality(U)
    BY <2>1, <1>3
  <2>. QED BY <2>2, <1>4, <1>6, <1>1
<1>8. U \in SUBSET S /\ x \in S \ U /\ T = U \union {x}
  BY <1>5
<1>9. T \in G
  BY <1>7, <1>8
<1>. QED BY <1>9, <1>4

\* A finite set of numbers is bounded, and so has a largest.
LEMMA MaxOfFinite ==
  ASSUME NEW S \in SUBSET Nat, IsFiniteSet(S), S # {}
  PROVE  Max(S) \in S /\ \A k \in S : Max(S) >= k
<1>. DEFINE G == {T \in SUBSET S : \E n \in Nat : \A k \in T : k <= n}
<1>1. {} \in G
  OBVIOUS
<1>2. ASSUME NEW T \in SUBSET S, T \in G, NEW x \in S \ T
      PROVE  T \union {x} \in G
  <2>1. PICK n \in Nat : \A k \in T : k <= n
    BY <1>2
  <2>2. PICK m \in Nat : n <= m /\ x <= m
    <3>1. n \in Nat /\ x \in Nat /\ (n <= x \/ x <= n)
      OBVIOUS
    <3>. QED BY <3>1
  <2>3. \A k \in T \union {x} : k \in Nat /\ k <= m
    BY <2>1, <2>2
  <2>. QED BY <2>2, <2>3
<1>. HIDE DEF G
<1>3. S \in G
  BY <1>1, <1>2, SetInduction
<1>4. PICK n \in Nat : \A k \in S : k <= n
  BY <1>3 DEF G
<1>5. S \in SUBSET (0..n)
  BY <1>4
<1>. QED BY <1>5, MaxOfNumbers

-----------------------------------------------------------------------------
(* Sums over finite sets.                                                  *)

Some(s) == CHOOSE x \in s : TRUE

Plus(f, g, s) == IF s = {} THEN 0 ELSE f[Some(s)] + g[s \ {Some(s)}]

\* The sums of the subsets of S.
IsTable(f, S, g) == g = [s \in SUBSET S |-> Plus(f, g, s)]

LEMMA SumUnfolds ==
  ASSUME NEW f, NEW S
  PROVE  SumFunctionOnSet(f, S) = (CHOOSE g : IsTable(f, S, g))[S]
BY DEF SumFunctionOnSet, FoldFunctionOnSet, MapThenFoldSet, IsTable, Plus, Some

LEMMA SomeIsMember == ASSUME NEW s, s # {} PROVE Some(s) \in s
BY DEF Some

\* The sums of all subsets up to a number of elements form a table.
LEMMA TableExists ==
  ASSUME NEW f, NEW S, IsFiniteSet(S)
  PROVE  \E g : IsTable(f, S, g)
<1>. DEFINE Small(n) == {s \in SUBSET S : Cardinality(s) <= n}
            Bad == {n \in Nat : ~ \E g : g = [s \in Small(n) |-> Plus(f, g, s)]}
<1>1. \A s \in SUBSET S : IsFiniteSet(s) /\ Cardinality(s) \in Nat
  BY FS_Subset, FS_CardinalityType
<1>2. \A s \in SUBSET S : Cardinality(s) <= Cardinality(S)
  BY FS_Subset
<1>3. Bad = {}
  <2>. SUFFICES ASSUME Bad # {} PROVE FALSE
    OBVIOUS
  <2>1. PICK n \in Bad : \A k \in Bad : n <= k
    BY LeastNumber
  <2>2. n # 0
    <3>. SUFFICES ASSUME n = 0 PROVE FALSE
      OBVIOUS
    <3>1. Small(0) = {{}}
      <4>1. Cardinality({}) = 0
        BY FS_EmptySet
      <4>2. \A s \in Small(0) : s = {}
        BY <1>1, FS_EmptySet
      <4>. QED BY <4>1, <4>2
    <3>. DEFINE g == [s \in Small(0) |-> 0]
    <3>2. g = [s \in Small(0) |-> Plus(f, g, s)]
      BY <3>1 DEF Plus
    <3>. QED BY <3>2, <2>1
  <2>3. n - 1 \in Nat /\ n - 1 \notin Bad
    <3>1. Bad \subseteq Nat
      OBVIOUS
    <3>. HIDE DEF Bad
    <3>. QED BY <3>1, <2>1, <2>2
  <2>4. PICK g : g = [s \in Small(n - 1) |-> Plus(f, g, s)]
    BY <2>3
  <2>. DEFINE h == [s \in Small(n) |-> Plus(f, g, s)]
  <2>5. ASSUME NEW s \in Small(n)
        PROVE  Plus(f, g, s) = Plus(f, h, s)
    <3>1. CASE s = {}
      <4>. HIDE DEF h
      <4>. QED BY <3>1 DEF Plus
    <3>2. CASE s # {}
      <4>. DEFINE t == s \ {Some(s)}
      <4>1. Some(s) \in s
        BY <3>2, SomeIsMember
      <4>2. Cardinality(t) = Cardinality(s) - 1 /\ t \in SUBSET S
        BY <4>1, <1>1, FS_RemoveElement
      <4>3. t \in Small(n - 1) /\ t \in Small(n)
        BY <4>2, <1>1, <2>1
      <4>4. h[t] = Plus(f, g, t)
        BY <4>3
      <4>5. g[t] = Plus(f, g, t)
        BY <4>3, <2>4
      <4>. HIDE DEF h
      <4>. QED BY <4>4, <4>5, <3>2 DEF Plus
    <3>. QED BY <3>1, <3>2
  <2>6. h = [s \in Small(n) |-> Plus(f, h, s)]
    BY <2>5
  <2>. HIDE DEF h
  <2>. QED BY <2>6, <2>1
<1>4. Cardinality(S) \in Nat
  BY FS_CardinalityType
<1>5. Small(Cardinality(S)) = SUBSET S
  BY <1>2
<1>6. \E g : g = [s \in Small(Cardinality(S)) |-> Plus(f, g, s)]
  BY <1>3, <1>4
<1>. QED BY <1>5, <1>6 DEF IsTable

\* Tables of two sets agree where they overlap: a sum depends on no set but its own.
LEMMA TablesAgree ==
  ASSUME NEW f, NEW S, IsFiniteSet(S), NEW T \in SUBSET S,
         NEW g, IsTable(f, S, g),
         NEW h, IsTable(f, T, h)
  PROVE  h[T] = g[T]
<1>. DEFINE Good == {s \in SUBSET T : h[s] = g[s]}
            Bad == {s \in SUBSET T : s \notin Good}
            Sizes == {Cardinality(s) : s \in Bad}
<1>1. \A s \in SUBSET T : IsFiniteSet(s) /\ Cardinality(s) \in Nat
  BY FS_Subset, FS_CardinalityType
<1>. SUFFICES ASSUME Bad # {} PROVE FALSE
  OBVIOUS
<1>2. Sizes # {} /\ Sizes \in SUBSET Nat
  BY <1>1
<1>3. PICK m \in Sizes : \A k \in Sizes : m <= k
  BY <1>2, LeastNumber
<1>4. PICK s \in Bad : m = Cardinality(s)
  BY <1>3
<1>5. h[s] = Plus(f, h, s) /\ g[s] = Plus(f, g, s)
  <2>1. s \in SUBSET T /\ s \in SUBSET S
    BY <1>4
  <2>. QED BY <2>1 DEF IsTable
<1>6. CASE s = {}
  BY <1>4, <1>5, <1>6 DEF Plus
<1>7. CASE s # {}
  <2>. DEFINE t == s \ {Some(s)}
  <2>1. Some(s) \in s
    BY <1>7, SomeIsMember
  <2>2. Cardinality(t) = Cardinality(s) - 1 /\ t \in SUBSET T
    BY <2>1, <1>1, FS_RemoveElement
  <2>3. t \notin Bad
    <3>. SUFFICES ASSUME t \in Bad PROVE FALSE
      OBVIOUS
    <3>1. Cardinality(t) \in Sizes
      OBVIOUS
    <3>2. m <= Cardinality(t)
      BY <3>1, <1>3
    <3>. QED BY <3>2, <2>2, <1>4, <1>1
  <2>4. h[t] = g[t]
    BY <2>2, <2>3
  <2>5. h[s] = g[s]
    BY <2>4, <1>5, <1>7 DEF Plus
  <2>. QED BY <2>5, <1>4
<1>. QED BY <1>6, <1>7

LEMMA SumIsInTable ==
  ASSUME NEW f, NEW S, IsFiniteSet(S), NEW T \in SUBSET S,
         NEW g, IsTable(f, S, g)
  PROVE  SumFunctionOnSet(f, T) = g[T]
<1>. DEFINE h == CHOOSE k : IsTable(f, T, k)
<1>1. IsFiniteSet(T)
  BY FS_Subset
<1>2. IsTable(f, T, h)
  BY <1>1, TableExists
<1>3. SumFunctionOnSet(f, T) = h[T]
  BY SumUnfolds
<1>. HIDE DEF h
<1>. QED BY <1>2, <1>3, TablesAgree

LEMMA SumOfNone == ASSUME NEW f PROVE SumFunctionOnSet(f, {}) = 0
<1>1. IsFiniteSet({})
  BY FS_EmptySet
<1>2. PICK g : IsTable(f, {}, g)
  BY <1>1, TableExists
<1>3. g[{}] = Plus(f, g, {})
  BY <1>2 DEF IsTable
<1>4. SumFunctionOnSet(f, {}) = g[{}]
  BY <1>1, <1>2, SumIsInTable
<1>. QED BY <1>3, <1>4 DEF Plus

LEMMA SumStep ==
  ASSUME NEW f, NEW S, IsFiniteSet(S), S # {}
  PROVE  SumFunctionOnSet(f, S) = f[Some(S)] + SumFunctionOnSet(f, S \ {Some(S)})
<1>. DEFINE T == S \ {Some(S)}
<1>1. PICK g : IsTable(f, S, g)
  BY TableExists
<1>2. SumFunctionOnSet(f, S) = g[S] /\ SumFunctionOnSet(f, T) = g[T]
  <2>1. S \in SUBSET S /\ T \in SUBSET S
    OBVIOUS
  <2>. HIDE DEF T
  <2>. QED BY <1>1, <2>1, SumIsInTable
<1>3. g[S] = Plus(f, g, S)
  BY <1>1 DEF IsTable
<1>. QED BY <1>2, <1>3 DEF Plus

\* Values that are the same have the same sum.
LEMMA SumExtends ==
  ASSUME NEW S, IsFiniteSet(S), NEW f, NEW g, \A x \in S : f[x] = g[x]
  PROVE  SumFunctionOnSet(f, S) = SumFunctionOnSet(g, S)
<1>1. PICK t : IsTable(f, S, t)
  BY TableExists
<1>2. ASSUME NEW s \in SUBSET S PROVE Plus(f, t, s) = Plus(g, t, s)
  <2>1. CASE s = {}
    BY <2>1 DEF Plus
  <2>2. CASE s # {}
    BY <2>2, SomeIsMember DEF Plus
  <2>. QED BY <2>1, <2>2
<1>3. IsTable(g, S, t)
  BY <1>1, <1>2 DEF IsTable
<1>. QED BY <1>1, <1>3, SumIsInTable

LEMMA SumType ==
  ASSUME NEW S, IsFiniteSet(S), NEW f, \A x \in S : f[x] \in Int
  PROVE  SumFunctionOnSet(f, S) \in Int
<1>. DEFINE Bad == {s \in SUBSET S : SumFunctionOnSet(f, s) \notin Int}
            Sizes == {Cardinality(s) : s \in Bad}
<1>1. \A s \in SUBSET S : IsFiniteSet(s) /\ Cardinality(s) \in Nat
  BY FS_Subset, FS_CardinalityType
<1>. SUFFICES ASSUME Bad # {} PROVE FALSE
  OBVIOUS
<1>2. Sizes # {} /\ Sizes \in SUBSET Nat
  BY <1>1
<1>3. PICK m \in Sizes : \A k \in Sizes : m <= k
  BY <1>2, LeastNumber
<1>4. PICK s \in Bad : m = Cardinality(s)
  BY <1>3
<1>5. s # {}
  BY <1>4, SumOfNone
<1>. DEFINE t == s \ {Some(s)}
<1>6. Some(s) \in s
  BY <1>5, SomeIsMember
<1>7. Cardinality(t) = Cardinality(s) - 1 /\ t \in SUBSET S
  BY <1>6, <1>1, FS_RemoveElement
<1>8. t \notin Bad
  <2>. SUFFICES ASSUME t \in Bad PROVE FALSE
    OBVIOUS
  <2>1. Cardinality(t) \in Sizes
    OBVIOUS
  <2>2. m <= Cardinality(t)
    BY <2>1, <1>3
  <2>. QED BY <2>2, <1>7, <1>4, <1>1
<1>9. SumFunctionOnSet(f, t) \in Int
  BY <1>7, <1>8
<1>10. SumFunctionOnSet(f, s) = f[Some(s)] + SumFunctionOnSet(f, t)
  BY <1>1, <1>4, <1>5, SumStep
<1>11. f[Some(s)] \in Int
  BY <1>6, <1>4
<1>12. SumFunctionOnSet(f, s) \in Int
  BY <1>9, <1>10, <1>11
<1>. QED BY <1>12, <1>4

\* One element more adds its value, whichever it is.
LEMMA SumInsert ==
  ASSUME NEW S, IsFiniteSet(S), NEW x, x \notin S, NEW f,
         \A y \in S \union {x} : f[y] \in Int
  PROVE  SumFunctionOnSet(f, S \union {x}) = SumFunctionOnSet(f, S) + f[x]
<1>. DEFINE A == S \union {x}
            Adds(s, y) == SumFunctionOnSet(f, s \union {y}) = SumFunctionOnSet(f, s) + f[y]
            Bad == {s \in SUBSET A : \E y \in A \ s : ~ Adds(s, y)}
            Sizes == {Cardinality(s) : s \in Bad}
<1>1. IsFiniteSet(A)
  BY FS_AddElement
<1>2. \A s \in SUBSET A : IsFiniteSet(s) /\ Cardinality(s) \in Nat
  BY <1>1, FS_Subset, FS_CardinalityType
<1>3. \A s \in SUBSET A : SumFunctionOnSet(f, s) \in Int
  <2>. SUFFICES ASSUME NEW s \in SUBSET A PROVE SumFunctionOnSet(f, s) \in Int
    OBVIOUS
  <2>1. IsFiniteSet(s) /\ \A y \in s : f[y] \in Int
    BY <1>2
  <2>. QED BY <2>1, SumType
<1>4. ASSUME Bad # {} PROVE FALSE
  <2>1. Sizes # {} /\ Sizes \in SUBSET Nat
    BY <1>2, <1>4
  <2>2. PICK m \in Sizes : \A k \in Sizes : m <= k
    BY <2>1, LeastNumber
  <2>3. PICK s \in Bad : m = Cardinality(s)
    BY <2>2
  <2>4. PICK y \in A \ s : ~ Adds(s, y)
    BY <2>3
  <2>. DEFINE T == s \union {y}
              c == Some(T)
              u == s \ {c}
  <2>5. T # {} /\ T \in SUBSET A /\ c \in T
    <3>1. T # {} /\ T \in SUBSET A
      BY <2>3, <2>4
    <3>. QED BY <3>1, SomeIsMember
  <2>6. SumFunctionOnSet(f, T) = f[c] + SumFunctionOnSet(f, T \ {c})
    BY <2>5, <1>2, SumStep
  <2>7. f[c] \in Int /\ f[y] \in Int
    BY <2>4, <2>5
  <2>8. c # y
    <3>. SUFFICES ASSUME c = y PROVE FALSE
      OBVIOUS
    <3>1. T \ {c} = s
      BY <2>4
    <3>2. SumFunctionOnSet(f, s) \in Int
      BY <1>3, <2>3
    <3>3. SumFunctionOnSet(f, T) = SumFunctionOnSet(f, s) + f[y]
      <4>1. SumFunctionOnSet(f, T) = f[y] + SumFunctionOnSet(f, s)
        BY <2>6, <3>1
      <4>. QED BY <4>1, <2>7, <3>2
    <3>. QED BY <3>3, <2>4
  <2>9. c \in s /\ u \in SUBSET A /\ Cardinality(u) = Cardinality(s) - 1
    <3>1. c \in s
      BY <2>5, <2>8
    <3>. QED BY <3>1, <2>3, <1>2, FS_RemoveElement
  <2>10. u \notin Bad
    <3>. SUFFICES ASSUME u \in Bad PROVE FALSE
      OBVIOUS
    <3>1. Cardinality(u) \in Sizes
      OBVIOUS
    <3>2. m <= Cardinality(u)
      BY <3>1, <2>2
    <3>. QED BY <3>2, <2>9, <2>3, <1>2
  <2>11. \A z \in A \ u : Adds(u, z)
    BY <2>9, <2>10
  <2>12. Adds(u, c) /\ Adds(u, y)
    <3>1. c \in A \ u /\ y \in A \ u
      BY <2>9, <2>4, <2>3
    <3>. QED BY <3>1, <2>11
  <2>13. T \ {c} = u \union {y} /\ s = u \union {c}
    BY <2>8, <2>9
  <2>14. SumFunctionOnSet(f, u) \in Int
    BY <1>3, <2>9
  <2>15. SumFunctionOnSet(f, T) = SumFunctionOnSet(f, s) + f[y]
    <3>1. SumFunctionOnSet(f, T \ {c}) = SumFunctionOnSet(f, u) + f[y]
      BY <2>12, <2>13
    <3>2. SumFunctionOnSet(f, s) = SumFunctionOnSet(f, u) + f[c]
      BY <2>12, <2>13
    <3>. HIDE DEF T, c, u
    <3>. QED BY <3>1, <3>2, <2>6, <2>7, <2>14
  <2>. QED BY <2>15, <2>4
<1>5. S \in SUBSET A /\ x \in A \ S /\ S \notin Bad
  BY <1>4
<1>6. Adds(S, x)
  BY <1>5
<1>. QED BY <1>6

LEMMA SumOfOne ==
  ASSUME NEW x, NEW f, f[x] \in Int
  PROVE  SumFunctionOnSet(f, {x}) = f[x]
<1>1. IsFiniteSet({}) /\ {} \union {x} = {x}
  BY FS_EmptySet
<1>2. SumFunctionOnSet(f, {} \union {x}) = SumFunctionOnSet(f, {}) + f[x]
  BY <1>1, SumInsert
<1>. QED BY <1>1, <1>2, SumOfNone

LEMMA SumOfUnion ==
  ASSUME NEW S, NEW T, IsFiniteSet(S), IsFiniteSet(T), S \intersect T = {}, NEW f,
         \A x \in S \union T : f[x] \in Int
  PROVE  SumFunctionOnSet(f, S \union T) = SumFunctionOnSet(f, S) + SumFunctionOnSet(f, T)
<1>. DEFINE Splits(U) ==
              SumFunctionOnSet(f, S \union U) = SumFunctionOnSet(f, S) + SumFunctionOnSet(f, U)
            G == {U \in SUBSET T : Splits(U)}
<1>1. \A U \in SUBSET T : IsFiniteSet(U) /\ IsFiniteSet(S \union U)
  BY FS_Subset, FS_Union
<1>2. \A U \in SUBSET T : SumFunctionOnSet(f, U) \in Int
  <2>. SUFFICES ASSUME NEW U \in SUBSET T PROVE SumFunctionOnSet(f, U) \in Int
    OBVIOUS
  <2>1. IsFiniteSet(U) /\ \A x \in U : f[x] \in Int
    BY <1>1
  <2>. QED BY <2>1, SumType
<1>3. SumFunctionOnSet(f, S) \in Int
  BY SumType
<1>4. {} \in G
  <2>1. S \union {} = S /\ SumFunctionOnSet(f, {}) = 0
    BY SumOfNone
  <2>. QED BY <2>1, <1>3
<1>5. ASSUME NEW U \in SUBSET T, U \in G, NEW x \in T \ U
      PROVE  U \union {x} \in G
  <2>1. SumFunctionOnSet(f, U \union {x}) = SumFunctionOnSet(f, U) + f[x]
    <3>1. IsFiniteSet(U) /\ x \notin U /\ \A y \in U \union {x} : f[y] \in Int
      BY <1>1
    <3>. QED BY <3>1, SumInsert
  <2>2. SumFunctionOnSet(f, (S \union U) \union {x}) = SumFunctionOnSet(f, S \union U) + f[x]
    <3>1. IsFiniteSet(S \union U) /\ x \notin S \union U
          /\ \A y \in (S \union U) \union {x} : f[y] \in Int
      BY <1>1
    <3>. QED BY <3>1, SumInsert
  <2>3. (S \union U) \union {x} = S \union (U \union {x})
    OBVIOUS
  <2>4. Splits(U)
    BY <1>5
  <2>5. f[x] \in Int /\ SumFunctionOnSet(f, U) \in Int
    BY <1>2
  <2>6. SumFunctionOnSet(f, S \union (U \union {x})) = SumFunctionOnSet(f, S \union U) + f[x]
    BY <2>2, <2>3
  <2>7. Splits(U \union {x})
    BY <2>1, <2>4, <2>5, <2>6, <1>3
  <2>. QED BY <2>7
<1>6. T \in G
  <2>. HIDE DEF G
  <2>. QED BY <1>4, <1>5, SetInduction
<1>. QED BY <1>6

LEMMA SumOfPlus ==
  ASSUME NEW S, IsFiniteSet(S), NEW f, NEW g, NEW h,
         \A x \in S : f[x] \in Int /\ g[x] \in Int /\ h[x] = f[x] + g[x]
  PROVE  SumFunctionOnSet(h, S) = SumFunctionOnSet(f, S) + SumFunctionOnSet(g, S)
<1>. DEFINE Adds(U) ==
              SumFunctionOnSet(h, U) = SumFunctionOnSet(f, U) + SumFunctionOnSet(g, U)
            G == {U \in SUBSET S : Adds(U)}
<1>1. ASSUME NEW U \in SUBSET S
      PROVE  /\ IsFiniteSet(U)
             /\ SumFunctionOnSet(f, U) \in Int
             /\ SumFunctionOnSet(g, U) \in Int
  <2>1. IsFiniteSet(U) /\ \A x \in U : f[x] \in Int /\ g[x] \in Int
    BY FS_Subset
  <2>. QED BY <2>1, SumType
<1>2. {} \in G
  BY SumOfNone
<1>3. ASSUME NEW U \in SUBSET S, U \in G, NEW x \in S \ U
      PROVE  U \union {x} \in G
  <2>1. /\ SumFunctionOnSet(f, U \union {x}) = SumFunctionOnSet(f, U) + f[x]
        /\ SumFunctionOnSet(g, U \union {x}) = SumFunctionOnSet(g, U) + g[x]
        /\ SumFunctionOnSet(h, U \union {x}) = SumFunctionOnSet(h, U) + h[x]
    <3>1. /\ IsFiniteSet(U) /\ x \notin U
          /\ \A y \in U \union {x} : f[y] \in Int /\ g[y] \in Int /\ h[y] \in Int
      BY <1>1
    <3>. QED BY <3>1, SumInsert
  <2>2. Adds(U)
    BY <1>3
  <2>3. Adds(U \union {x})
    BY <2>1, <2>2, <1>1
  <2>. QED BY <2>3
<1>4. S \in G
  <2>. HIDE DEF G
  <2>. QED BY <1>2, <1>3, SetInduction
<1>. QED BY <1>4

LEMMA Distributes ==
  ASSUME NEW k \in Int, NEW a \in Int, NEW b \in Int
  PROVE  k * (a + b) = k * a + k * b /\ k * a \in Int /\ k * b \in Int
OBVIOUS

LEMMA SumOfTimes ==
  ASSUME NEW S, IsFiniteSet(S), NEW k \in Int, NEW f, NEW h,
         \A x \in S : f[x] \in Int /\ h[x] = k * f[x]
  PROVE  SumFunctionOnSet(h, S) = k * SumFunctionOnSet(f, S)
<1>. DEFINE Scales(U) == SumFunctionOnSet(h, U) = k * SumFunctionOnSet(f, U)
            G == {U \in SUBSET S : Scales(U)}
<1>1. ASSUME NEW U \in SUBSET S
      PROVE  IsFiniteSet(U) /\ SumFunctionOnSet(f, U) \in Int
  <2>1. IsFiniteSet(U) /\ \A x \in U : f[x] \in Int
    BY FS_Subset
  <2>. QED BY <2>1, SumType
<1>2. {} \in G
  BY SumOfNone
<1>3. ASSUME NEW U \in SUBSET S, U \in G, NEW x \in S \ U
      PROVE  U \union {x} \in G
  <2>1. f[x] \in Int /\ h[x] = k * f[x] /\ h[x] \in Int
    OBVIOUS
  <2>2. /\ SumFunctionOnSet(f, U \union {x}) = SumFunctionOnSet(f, U) + f[x]
        /\ SumFunctionOnSet(h, U \union {x}) = SumFunctionOnSet(h, U) + h[x]
    <3>1. /\ IsFiniteSet(U) /\ x \notin U
          /\ \A y \in U \union {x} : f[y] \in Int /\ h[y] \in Int
      BY <1>1
    <3>. QED BY <3>1, SumInsert
  <2>3. Scales(U)
    BY <1>3
  <2>4. k * (SumFunctionOnSet(f, U) + f[x]) = k * SumFunctionOnSet(f, U) + k * f[x]
    BY <1>1, <2>1, Distributes
  <2>5. Scales(U \union {x})
    BY <2>1, <2>2, <2>3, <2>4
  <2>. QED BY <2>5
<1>4. S \in G
  <2>. HIDE DEF G
  <2>. QED BY <1>2, <1>3, SetInduction
<1>. QED BY <1>4

LEMMA SumIsMonotone ==
  ASSUME NEW S, IsFiniteSet(S), NEW f, NEW g,
         \A x \in S : f[x] \in Int /\ g[x] \in Int /\ f[x] <= g[x]
  PROVE  SumFunctionOnSet(f, S) <= SumFunctionOnSet(g, S)
<1>. DEFINE Below(U) == SumFunctionOnSet(f, U) <= SumFunctionOnSet(g, U)
            G == {U \in SUBSET S : Below(U)}
<1>1. ASSUME NEW U \in SUBSET S
      PROVE  /\ IsFiniteSet(U)
             /\ SumFunctionOnSet(f, U) \in Int
             /\ SumFunctionOnSet(g, U) \in Int
  <2>1. IsFiniteSet(U) /\ \A x \in U : f[x] \in Int /\ g[x] \in Int
    BY FS_Subset
  <2>. QED BY <2>1, SumType
<1>2. {} \in G
  BY SumOfNone
<1>3. ASSUME NEW U \in SUBSET S, U \in G, NEW x \in S \ U
      PROVE  U \union {x} \in G
  <2>1. /\ SumFunctionOnSet(f, U \union {x}) = SumFunctionOnSet(f, U) + f[x]
        /\ SumFunctionOnSet(g, U \union {x}) = SumFunctionOnSet(g, U) + g[x]
    <3>1. /\ IsFiniteSet(U) /\ x \notin U
          /\ \A y \in U \union {x} : f[y] \in Int /\ g[y] \in Int
      BY <1>1
    <3>. QED BY <3>1, SumInsert
  <2>2. Below(U) /\ f[x] <= g[x] /\ f[x] \in Int /\ g[x] \in Int
    BY <1>3
  <2>3. Below(U \union {x})
    BY <2>1, <2>2, <1>1
  <2>. QED BY <2>3
<1>4. S \in G
  <2>. HIDE DEF G
  <2>. QED BY <1>2, <1>3, SetInduction
<1>. QED BY <1>4

LEMMA SumIsNatural ==
  ASSUME NEW S, IsFiniteSet(S), NEW f, \A x \in S : f[x] \in Nat
  PROVE  SumFunctionOnSet(f, S) \in Nat
<1>. DEFINE none == [x \in S |-> 0 * f[x]]
<1>1. \A x \in S : f[x] \in Int /\ none[x] = 0 * f[x] /\ none[x] \in Int /\ none[x] <= f[x]
  OBVIOUS
<1>2. SumFunctionOnSet(f, S) \in Int
  BY <1>1, SumType
<1>. HIDE DEF none
<1>3. SumFunctionOnSet(none, S) = 0 * SumFunctionOnSet(f, S)
  BY <1>1, SumOfTimes
<1>4. SumFunctionOnSet(none, S) <= SumFunctionOnSet(f, S)
  BY <1>1, SumIsMonotone
<1>. QED BY <1>2, <1>3, <1>4

LEMMA SumOfPart ==
  ASSUME NEW S, IsFiniteSet(S), NEW T, T \subseteq S, NEW f, \A x \in S : f[x] \in Nat
  PROVE  SumFunctionOnSet(f, T) <= SumFunctionOnSet(f, S)
<1>1. /\ IsFiniteSet(T) /\ IsFiniteSet(S \ T) /\ T \union (S \ T) = S /\ T \intersect (S \ T) = {}
      /\ \A x \in S \ T : f[x] \in Nat
      /\ \A x \in T \union (S \ T) : f[x] \in Int
      /\ \A x \in T : f[x] \in Int
  BY FS_Subset
<1>2. SumFunctionOnSet(f, S) = SumFunctionOnSet(f, T) + SumFunctionOnSet(f, S \ T)
  BY <1>1, SumOfUnion
<1>3. SumFunctionOnSet(f, S \ T) \in Nat /\ SumFunctionOnSet(f, T) \in Int
  BY <1>1, SumIsNatural, SumType
<1>. QED BY <1>2, <1>3

(* A sum grows at most as much as its terms do together.                   *)
LEMMA SumGrowsAtMost ==
  ASSUME NEW S, IsFiniteSet(S), NEW k \in Nat, NEW f, NEW g,
         \A x \in S : f[x] \in Int /\ g[x] \in Int /\ g[x] <= f[x] + k
  PROVE  SumFunctionOnSet(g, S) <= SumFunctionOnSet(f, S) + k * Cardinality(S)
<1>. DEFINE Within(U) ==
              SumFunctionOnSet(g, U) <= SumFunctionOnSet(f, U) + k * Cardinality(U)
            G == {U \in SUBSET S : Within(U)}
<1>1. ASSUME NEW U \in SUBSET S
      PROVE  /\ IsFiniteSet(U) /\ Cardinality(U) \in Nat
             /\ SumFunctionOnSet(f, U) \in Int /\ SumFunctionOnSet(g, U) \in Int
  <2>1. IsFiniteSet(U) /\ \A x \in U : f[x] \in Int /\ g[x] \in Int
    BY FS_Subset
  <2>. QED BY <2>1, FS_CardinalityType, SumType
<1>2. {} \in G
  <2>1. SumFunctionOnSet(f, {}) = 0 /\ SumFunctionOnSet(g, {}) = 0 /\ Cardinality({}) = 0
    BY SumOfNone, FS_EmptySet
  <2>. QED BY <2>1
<1>3. ASSUME NEW U \in SUBSET S, U \in G, NEW x \in S \ U
      PROVE  U \union {x} \in G
  <2>1. /\ IsFiniteSet(U) /\ Cardinality(U) \in Nat
        /\ SumFunctionOnSet(f, U) \in Int /\ SumFunctionOnSet(g, U) \in Int
    BY <1>1
  <2>2. /\ \A y \in U \union {x} : f[y] \in Int /\ g[y] \in Int
        /\ x \notin U /\ U \union {x} \in SUBSET S
    OBVIOUS
  <2>3. SumFunctionOnSet(f, U \union {x}) = SumFunctionOnSet(f, U) + f[x]
    BY <2>1, <2>2, SumInsert
  <2>4. SumFunctionOnSet(g, U \union {x}) = SumFunctionOnSet(g, U) + g[x]
    BY <2>1, <2>2, SumInsert
  <2>5. Cardinality(U \union {x}) = Cardinality(U) + 1
    BY <2>1, <2>2, FS_AddElement
  <2>6. k * (Cardinality(U) + 1) = k * Cardinality(U) + k * 1 /\ k * Cardinality(U) \in Int
    BY <2>1, Distributes
  <2>7. f[x] \in Int /\ g[x] \in Int /\ g[x] <= f[x] + k
    OBVIOUS
  <2>8. SumFunctionOnSet(g, U) <= SumFunctionOnSet(f, U) + k * Cardinality(U)
    BY <1>3
  <2>9. k * 1 = k
    OBVIOUS
  <2>. QED BY <2>1, <2>2, <2>3, <2>4, <2>5, <2>6, <2>7, <2>8, <2>9
<1>. HIDE DEF G
<1>4. S \in G
  BY <1>2, <1>3, SetInduction
<1>. QED BY <1>4 DEF G

\* Two families of disjoint parts with the same counts: if the one covers, so
\* does the other.
LEMMA SameCountsCover ==
  ASSUME NEW S, IsFiniteSet(S), NEW D, IsFiniteSet(D), NEW F, NEW G,
         \A s \in S : F[s] \subseteq D /\ G[s] \subseteq D /\ Cardinality(F[s]) = Cardinality(G[s]),
         \A s, t \in S : s # t => F[s] \intersect F[t] = {} /\ G[s] \intersect G[t] = {},
         \A d \in D : \E s \in S : d \in F[s]
  PROVE  \A d \in D : \E s \in S : d \in G[s]
<1>. DEFINE Of(H, T) == UNION {H[s] : s \in T}
            Same == {T \in SUBSET S : Cardinality(Of(F, T)) = Cardinality(Of(G, T))}
<1>1. \A T \in SUBSET S : Of(F, T) \subseteq D /\ Of(G, T) \subseteq D
  OBVIOUS
<1>2. {} \in Same
  <2>1. Of(F, {}) = {} /\ Of(G, {}) = {}
    OBVIOUS
  <2>. QED BY <2>1
<1>3. ASSUME NEW T \in SUBSET S, T \in Same, NEW x \in S \ T
      PROVE  T \union {x} \in Same
  <2>1. Of(F, T \union {x}) = Of(F, T) \union F[x] /\ Of(G, T \union {x}) = Of(G, T) \union G[x]
    OBVIOUS
  <2>2. Of(F, T) \intersect F[x] = {} /\ Of(G, T) \intersect G[x] = {}
    OBVIOUS
  <2>3. \A A, B \in SUBSET D : A \intersect B = {} =>
          Cardinality(A \union B) = Cardinality(A) + Cardinality(B)
    <3>. TAKE A, B \in SUBSET D
    <3>1. IsFiniteSet(A) /\ IsFiniteSet(B) /\ Cardinality(A) \in Nat /\ Cardinality(B) \in Nat
      BY FS_Subset, FS_CardinalityType
    <3>2. Cardinality(A \union B) = Cardinality(A) + Cardinality(B) - Cardinality(A \intersect B)
      BY <3>1, FS_Union
    <3>. HAVE A \intersect B = {}
    <3>3. Cardinality(A \intersect B) = 0
      BY FS_EmptySet
    <3>. QED BY <3>1, <3>2, <3>3
  <2>4. F[x] \subseteq D /\ G[x] \subseteq D /\ Cardinality(F[x]) = Cardinality(G[x])
    OBVIOUS
  <2>5. Cardinality(Of(F, T)) = Cardinality(Of(G, T))
    BY <1>3
  <2>6. PICK A, B : A = Of(F, T) /\ B = Of(G, T)
    OBVIOUS
  <2>7. A \in SUBSET D /\ B \in SUBSET D
    BY <2>6
  <2>8. Cardinality(A \union F[x]) = Cardinality(A) + Cardinality(F[x])
    BY <2>2, <2>3, <2>4, <2>6, <2>7
  <2>9. Cardinality(B \union G[x]) = Cardinality(B) + Cardinality(G[x])
    BY <2>2, <2>3, <2>4, <2>6, <2>7
  <2>. QED BY <2>1, <2>4, <2>5, <2>6, <2>8, <2>9
<1>4. S \in Same
  <2>. HIDE DEF Same
  <2>. QED BY <1>2, <1>3, SetInduction
<1>5. Cardinality(Of(G, S)) = Cardinality(D)
  <2>1. Of(F, S) = D
    BY <1>1
  <2>. QED BY <1>4, <2>1
<1>6. Of(G, S) = D
  BY <1>1, <1>5, FS_Subset
<1>. QED BY <1>6
=============================================================================
