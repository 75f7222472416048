----------------------------- MODULE SumTheorems ------------------------------
(***************************************************************************)
(* Sums of a function over a finite set, as SumFunctionOnSet of the        *)
(* community module Functions defines them: by a recursive function on the *)
(* subsets, which takes a chosen element at a time.  The laws below are    *)
(* what the proofs about balances, shares and supplies rest on.            *)
(*                                                                         *)
(* Induction is done with a set of naturals that has no least element      *)
(* outside: the library's induction theorems take the induction hypothesis *)
(* as an operator, which the provers cannot instantiate.                   *)
(***************************************************************************)
EXTENDS Integers, FiniteSets, Functions, FiniteSetTheorems, WellFoundedInduction, TLAPS

\* Induction on the natural numbers, for a set.
LEMMA Induction ==
  ASSUME NEW A, 0 \in A, \A n \in Nat : n \in A => n + 1 \in A
  PROVE  \A n \in Nat : n \in A
<1> DEFINE B == Nat \ A
<1> SUFFICES ASSUME B # {} PROVE FALSE
  OBVIOUS
<1>1. PICK n \in B : \A m \in B : ~(m < n)
  <2>1. \E n \in B : \A m \in B : ~(<<m, n>> \in OpToRel(<, Nat))
    <3>1. B \subseteq Nat
      OBVIOUS
    <3> HIDE DEF B
    <3> QED  BY <3>1, WFMin, NatLessThanWellFounded
  <2> QED  BY <2>1 DEF OpToRel
<1>2. n \in Nat /\ n # 0
  OBVIOUS
<1>3. n - 1 \in Nat /\ n - 1 \notin B
  BY <1>1, <1>2
<1>4. (n - 1) + 1 \in A
  BY <1>3
<1> QED  BY <1>2, <1>4

------------------------------------------------------------------------------
(***************************************************************************)
(* The recursive function exists, and is what its definition says.         *)
(***************************************************************************)
Pick(s) == CHOOSE x \in s : TRUE

\* One unfolding of the function on the subsets of S.
Unfolded(f, S, g) ==
  [s \in SUBSET S |-> IF s = {} THEN 0 ELSE f[Pick(s)] + g[s \ {Pick(s)}]]

Sums(f, S) == CHOOSE g : g = Unfolded(f, S, g)

LEMMA SumIsSums ==
  ASSUME NEW f, NEW S
  PROVE  SumFunctionOnSet(f, S) = Sums(f, S)[S]
BY DEF SumFunctionOnSet, FoldFunctionOnSet, MapThenFoldSet, Sums, Unfolded, Pick

\* f has integers on S.
Summable(f, S) == IsFiniteSet(S) /\ \A x \in S : f[x] \in Int

\* The function can be built up by the size of the subsets.
LEMMA SumsExist ==
  ASSUME NEW f, NEW S, Summable(f, S)
  PROVE  \E g \in [SUBSET S -> Int] : g = Unfolded(f, S, g)
<1> DEFINE Small(n) == {s \in SUBSET S : Cardinality(s) <= n}
           Right(g, n) ==
             \A s \in Small(n) : g[s] = IF s = {} THEN 0 ELSE f[Pick(s)] + g[s \ {Pick(s)}]
           A == {n \in Nat : \E g \in [Small(n) -> Int] : Right(g, n)}
<1>1. \A s \in SUBSET S : IsFiniteSet(s) /\ Cardinality(s) \in Nat /\ (Cardinality(s) = 0 <=> s = {})
  BY FS_Subset, FS_CardinalityType, FS_EmptySet DEF Summable
<1>2. \A s \in SUBSET S : s # {} =>
        /\ Pick(s) \in s /\ f[Pick(s)] \in Int
        /\ s \ {Pick(s)} \in SUBSET S /\ Cardinality(s \ {Pick(s)}) = Cardinality(s) - 1
  BY <1>1, FS_RemoveElement DEF Pick, Summable
<1>3. 0 \in A
  <2>1. \A s \in Small(0) : s = {}
    BY <1>1
  <2>2. Right([s \in Small(0) |-> 0], 0)
    BY <2>1
  <2>3. [s \in Small(0) |-> 0] \in [Small(0) -> Int]
    OBVIOUS
  <2> QED  BY <2>2, <2>3
<1>4. ASSUME NEW n \in Nat, n \in A PROVE n + 1 \in A
  <2>1. PICK g \in [Small(n) -> Int] : Right(g, n)
    BY <1>4
  <2> DEFINE h == [s \in Small(n + 1) |->
                     IF s \in Small(n) THEN g[s] ELSE f[Pick(s)] + g[s \ {Pick(s)}]]
  <2>2. Small(n) \subseteq Small(n + 1)
    BY <1>1
  <2>3. \A s \in Small(n + 1) : s # {} => s \ {Pick(s)} \in Small(n)
    BY <1>1, <1>2
  <2>4. \A s \in Small(n + 1) : s \notin Small(n) => s # {}
    BY <1>1
  <2> HIDE DEF Small
  <2>5. h \in [Small(n + 1) -> Int]
    <3> SUFFICES ASSUME NEW s \in Small(n + 1)
                 PROVE  (IF s \in Small(n) THEN g[s] ELSE f[Pick(s)] + g[s \ {Pick(s)}]) \in Int
      OBVIOUS
    <3>1. CASE s \in Small(n)
      BY <3>1
    <3>2. CASE s \notin Small(n)
      <4>1. s \in SUBSET S /\ s # {}
        BY <2>4, <3>2 DEF Small
      <4>2. f[Pick(s)] \in Int /\ g[s \ {Pick(s)}] \in Int
        BY <1>2, <2>3, <4>1
      <4> QED  BY <3>2, <4>2
    <3> QED  BY <3>1, <3>2
  <2>6. \A s \in Small(n) : h[s] = g[s]
    BY <2>2
  <2>7. Right(h, n + 1)
    <3> SUFFICES ASSUME NEW s \in Small(n + 1)
                 PROVE  h[s] = IF s = {} THEN 0 ELSE f[Pick(s)] + h[s \ {Pick(s)}]
      OBVIOUS
    <3>1. s # {} => h[s \ {Pick(s)}] = g[s \ {Pick(s)}]
      BY <2>3, <2>6
    <3>2. CASE s \in Small(n)
      BY <2>1, <2>6, <3>1, <3>2
    <3>3. CASE s \notin Small(n)
      BY <2>4, <3>1, <3>3
    <3> QED  BY <3>2, <3>3
  <2> HIDE DEF h, Right
  <2>8. n + 1 \in Nat
    OBVIOUS
  <2> QED  BY <2>5, <2>7, <2>8
<1> HIDE DEF A
<1>5. Cardinality(S) \in A
  BY <1>1, <1>3, <1>4, Induction
<1>6. PICK g \in [Small(Cardinality(S)) -> Int] : Right(g, Cardinality(S))
  BY <1>5 DEF A
<1>7. Small(Cardinality(S)) = SUBSET S
  BY <1>1, FS_Subset DEF Summable
<1>8. g = Unfolded(f, S, g)
  BY <1>6, <1>7 DEF Unfolded
<1> QED  BY <1>6, <1>7, <1>8

\* g gives every subset of S the sum of f over it.
SumsOver(f, S, g) ==
  /\ g \in [SUBSET S -> Int]
  /\ g[{}] = 0
  /\ \A s \in SUBSET S : s # {} => g[s] = f[Pick(s)] + g[s \ {Pick(s)}]

LEMMA UnfoldedType ==
  ASSUME NEW f, NEW S, Summable(f, S), NEW g, g = Unfolded(f, S, g)
  PROVE  SumsOver(f, S, g)
<1>1. \A s \in SUBSET S : g[s] = IF s = {} THEN 0 ELSE f[Pick(s)] + g[s \ {Pick(s)}]
  BY DEF Unfolded
<1>2. \A s \in SUBSET S : IsFiniteSet(s) /\ Cardinality(s) \in Nat /\ (Cardinality(s) = 0 <=> s = {})
  BY FS_Subset, FS_CardinalityType, FS_EmptySet DEF Summable
<1>3. \A s \in SUBSET S : s # {} =>
        /\ Pick(s) \in s /\ f[Pick(s)] \in Int
        /\ s \ {Pick(s)} \in SUBSET S /\ Cardinality(s \ {Pick(s)}) = Cardinality(s) - 1
  BY <1>2, FS_RemoveElement DEF Pick, Summable
<1> DEFINE A == {n \in Nat : \A s \in SUBSET S : Cardinality(s) = n => g[s] \in Int}
<1>4. 0 \in A
  BY <1>1, <1>2
<1>5. ASSUME NEW n \in Nat, n \in A PROVE n + 1 \in A
  <2> SUFFICES ASSUME NEW s \in SUBSET S, Cardinality(s) = n + 1 PROVE g[s] \in Int
    OBVIOUS
  <2>1. s # {}
    BY <1>2
  <2>2. g[s \ {Pick(s)}] \in Int /\ f[Pick(s)] \in Int
    BY <1>3, <1>5, <2>1
  <2>3. g[s] = f[Pick(s)] + g[s \ {Pick(s)}]
    BY <1>1, <2>1
  <2> QED  BY <2>2, <2>3
<1>6. \A n \in Nat : n \in A
  <2> HIDE DEF A
  <2> QED  BY <1>4, <1>5, Induction
<1>7. \A s \in SUBSET S : g[s] \in Int
  BY <1>2, <1>6
<1>8. g \in [SUBSET S -> Int]
  <2>1. g = [s \in SUBSET S |-> g[s]]
    BY DEF Unfolded
  <2> QED  BY <1>7, <2>1
<1>9. g[{}] = 0
  BY <1>1
<1>10. ASSUME NEW s \in SUBSET S, s # {} PROVE g[s] = f[Pick(s)] + g[s \ {Pick(s)}]
  BY <1>1, <1>10
<1> QED  BY <1>8, <1>9, <1>10 DEF SumsOver

LEMMA SumIsOneOf ==
  ASSUME NEW f, NEW S, Summable(f, S)
  PROVE  \E g : SumsOver(f, S, g) /\ SumFunctionOnSet(f, S) = g[S]
<1> DEFINE g == Sums(f, S)
<1>1. \E h : h = Unfolded(f, S, h)
  BY SumsExist
<1>2. g = Unfolded(f, S, g)
  BY <1>1 DEF Sums
<1>3. SumFunctionOnSet(f, S) = g[S]
  BY SumIsSums
<1> HIDE DEF g
<1>4. SumsOver(f, S, g)
  BY <1>2, UnfoldedType
<1> QED  BY <1>3, <1>4

\* Of a subset the sum is the same, whichever set it is taken from, and only the
\* values on it matter.
LEMMA SumsAgree ==
  ASSUME NEW f, NEW g, NEW S, NEW T \in SUBSET S, IsFiniteSet(T),
         \A x \in T : f[x] = g[x],
         NEW F, SumsOver(f, S, F), NEW G, SumsOver(g, T, G)
  PROVE  F[T] = G[T]
<1> DEFINE A == {n \in Nat : \A s \in SUBSET T : Cardinality(s) = n => F[s] = G[s]}
<1>1. \A s \in SUBSET T : IsFiniteSet(s) /\ Cardinality(s) \in Nat /\ (Cardinality(s) = 0 <=> s = {})
  BY FS_Subset, FS_CardinalityType, FS_EmptySet
<1>2. \A s \in SUBSET T : s # {} =>
        /\ Pick(s) \in s /\ f[Pick(s)] = g[Pick(s)]
        /\ s \ {Pick(s)} \in SUBSET T /\ Cardinality(s \ {Pick(s)}) = Cardinality(s) - 1
  BY <1>1, FS_RemoveElement DEF Pick
<1>3. \A s \in SUBSET T : s # {} => /\ F[s] = f[Pick(s)] + F[s \ {Pick(s)}]
                                    /\ G[s] = g[Pick(s)] + G[s \ {Pick(s)}]
  BY DEF SumsOver
<1>4. 0 \in A
  BY <1>1 DEF SumsOver
<1>5. ASSUME NEW n \in Nat, n \in A PROVE n + 1 \in A
  <2> SUFFICES ASSUME NEW s \in SUBSET T, Cardinality(s) = n + 1 PROVE F[s] = G[s]
    OBVIOUS
  <2>1. s # {}
    BY <1>1
  <2>2. F[s \ {Pick(s)}] = G[s \ {Pick(s)}]
    BY <1>2, <1>5, <2>1
  <2> QED  BY <1>2, <1>3, <2>1, <2>2
<1> HIDE DEF A
<1>6. Cardinality(T) \in A
  BY <1>1, <1>4, <1>5, Induction
<1> QED  BY <1>6 DEF A

------------------------------------------------------------------------------
(***************************************************************************)
(* The laws.                                                               *)
(***************************************************************************)
LEMMA SumType ==
  ASSUME NEW f, NEW S, Summable(f, S)
  PROVE  SumFunctionOnSet(f, S) \in Int
<1>1. PICK g : SumsOver(f, S, g) /\ SumFunctionOnSet(f, S) = g[S]
  BY SumIsOneOf
<1>2. g \in [SUBSET S -> Int]
  BY <1>1 DEF SumsOver
<1> QED  BY <1>1, <1>2

LEMMA SumEmpty ==
  ASSUME NEW f
  PROVE  SumFunctionOnSet(f, {}) = 0
<1>1. Summable(f, {})
  BY FS_EmptySet DEF Summable
<1> QED  BY <1>1, SumIsOneOf DEF SumsOver

\* Only the values on the set matter.
LEMMA SumSame ==
  ASSUME NEW f, NEW g, NEW S, Summable(f, S), \A x \in S : f[x] = g[x]
  PROVE  SumFunctionOnSet(f, S) = SumFunctionOnSet(g, S)
<1>1. Summable(g, S)
  BY DEF Summable
<1>2. PICK F : SumsOver(f, S, F) /\ SumFunctionOnSet(f, S) = F[S]
  BY SumIsOneOf
<1>3. PICK G : SumsOver(g, S, G) /\ SumFunctionOnSet(g, S) = G[S]
  BY <1>1, SumIsOneOf
<1>4. IsFiniteSet(S) /\ S \in SUBSET S
  BY DEF Summable
<1>5. F[S] = G[S]
  BY <1>2, <1>3, <1>4, SumsAgree
<1> QED  BY <1>2, <1>3, <1>5

\* The sum takes the element that is picked first.
LEMMA SumPick ==
  ASSUME NEW f, NEW S, Summable(f, S), S # {}
  PROVE  SumFunctionOnSet(f, S) = f[Pick(S)] + SumFunctionOnSet(f, S \ {Pick(S)})
<1> DEFINE T == S \ {Pick(S)}
<1>1. T \in SUBSET S /\ Summable(f, T) /\ IsFiniteSet(T)
  BY FS_Subset DEF Summable
<1>2. PICK F : SumsOver(f, S, F) /\ SumFunctionOnSet(f, S) = F[S]
  BY SumIsOneOf
<1>3. F[S] = f[Pick(S)] + F[T]
  BY <1>2 DEF SumsOver
<1> HIDE DEF T
<1>4. PICK G : SumsOver(f, T, G) /\ SumFunctionOnSet(f, T) = G[T]
  BY <1>1, SumIsOneOf
<1>5. F[T] = G[T]
  BY <1>1, <1>2, <1>4, SumsAgree
<1>6. SumFunctionOnSet(f, S) = f[Pick(S)] + SumFunctionOnSet(f, T)
  BY <1>2, <1>3, <1>4, <1>5
<1> QED  BY <1>6 DEF T

\* Any element can be taken first.
LEMMA SumRemove ==
  ASSUME NEW f, NEW S, Summable(f, S), NEW x \in S
  PROVE  SumFunctionOnSet(f, S) = f[x] + SumFunctionOnSet(f, S \ {x})
<1> DEFINE Sum(s) == SumFunctionOnSet(f, s)
           A == {n \in Nat : \A s \in SUBSET S : Cardinality(s) = n =>
                              \A y \in s : Sum(s) = f[y] + Sum(s \ {y})}
<1>1. \A s \in SUBSET S :
        /\ Summable(f, s) /\ Sum(s) \in Int
        /\ IsFiniteSet(s) /\ Cardinality(s) \in Nat /\ (Cardinality(s) = 0 <=> s = {})
  BY FS_Subset, FS_CardinalityType, FS_EmptySet, SumType DEF Summable
<1>2. \A s \in SUBSET S : s # {} => Pick(s) \in s /\ Sum(s) = f[Pick(s)] + Sum(s \ {Pick(s)})
  BY <1>1, SumPick DEF Pick
<1>3. \A s \in SUBSET S : \A y \in s : /\ s \ {y} \in SUBSET S /\ f[y] \in Int
                                     /\ Cardinality(s \ {y}) = Cardinality(s) - 1
  BY <1>1, FS_RemoveElement DEF Summable
<1> HIDE DEF Sum
<1>4. 0 \in A
  BY <1>1
<1>5. ASSUME NEW n \in Nat, n \in A PROVE n + 1 \in A
  <2> SUFFICES ASSUME NEW s \in SUBSET S, Cardinality(s) = n + 1, NEW y \in s
               PROVE  Sum(s) = f[y] + Sum(s \ {y})
    OBVIOUS
  <2> DEFINE p == Pick(s)
  <2>1. p \in s /\ Sum(s) = f[p] + Sum(s \ {p})
    BY <1>2
  <2>2. CASE p = y
    BY <2>1, <2>2
  <2>3. CASE p # y
    <3> HIDE DEF p
    <3>1. y \in s \ {p} /\ p \in s \ {y}
      BY <2>1, <2>3
    <3>2. Cardinality(s \ {p}) = n /\ Cardinality(s \ {y}) = n
      BY <1>3, <2>1
    <3>3. Sum(s \ {p}) = f[y] + Sum((s \ {p}) \ {y})
      BY <1>3, <1>5, <2>1, <3>1, <3>2
    <3>4. Sum(s \ {y}) = f[p] + Sum((s \ {y}) \ {p})
      BY <1>3, <1>5, <2>1, <3>1, <3>2
    <3>5. (s \ {p}) \ {y} = (s \ {y}) \ {p} /\ (s \ {p}) \ {y} \in SUBSET S
      OBVIOUS
    <3>6. f[p] \in Int /\ f[y] \in Int /\ Sum((s \ {p}) \ {y}) \in Int
      BY <1>1, <1>3, <2>1, <3>5
    <3>7. ASSUME NEW a \in Int, NEW b \in Int, NEW c \in Int PROVE a + (b + c) = b + (a + c)
      BY <3>7
    <3> DEFINE r == Sum((s \ {p}) \ {y})
    <3>8. Sum(s) = f[p] + (f[y] + r) /\ Sum(s \ {y}) = f[p] + r
      BY <2>1, <3>3, <3>4, <3>5
    <3> HIDE DEF r
    <3>9. r \in Int
      BY <3>6 DEF r
    <3> QED  BY <3>6, <3>7, <3>8, <3>9
  <2> QED  BY <2>2, <2>3
<1> HIDE DEF A
<1>6. Cardinality(S) \in A
  BY <1>1, <1>4, <1>5, Induction
<1> QED  BY <1>6 DEF A, Sum

\* An element more adds its value.
LEMMA SumInsert ==
  ASSUME NEW f, NEW S, Summable(f, S), NEW x, x \notin S, f[x] \in Int
  PROVE  SumFunctionOnSet(f, S \cup {x}) = f[x] + SumFunctionOnSet(f, S)
<1> DEFINE T == S \cup {x}
<1>1. Summable(f, T)
  BY FS_AddElement DEF Summable
<1>2. x \in T /\ T \ {x} = S
  OBVIOUS
<1> HIDE DEF T
<1>3. SumFunctionOnSet(f, T) = f[x] + SumFunctionOnSet(f, T \ {x})
  BY <1>1, <1>2, SumRemove
<1>4. SumFunctionOnSet(f, T) = f[x] + SumFunctionOnSet(f, S)
  BY <1>2, <1>3
<1> QED  BY <1>4 DEF T

\* A change of one value changes the sum by as much.
ChangedAt(f, g, S, x) ==
  /\ Summable(f, S)
  /\ x \in S /\ g[x] \in Int
  /\ \A y \in S \ {x} : g[y] = f[y]

LEMMA SumPut ==
  ASSUME NEW f, NEW g, NEW S, NEW x, ChangedAt(f, g, S, x)
  PROVE  SumFunctionOnSet(g, S) = SumFunctionOnSet(f, S) - f[x] + g[x]
<1> DEFINE T == S \ {x}
           Sum(h, s) == SumFunctionOnSet(h, s)
<1>0. Summable(f, S) /\ x \in S /\ g[x] \in Int /\ \A y \in T : g[y] = f[y]
  BY DEF ChangedAt
<1>1. Summable(f, T) /\ Summable(g, S)
  BY <1>0, FS_Subset DEF Summable
<1>2. Sum(f, S) = f[x] + Sum(f, T) /\ Sum(g, S) = g[x] + Sum(g, T)
  BY <1>0, <1>1, SumRemove
<1>3. Sum(g, T) = Sum(f, T) /\ Sum(f, T) \in Int
  BY <1>0, <1>1, SumSame, SumType
<1>4. f[x] \in Int
  BY <1>0 DEF Summable
<1> HIDE DEF Sum, T
<1>5. ASSUME NEW a \in Int, NEW b \in Int, NEW c \in Int PROVE b + c = (a + c) - a + b
  OBVIOUS
<1>6. Sum(g, S) = Sum(f, S) - f[x] + g[x]
  BY <1>0, <1>2, <1>3, <1>4, <1>5
<1> QED  BY <1>6 DEF Sum

\* g is f, with d more at x.
Shifted(f, g, S, x, d) ==
  /\ Summable(f, S)
  /\ x \in S /\ d \in Int /\ g[x] = f[x] + d
  /\ \A y \in S \ {x} : g[y] = f[y]

LEMMA SumShift ==
  ASSUME NEW f, NEW g, NEW S, NEW x, NEW d, Shifted(f, g, S, x, d)
  PROVE  /\ SumFunctionOnSet(g, S) = SumFunctionOnSet(f, S) + d
         /\ Summable(g, S)
<1>1. f[x] \in Int /\ d \in Int /\ g[x] = f[x] + d /\ g[x] \in Int
  BY DEF Shifted, Summable
<1>2. ChangedAt(f, g, S, x)
  BY <1>1 DEF ChangedAt, Shifted
<1>3. SumFunctionOnSet(g, S) = SumFunctionOnSet(f, S) - f[x] + g[x]
  BY <1>2, SumPut
<1>4. SumFunctionOnSet(f, S) \in Int
  BY SumType DEF Shifted
<1>5. ASSUME NEW c \in Int, NEW a \in Int, NEW e \in Int PROVE c - a + (a + e) = c + e
  OBVIOUS
<1>6. Summable(g, S)
  BY <1>1, <1>2 DEF ChangedAt, Summable
<1> QED  BY <1>1, <1>3, <1>4, <1>5, <1>6

\* Induction on a finite set, for the set A of the subsets that are done.
LEMMA SetInduction ==
  ASSUME NEW S, IsFiniteSet(S),
         NEW A, {} \in A,
         \A s \in SUBSET S : \A x \in S \ s : s \in A => s \cup {x} \in A
  PROVE  S \in A
<1> DEFINE B == {n \in Nat : \A s \in SUBSET S : Cardinality(s) = n => s \in A}
<1>1. \A s \in SUBSET S : IsFiniteSet(s) /\ Cardinality(s) \in Nat /\ (Cardinality(s) = 0 <=> s = {})
  BY FS_Subset, FS_CardinalityType, FS_EmptySet
<1>2. 0 \in B
  BY <1>1
<1>3. ASSUME NEW n \in Nat, n \in B PROVE n + 1 \in B
  <2> SUFFICES ASSUME NEW s \in SUBSET S, Cardinality(s) = n + 1 PROVE s \in A
    OBVIOUS
  <2>1. PICK x \in s : TRUE
    BY <1>1
  <2>2. s \ {x} \in SUBSET S /\ x \in S \ (s \ {x}) /\ (s \ {x}) \cup {x} = s
    OBVIOUS
  <2>3. Cardinality(s \ {x}) = n
    <3>1. IsFiniteSet(s) /\ x \in s
      BY <1>1
    <3>2. Cardinality(s \ {x}) = Cardinality(s) - 1
      BY <3>1, FS_RemoveElement
    <3> QED  BY <3>2
  <2>4. s \ {x} \in A
    BY <1>3, <2>2, <2>3
  <2> QED  BY <2>2, <2>4
<1> HIDE DEF B
<1>4. Cardinality(S) \in B
  BY <1>1, <1>2, <1>3, Induction
<1> QED  BY <1>4 DEF B

\* A sum of natural numbers is one, and none of them exceeds it.
LEMMA SumNat ==
  ASSUME NEW f, NEW S, IsFiniteSet(S), \A x \in S : f[x] \in Nat
  PROVE  SumFunctionOnSet(f, S) \in Nat
<1> DEFINE Sum(s) == SumFunctionOnSet(f, s)
           A == {s \in SUBSET S : Sum(s) \in Nat}
<1>1. Summable(f, S)
  BY DEF Summable
<1>2. {} \in A
  BY SumEmpty
<1>3. ASSUME NEW s \in SUBSET S, NEW x \in S \ s, s \in A PROVE s \cup {x} \in A
  <2>1. Summable(f, s) /\ f[x] \in Nat
    BY FS_Subset DEF Summable
  <2>2. Sum(s \cup {x}) = f[x] + Sum(s)
    BY <2>1, SumInsert
  <2> HIDE DEF Sum
  <2> QED  BY <1>3, <2>1, <2>2
<1> HIDE DEF A
<1>4. S \in A
  BY <1>2, <1>3, SetInduction
<1> QED  BY <1>4 DEF A

LEMMA SumBound ==
  ASSUME NEW f, NEW S, IsFiniteSet(S), \A y \in S : f[y] \in Nat, NEW x \in S
  PROVE  f[x] <= SumFunctionOnSet(f, S)
<1> DEFINE T == S \ {x}
<1>1. Summable(f, S) /\ IsFiniteSet(T) /\ \A y \in T : f[y] \in Nat
  BY FS_Subset DEF Summable
<1>2. SumFunctionOnSet(f, S) = f[x] + SumFunctionOnSet(f, T)
  BY <1>1, SumRemove
<1>3. SumFunctionOnSet(f, T) \in Nat
  BY <1>1, SumNat
<1> HIDE DEF T
<1> DEFINE r == SumFunctionOnSet(f, T)
<1>4. SumFunctionOnSet(f, S) = f[x] + r /\ r \in Nat
  BY <1>2, <1>3
<1> HIDE DEF r
<1> QED  BY <1>4

\* A part of a sum of natural numbers does not exceed it.
LEMMA SumPart ==
  ASSUME NEW f, NEW S, IsFiniteSet(S), \A x \in S : f[x] \in Nat, NEW T \in SUBSET S
  PROVE  SumFunctionOnSet(f, T) <= SumFunctionOnSet(f, S)
<1> DEFINE Sum(s) == SumFunctionOnSet(f, s)
           A == {s \in SUBSET S : Sum(s \cap T) <= Sum(s)}
<1>1. {} \in A
  <2>1. {} \cap T = {} /\ Sum({}) = 0
    BY SumEmpty
  <2> QED  BY <2>1
<1>2. ASSUME NEW s \in SUBSET S, NEW x \in S \ s, s \in A PROVE s \cup {x} \in A
  <2> DEFINE r == s \cap T
  <2>1. /\ Summable(f, s) /\ Summable(f, r) /\ x \notin r /\ f[x] \in Nat
        /\ Sum(s) \in Nat /\ Sum(r) \in Nat
    BY FS_Subset, SumNat DEF Summable
  <2>2. Sum(s \cup {x}) = f[x] + Sum(s)
    BY <2>1, SumInsert
  <2>3. Sum(r \cup {x}) = f[x] + Sum(r)
    <3> HIDE DEF r
    <3> QED  BY <2>1, SumInsert
  <2>4. (s \cup {x}) \cap T = IF x \in T THEN r \cup {x} ELSE r
    OBVIOUS
  <2>5. Sum(r) <= Sum(s)
    BY <1>2
  <2> HIDE DEF Sum, r
  <2>6. CASE x \in T
    <3>1. Sum((s \cup {x}) \cap T) = f[x] + Sum(r)
      BY <2>3, <2>4, <2>6
    <3> QED  BY <2>1, <2>2, <2>5, <3>1
  <2>7. CASE x \notin T
    <3>1. Sum((s \cup {x}) \cap T) = Sum(r)
      BY <2>4, <2>7
    <3> QED  BY <2>1, <2>2, <2>5, <3>1
  <2> QED  BY <2>6, <2>7
<1> HIDE DEF A
<1>3. S \in A
  BY <1>1, <1>2, SetInduction
<1>4. S \cap T = T
  OBVIOUS
<1> QED  BY <1>3, <1>4 DEF A

\* The sum of the sums.
LEMMA SumAdd ==
  ASSUME NEW f, NEW g, NEW h, NEW S, Summable(f, S), Summable(g, S),
         \A x \in S : h[x] = f[x] + g[x]
  PROVE  SumFunctionOnSet(h, S) = SumFunctionOnSet(f, S) + SumFunctionOnSet(g, S)
<1> DEFINE Sum(k, s) == SumFunctionOnSet(k, s)
           A == {s \in SUBSET S : Sum(h, s) = Sum(f, s) + Sum(g, s)}
<1>1. {} \in A
  BY SumEmpty
<1>2. ASSUME NEW s \in SUBSET S, NEW x \in S \ s, s \in A PROVE s \cup {x} \in A
  <2>1. /\ Summable(f, s) /\ Summable(g, s) /\ Summable(h, s)
        /\ f[x] \in Int /\ g[x] \in Int /\ h[x] \in Int
    BY FS_Subset DEF Summable
  <2>2. /\ Sum(f, s \cup {x}) = f[x] + Sum(f, s)
        /\ Sum(g, s \cup {x}) = g[x] + Sum(g, s)
        /\ Sum(h, s \cup {x}) = h[x] + Sum(h, s)
    BY <2>1, SumInsert
  <2>3. Sum(f, s) \in Int /\ Sum(g, s) \in Int
    BY <2>1, SumType
  <2> HIDE DEF Sum
  <2>4. ASSUME NEW a \in Int, NEW b \in Int, NEW c \in Int, NEW d \in Int
        PROVE  (a + b) + (c + d) = (a + c) + (b + d)
    OBVIOUS
  <2>5. h[x] = f[x] + g[x] /\ Sum(h, s) = Sum(f, s) + Sum(g, s)
    BY <1>2
  <2> QED  BY <2>1, <2>2, <2>3, <2>4, <2>5
<1> HIDE DEF A
<1>3. S \in A
  BY <1>1, <1>2, SetInduction DEF Summable
<1> QED  BY <1>3 DEF A

\* A sum of terms k on M, and of nothing elsewhere, is k times the size of M.
LEMMA SumConst ==
  ASSUME NEW k \in Int, NEW S, IsFiniteSet(S), NEW M \in SUBSET S,
         NEW f, \A x \in S : f[x] = IF x \in M THEN k ELSE 0
  PROVE  SumFunctionOnSet(f, S) = k * Cardinality(M)
<1> DEFINE Sum(s) == SumFunctionOnSet(f, s)
           A == {s \in SUBSET S : Sum(s) = k * Cardinality(s \cap M)}
<1>1. Summable(f, S) /\ IsFiniteSet(M)
  BY FS_Subset DEF Summable
<1>2. {} \in A
  <2>1. {} \cap M = {} /\ Cardinality({}) = 0 /\ Sum({}) = 0
    BY SumEmpty, FS_EmptySet
  <2> QED  BY <2>1
<1>3. ASSUME NEW s \in SUBSET S, NEW x \in S \ s, s \in A PROVE s \cup {x} \in A
  <2>1. Summable(f, s) /\ f[x] \in Int
    BY FS_Subset DEF Summable
  <2>2. Sum(s \cup {x}) = f[x] + Sum(s) /\ Sum(s) = k * Cardinality(s \cap M)
    BY <1>3, <2>1, SumInsert
  <2> HIDE DEF Sum
  <2>3. CASE x \in M
    <3>1. (s \cup {x}) \cap M = (s \cap M) \cup {x} /\ x \notin s \cap M
      BY <2>3
    <3>2. IsFiniteSet(s \cap M)
      BY <1>1, FS_Subset
    <3>3. Cardinality((s \cap M) \cup {x}) = Cardinality(s \cap M) + 1 /\ Cardinality(s \cap M) \in Nat
      BY <3>1, <3>2, FS_AddElement, FS_CardinalityType
    <3>4. ASSUME NEW c \in Nat PROVE k + k * c = k * (c + 1)
      OBVIOUS
    <3>5. f[x] = k
      BY <2>3
    <3> QED  BY <2>2, <3>1, <3>3, <3>4, <3>5
  <2>4. CASE x \notin M
    <3>1. (s \cup {x}) \cap M = s \cap M /\ f[x] = 0
      BY <2>4
    <3>2. Cardinality(s \cap M) \in Nat
      BY <1>1, FS_Subset, FS_CardinalityType
    <3>3. Sum(s \cup {x}) = k * Cardinality((s \cup {x}) \cap M)
      <4> DEFINE c == k * Cardinality(s \cap M)
      <4>1. c \in Int
        BY <3>2
      <4>2. Sum(s \cup {x}) = 0 + c /\ c = k * Cardinality((s \cup {x}) \cap M)
        BY <2>2, <3>1
      <4> HIDE DEF c
      <4> QED  BY <4>1, <4>2
    <3> QED  BY <3>3
  <2> QED  BY <2>3, <2>4
<1> HIDE DEF A
<1>4. S \in A
  BY <1>2, <1>3, SetInduction
<1>5. S \cap M = M
  OBVIOUS
<1> QED  BY <1>4, <1>5 DEF A

\* The elements can be renamed.
LEMMA SumRenamed ==
  ASSUME NEW f, NEW g, NEW S, NEW p, Summable(f, S), \A x \in S : g[p[x]] = f[x],
         \A x, y \in S : p[x] = p[y] => x = y
  PROVE  SumFunctionOnSet(g, {p[x] : x \in S}) = SumFunctionOnSet(f, S)
<1> DEFINE Names(s) == {p[x] : x \in s}
           A == {s \in SUBSET S : /\ Summable(g, Names(s))
                                  /\ SumFunctionOnSet(g, Names(s)) = SumFunctionOnSet(f, s)}
<1>1. {} \in A
  <2>1. Names({}) = {}
    OBVIOUS
  <2>2. Summable(g, {})
    BY FS_EmptySet DEF Summable
  <2>3. SumFunctionOnSet(g, {}) = 0 /\ SumFunctionOnSet(f, {}) = 0
    BY SumEmpty
  <2> HIDE DEF Names
  <2> QED  BY <2>1, <2>2, <2>3
<1>2. ASSUME NEW s \in SUBSET S, NEW x \in S \ s, s \in A PROVE s \cup {x} \in A
  <2>1. Names(s \cup {x}) = Names(s) \cup {p[x]} /\ p[x] \notin Names(s)
    OBVIOUS
  <2>2. Summable(f, s) /\ f[x] \in Int /\ g[p[x]] = f[x] /\ x \notin s
    BY FS_Subset DEF Summable
  <2>3. /\ Summable(g, Names(s))
        /\ SumFunctionOnSet(g, Names(s)) = SumFunctionOnSet(f, s)
    BY <1>2
  <2> HIDE DEF Names
  <2>4. SumFunctionOnSet(g, Names(s) \cup {p[x]}) = g[p[x]] + SumFunctionOnSet(g, Names(s))
    BY <2>1, <2>2, <2>3, SumInsert
  <2>5. SumFunctionOnSet(f, s \cup {x}) = f[x] + SumFunctionOnSet(f, s)
    BY <2>2, SumInsert
  <2>6. Summable(g, Names(s) \cup {p[x]})
    BY <2>2, <2>3, FS_AddElement DEF Summable
  <2> QED  BY <2>1, <2>2, <2>3, <2>4, <2>5, <2>6
<1> HIDE DEF A
<1>3. S \in A
  BY <1>1, <1>2, SetInduction DEF Summable
<1> QED  BY <1>3 DEF A
==============================================================================
