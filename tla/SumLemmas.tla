----------------------------- MODULE SumLemmas -----------------------------
(***************************************************************************)
(* Sums over finite sets, for the proofs about the models that keep        *)
(* accounts.  SumFunctionOnSet is a fold, that is, a function defined by   *)
(* recursion over the subsets of a set: that it is well-defined, and does  *)
(* not depend on the order in which the elements are chosen, is shown here *)
(* by taking a smallest counterexample.                                    *)
(***************************************************************************)
EXTENDS Functions, FiniteSetTheorems, TLAPS

\* A set of natural numbers has a least element.
LEMMA NatMin ==
  ASSUME NEW T \in SUBSET Nat, T # {}
  PROVE  \E n \in T : \A k \in T : n <= k
<1>1. \E n \in T : \A k \in T : ~(<<k, n>> \in OpToRel(<, Nat))
  BY WFMin, NatLessThanWellFounded
<1>2. \A k, n \in Nat : <<k, n>> \in OpToRel(<, Nat) <=> k < n
  BY DEF OpToRel
<1>3. \E n \in T : \A k \in T : ~(k < n)
  BY <1>1, <1>2, Zenon
<1> QED BY <1>3

\* Induction over the subsets of a finite set, with the good subsets as a set.
LEMMA SetInduction ==
  ASSUME NEW S, IsFiniteSet(S), NEW G, {} \in G,
         \A T \in SUBSET S : T \in G => \A x \in S \ T : T \cup {x} \in G
  PROVE  S \in G
<1>1. SUFFICES ASSUME S \notin G PROVE FALSE
  OBVIOUS
<1> DEFINE Bad == {n \in Nat : \E T \in SUBSET S : T \notin G /\ Cardinality(T) = n}
<1>2. \A T \in SUBSET S : IsFiniteSet(T) /\ Cardinality(T) \in Nat
  BY FS_Subset, FS_CardinalityType
<1>3. Cardinality(S) \in Bad
  BY <1>1, <1>2
<1>4. PICK n \in Bad : \A k \in Bad : n <= k
  <2> HIDE DEF Bad
  <2>1. Bad \in SUBSET Nat
    BY DEF Bad
  <2> QED BY <1>3, <2>1, NatMin
<1>5. PICK T \in SUBSET S : T \notin G /\ Cardinality(T) = n
  OBVIOUS
<1>6. PICK x \in T : TRUE
  BY <1>5
<1>7. Cardinality(T \ {x}) = n - 1
  BY <1>2, <1>5, <1>6, FS_RemoveElement
<1>8. T \ {x} \in G
  <2>1. CASE T \ {x} \notin G
    <3>1. Cardinality(T \ {x}) \in Bad
      BY <1>2, <2>1
    <3> QED BY <3>1, <1>4, <1>7
  <2> QED BY <2>1
<1>9. (T \ {x}) \cup {x} \in G
  BY <1>8, <1>6
<1> QED BY <1>9, <1>5, <1>6

-----------------------------------------------------------------------------
(* The recursion behind SumFunctionOnSet                                   *)

Chosen(s) == CHOOSE x \in s : TRUE
SumBody(f, g, s) == IF s = {} THEN 0 ELSE f[Chosen(s)] + g[s \ {Chosen(s)}]
Sums(f, g, S) == g = [s \in SUBSET S |-> SumBody(f, g, s)]

LEMMA SumUnfold ==
  ASSUME NEW f, NEW S
  PROVE  SumFunctionOnSet(f, S) = (CHOOSE g : Sums(f, g, S))[S]
BY DEF SumFunctionOnSet, FoldFunctionOnSet, MapThenFoldSet, Sums, SumBody, Chosen

LEMMA ChosenIn == ASSUME NEW s, s # {} PROVE Chosen(s) \in s
BY DEF Chosen

\* The recursion has a solution: one that holds up to n elements extends to
\* one that holds up to n + 1.
LEMMA SumsExists ==
  ASSUME NEW f, NEW S, IsFiniteSet(S)
  PROVE  \E g : Sums(f, g, S)
<1> DEFINE UpTo(g, n) == /\ g = [s \in SUBSET S |-> g[s]]
                         /\ \A s \in SUBSET S : Cardinality(s) <= n => g[s] = SumBody(f, g, s)
           Bad == {n \in Nat : ~ \E g : UpTo(g, n)}
<1>1. \A s \in SUBSET S : IsFiniteSet(s) /\ Cardinality(s) \in Nat /\ Cardinality(s) <= Cardinality(S)
  BY FS_Subset, FS_CardinalityType
<1>2. \A s \in SUBSET S : s # {} => Cardinality(s \ {Chosen(s)}) = Cardinality(s) - 1
  BY <1>1, FS_RemoveElement, ChosenIn
<1>3. \E g : UpTo(g, 0)
  <2> DEFINE g == [s \in SUBSET S |-> 0]
  <2>1. \A s \in SUBSET S : Cardinality(s) <= 0 => s = {}
    BY <1>1, FS_EmptySet
  <2>2. UpTo(g, 0)
    BY <2>1 DEF SumBody
  <2> QED BY <2>2
<1>4. ASSUME NEW n \in Nat, NEW g, UpTo(g, n)
      PROVE  \E h : UpTo(h, n + 1)
  <2> DEFINE h == [s \in SUBSET S |-> IF Cardinality(s) <= n THEN g[s] ELSE SumBody(f, g, s)]
  <2>1. \A s \in SUBSET S : h[s] = SumBody(f, g, s)
    BY <1>4
  <2>2. ASSUME NEW s \in SUBSET S, Cardinality(s) <= n + 1, s # {}
        PROVE  h[s \ {Chosen(s)}] = g[s \ {Chosen(s)}]
    BY <1>1, <1>2, <2>2
  <2>3. \A s \in SUBSET S : Cardinality(s) <= n + 1 => h[s] = SumBody(f, h, s)
    <3> SUFFICES ASSUME NEW s \in SUBSET S, Cardinality(s) <= n + 1
                 PROVE  h[s] = SumBody(f, h, s)
      OBVIOUS
    <3>1. SumBody(f, h, s) = SumBody(f, g, s)
      <4> HIDE DEF h
      <4> QED BY <2>2 DEF SumBody
    <3> QED BY <2>1, <3>1
  <2>4. h = [s \in SUBSET S |-> h[s]]
    OBVIOUS
  <2>5. UpTo(h, n + 1)
    <3> HIDE DEF h
    <3> QED BY <2>3, <2>4
  <2> QED BY <2>5
<1>5. Bad = {}
  <2>1. SUFFICES ASSUME Bad # {} PROVE FALSE
    OBVIOUS
  <2>2. PICK n \in Bad : \A k \in Bad : n <= k
    <3>1. Bad \in SUBSET Nat
      OBVIOUS
    <3> HIDE DEF Bad
    <3> QED BY <2>1, <3>1, NatMin
  <2>3. n # 0 /\ n \in Nat
    BY <1>3, <2>2
  <2>4. n - 1 \in Nat /\ n - 1 \notin Bad
    <3>1. n - 1 \in Nat /\ ~(n <= n - 1)
      BY <2>3
    <3> HIDE DEF Bad
    <3> QED BY <2>2, <3>1
  <2>5. PICK g : UpTo(g, n - 1)
    BY <2>4
  <2>6. \E h : UpTo(h, (n - 1) + 1)
    <3> HIDE DEF UpTo
    <3> QED BY <2>4, <2>5, <1>4
  <2>7. (n - 1) + 1 = n
    BY <2>3
  <2> QED BY <2>2, <2>6, <2>7
<1>6. PICK g : UpTo(g, Cardinality(S))
  BY <1>1, <1>5
<1>7. \A s \in SUBSET S : g[s] = SumBody(f, g, s)
  BY <1>1, <1>6
<1>8. g = [s \in SUBSET S |-> SumBody(f, g, s)]
  BY <1>6, <1>7
<1> QED BY <1>8 DEF Sums

\* Two solutions agree where both are defined.
LEMMA SumsUnique ==
  ASSUME NEW f, NEW S, IsFiniteSet(S), NEW T \in SUBSET S,
         NEW g, Sums(f, g, S), NEW h, Sums(f, h, T)
  PROVE  g[T] = h[T]
<1> DEFINE Bad == {n \in Nat : \E s \in SUBSET T : g[s] # h[s] /\ Cardinality(s) = n}
<1>1. \A s \in SUBSET T : IsFiniteSet(s) /\ Cardinality(s) \in Nat
  BY FS_Subset, FS_CardinalityType
<1>2. \A s \in SUBSET T : g[s] = SumBody(f, g, s) /\ h[s] = SumBody(f, h, s)
  BY DEF Sums
<1>3. SUFFICES ASSUME g[T] # h[T] PROVE FALSE
  OBVIOUS
<1>4. Cardinality(T) \in Bad
  BY <1>1, <1>3
<1>5. PICK n \in Bad : \A k \in Bad : n <= k
  <2>1. Bad \in SUBSET Nat
    OBVIOUS
  <2> HIDE DEF Bad
  <2> QED BY <1>4, <2>1, NatMin
<1>6. PICK s \in SUBSET T : g[s] # h[s] /\ Cardinality(s) = n
  BY <1>5
<1>7. s # {}
  BY <1>2, <1>6 DEF SumBody
<1>8. Chosen(s) \in s
  BY <1>7, ChosenIn
<1>9. Cardinality(s \ {Chosen(s)}) = n - 1
  BY <1>1, <1>6, <1>8, FS_RemoveElement
<1>10. g[s \ {Chosen(s)}] = h[s \ {Chosen(s)}]
  <2>1. SUFFICES ASSUME g[s \ {Chosen(s)}] # h[s \ {Chosen(s)}] PROVE FALSE
    OBVIOUS
  <2>2. n - 1 \in Bad
    BY <1>1, <1>6, <1>9, <2>1
  <2> QED BY <2>2, <1>5
<1> QED BY <1>2, <1>6, <1>10 DEF SumBody

LEMMA SumIs ==
  ASSUME NEW f, NEW S, IsFiniteSet(S), NEW T \in SUBSET S, NEW g, Sums(f, g, S)
  PROVE  SumFunctionOnSet(f, T) = g[T]
<1>1. IsFiniteSet(T)
  BY FS_Subset
<1>2. Sums(f, CHOOSE h : Sums(f, h, T), T)
  BY <1>1, SumsExists
<1> QED BY <1>2, SumUnfold, SumsUnique

-----------------------------------------------------------------------------
(* What a sum is                                                           *)

LEMMA SumEmpty == \A f : SumFunctionOnSet(f, {}) = 0
<1> SUFFICES ASSUME NEW f PROVE SumFunctionOnSet(f, {}) = 0
  OBVIOUS
<1>1. PICK g : Sums(f, g, {})
  BY SumsExists, FS_EmptySet
<1>2. g[{}] = 0
  BY <1>1 DEF Sums, SumBody
<1>3. SumFunctionOnSet(f, {}) = g[{}]
  BY <1>1, SumIs, FS_EmptySet
<1> QED BY <1>2, <1>3

LEMMA SumChosen ==
  ASSUME NEW f, NEW S, IsFiniteSet(S), S # {}
  PROVE  SumFunctionOnSet(f, S) = f[Chosen(S)] + SumFunctionOnSet(f, S \ {Chosen(S)})
<1>1. PICK g : Sums(f, g, S)
  BY SumsExists
<1>2. SumFunctionOnSet(f, S) = g[S] /\ SumFunctionOnSet(f, S \ {Chosen(S)}) = g[S \ {Chosen(S)}]
  BY <1>1, SumIs
<1> QED BY <1>1, <1>2 DEF Sums, SumBody

\* The summands are integers.
Summable(f, S) == IsFiniteSet(S) /\ \A x \in S : f[x] \in Int

LEMMA SumInt ==
  ASSUME NEW f, NEW S, Summable(f, S)
  PROVE  SumFunctionOnSet(f, S) \in Int
<1> DEFINE Bad == {n \in Nat : \E T \in SUBSET S : SumFunctionOnSet(f, T) \notin Int
                                                /\ Cardinality(T) = n}
<1>1. \A T \in SUBSET S : IsFiniteSet(T) /\ Cardinality(T) \in Nat
  BY FS_Subset, FS_CardinalityType DEF Summable
<1>2. SUFFICES ASSUME SumFunctionOnSet(f, S) \notin Int PROVE FALSE
  OBVIOUS
<1>3. PICK n \in Bad : \A k \in Bad : n <= k
  <2>1. Cardinality(S) \in Bad /\ Bad \in SUBSET Nat
    BY <1>1, <1>2
  <2> HIDE DEF Bad
  <2> QED BY <2>1, NatMin
<1>4. PICK T \in SUBSET S : SumFunctionOnSet(f, T) \notin Int /\ Cardinality(T) = n
  BY <1>3
<1>5. T # {} /\ Chosen(T) \in T
  BY <1>4, SumEmpty, ChosenIn
<1>6. Cardinality(T \ {Chosen(T)}) = n - 1
  BY <1>1, <1>4, <1>5, FS_RemoveElement
<1>7. SumFunctionOnSet(f, T \ {Chosen(T)}) \in Int
  <2>1. SUFFICES ASSUME SumFunctionOnSet(f, T \ {Chosen(T)}) \notin Int PROVE FALSE
    OBVIOUS
  <2>2. n - 1 \in Bad
    BY <1>1, <1>6, <2>1
  <2> QED BY <1>3, <2>2
<1> QED BY <1>1, <1>4, <1>5, <1>7, SumChosen DEF Summable

\* Any element may be taken out first.
LEMMA SumSplit ==
  ASSUME NEW f, NEW S, Summable(f, S), NEW x \in S
  PROVE  SumFunctionOnSet(f, S) = f[x] + SumFunctionOnSet(f, S \ {x})
<1> DEFINE Splits(T) == \A y \in T : SumFunctionOnSet(f, T) = f[y] + SumFunctionOnSet(f, T \ {y})
           Bad == {n \in Nat : \E T \in SUBSET S : ~Splits(T) /\ Cardinality(T) = n}
<1>1. \A T \in SUBSET S : IsFiniteSet(T) /\ Cardinality(T) \in Nat
  BY FS_Subset, FS_CardinalityType DEF Summable
<1>2. \A T \in SUBSET S : SumFunctionOnSet(f, T) \in Int
  BY <1>1, SumInt DEF Summable
<1>3. SUFFICES ASSUME ~Splits(S) PROVE FALSE
  OBVIOUS
<1>4. PICK n \in Bad : \A k \in Bad : n <= k
  <2>1. Cardinality(S) \in Bad /\ Bad \in SUBSET Nat
    BY <1>1, <1>3
  <2> HIDE DEF Bad
  <2> QED BY <2>1, NatMin
<1>5. PICK T \in SUBSET S : ~Splits(T) /\ Cardinality(T) = n
  BY <1>4
<1>6. PICK y \in T : SumFunctionOnSet(f, T) # f[y] + SumFunctionOnSet(f, T \ {y})
  BY <1>5
<1> DEFINE c == Chosen(T)
<1>7. c \in T /\ SumFunctionOnSet(f, T) = f[c] + SumFunctionOnSet(f, T \ {c})
  BY <1>1, <1>6, SumChosen, ChosenIn
<1> HIDE DEF c
<1>8. y # c
  BY <1>6, <1>7
<1>9. ASSUME NEW z \in T PROVE Splits(T \ {z})
  <2>1. SUFFICES ASSUME ~Splits(T \ {z}) PROVE FALSE
    OBVIOUS
  <2>2. Cardinality(T \ {z}) = n - 1
    BY <1>1, <1>5, FS_RemoveElement
  <2>3. n - 1 \in Bad
    <3> HIDE DEF Splits
    <3> QED BY <1>1, <2>1, <2>2
  <2> QED BY <1>4, <2>3
<1>10. SumFunctionOnSet(f, T \ {c}) = f[y] + SumFunctionOnSet(f, (T \ {c}) \ {y})
  BY <1>7, <1>8, <1>9
<1>11. SumFunctionOnSet(f, T \ {y}) = f[c] + SumFunctionOnSet(f, (T \ {y}) \ {c})
  BY <1>7, <1>8, <1>9
<1>12. SumFunctionOnSet(f, (T \ {y}) \ {c}) = SumFunctionOnSet(f, (T \ {c}) \ {y})
  <2>1. (T \ {y}) \ {c} = (T \ {c}) \ {y}
    OBVIOUS
  <2> QED BY <2>1, Zenon
<1>13. /\ f[y] \in Int /\ f[c] \in Int
       /\ SumFunctionOnSet(f, (T \ {c}) \ {y}) \in Int
  BY <1>2, <1>7 DEF Summable
<1> DEFINE whole == SumFunctionOnSet(f, T)
           sansC == SumFunctionOnSet(f, T \ {c})
           sansY == SumFunctionOnSet(f, T \ {y})
           rest  == SumFunctionOnSet(f, (T \ {c}) \ {y})
<1>14. /\ whole = f[c] + sansC /\ sansC = f[y] + rest /\ sansY = f[c] + rest
       /\ rest \in Int /\ f[c] \in Int /\ f[y] \in Int
  BY <1>7, <1>10, <1>11, <1>12, <1>13
<1>15. whole = f[y] + sansY
  <2> HIDE DEF whole, sansC, sansY, rest
  <2> QED BY <1>14
<1> QED BY <1>6, <1>15

LEMMA SumAdd ==
  ASSUME NEW f, NEW S, Summable(f, S), NEW x, x \notin S, f[x] \in Int
  PROVE  SumFunctionOnSet(f, S \cup {x}) = f[x] + SumFunctionOnSet(f, S)
<1>1. Summable(f, S \cup {x})
  BY FS_AddElement DEF Summable
<1>2. (S \cup {x}) \ {x} = S
  OBVIOUS
<1> QED BY <1>1, <1>2, SumSplit

LEMMA SumUnion ==
  ASSUME NEW f, NEW S, Summable(f, S), NEW T, Summable(f, T), S \cap T = {}
  PROVE  SumFunctionOnSet(f, S \cup T) = SumFunctionOnSet(f, S) + SumFunctionOnSet(f, T)
<1> DEFINE G == {U \in SUBSET T : SumFunctionOnSet(f, S \cup U) =
                                   SumFunctionOnSet(f, S) + SumFunctionOnSet(f, U)}
<1>1. \A U \in SUBSET T : Summable(f, U) /\ Summable(f, S \cup U)
  BY FS_Subset, FS_Union DEF Summable
<1>2. {} \in G
  BY SumEmpty, SumInt
<1>3. ASSUME NEW U \in SUBSET T, U \in G, NEW x \in T \ U
      PROVE  U \cup {x} \in G
  <2>1. S \cup (U \cup {x}) = (S \cup U) \cup {x} /\ x \notin S \cup U /\ f[x] \in Int
    BY DEF Summable
  <2>2. SumFunctionOnSet(f, (S \cup U) \cup {x}) = f[x] + SumFunctionOnSet(f, S \cup U)
    BY <1>1, <2>1, SumAdd
  <2>3. SumFunctionOnSet(f, U \cup {x}) = f[x] + SumFunctionOnSet(f, U)
    BY <1>1, <2>1, SumAdd
  <2>4. SumFunctionOnSet(f, S) \in Int /\ SumFunctionOnSet(f, U) \in Int
    BY <1>1, SumInt
  <2>5. SumFunctionOnSet(f, S \cup (U \cup {x})) = SumFunctionOnSet(f, (S \cup U) \cup {x})
    BY <2>1, Zenon
  <2>6. SumFunctionOnSet(f, S \cup U) = SumFunctionOnSet(f, S) + SumFunctionOnSet(f, U)
    BY <1>3
  <2>7. SumFunctionOnSet(f, S \cup (U \cup {x})) =
          SumFunctionOnSet(f, S) + SumFunctionOnSet(f, U \cup {x})
    BY <2>1, <2>2, <2>3, <2>4, <2>5, <2>6
  <2> QED BY <2>7
<1>4. T \in G
  <2> HIDE DEF G
  <2> QED BY <1>2, <1>3, SetInduction DEF Summable
<1> QED BY <1>4

\* Sums are compared summand by summand.
LEMMA SumMono ==
  ASSUME NEW f, NEW g, NEW S, Summable(f, S), Summable(g, S),
         \A x \in S : f[x] <= g[x]
  PROVE  SumFunctionOnSet(f, S) <= SumFunctionOnSet(g, S)
<1> DEFINE G == {U \in SUBSET S : SumFunctionOnSet(f, U) <= SumFunctionOnSet(g, U)}
<1>1. \A U \in SUBSET S : Summable(f, U) /\ Summable(g, U)
  BY FS_Subset DEF Summable
<1>2. {} \in G
  BY SumEmpty
<1>3. ASSUME NEW U \in SUBSET S, U \in G, NEW x \in S \ U
      PROVE  U \cup {x} \in G
  <2>1. /\ SumFunctionOnSet(f, U \cup {x}) = f[x] + SumFunctionOnSet(f, U)
        /\ SumFunctionOnSet(g, U \cup {x}) = g[x] + SumFunctionOnSet(g, U)
    BY <1>1, SumAdd DEF Summable
  <2>2. /\ SumFunctionOnSet(f, U) \in Int /\ SumFunctionOnSet(g, U) \in Int
        /\ f[x] \in Int /\ g[x] \in Int
    BY <1>1, SumInt DEF Summable
  <2>3. SumFunctionOnSet(f, U \cup {x}) <= SumFunctionOnSet(g, U \cup {x})
    BY <1>3, <2>1, <2>2
  <2> QED BY <2>3
<1>4. S \in G
  <2> HIDE DEF G
  <2> QED BY <1>2, <1>3, SetInduction DEF Summable
<1> QED BY <1>4

LEMMA SumSame ==
  ASSUME NEW f, NEW g, NEW S, Summable(f, S), \A x \in S : f[x] = g[x]
  PROVE  SumFunctionOnSet(f, S) = SumFunctionOnSet(g, S)
<1>1. Summable(g, S) /\ \A x \in S : f[x] <= g[x] /\ g[x] <= f[x]
  BY DEF Summable
<1>2. SumFunctionOnSet(f, S) <= SumFunctionOnSet(g, S)
      /\ SumFunctionOnSet(g, S) <= SumFunctionOnSet(f, S)
  BY <1>1, SumMono
<1> QED BY <1>1, <1>2, SumInt

\* Summands that are not negative.
Countable(f, S) == IsFiniteSet(S) /\ \A x \in S : f[x] \in Nat

LEMMA SumNat ==
  ASSUME NEW f, NEW S, Countable(f, S)
  PROVE  SumFunctionOnSet(f, S) \in Nat
<1> DEFINE G == {U \in SUBSET S : SumFunctionOnSet(f, U) \in Nat}
<1>1. {} \in G
  BY SumEmpty
<1>2. ASSUME NEW U \in SUBSET S, U \in G, NEW x \in S \ U
      PROVE  U \cup {x} \in G
  <2>1. Summable(f, U) /\ f[x] \in Nat
    BY FS_Subset DEF Summable, Countable
  <2>2. SumFunctionOnSet(f, U \cup {x}) = f[x] + SumFunctionOnSet(f, U)
    BY <2>1, SumAdd
  <2> QED BY <1>2, <2>1, <2>2
<1>3. S \in G
  <2> HIDE DEF G
  <2> QED BY <1>1, <1>2, SetInduction DEF Countable
<1> QED BY <1>3

LEMMA SumSubset ==
  ASSUME NEW f, NEW S, Countable(f, S), NEW T \in SUBSET S
  PROVE  /\ SumFunctionOnSet(f, T) <= SumFunctionOnSet(f, S)
         /\ SumFunctionOnSet(f, S) = SumFunctionOnSet(f, T) + SumFunctionOnSet(f, S \ T)
<1>1. /\ Countable(f, T) /\ Countable(f, S \ T)
      /\ Summable(f, T) /\ Summable(f, S \ T)
  BY FS_Subset, FS_Difference DEF Countable, Summable
<1>2. T \cup (S \ T) = S /\ T \cap (S \ T) = {}
  OBVIOUS
<1>3. SumFunctionOnSet(f, S) = SumFunctionOnSet(f, T) + SumFunctionOnSet(f, S \ T)
  BY <1>1, <1>2, SumUnion
<1>4. SumFunctionOnSet(f, T) \in Nat /\ SumFunctionOnSet(f, S \ T) \in Nat
  BY <1>1, SumNat
<1> QED BY <1>3, <1>4
LEMMA SumZero ==
  ASSUME NEW f, NEW S, IsFiniteSet(S), \A x \in S : f[x] = 0
  PROVE  SumFunctionOnSet(f, S) = 0
<1> DEFINE G == {U \in SUBSET S : SumFunctionOnSet(f, U) = 0}
<1>1. {} \in G
  BY SumEmpty
<1>2. ASSUME NEW U \in SUBSET S, U \in G, NEW x \in S \ U
      PROVE  U \cup {x} \in G
  <2>1. Summable(f, U) /\ f[x] = 0
    BY FS_Subset DEF Summable
  <2>2. SumFunctionOnSet(f, U \cup {x}) = f[x] + SumFunctionOnSet(f, U)
    BY <2>1, SumAdd
  <2> QED BY <1>2, <2>1, <2>2
<1>3. S \in G
  <2> HIDE DEF G
  <2> QED BY <1>1, <1>2, SetInduction
<1> QED BY <1>3

\* What counts nothing may be left out of a sum.
LEMMA SumRestrict ==
  ASSUME NEW f, NEW g, NEW S, IsFiniteSet(S), NEW T \in SUBSET S, Summable(f, T),
         \A x \in T : g[x] = f[x], \A x \in S \ T : g[x] = 0
  PROVE  SumFunctionOnSet(g, S) = SumFunctionOnSet(f, T)
<1>1. Summable(g, T) /\ Summable(g, S \ T)
  BY FS_Difference DEF Summable
<1>2. T \cup (S \ T) = S /\ T \cap (S \ T) = {}
  OBVIOUS
<1>3. SumFunctionOnSet(g, S) = SumFunctionOnSet(g, T) + SumFunctionOnSet(g, S \ T)
  BY <1>1, <1>2, SumUnion
<1>4. SumFunctionOnSet(g, S \ T) = 0
  BY <1>1, SumZero DEF Summable
<1>5. SumFunctionOnSet(g, T) = SumFunctionOnSet(f, T)
  BY SumSame
<1>6. SumFunctionOnSet(f, T) \in Int
  BY SumInt
<1> QED BY <1>3, <1>4, <1>5, <1>6

\* One summand changes by d, the others do not grow.
LEMMA SumStep ==
  ASSUME NEW f, NEW g, NEW S, Summable(f, S), Summable(g, S), NEW x \in S, NEW d \in Int,
         g[x] <= f[x] + d, \A y \in S \ {x} : g[y] <= f[y]
  PROVE  SumFunctionOnSet(g, S) <= SumFunctionOnSet(f, S) + d
<1>1. Summable(f, S \ {x}) /\ Summable(g, S \ {x})
  BY FS_RemoveElement DEF Summable
<1>2. /\ SumFunctionOnSet(f, S) = f[x] + SumFunctionOnSet(f, S \ {x})
      /\ SumFunctionOnSet(g, S) = g[x] + SumFunctionOnSet(g, S \ {x})
  BY SumSplit
<1>3. SumFunctionOnSet(g, S \ {x}) <= SumFunctionOnSet(f, S \ {x})
  BY <1>1, SumMono
<1>4. /\ SumFunctionOnSet(f, S \ {x}) \in Int /\ SumFunctionOnSet(g, S \ {x}) \in Int
      /\ f[x] \in Int /\ g[x] \in Int
  BY <1>1, SumInt DEF Summable
<1> QED BY <1>2, <1>3, <1>4

\* One summand changes by d, the others stay.
LEMMA SumChange ==
  ASSUME NEW f, NEW g, NEW S, Summable(f, S), NEW x \in S, NEW d \in Int,
         g[x] = f[x] + d, \A y \in S \ {x} : g[y] = f[y]
  PROVE  SumFunctionOnSet(g, S) = SumFunctionOnSet(f, S) + d
<1>1. Summable(g, S) /\ Summable(f, S \ {x})
  BY FS_RemoveElement DEF Summable
<1>2. /\ SumFunctionOnSet(f, S) = f[x] + SumFunctionOnSet(f, S \ {x})
      /\ SumFunctionOnSet(g, S) = g[x] + SumFunctionOnSet(g, S \ {x})
  BY <1>1, SumSplit
<1>3. SumFunctionOnSet(g, S \ {x}) = SumFunctionOnSet(f, S \ {x})
  BY <1>1, SumSame
<1>4. SumFunctionOnSet(f, S \ {x}) \in Int /\ f[x] \in Int
  BY <1>1, SumInt DEF Summable
<1> QED BY <1>2, <1>3, <1>4
LEMMA SumPlus ==
  ASSUME NEW f, NEW g, NEW h, NEW S, Summable(f, S), Summable(g, S),
         \A x \in S : h[x] = f[x] + g[x]
  PROVE  SumFunctionOnSet(h, S) = SumFunctionOnSet(f, S) + SumFunctionOnSet(g, S)
<1> DEFINE G == {U \in SUBSET S : SumFunctionOnSet(h, U) =
                                    SumFunctionOnSet(f, U) + SumFunctionOnSet(g, U)}
<1>1. {} \in G
  BY SumEmpty
<1>2. ASSUME NEW U \in SUBSET S, U \in G, NEW x \in S \ U
      PROVE  U \cup {x} \in G
  <2>1. /\ Summable(f, U) /\ Summable(g, U) /\ Summable(h, U)
        /\ f[x] \in Int /\ g[x] \in Int /\ h[x] \in Int
    BY FS_Subset DEF Summable
  <2>2. SumFunctionOnSet(f, U \cup {x}) = f[x] + SumFunctionOnSet(f, U)
    BY <1>2, <2>1, SumAdd
  <2>3. SumFunctionOnSet(g, U \cup {x}) = g[x] + SumFunctionOnSet(g, U)
    BY <1>2, <2>1, SumAdd
  <2>4. SumFunctionOnSet(h, U \cup {x}) = h[x] + SumFunctionOnSet(h, U)
    BY <1>2, <2>1, SumAdd
  <2>5. SumFunctionOnSet(f, U) \in Int /\ SumFunctionOnSet(g, U) \in Int
    BY <2>1, SumInt
  <2> QED BY <1>2, <2>1, <2>2, <2>3, <2>4, <2>5
<1>3. S \in G
  <2>1. \A T \in SUBSET S : T \in G => \A x \in S \ T : T \cup {x} \in G
    BY <1>2
  <2> HIDE DEF G
  <2> QED BY <1>1, <2>1, SetInduction DEF Summable
<1> QED BY <1>3

-----------------------------------------------------------------------------
\* A product grows with its factors, and a factor may be taken out of a sum.
LEMMA MulMono ==
  ASSUME NEW a \in Nat, NEW b \in Nat, a <= b, NEW g \in Nat
  PROVE  g * a \in Nat /\ g * a <= g * b
OBVIOUS
LEMMA SumScale ==
  ASSUME NEW f, NEW S, Countable(f, S), NEW g \in Nat
  PROVE  SumFunctionOnSet([x \in S |-> g * f[x]], S) = g * SumFunctionOnSet(f, S)
<1> DEFINE h == [x \in S |-> g * f[x]]
           G == {U \in SUBSET S : SumFunctionOnSet(h, U) = g * SumFunctionOnSet(f, U)}
<1>1. \A x \in S : h[x] \in Nat /\ h[x] = g * f[x]
  BY MulMono DEF Countable
<1>2. \A U \in SUBSET S : Summable(f, U) /\ Summable(h, U) /\ Countable(f, U)
  BY <1>1, FS_Subset DEF Countable, Summable
<1>3. {} \in G
  BY SumEmpty
<1>4. ASSUME NEW U \in SUBSET S, U \in G, NEW x \in S \ U
      PROVE  U \cup {x} \in G
  <2> HIDE DEF h
  <2>1. f[x] \in Int /\ h[x] \in Int
    BY <1>1 DEF Countable
  <2>2. /\ SumFunctionOnSet(h, U \cup {x}) = h[x] + SumFunctionOnSet(h, U)
        /\ SumFunctionOnSet(f, U \cup {x}) = f[x] + SumFunctionOnSet(f, U)
    BY <1>2, <2>1, SumAdd
  <2>3. SumFunctionOnSet(f, U) \in Nat
    BY <1>2, SumNat
  <2>4. SumFunctionOnSet(h, U) = g * SumFunctionOnSet(f, U)
    BY <1>4
  <2> DEFINE a == f[x]
             b == SumFunctionOnSet(f, U)
  <2>5. g * (a + b) = g * a + g * b
    <3>1. a \in Int /\ b \in Int
      BY <2>1, <2>3
    <3> HIDE DEF a, b
    <3> QED BY <3>1
  <2>6. SumFunctionOnSet(h, U \cup {x}) = g * SumFunctionOnSet(f, U \cup {x})
    <3>1. SumFunctionOnSet(h, U \cup {x}) = g * a + g * b
      BY <1>1, <2>2, <2>4
    <3>2. g * SumFunctionOnSet(f, U \cup {x}) = g * (a + b)
      BY <2>2
    <3> HIDE DEF a, b
    <3> QED BY <2>5, <3>1, <3>2
  <2> QED BY <2>6
<1>5. S \in G
  <2>1. \A T \in SUBSET S : T \in G => \A x \in S \ T : T \cup {x} \in G
    BY <1>4
  <2> HIDE DEF G
  <2> QED BY <1>3, <2>1, SetInduction DEF Countable
<1> QED BY <1>5
=============================================================================
