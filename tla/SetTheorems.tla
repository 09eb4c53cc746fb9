---------------------------- MODULE SetTheorems ----------------------------
(***************************************************************************)
(* Facts about least and greatest numbers of a set, and about sums over    *)
(* finite sets (SumFunctionOnSet of the community modules).  Inductions    *)
(* are by contradiction: of the sets that violate a fact there is a        *)
(* minimal one, and the fact is shown for it.                              *)
(***************************************************************************)
EXTENDS Integers, FiniteSetsExt, Functions, FiniteSetTheorems, TLAPS

\* A set of natural numbers that is not empty has a least element.
LEMMA MinIs ==
    ASSUME NEW S, S \subseteq Nat, S # {}
    PROVE  Min(S) \in S /\ \A y \in S : Min(S) <= y
<1>1. PICK x \in S : \A y \in S : <<y, x>> \notin OpToRel(<, Nat)
  BY NatLessThanWellFounded, WFMin, Zenon
<1>2. \A y \in S : ~(y < x)
  BY <1>1, Zenon DEF OpToRel
<1>3. \A y \in S : x <= y
  BY <1>2
<1> QED BY <1>3 DEF Min

\* Of finite sets there is a minimal one.
LEMMA MinimalSet ==
    ASSUME NEW S, IsFiniteSet(S), NEW Bad \in SUBSET (SUBSET S), Bad # {}
    PROVE  \E T \in Bad : \A U \in Bad : U \subseteq T => U = T
<1>1. Bad \subseteq FiniteSubsetsOf(S)
  BY FS_Subset DEF FiniteSubsetsOf
<1>2. PICK T \in Bad : \A U \in Bad : <<U, T>> \notin StrictSubsetOrdering(S)
  BY <1>1, FS_StrictSubsetOrderingWellFounded, WFMin, Zenon
<1>3. ASSUME NEW U \in Bad, U \subseteq T  PROVE U = T
  BY <1>2, <1>3 DEF StrictSubsetOrdering
<1> QED BY <1>3

\* A finite set of natural numbers that is not empty has a greatest element.
LEMMA MaxIs ==
    ASSUME NEW S, \A x \in S : x \in Nat, IsFiniteSet(S), S # {}
    PROVE  Max(S) \in S /\ \A y \in S : y <= Max(S)
<1> DEFINE Greatest(s) == s = {} \/ \E x \in s : \A y \in s : y <= x
           Bad == {s \in SUBSET S : ~Greatest(s)}
<1>0. Bad # {} \/ \E x \in S : \A y \in S : x >= y
  OBVIOUS
<1> SUFFICES ASSUME Bad # {} PROVE FALSE
  BY <1>0 DEF Max
<1>1. \A s \in Bad : s \in SUBSET S /\ ~Greatest(s)
  OBVIOUS
<1>2. \A s \in SUBSET S : s \notin Bad => Greatest(s)
  OBVIOUS
<1> HIDE DEF Bad
<1>3. PICK T \in Bad : \A U \in Bad : U \subseteq T => U = T
  <2>1. Bad \in SUBSET (SUBSET S)
    BY <1>1
  <2> HIDE DEF Greatest
  <2> QED BY <2>1, MinimalSet
<1>4. T \in SUBSET S /\ ~Greatest(T)
  BY <1>1, <1>3
<1>5. PICK x \in T : TRUE
  BY <1>4
<1> DEFINE R == T \ {x}
<1>6. x \in Nat /\ R \in SUBSET S /\ R # T /\ T = R \cup {x}
  BY <1>4
<1>7. R # {}
  BY <1>4, <1>6
<1>8. R \notin Bad
  BY <1>3, <1>6
<1>9. PICK m \in R : \A y \in R : y <= m
  BY <1>2, <1>6, <1>7, <1>8
<1>10. m \in T /\ m \in Nat
  BY <1>6
<1>11. CASE m <= x
  <2>1. \A y \in T : y <= x
    BY <1>6, <1>9, <1>10, <1>11
  <2> QED BY <1>4, <2>1
<1>12. CASE ~(m <= x)
  <2>1. \A y \in T : y <= m
    BY <1>6, <1>9, <1>10, <1>12
  <2> QED BY <1>4, <1>10, <2>1
<1> QED BY <1>11, <1>12

-----------------------------------------------------------------------------
(* What the definition says.                                               *)

Pick(S) == CHOOSE x \in S : TRUE

\* g gives the sums of f over the subsets of S.
Adds(g, f, S) ==
    g = [s \in SUBSET S |-> IF s = {} THEN 0 ELSE f[Pick(s)] + g[s \ {Pick(s)}]]

\* A sum is the value of such a function.
LEMMA SumIs ==
    ASSUME NEW f, NEW S
    PROVE  SumFunctionOnSet(f, S) = (CHOOSE g : Adds(g, f, S))[S]
  BY DEF SumFunctionOnSet, FoldFunctionOnSet, MapThenFoldSet, Adds, Pick

\* The element picked is an element.
LEMMA PickIn == ASSUME NEW S, S # {} PROVE Pick(S) \in S
  BY DEF Pick

\* Two such functions agree on the sets they have in common.
LEMMA AddsUnique ==
    ASSUME NEW f, NEW A, NEW B, IsFiniteSet(A), NEW g, NEW h, Adds(g, f, A), Adds(h, f, B)
    PROVE  \A s \in SUBSET (A \cap B) : g[s] = h[s]
<1> DEFINE Bad == {s \in SUBSET (A \cap B) : g[s] # h[s]}
<1> SUFFICES ASSUME Bad # {} PROVE FALSE
  OBVIOUS
<1>1. \A s \in Bad : s \in SUBSET A /\ s \in SUBSET B /\ g[s] # h[s]
  OBVIOUS
<1> HIDE DEF Bad
<1>2. PICK T \in Bad : \A U \in Bad : U \subseteq T => U = T
  BY <1>1, MinimalSet
<1>3. T \in SUBSET A /\ T \in SUBSET B /\ g[T] # h[T]
  BY <1>1, <1>2
<1>4. /\ g[T] = IF T = {} THEN 0 ELSE f[Pick(T)] + g[T \ {Pick(T)}]
      /\ h[T] = IF T = {} THEN 0 ELSE f[Pick(T)] + h[T \ {Pick(T)}]
  BY <1>3 DEF Adds
<1>5. T # {}
  BY <1>3, <1>4
<1>6. Pick(T) \in T
  BY <1>5, PickIn
<1>7. T \ {Pick(T)} \notin Bad
  BY <1>2, <1>6
<1>8. g[T \ {Pick(T)}] = h[T \ {Pick(T)}]
  BY <1>7, <1>3 DEF Bad
<1> QED BY <1>3, <1>4, <1>5, <1>8

\* There is one for every finite set.
LEMMA AddsExists ==
    ASSUME NEW f, NEW S, IsFiniteSet(S)
    PROVE  \E g : Adds(g, f, S)
<1> DEFINE Bad == {s \in SUBSET S : ~\E g : Adds(g, f, s)}
<1> SUFFICES ASSUME Bad # {} PROVE FALSE
  OBVIOUS
<1>0. \A s \in Bad : s \in SUBSET S
  OBVIOUS
<1> HIDE DEF Bad
<1>1. PICK T \in Bad : \A U \in Bad : U \subseteq T => U = T
  BY <1>0, MinimalSet
<1> USE DEF Bad
<1> DEFINE G(s) == CHOOSE g : Adds(g, f, s)
           below == [s \in SUBSET T |-> IF s = {} THEN 0
                                        ELSE f[Pick(s)] + G(s \ {Pick(s)})[s \ {Pick(s)}]]
<1>2. T \in SUBSET S /\ ~\E g : Adds(g, f, T)
  OBVIOUS
<1>3. ASSUME NEW s \in SUBSET T, s # T  PROVE Adds(G(s), f, s)
  BY <1>1, <1>2, <1>3
<1>4. ASSUME NEW s \in SUBSET T, s # T  PROVE G(s)[s] = below[s]
  <2> DEFINE r == s \ {Pick(s)}
  <2>1. Adds(G(s), f, s)
    BY <1>3, <1>4
  <2>2. G(s)[s] = IF s = {} THEN 0 ELSE f[Pick(s)] + G(s)[r]
    BY <2>1 DEF Adds
  <2>3. CASE s = {}
    BY <2>2, <2>3
  <2>4. CASE s # {}
    <3>1. r \in SUBSET T /\ r # T
      BY <2>4, PickIn
    <3>2. Adds(G(r), f, r)
      BY <1>3, <3>1
    <3>3. IsFiniteSet(s)
      BY <1>2, FS_Subset
    <3> HIDE DEF G
    <3>4. G(s)[r] = G(r)[r]
      BY <2>1, <3>2, <3>3, AddsUnique
    <3> QED BY <2>2, <2>4, <3>4
  <2> QED BY <2>3, <2>4
<1> HIDE DEF G
<1>5. ASSUME NEW s \in SUBSET T, s # {}
      PROVE  below[s] = f[Pick(s)] + below[s \ {Pick(s)}]
  <2>1. s \ {Pick(s)} \in SUBSET T /\ s \ {Pick(s)} # T
    BY <1>5, PickIn
  <2> QED BY <2>1, <1>4, <1>5
<1>6. below[{}] = 0
  OBVIOUS
<1>7. below = [s \in SUBSET T |-> IF s = {} THEN 0 ELSE f[Pick(s)] + below[s \ {Pick(s)}]]
  <2>1. \A s \in SUBSET T : below[s] = IF s = {} THEN 0 ELSE f[Pick(s)] + below[s \ {Pick(s)}]
    BY <1>5, <1>6
  <2> QED BY <2>1, Zenon
<1>8. Adds(below, f, T)
  BY <1>7 DEF Adds
<1> QED BY <1>2, <1>8

\* The empty sum is zero; another one is its picked element and the rest.
LEMMA SumStep ==
    ASSUME NEW f, NEW S, IsFiniteSet(S)
    PROVE  SumFunctionOnSet(f, S) =
              IF S = {} THEN 0 ELSE f[Pick(S)] + SumFunctionOnSet(f, S \ {Pick(S)})
<1> DEFINE G(s) == CHOOSE g : Adds(g, f, s)
           r == S \ {Pick(S)}
<1>1. Adds(G(S), f, S)
  BY AddsExists
<1>2. IsFiniteSet(r)
  BY FS_Subset
<1>3. Adds(G(r), f, r)
  BY <1>2, AddsExists
<1>4. SumFunctionOnSet(f, S) = G(S)[S] /\ SumFunctionOnSet(f, r) = G(r)[r]
  BY SumIs
<1> HIDE DEF G
<1>5. G(S)[r] = G(r)[r]
  BY <1>1, <1>3, AddsUnique
<1>6. G(S)[S] = IF S = {} THEN 0 ELSE f[Pick(S)] + G(S)[r]
  BY <1>1 DEF Adds
<1> QED BY <1>4, <1>5, <1>6

-----------------------------------------------------------------------------
(* What follows for sums of natural numbers.                               *)

\* A sum of natural numbers is one.
LEMMA SumType ==
    ASSUME NEW f, NEW S, IsFiniteSet(S), \A x \in S : f[x] \in Nat
    PROVE  SumFunctionOnSet(f, S) \in Nat
<1> DEFINE Bad == {s \in SUBSET S : SumFunctionOnSet(f, s) \notin Nat}
<1> SUFFICES ASSUME Bad # {} PROVE FALSE
  OBVIOUS
<1>1. \A s \in Bad : s \in SUBSET S /\ SumFunctionOnSet(f, s) \notin Nat
  OBVIOUS
<1>2. \A s \in SUBSET S : s \notin Bad => SumFunctionOnSet(f, s) \in Nat
  OBVIOUS
<1> HIDE DEF Bad
<1>3. PICK T \in Bad : \A U \in Bad : U \subseteq T => U = T
  BY <1>1, MinimalSet
<1>4. T \in SUBSET S /\ SumFunctionOnSet(f, T) \notin Nat /\ IsFiniteSet(T)
  BY <1>1, <1>3, FS_Subset
<1>5. SumFunctionOnSet(f, T) =
         IF T = {} THEN 0 ELSE f[Pick(T)] + SumFunctionOnSet(f, T \ {Pick(T)})
  BY <1>4, SumStep
<1>6. T # {}
  BY <1>4, <1>5
<1>7. Pick(T) \in T
  BY <1>6, PickIn
<1>8. SumFunctionOnSet(f, T \ {Pick(T)}) \in Nat
  BY <1>2, <1>3, <1>4, <1>7
<1> QED BY <1>4, <1>5, <1>6, <1>7, <1>8

\* Any element can be taken out of a sum.
LEMMA SumTakeOut ==
    ASSUME NEW f, NEW S, IsFiniteSet(S), \A x \in S : f[x] \in Nat, NEW x \in S
    PROVE  SumFunctionOnSet(f, S) = f[x] + SumFunctionOnSet(f, S \ {x})
<1> DEFINE TakesOut(s) == \A y \in s :
               SumFunctionOnSet(f, s) = f[y] + SumFunctionOnSet(f, s \ {y})
           Bad == {s \in SUBSET S : ~TakesOut(s)}
<1> SUFFICES ASSUME Bad # {} PROVE FALSE
  OBVIOUS
<1>1. \A s \in Bad : s \in SUBSET S /\ ~TakesOut(s)
  OBVIOUS
<1>2. \A s \in SUBSET S : s \notin Bad => TakesOut(s)
  OBVIOUS
<1> HIDE DEF Bad
<1>3. PICK T \in Bad : \A U \in Bad : U \subseteq T => U = T
  BY <1>1, MinimalSet
<1>4. T \in SUBSET S /\ ~TakesOut(T)
  BY <1>1, <1>3
<1>5. PICK y \in T : SumFunctionOnSet(f, T) # f[y] + SumFunctionOnSet(f, T \ {y})
  BY <1>4
<1>6. \A s \in SUBSET T : IsFiniteSet(s) /\ (s # T => TakesOut(s))
  BY <1>2, <1>3, <1>4, FS_Subset
<1> HIDE DEF TakesOut
<1> DEFINE p == Pick(T)
<1>7. p \in T
  BY <1>5, PickIn
<1>8. SumFunctionOnSet(f, T) = f[p] + SumFunctionOnSet(f, T \ {p})
  BY <1>5, <1>6, SumStep
<1> HIDE DEF p
<1>9. p # y
  BY <1>5, <1>8
<1>10. TakesOut(T \ {p}) /\ TakesOut(T \ {y})
  BY <1>5, <1>6, <1>7
<1>11. SumFunctionOnSet(f, T \ {p}) = f[y] + SumFunctionOnSet(f, (T \ {p}) \ {y})
  BY <1>5, <1>9, <1>10 DEF TakesOut
<1>12. SumFunctionOnSet(f, T \ {y}) = f[p] + SumFunctionOnSet(f, (T \ {y}) \ {p})
  BY <1>7, <1>9, <1>10 DEF TakesOut
<1>13. (T \ {y}) \ {p} = (T \ {p}) \ {y}
  OBVIOUS
<1>14. SumFunctionOnSet(f, (T \ {p}) \ {y}) \in Nat
  BY <1>4, <1>6, SumType
<1>15. f[p] \in Nat /\ f[y] \in Nat
  BY <1>4, <1>5, <1>7
<1> QED BY <1>5, <1>8, <1>11, <1>12, <1>13, <1>14, <1>15

\* An element put in adds its value.
LEMMA SumPutIn ==
    ASSUME NEW f, NEW S, IsFiniteSet(S), NEW x, x \notin S, \A y \in S \cup {x} : f[y] \in Nat
    PROVE  SumFunctionOnSet(f, S \cup {x}) = f[x] + SumFunctionOnSet(f, S)
<1>1. IsFiniteSet(S \cup {x}) /\ x \in S \cup {x}
  BY FS_AddElement
<1>2. (S \cup {x}) \ {x} = S
  OBVIOUS
<1>3. SumFunctionOnSet(f, S \cup {x}) = f[x] + SumFunctionOnSet(f, (S \cup {x}) \ {x})
  BY <1>1, SumTakeOut
<1> QED BY <1>2, <1>3

\* The empty sum.
LEMMA SumEmpty == ASSUME NEW f PROVE SumFunctionOnSet(f, {}) = 0
  BY SumStep, FS_EmptySet

\* A sum of zeros is zero.
LEMMA SumZero ==
    ASSUME NEW f, NEW S, IsFiniteSet(S), \A x \in S : f[x] = 0
    PROVE  SumFunctionOnSet(f, S) = 0
<1> DEFINE Bad == {s \in SUBSET S : SumFunctionOnSet(f, s) # 0}
<1> SUFFICES ASSUME Bad # {} PROVE FALSE
  OBVIOUS
<1>1. \A s \in Bad : s \in SUBSET S /\ SumFunctionOnSet(f, s) # 0
  OBVIOUS
<1>2. \A s \in SUBSET S : s \notin Bad => SumFunctionOnSet(f, s) = 0
  OBVIOUS
<1> HIDE DEF Bad
<1>3. PICK T \in Bad : \A U \in Bad : U \subseteq T => U = T
  BY <1>1, MinimalSet
<1> DEFINE p == Pick(T)
<1>4. T \in SUBSET S /\ SumFunctionOnSet(f, T) # 0 /\ IsFiniteSet(T)
  BY <1>1, <1>3, FS_Subset
<1>5. SumFunctionOnSet(f, T) = IF T = {} THEN 0 ELSE f[p] + SumFunctionOnSet(f, T \ {p})
  BY <1>4, SumStep
<1>6. T # {} /\ p \in T
  BY <1>4, <1>5, PickIn
<1> HIDE DEF p
<1>7. SumFunctionOnSet(f, T \ {p}) = 0 /\ f[p] = 0
  BY <1>2, <1>3, <1>4, <1>6
<1> QED BY <1>4, <1>5, <1>7

\* A sum grows with its values.
LEMMA SumAtMost ==
    ASSUME NEW f, NEW g, NEW S, IsFiniteSet(S),
           \A x \in S : f[x] \in Nat /\ g[x] \in Nat /\ f[x] <= g[x]
    PROVE  SumFunctionOnSet(f, S) <= SumFunctionOnSet(g, S)
<1> DEFINE Below(s) == SumFunctionOnSet(f, s) <= SumFunctionOnSet(g, s)
           Bad == {s \in SUBSET S : ~Below(s)}
<1> SUFFICES ASSUME Bad # {} PROVE FALSE
  OBVIOUS
<1>1. \A s \in Bad : s \in SUBSET S /\ ~Below(s)
  OBVIOUS
<1>2. \A s \in SUBSET S : s \notin Bad => Below(s)
  OBVIOUS
<1> HIDE DEF Bad
<1>3. PICK T \in Bad : \A U \in Bad : U \subseteq T => U = T
  BY <1>1, MinimalSet
<1> DEFINE p == Pick(T)
           r == T \ {p}
<1>4. T \in SUBSET S /\ ~Below(T) /\ IsFiniteSet(T) /\ IsFiniteSet(r)
  BY <1>1, <1>3, FS_Subset
<1>5. /\ SumFunctionOnSet(f, T) = IF T = {} THEN 0 ELSE f[p] + SumFunctionOnSet(f, r)
      /\ SumFunctionOnSet(g, T) = IF T = {} THEN 0 ELSE g[p] + SumFunctionOnSet(g, r)
  BY <1>4, SumStep
<1>6. T # {} /\ p \in T
  BY <1>4, <1>5, PickIn
<1> HIDE DEF p
<1>7. Below(r)
  BY <1>2, <1>3, <1>4, <1>6
<1>8. SumFunctionOnSet(f, r) \in Nat /\ SumFunctionOnSet(g, r) \in Nat
  BY <1>4, SumType
<1>9. f[p] \in Nat /\ g[p] \in Nat /\ f[p] <= g[p]
  BY <1>4, <1>6
<1> QED BY <1>4, <1>5, <1>6, <1>7, <1>8, <1>9

\* It depends on the values in the set alone.
LEMMA SumSame ==
    ASSUME NEW f, NEW g, NEW S, IsFiniteSet(S), \A x \in S : f[x] \in Nat /\ f[x] = g[x]
    PROVE  SumFunctionOnSet(f, S) = SumFunctionOnSet(g, S)
<1>1. SumFunctionOnSet(f, S) <= SumFunctionOnSet(g, S)
  BY SumAtMost
<1>2. SumFunctionOnSet(g, S) <= SumFunctionOnSet(f, S)
  BY SumAtMost
<1>3. SumFunctionOnSet(f, S) \in Nat /\ SumFunctionOnSet(g, S) \in Nat
  BY SumType
<1> QED BY <1>1, <1>2, <1>3

\* When one value changes, the sum changes by as much.
LEMMA SumChange ==
    ASSUME NEW f, NEW g, NEW S, IsFiniteSet(S), \A x \in S : f[x] \in Nat /\ g[x] \in Nat,
           NEW x \in S, \A y \in S \ {x} : f[y] = g[y]
    PROVE  SumFunctionOnSet(f, S) + g[x] = SumFunctionOnSet(g, S) + f[x]
<1> DEFINE r == S \ {x}
<1>1. IsFiniteSet(r)
  BY FS_Subset
<1>2. SumFunctionOnSet(f, r) = SumFunctionOnSet(g, r) /\ SumFunctionOnSet(f, r) \in Nat
  BY <1>1, SumSame, SumType
<1>3. SumFunctionOnSet(f, S) = f[x] + SumFunctionOnSet(f, r)
  BY SumTakeOut
<1>4. SumFunctionOnSet(g, S) = g[x] + SumFunctionOnSet(g, r)
  BY SumTakeOut
<1> QED BY <1>2, <1>3, <1>4

\* The sum over two disjoint sets is that of their sums.
LEMMA SumUnion ==
    ASSUME NEW f, NEW A, NEW B, IsFiniteSet(A), IsFiniteSet(B), A \cap B = {},
           \A x \in A \cup B : f[x] \in Nat
    PROVE  SumFunctionOnSet(f, A \cup B) = SumFunctionOnSet(f, A) + SumFunctionOnSet(f, B)
<1> DEFINE Splits(s) == SumFunctionOnSet(f, s \cup B) = SumFunctionOnSet(f, s) + SumFunctionOnSet(f, B)
           Bad == {s \in SUBSET A : ~Splits(s)}
<1> SUFFICES ASSUME Bad # {} PROVE FALSE
  OBVIOUS
<1>1. \A s \in Bad : s \in SUBSET A /\ ~Splits(s)
  OBVIOUS
<1>2. \A s \in SUBSET A : s \notin Bad => Splits(s)
  OBVIOUS
<1> HIDE DEF Bad
<1>3. PICK T \in Bad : \A U \in Bad : U \subseteq T => U = T
  <2>1. Bad \in SUBSET (SUBSET A)
    BY <1>1
  <2> HIDE DEF Splits
  <2> QED BY <2>1, MinimalSet
<1>4. T \in SUBSET A /\ ~Splits(T) /\ IsFiniteSet(T)
  BY <1>1, <1>3, FS_Subset
<1>5. SumFunctionOnSet(f, B) \in Nat
  BY SumType
<1>6. T # {}
  <2>1. {} \cup B = B
    OBVIOUS
  <2>2. Splits({})
    BY <2>1, <1>5, SumEmpty
  <2> QED BY <2>2, <1>4
<1>7. PICK x \in T : TRUE
  BY <1>6
<1> DEFINE r == T \ {x}
<1>8. IsFiniteSet(r) /\ IsFiniteSet(r \cup B) /\ x \notin r \cup B
  BY <1>4, FS_Subset, FS_Union
<1>9. Splits(r)
  BY <1>2, <1>3, <1>4
<1>10. SumFunctionOnSet(f, T) = f[x] + SumFunctionOnSet(f, r)
  BY <1>4, SumTakeOut
<1>11. (r \cup B) \cup {x} = T \cup B
  OBVIOUS
<1>12. \A y \in (r \cup B) \cup {x} : f[y] \in Nat
  BY <1>4
<1>13. SumFunctionOnSet(f, T \cup B) = f[x] + SumFunctionOnSet(f, r \cup B)
  BY <1>8, <1>11, <1>12, SumPutIn
<1>14. SumFunctionOnSet(f, r) \in Nat /\ f[x] \in Nat
  BY <1>4, <1>8, SumType
<1> QED BY <1>4, <1>5, <1>9, <1>10, <1>13, <1>14

\* The sum over a part is at most that over the whole.
LEMMA SumSubset ==
    ASSUME NEW f, NEW T, IsFiniteSet(T), \A x \in T : f[x] \in Nat, NEW S, S \subseteq T
    PROVE  SumFunctionOnSet(f, S) <= SumFunctionOnSet(f, T)
<1> DEFINE R == T \ S
<1>1. IsFiniteSet(S) /\ IsFiniteSet(R)
  BY FS_Subset
<1>2. S \cap R = {} /\ S \cup R = T
  OBVIOUS
<1>3. \A x \in S \cup R : f[x] \in Nat
  BY <1>2
<1> HIDE DEF R
<1>4. SumFunctionOnSet(f, S \cup R) = SumFunctionOnSet(f, S) + SumFunctionOnSet(f, R)
  BY <1>1, <1>2, <1>3, SumUnion
<1>5. SumFunctionOnSet(f, S) \in Nat /\ SumFunctionOnSet(f, R) \in Nat
  BY <1>1, <1>3, SumType
<1>6. SumFunctionOnSet(f, T) = SumFunctionOnSet(f, S) + SumFunctionOnSet(f, R)
  BY <1>2, <1>4, Zenon
<1> QED BY <1>5, <1>6

\* A sum of equal values is their number times the value.
LEMMA SumConstant ==
    ASSUME NEW f, NEW S, IsFiniteSet(S), NEW c \in Nat, \A x \in S : f[x] = c
    PROVE  SumFunctionOnSet(f, S) = Cardinality(S) * c
<1> DEFINE Fits(s) == SumFunctionOnSet(f, s) = Cardinality(s) * c
           Bad == {s \in SUBSET S : ~Fits(s)}
<1> SUFFICES ASSUME Bad # {} PROVE FALSE
  OBVIOUS
<1>1. \A s \in Bad : s \in SUBSET S /\ ~Fits(s)
  OBVIOUS
<1>2. \A s \in SUBSET S : s \notin Bad => Fits(s)
  OBVIOUS
<1> HIDE DEF Bad
<1>3. PICK T \in Bad : \A U \in Bad : U \subseteq T => U = T
  BY <1>1, MinimalSet
<1> DEFINE p == Pick(T)
           r == T \ {p}
<1>4. T \in SUBSET S /\ ~Fits(T) /\ IsFiniteSet(T)
  BY <1>1, <1>3, FS_Subset
<1>5. SumFunctionOnSet(f, T) = IF T = {} THEN 0 ELSE f[p] + SumFunctionOnSet(f, r)
  BY <1>4, SumStep
<1>6. T # {} /\ p \in T
  <2>1. T # {}
    BY <1>4, <1>5, FS_EmptySet
  <2> QED BY <2>1, PickIn
<1> HIDE DEF p
<1>7. Fits(r)
  BY <1>2, <1>3, <1>4, <1>6
<1>8. Cardinality(r) = Cardinality(T) - 1 /\ Cardinality(r) \in Nat /\ Cardinality(T) \in Nat
  BY <1>4, <1>6, FS_RemoveElement, FS_CardinalityType
<1>9. f[p] = c
  BY <1>4, <1>6
<1> DEFINE k == Cardinality(r)
<1>10. SumFunctionOnSet(f, T) = c + k * c /\ Cardinality(T) = k + 1
  BY <1>5, <1>6, <1>7, <1>8, <1>9
<1>11. k \in Nat
  BY <1>8
<1> HIDE DEF k
<1>12. c + k * c = (k + 1) * c
  BY <1>11
<1> QED BY <1>4, <1>10, <1>12

\* A sum lies between as many of a least and of a greatest value.
LEMMA SumBetween ==
    ASSUME NEW f, NEW S, IsFiniteSet(S), NEW lo \in Nat, NEW hi \in Nat,
           \A x \in S : f[x] \in Nat /\ lo <= f[x] /\ f[x] <= hi
    PROVE  /\ Cardinality(S) * lo <= SumFunctionOnSet(f, S)
           /\ SumFunctionOnSet(f, S) <= Cardinality(S) * hi
<1> DEFINE l == [x \in S |-> lo]
           h == [x \in S |-> hi]
<1>1. \A x \in S : l[x] = lo /\ h[x] = hi
  OBVIOUS
<1> HIDE DEF l, h
<1>2. /\ SumFunctionOnSet(l, S) = Cardinality(S) * lo
      /\ SumFunctionOnSet(h, S) = Cardinality(S) * hi
  BY <1>1, SumConstant
<1>3. /\ SumFunctionOnSet(l, S) <= SumFunctionOnSet(f, S)
      /\ SumFunctionOnSet(f, S) <= SumFunctionOnSet(h, S)
  BY <1>1, SumAtMost
<1> QED BY <1>2, <1>3

\* Counting the elements of a set value by value counts them all.
LEMMA CountsThere ==
    ASSUME NEW S, IsFiniteSet(S), NEW T, IsFiniteSet(T), NEW f, \A x \in S : f[x] \in T
    PROVE  \E c : /\ SumFunctionOnSet(c, T) = Cardinality(S)
                  /\ \A b \in T : \E B : /\ \A x : x \in B <=> x \in S /\ f[x] = b
                                         /\ c[b] = Cardinality(B)
<1> DEFINE Of(s, b) == {x \in s : f[x] = b}
           Count(s) == [b \in T |-> Cardinality(Of(s, b))]
           Fits(s) == SumFunctionOnSet(Count(s), T) = Cardinality(s)
           Bad == {s \in SUBSET S : ~Fits(s)}
<1>0. ASSUME Fits(S)
      PROVE  \E c : /\ SumFunctionOnSet(c, T) = Cardinality(S)
                    /\ \A b \in T : \E B : /\ \A x : x \in B <=> x \in S /\ f[x] = b
                                           /\ c[b] = Cardinality(B)
  <2>1. PICK c : c = Count(S)
    OBVIOUS
  <2>2. SumFunctionOnSet(c, T) = Cardinality(S)
    BY <1>0, <2>1
  <2>3. ASSUME NEW b \in T
        PROVE  \E B : (\A x : x \in B <=> x \in S /\ f[x] = b) /\ c[b] = Cardinality(B)
    <3>1. c[b] = Cardinality(Of(S, b))
      BY <2>1
    <3>2. \A x : x \in Of(S, b) <=> x \in S /\ f[x] = b
      OBVIOUS
    <3> HIDE DEF Of
    <3> QED BY <3>1, <3>2
  <2> QED BY <2>2, <2>3, Zenon
<1>0a. S \in SUBSET S
  OBVIOUS
<1> SUFFICES ASSUME Bad # {} PROVE FALSE
  <2> HIDE DEF Fits
  <2> QED BY <1>0, <1>0a
<1>1. \A s \in Bad : s \in SUBSET S /\ ~Fits(s)
  OBVIOUS
<1>2. \A s \in SUBSET S : s \notin Bad => Fits(s)
  OBVIOUS
<1> HIDE DEF Bad
<1>3. PICK U \in Bad : \A V \in Bad : V \subseteq U => V = U
  <2>1. Bad \in SUBSET (SUBSET S)
    BY <1>1
  <2> HIDE DEF Fits
  <2> QED BY <2>1, MinimalSet
<1>4. U \in SUBSET S /\ ~Fits(U) /\ IsFiniteSet(U)
  BY <1>1, <1>3, FS_Subset
<1>5. ASSUME NEW s \in SUBSET U, NEW b
      PROVE  IsFiniteSet(Of(s, b)) /\ Cardinality(Of(s, b)) \in Nat
  BY <1>4, FS_Subset, FS_CardinalityType
<1>6. U # {}
  <2>1. \A b \in T : Count({})[b] = 0
    <3>1. \A b \in T : Of({}, b) = {}
      OBVIOUS
    <3> QED BY <3>1, FS_EmptySet
  <2>2. SumFunctionOnSet(Count({}), T) = 0
    <3> HIDE DEF Count
    <3> QED BY <2>1, SumZero
  <2> QED BY <2>2, <1>4, FS_EmptySet
<1>7. PICK x \in U : TRUE
  BY <1>6
<1> DEFINE R == U \ {x}
<1>8. R \in SUBSET U /\ Fits(R)
  BY <1>2, <1>3, <1>4
<1>9. PICK g, h : g = Count(R) /\ h = Count(U)
  OBVIOUS
<1>10. \A b \in T : g[b] = Cardinality(Of(R, b)) /\ h[b] = Cardinality(Of(U, b))
  BY <1>9
<1>11. f[x] \in T
  BY <1>4
<1>12. h[f[x]] = g[f[x]] + 1
  <2>1. Of(R, f[x]) = Of(U, f[x]) \ {x} /\ x \in Of(U, f[x])
    OBVIOUS
  <2>2. IsFiniteSet(Of(U, f[x])) /\ Cardinality(Of(U, f[x])) \in Nat
    BY <1>5
  <2> HIDE DEF Of, Fits, Count, R
  <2>3. Cardinality(Of(R, f[x])) = Cardinality(Of(U, f[x])) - 1
    BY <2>1, <2>2, FS_RemoveElement
  <2>4. g[f[x]] = Cardinality(Of(R, f[x])) /\ h[f[x]] = Cardinality(Of(U, f[x]))
    BY <1>10, <1>11
  <2> QED BY <2>2, <2>3, <2>4
<1>13. \A b \in T \ {f[x]} : g[b] = h[b]
  <2>1. \A b \in T \ {f[x]} : Of(R, b) = Of(U, b)
    OBVIOUS
  <2> QED BY <1>10, <2>1, Zenon
<1>14. \A b \in T : g[b] \in Nat /\ h[b] \in Nat
  <2> HIDE DEF Of, Fits, Count
  <2> QED BY <1>5, <1>8, <1>10
<1>15. Cardinality(U) = Cardinality(R) + 1
  <2>1. Cardinality(R) = Cardinality(U) - 1 /\ Cardinality(U) \in Nat
    <3> HIDE DEF Of, Fits, Count
    <3> QED BY <1>4, FS_RemoveElement, FS_CardinalityType
  <2> QED BY <2>1
<1>16. SumFunctionOnSet(g, T) = Cardinality(R) /\ SumFunctionOnSet(h, T) # Cardinality(U)
  BY <1>4, <1>8, <1>9
<1> HIDE DEF Of, Fits, Count, R
<1>17. SumFunctionOnSet(g, T) + h[f[x]] = SumFunctionOnSet(h, T) + g[f[x]]
  BY <1>11, <1>13, <1>14, SumChange
<1>18. SumFunctionOnSet(g, T) \in Nat /\ SumFunctionOnSet(h, T) \in Nat
  BY <1>14, SumType
<1>19. g[f[x]] \in Nat
  BY <1>11, <1>14
<1> QED BY <1>12, <1>15, <1>16, <1>17, <1>18, <1>19

\* So do counts given in any other way.
LEMMA CountByValue ==
    ASSUME NEW S, IsFiniteSet(S), NEW T, IsFiniteSet(T), NEW f, \A x \in S : f[x] \in T,
           NEW of, \A b \in T : \A x : x \in of[b] <=> x \in S /\ f[x] = b,
           NEW c, \A b \in T : c[b] = Cardinality(of[b])
    PROVE  SumFunctionOnSet(c, T) = Cardinality(S)
<1>1. PICK g : /\ SumFunctionOnSet(g, T) = Cardinality(S)
               /\ \A b \in T : \E B : /\ \A x : x \in B <=> x \in S /\ f[x] = b
                                      /\ g[b] = Cardinality(B)
  BY CountsThere
<1>2. ASSUME NEW b \in T PROVE g[b] = c[b] /\ g[b] \in Nat
  <2>1. PICK B : (\A x : x \in B <=> x \in S /\ f[x] = b) /\ g[b] = Cardinality(B)
    BY <1>1
  <2>2. B = of[b] /\ B \in SUBSET S
    BY <2>1
  <2> QED BY <2>1, <2>2, FS_Subset, FS_CardinalityType
<1> QED BY <1>1, <1>2, SumSame
=============================================================================
