----------------------------- MODULE GoldProofs -----------------------------
(***************************************************************************)
(* Proofs about the Gold view and its reports: the hours of a state are    *)
(* the time spent in it, and the sums of the reports fit together, for any *)
(* number of rows, of issues, notes and transitions.                       *)
(***************************************************************************)
EXTENDS Gold, SequentialProofs

-----------------------------------------------------------------------------
(* Sums over finite sets.  The theorems on well-founded relations serve in *)
(* place of an induction: a smallest counterexample is ruled out.          *)

\* Among the sets of a family of subsets of a finite set one is minimal.
LEMMA SmallestSet ==
    ASSUME NEW S, IsFiniteSet(S), NEW F \in SUBSET (SUBSET S), F # {}
    PROVE  \E T \in F : \A U \in F : U \subseteq T => U = T
<1>1. IsWellFoundedOn(StrictSubsetOrdering(S), SUBSET S)
    BY FS_StrictSubsetOrderingWellFounded, FS_FiniteSubsetsOfFinite
<1>2. PICK T \in F : \A U \in F : ~(<<U, T>> \in StrictSubsetOrdering(S))
    BY <1>1, WFMin
<1>3. \A U \in F : U \subseteq T => U = T
    BY <1>2 DEF StrictSubsetOrdering
<1>4. QED
    BY <1>3

Some(s) == CHOOSE x \in s : TRUE

\* g sums f up over each subset of S, taking one element away after the other.
Sums(g, f, S) ==
    g = [s \in SUBSET S |-> IF s = {} THEN 0 ELSE f[Some(s)] + g[s \ {Some(s)}]]

Total(f, S) == (CHOOSE g : Sums(g, f, S))[S]

LEMMA SomeIn == \A s : s # {} => Some(s) \in s
BY DEF Some

\* How often x counts for S in the sum of f.
Copies(f, S) == UNION {{<<x, k>> : k \in 0 .. f[x] - 1} : x \in S}

LEMMA CopiesCount ==
    ASSUME NEW S, IsFiniteSet(S), NEW f \in [S -> Int]
    PROVE  \A s \in SUBSET S :
              /\ IsFiniteSet(Copies(f, s)) /\ Cardinality(Copies(f, s)) \in Nat
              /\ s = {} => Cardinality(Copies(f, s)) = 0
              /\ s # {} => Cardinality(Copies(f, s)) =
                              (IF f[Some(s)] > 0 THEN f[Some(s)] ELSE 0)
                                + Cardinality(Copies(f, s \ {Some(s)}))
<1>1. ASSUME NEW x \in S
      PROVE  /\ IsFiniteSet({<<x, k>> : k \in 0 .. f[x] - 1})
             /\ Cardinality({<<x, k>> : k \in 0 .. f[x] - 1}) = IF f[x] > 0 THEN f[x] ELSE 0
  <2>. DEFINE I == 0 .. f[x] - 1
              h == [k \in I |-> <<x, k>>]
              T == {<<x, k>> : k \in I}
  <2>1. f[x] \in Int
      OBVIOUS
  <2>2. IsFiniteSet(I) /\ Cardinality(I) = IF f[x] > 0 THEN f[x] ELSE 0
      BY <2>1, FS_Interval
  <2>. HIDE DEF I
  <2>3. h \in Bijection(I, T)
      BY DEF Bijection, Injection, Surjection, IsInjective
  <2>4. ExistsBijection(I, T)
      BY <2>3 DEF ExistsBijection
  <2>5. QED
      BY <2>2, <2>4, FS_Bijection DEF I
<1>2. ASSUME NEW s \in SUBSET S PROVE IsFiniteSet(Copies(f, s))
  <2>. DEFINE F == {{<<x, k>> : k \in 0 .. f[x] - 1} : x \in s}
  <2>1. IsFiniteSet(s)
      BY FS_Subset
  <2>2. \A T \in F : IsFiniteSet(T)
      BY <1>1
  <2>3. IsFiniteSet(F)
    <3>. DEFINE h == [x \in s |-> {<<x, k>> : k \in 0 .. f[x] - 1}]
    <3>1. h \in Surjection(s, F)
        BY DEF Surjection
    <3>. HIDE DEF h, F
    <3>2. QED
        BY <2>1, <3>1, FS_Surjection
  <2>4. IsFiniteSet(UNION F)
      BY <2>2, <2>3, FS_UNION
  <2>5. QED
      BY <2>4 DEF Copies
<1>3. ASSUME NEW s \in SUBSET S, s # {}
      PROVE  Cardinality(Copies(f, s)) = (IF f[Some(s)] > 0 THEN f[Some(s)] ELSE 0)
                                           + Cardinality(Copies(f, s \ {Some(s)}))
  <2>1. PICK x : x = Some(s)
      OBVIOUS
  <2>2. x \in s /\ x \in S
      BY <1>3, <2>1, SomeIn
  <2>. DEFINE A == {<<x, k>> : k \in 0 .. f[x] - 1}
              B == Copies(f, s \ {x})
  <2>3. /\ IsFiniteSet(A) /\ Cardinality(A) = IF f[x] > 0 THEN f[x] ELSE 0
        /\ IsFiniteSet(B) /\ Cardinality(B) \in Nat
    <3>1. s \ {x} \in SUBSET S
        OBVIOUS
    <3>2. IsFiniteSet(B)
        BY <1>2, <3>1
    <3>. HIDE DEF B
    <3>3. QED
        BY <1>1, <2>2, <3>2, FS_CardinalityType
  <2>4. Copies(f, s) = A \cup B
      BY <2>2 DEF Copies
  <2>5. A \cap B = {}
      BY DEF Copies
  <2>. HIDE DEF A, B
  <2>6. Cardinality(A \cap B) = 0
      BY <2>5, FS_EmptySet
  <2>7. Cardinality(A \cup B) = Cardinality(A) + Cardinality(B) - Cardinality(A \cap B)
      BY <2>3, FS_Union
  <2>8. QED
      BY <2>1, <2>2, <2>3, <2>4, <2>6, <2>7 DEF B
<1>4. Copies(f, {}) = {}
    BY DEF Copies
<1>5. QED
    BY <1>2, <1>3, <1>4, FS_EmptySet, FS_CardinalityType

\* c counts the copies for each subset of S.
Counts(c, f, S) ==
    /\ c[{}] = 0
    /\ \A s \in (SUBSET S) \ {{}} :
          c[s] = (IF f[Some(s)] > 0 THEN f[Some(s)] ELSE 0) + c[s \ {Some(s)}]

LEMMA CountExists ==
    ASSUME NEW S, IsFiniteSet(S), NEW f \in [S -> Int]
    PROVE  \E c \in [SUBSET S -> Nat] : Counts(c, f, S)
<1>. DEFINE c == [s \in SUBSET S |-> Cardinality(Copies(f, s))]
<1>1. c \in [SUBSET S -> Nat] /\ c[{}] = 0
    BY CopiesCount
<1>2. ASSUME NEW s \in SUBSET S, s # {}
      PROVE  c[s] = (IF f[Some(s)] > 0 THEN f[Some(s)] ELSE 0) + c[s \ {Some(s)}]
  <2>1. s \ {Some(s)} \in SUBSET S
      OBVIOUS
  <2>2. QED
      BY <1>2, <2>1, CopiesCount
<1>. HIDE DEF c
<1>3. Counts(c, f, S)
    BY <1>1, <1>2 DEF Counts
<1>4. QED
    BY <1>1, <1>3

LEMMA SumsExist ==
    ASSUME NEW S, IsFiniteSet(S), NEW f \in [S -> Int]
    PROVE  \E g \in [SUBSET S -> Int] : Sums(g, f, S)
<1>1. PICK p \in [SUBSET S -> Nat] : Counts(p, f, S)
    BY CountExists
<1>. DEFINE minus == [x \in S |-> -f[x]]
<1>2. minus \in [S -> Int]
    OBVIOUS
<1>3. PICK m \in [SUBSET S -> Nat] : Counts(m, minus, S)
  <2>. HIDE DEF minus
  <2>. QED BY <1>2, CountExists
<1>4. ASSUME NEW s \in SUBSET S, s # {}
      PROVE  p[s] - m[s] = f[Some(s)] + (p[s \ {Some(s)}] - m[s \ {Some(s)}])
  <2>1. Some(s) \in S /\ s \ {Some(s)} \in SUBSET S
      BY <1>4, SomeIn
  <2>2. PICK x, y : x = Some(s) /\ y = s \ {Some(s)}
      OBVIOUS
  <2>3. f[x] \in Int /\ minus[x] = -f[x]
      BY <2>1, <2>2
  <2>. HIDE DEF minus
  <2>4. p[y] \in Nat /\ m[y] \in Nat
      BY <2>1, <2>2
  <2>5. /\ p[s] = (IF f[x] > 0 THEN f[x] ELSE 0) + p[y]
        /\ m[s] = (IF minus[x] > 0 THEN minus[x] ELSE 0) + m[y]
      BY <1>1, <1>3, <1>4, <2>2 DEF Counts
  <2>6. p[s] - m[s] = f[x] + (p[y] - m[y])
      BY <2>3, <2>4, <2>5
  <2>7. QED
      BY <2>2, <2>6
<1>. DEFINE g == [s \in SUBSET S |-> p[s] - m[s]]
<1>5. g \in [SUBSET S -> Int]
    OBVIOUS
<1>6. ASSUME NEW s \in SUBSET S
      PROVE  g[s] = IF s = {} THEN 0 ELSE f[Some(s)] + g[s \ {Some(s)}]
  <2>1. s \ {Some(s)} \in SUBSET S
      OBVIOUS
  <2>2. g[s] = p[s] - m[s] /\ g[s \ {Some(s)}] = p[s \ {Some(s)}] - m[s \ {Some(s)}]
      BY <2>1
  <2>3. CASE s = {}
      BY <1>1, <1>3, <2>2, <2>3 DEF Counts
  <2>4. CASE s # {}
      BY <1>4, <2>2, <2>4
  <2>5. QED
      BY <2>3, <2>4
<1>7. g = [s \in SUBSET S |-> g[s]]
    OBVIOUS
<1>. HIDE DEF g
<1>8. Sums(g, f, S)
    BY <1>6, <1>7 DEF Sums
<1>9. QED
    BY <1>5, <1>8

\* There is one way only to sum up.
LEMMA SumsUnique ==
    ASSUME NEW S, IsFiniteSet(S), NEW f, NEW g, NEW h, Sums(g, f, S), Sums(h, f, S)
    PROVE  g[S] = h[S]
<1>. DEFINE F == {s \in SUBSET S : g[s] # h[s]}
<1>1. \A s \in SUBSET S : /\ g[s] = IF s = {} THEN 0 ELSE f[Some(s)] + g[s \ {Some(s)}]
                          /\ h[s] = IF s = {} THEN 0 ELSE f[Some(s)] + h[s \ {Some(s)}]
    BY DEF Sums
<1>2. ASSUME F # {} PROVE FALSE
  <2>0. F \in SUBSET (SUBSET S)
      OBVIOUS
  <2>1. PICK T \in F : \A U \in F : U \subseteq T => U = T
    <3>. HIDE DEF F
    <3>. QED BY <1>2, <2>0, SmallestSet
  <2>2. T # {} /\ T \in SUBSET S /\ g[T] # h[T]
      BY <1>1, <2>1
  <2>3. Some(T) \in T
      BY <2>2, SomeIn
  <2>4. T \ {Some(T)} \in SUBSET S /\ T \ {Some(T)} \notin F
      BY <2>1, <2>2, <2>3
  <2>5. g[T \ {Some(T)}] = h[T \ {Some(T)}]
      BY <2>4
  <2>6. QED
      BY <1>1, <2>2, <2>5
<1>3. QED
    BY <1>2

\* Total is the only value of a sum, whatever adds it up.
LEMMA TotalIs ==
    ASSUME NEW S, IsFiniteSet(S), NEW f, NEW g, Sums(g, f, S)
    PROVE  g[S] = Total(f, S)
<1>1. Sums(CHOOSE h : Sums(h, f, S), f, S)
    BY Zenon
<1>2. QED
    BY <1>1, SumsUnique DEF Total

-----------------------------------------------------------------------------
\* The order in which the elements are added up makes no difference.
AddsUp(g, f, S) ==
    /\ g[{}] = 0
    /\ \A s \in SUBSET S : \A x \in s : g[s] = f[x] + g[s \ {x}]

LEMMA SumsAddUp ==
    ASSUME NEW S, IsFiniteSet(S), NEW f \in [S -> Int], NEW g \in [SUBSET S -> Int], Sums(g, f, S)
    PROVE  AddsUp(g, f, S)
<1>1. \A s \in SUBSET S : g[s] = IF s = {} THEN 0 ELSE f[Some(s)] + g[s \ {Some(s)}]
    BY DEF Sums
<1>. DEFINE F == {s \in SUBSET S : \E x \in s : g[s] # f[x] + g[s \ {x}]}
<1>2. ASSUME F # {} PROVE FALSE
  <2>1. F \in SUBSET (SUBSET S)
      OBVIOUS
  <2>2. PICK T \in F : \A U \in F : U \subseteq T => U = T
    <3>. HIDE DEF F
    <3>. QED BY <1>2, <2>1, SmallestSet
  <2>3. PICK x \in T : g[T] # f[x] + g[T \ {x}]
      BY <2>2
  <2>4. PICK y : y = Some(T)
      OBVIOUS
  <2>5. T \in SUBSET S /\ y \in T /\ g[T] = f[y] + g[T \ {y}] /\ x # y
      BY <1>1, <2>2, <2>3, <2>4, SomeIn
  <2>6. PICK U, V, W : U = T \ {x} /\ V = T \ {y} /\ W = T \ {x, y}
      OBVIOUS
  <2>7. /\ U \in SUBSET S /\ V \in SUBSET S /\ U \notin F /\ V \notin F
        /\ x \in V /\ y \in U /\ V \ {x} = W /\ U \ {y} = W /\ W \in SUBSET S
      BY <2>2, <2>3, <2>5, <2>6
  <2>8. g[U] = f[y] + g[W] /\ g[V] = f[x] + g[W]
      BY <2>7
  <2>9. f[x] \in Int /\ f[y] \in Int /\ g[W] \in Int
      BY <2>3, <2>5, <2>7
  <2>10. f[x] + (f[y] + g[W]) = f[y] + (f[x] + g[W])
      BY <2>9
  <2>11. QED
      BY <2>3, <2>5, <2>6, <2>8, <2>10
<1>3. QED
    BY <1>1, <1>2 DEF AddsUp

\* g has the totals of all subsets of S.
HasTotals(g, f, S) == AddsUp(g, f, S) /\ \A T \in SUBSET S : Total(f, T) = g[T]

LEMMA Totals ==
    ASSUME NEW S, IsFiniteSet(S), NEW f \in [S -> Int]
    PROVE  \E g \in [SUBSET S -> Int] : HasTotals(g, f, S)
<1>1. PICK g \in [SUBSET S -> Int] : Sums(g, f, S)
    BY SumsExist
<1>2. AddsUp(g, f, S)
    BY <1>1, SumsAddUp
<1>3. ASSUME NEW T \in SUBSET S PROVE Total(f, T) = g[T]
  <2>1. IsFiniteSet(T)
      BY FS_Subset
  <2>. DEFINE h == [s \in SUBSET T |-> g[s]]
  <2>2. ASSUME NEW s \in SUBSET T
        PROVE  h[s] = IF s = {} THEN 0 ELSE f[Some(s)] + h[s \ {Some(s)}]
    <3>1. s \in SUBSET S /\ s \ {Some(s)} \in SUBSET T
        OBVIOUS
    <3>2. QED
        BY <1>1, <3>1 DEF Sums
  <2>3. h = [s \in SUBSET T |-> h[s]] /\ h[T] = g[T]
      OBVIOUS
  <2>. HIDE DEF h
  <2>4. Sums(h, f, T)
      BY <2>2, <2>3 DEF Sums
  <2>5. QED
      BY <2>1, <2>3, <2>4, TotalIs
<1>4. HasTotals(g, f, S)
    BY <1>2, <1>3 DEF HasTotals
<1>5. QED
    BY <1>4

\* Whatever adds up the values of f is their total.
LEMMA TotalAddsUp ==
    ASSUME NEW S, IsFiniteSet(S), NEW f, NEW g, DOMAIN g = SUBSET S, g = [s \in SUBSET S |-> g[s]],
           AddsUp(g, f, S)
    PROVE  Total(f, S) = g[S]
<1>1. \A s \in SUBSET S : g[s] = IF s = {} THEN 0 ELSE f[Some(s)] + g[s \ {Some(s)}]
    BY SomeIn DEF AddsUp
<1>2. Sums(g, f, S)
    BY <1>1 DEF Sums
<1>3. QED
    BY <1>2, TotalIs

LEMMA TotalSame ==
    ASSUME NEW S, IsFiniteSet(S), NEW f \in [S -> Int], NEW c, \A x \in S : c[x] = f[x]
    PROVE  Total(c, S) = Total(f, S)
<1>1. PICK g \in [SUBSET S -> Int] : Sums(g, f, S)
    BY SumsExist
<1>2. \A s \in SUBSET S : s # {} => c[Some(s)] = f[Some(s)]
    BY SomeIn
<1>3. Sums(g, c, S)
    BY <1>1, <1>2 DEF Sums
<1>4. QED
    BY <1>1, <1>3, TotalIs

LEMMA TotalOfSum ==
    ASSUME NEW S, IsFiniteSet(S), NEW a \in [S -> Int], NEW b \in [S -> Int], NEW f,
           \A x \in S : f[x] = a[x] + b[x]
    PROVE  Total(f, S) = Total(a, S) + Total(b, S)
<1>1. PICK g \in [SUBSET S -> Int] : HasTotals(g, a, S)
    BY Totals
<1>2. PICK h \in [SUBSET S -> Int] : HasTotals(h, b, S)
    BY Totals
<1>. DEFINE k == [s \in SUBSET S |-> g[s] + h[s]]
<1>3. k[{}] = 0
    BY <1>1, <1>2 DEF HasTotals, AddsUp
<1>4. ASSUME NEW s \in SUBSET S, NEW x \in s PROVE k[s] = f[x] + k[s \ {x}]
  <2>1. PICK u : u = s \ {x}
      OBVIOUS
  <2>2. u \in SUBSET S /\ a[x] \in Int /\ b[x] \in Int /\ g[u] \in Int /\ h[u] \in Int
      BY <2>1
  <2>3. g[s] = a[x] + g[u] /\ h[s] = b[x] + h[u]
      BY <1>1, <1>2, <2>1 DEF HasTotals, AddsUp
  <2>4. k[s] = g[s] + h[s] /\ k[u] = g[u] + h[u] /\ f[x] = a[x] + b[x]
      BY <2>2
  <2>5. (a[x] + g[u]) + (b[x] + h[u]) = (a[x] + b[x]) + (g[u] + h[u])
      BY <2>2
  <2>6. QED
      BY <2>1, <2>3, <2>4, <2>5
<1>5. /\ DOMAIN k = SUBSET S /\ k = [s \in SUBSET S |-> k[s]]
      /\ k[S] = g[S] + h[S] /\ S \in SUBSET S
    OBVIOUS
<1>. HIDE DEF k
<1>6. AddsUp(k, f, S)
    BY <1>3, <1>4 DEF AddsUp
<1>7. Total(f, S) = k[S]
    BY <1>5, <1>6, TotalAddsUp
<1>8. QED
    BY <1>1, <1>2, <1>5, <1>7 DEF HasTotals

LEMMA TotalOfUnion ==
    ASSUME NEW S, IsFiniteSet(S), NEW f \in [S -> Int],
           NEW A \in SUBSET S, NEW B \in SUBSET S, A \cap B = {}
    PROVE  Total(f, A \cup B) = Total(f, A) + Total(f, B)
<1>1. PICK g \in [SUBSET S -> Int] : HasTotals(g, f, S)
    BY Totals
<1>2. IsFiniteSet(A \cup B)
    BY FS_Subset
<1>. DEFINE k == [s \in SUBSET (A \cup B) |-> g[s \cap A] + g[s \cap B]]
<1>3. k[{}] = 0
  <2>1. {} \cap A = {} /\ {} \cap B = {} /\ g[{}] = 0
      BY <1>1 DEF HasTotals, AddsUp
  <2>2. QED
      BY <2>1
<1>4. ASSUME NEW s \in SUBSET (A \cup B), NEW x \in s PROVE k[s] = f[x] + k[s \ {x}]
  <2>1. PICK a, b, c, d : /\ a = s \cap A /\ b = s \cap B
                          /\ c = (s \ {x}) \cap A /\ d = (s \ {x}) \cap B
      OBVIOUS
  <2>2. /\ a \in SUBSET S /\ b \in SUBSET S /\ c \in SUBSET S /\ d \in SUBSET S
        /\ g[c] \in Int /\ g[d] \in Int /\ f[x] \in Int
      BY <2>1
  <2>3. k[s] = g[a] + g[b] /\ k[s \ {x}] = g[c] + g[d]
      BY <2>1
  <2>4. CASE x \in A
    <3>1. x \in a /\ c = a \ {x} /\ d = b
        BY <2>1, <2>4
    <3>2. g[a] = f[x] + g[c]
        BY <1>1, <2>2, <3>1 DEF HasTotals, AddsUp
    <3>3. QED
        BY <2>2, <2>3, <3>1, <3>2
  <2>5. CASE x \notin A
    <3>1. x \in b /\ d = b \ {x} /\ c = a
        BY <2>1, <2>5
    <3>2. g[b] = f[x] + g[d]
        BY <1>1, <2>2, <3>1 DEF HasTotals, AddsUp
    <3>3. QED
        BY <2>2, <2>3, <3>1, <3>2
  <2>6. QED
      BY <2>4, <2>5
<1>5. DOMAIN k = SUBSET (A \cup B) /\ k = [s \in SUBSET (A \cup B) |-> k[s]]
    OBVIOUS
<1>6. k[A \cup B] = g[A] + g[B]
  <2>1. (A \cup B) \cap A = A /\ (A \cup B) \cap B = B
      OBVIOUS
  <2>2. QED
      BY <2>1
<1>. HIDE DEF k
<1>7. AddsUp(k, f, A \cup B)
    BY <1>3, <1>4 DEF AddsUp
<1>8. Total(f, A \cup B) = k[A \cup B]
    BY <1>2, <1>5, <1>7, TotalAddsUp
<1>9. QED
    BY <1>1, <1>6, <1>8 DEF HasTotals

LEMMA TotalOfZeros ==
    ASSUME NEW S, IsFiniteSet(S), NEW f, \A x \in S : f[x] = 0
    PROVE  Total(f, S) = 0
<1>. DEFINE k == [s \in SUBSET S |-> 0]
<1>1. /\ DOMAIN k = SUBSET S /\ k = [s \in SUBSET S |-> k[s]]
      /\ k[S] = 0 /\ AddsUp(k, f, S)
    BY DEF AddsUp
<1>. HIDE DEF k
<1>2. QED
    BY <1>1, TotalAddsUp

LEMMA TotalWithin ==
    ASSUME NEW S, IsFiniteSet(S), NEW f \in [S -> Int], \A x \in S : f[x] \in -1 .. 1
    PROVE  Total(f, S) \in -Cardinality(S) .. Cardinality(S)
<1>1. PICK g \in [SUBSET S -> Int] : HasTotals(g, f, S)
    BY Totals
<1>2. /\ g[{}] = 0
      /\ \A s \in SUBSET S : \A x \in s : g[s] = f[x] + g[s \ {x}]
      /\ Total(f, S) = g[S]
    BY <1>1 DEF HasTotals, AddsUp
<1>3. \A s \in SUBSET S : IsFiniteSet(s) /\ Cardinality(s) \in Nat
    BY FS_Subset, FS_CardinalityType
<1>. DEFINE F == {s \in SUBSET S : g[s] \notin -Cardinality(s) .. Cardinality(s)}
<1>4. ASSUME F # {} PROVE FALSE
  <2>1. F \in SUBSET (SUBSET S)
      OBVIOUS
  <2>2. PICK T \in F : \A U \in F : U \subseteq T => U = T
    <3>. HIDE DEF F
    <3>. QED BY <1>4, <2>1, SmallestSet
  <2>3. T # {}
    <3>1. Cardinality({}) = 0
        BY FS_EmptySet
    <3>2. g[{}] \in -Cardinality({}) .. Cardinality({})
        BY <1>2, <3>1
    <3>3. QED
        BY <2>2, <3>2
  <2>4. PICK x \in T : TRUE
      BY <2>3
  <2>. DEFINE U == T \ {x}
  <2>5. U \in SUBSET S /\ U \notin F /\ x \in S /\ T \in SUBSET S
      BY <2>2, <2>4
  <2>6. PICK c \in Nat, d \in Nat : c = Cardinality(T) /\ d = Cardinality(U)
      BY <1>3, <2>5
  <2>7. d = c - 1
      BY <1>3, <2>4, <2>5, <2>6, FS_RemoveElement
  <2>8. g[T] = f[x] + g[U] /\ g[U] \in -d .. d /\ f[x] \in -1 .. 1
      BY <1>2, <2>4, <2>5, <2>6
  <2>9. g[T] \in -c .. c
      BY <2>6, <2>7, <2>8
  <2>10. QED
      BY <2>2, <2>6, <2>9
<1>5. S \in SUBSET S /\ S \notin F
    BY <1>4
<1>6. QED
    BY <1>2, <1>5

\* Numbers whose total is positive are not all at most 0.
LEMMA TotalPositive ==
    ASSUME NEW S, IsFiniteSet(S), NEW f \in [S -> Int], Total(f, S) > 0
    PROVE  \E x \in S : f[x] > 0
<1>. SUFFICES ASSUME \A x \in S : f[x] <= 0 PROVE FALSE
    OBVIOUS
<1>1. PICK g \in [SUBSET S -> Int] : HasTotals(g, f, S)
    BY Totals
<1>2. /\ g[{}] = 0
      /\ \A s \in SUBSET S : \A x \in s : g[s] = f[x] + g[s \ {x}]
      /\ Total(f, S) = g[S]
    BY <1>1 DEF HasTotals, AddsUp
<1>. DEFINE F == {s \in SUBSET S : g[s] > 0}
<1>3. F \in SUBSET (SUBSET S) /\ F # {}
  <2>1. S \in F
      BY <1>2
  <2>2. QED
      BY <2>1
<1>4. PICK T \in F : \A U \in F : U \subseteq T => U = T
  <2>. HIDE DEF F
  <2>. QED BY <1>3, SmallestSet
<1>5. PICK x \in T : TRUE
  <2>1. g[T] # g[{}]
      BY <1>2, <1>4
  <2>2. QED
      BY <2>1
<1>. DEFINE U == T \ {x}
<1>6. U \in SUBSET S /\ U \notin F /\ x \in S /\ g[T] = f[x] + g[U]
  <2>1. U \in SUBSET S /\ U \subseteq T /\ U # T /\ x \in S /\ T \in SUBSET S
      BY <1>4, <1>5
  <2>2. U \notin F
      BY <1>4, <2>1
  <2>3. QED
      BY <1>2, <2>1, <2>2
<1>7. g[T] \in Int /\ g[U] \in Int /\ f[x] \in Int /\ g[T] > 0
    BY <1>4, <1>6
<1>8. QED
    BY <1>6, <1>7

-----------------------------------------------------------------------------
(* SUM.                                                                    *)

Nullable(x) == x = Null \/ \E v \in Int : x = {v}

LEMMA CoalesceTyped ==
    /\ Coalesce(Null) = 0
    /\ \A v : Coalesce({v}) = v
    /\ \A x : Nullable(x) => Coalesce(x) \in Int
<1>1. Coalesce(Null) = 0
    BY DEF Coalesce
<1>2. \A v : Coalesce({v}) = v
    BY DEF Coalesce, Null
<1>3. ASSUME NEW x, Nullable(x) PROVE Coalesce(x) \in Int
  <2>1. CASE x = Null
      BY <1>1, <2>1
  <2>2. ASSUME NEW v \in Int, x = {v} PROVE Coalesce(x) \in Int
      BY <1>2, <2>2
  <2>3. QED
      BY <1>3, <2>1, <2>2 DEF Nullable
<1>4. QED
    BY <1>1, <1>2, <1>3

LEMMA TotalTyped ==
    ASSUME NEW S, IsFiniteSet(S), NEW f \in [S -> Int], NEW T \in SUBSET S
    PROVE  Total(f, T) \in Int
<1>1. PICK g \in [SUBSET S -> Int] : HasTotals(g, f, S)
    BY Totals
<1>2. QED
    BY <1>1 DEF HasTotals

Valued(F) == {x \in DOMAIN F : F[x] # Null}

\* What SumOf adds up.
LEMMA SumIsTotal ==
    ASSUME NEW F, IsFiniteSet(DOMAIN F), NEW c \in [DOMAIN F -> Int],
           \A x \in DOMAIN F : c[x] = Coalesce(F[x])
    PROVE  SumOf(F) = IF Valued(F) = {} THEN Null ELSE {Total(c, Valued(F))}
<1>1. PICK V : V = Valued(F) /\ V \in SUBSET DOMAIN F
    BY DEF Valued
<1>. DEFINE Adds(g) == g = [s \in SUBSET V |->
                               IF s = {} THEN 0
                                 ELSE Coalesce(F[CHOOSE x \in s : TRUE])
                                        + g[s \ {CHOOSE x \in s : TRUE}]]
            iter == CHOOSE g : Adds(g)
            d == [x \in V |-> c[x]]
<1>2. \A g : (Adds(g) <=> Sums(g, c, V)) /\ (Sums(g, d, V) <=> Sums(g, c, V))
  <2>1. ASSUME NEW s \in SUBSET V, s # {}
        PROVE  c[Some(s)] = Coalesce(F[Some(s)]) /\ d[Some(s)] = c[Some(s)]
      BY <1>1, <2>1, SomeIn
  <2>. HIDE DEF d
  <2>2. QED
      BY <2>1 DEF Sums, Some
<1>3. MapThenSumSet(LAMBDA x : Coalesce(F[x]), V) = iter[V]
    BY Zenon DEF MapThenSumSet, MapThenFoldSet
<1>4. IsFiniteSet(V) /\ d \in [V -> Int]
    BY <1>1, FS_Subset
<1>5. SumOf(F) = IF V = {} THEN Null ELSE {MapThenSumSet(LAMBDA x : Coalesce(F[x]), V)}
    BY <1>1, Zenon DEF SumOf, Valued
<1>. HIDE DEF Adds, d
<1>6. \E g : Adds(g)
    BY <1>2, <1>4, SumsExist
<1>7. Adds(iter)
    BY <1>6, Zenon
<1>. HIDE DEF iter
<1>8. iter[V] = Total(c, V)
    BY <1>2, <1>4, <1>7, TotalIs
<1>9. QED
    BY <1>1, <1>3, <1>5, <1>8, Zenon

\* A sum counts a NULL like 0, and is NULL only when everything is.
LEMMA SumOfIs ==
    ASSUME NEW S, IsFiniteSet(S), NEW F, DOMAIN F = S, \A x \in S : Nullable(F[x]),
           NEW c, c = [x \in S |-> Coalesce(F[x])]
    PROVE  /\ Coalesce(SumOf(F)) = Total(c, S)
           /\ Nullable(SumOf(F))
           /\ SumOf(F) = Null <=> \A x \in S : F[x] = Null
<1>1. c \in [S -> Int] /\ \A x \in S : c[x] = Coalesce(F[x])
    BY CoalesceTyped
<1>2. PICK V : V = Valued(F) /\ V = {x \in S : F[x] # Null}
    BY DEF Valued
<1>3. V \in SUBSET S /\ S \ V \in SUBSET S /\ V \cap (S \ V) = {} /\ V \cup (S \ V) = S
    BY <1>2
<1>4. SumOf(F) = IF V = {} THEN Null ELSE {Total(c, V)}
    BY <1>1, <1>2, SumIsTotal
<1>5. IsFiniteSet(S \ V) /\ Total(c, V) \in Int
    BY <1>1, <1>3, FS_Subset, TotalTyped
<1>6. Total(c, S \ V) = 0
    BY <1>1, <1>2, <1>5, CoalesceTyped, TotalOfZeros
<1>7. Total(c, S) = Total(c, V) + Total(c, S \ V)
    BY <1>1, <1>3, TotalOfUnion
<1>8. V = {} => Total(c, S) = 0
    BY <1>3, <1>6
<1>9. Coalesce(SumOf(F)) = Total(c, S)
  <2>1. CASE V = {}
      BY <1>4, <1>8, <2>1, CoalesceTyped
  <2>2. CASE V # {}
    <3>1. Coalesce(SumOf(F)) = Total(c, V)
        BY <1>4, <2>2, CoalesceTyped
    <3>2. QED
        BY <1>5, <1>6, <1>7, <3>1
  <2>3. QED
      BY <2>1, <2>2
<1>10. Nullable(SumOf(F)) /\ (SumOf(F) = Null <=> V = {})
    BY <1>4, <1>5 DEF Nullable, Null
<1>11. QED
    BY <1>2, <1>9, <1>10

-----------------------------------------------------------------------------
(* The rows of the view.                                                   *)

LEMMA MinIs ==
    ASSUME NEW S \in SUBSET Nat, S # {}
    PROVE  Min(S) \in S /\ \A y \in S : Min(S) <= y
BY Smallest DEF Min

LEMMA EventsTyped ==
    ASSUME TypeInv
    PROVE  /\ \A k \in DOMAIN events : /\ k \in Nat /\ k # NoEventRow /\ events[k].at \in Nat
                                       /\ events[k].state \in CanonicalState
           /\ DOMAIN events = 1 .. Len(events) /\ Len(events) \in Nat
           /\ IsFiniteSet(DOMAIN events)
<1>1. events \in Seq(SilverEvent)
    BY DEF TypeInv, TypeOK
<1>2. /\ DOMAIN events = 1 .. Len(events) /\ Len(events) \in Nat
      /\ \A k \in DOMAIN events : events[k] \in SilverEvent
    BY <1>1
<1>3. \A k \in DOMAIN events : events[k].at \in Nat /\ events[k].state \in CanonicalState
    BY <1>2 DEF SilverEvent
<1>4. IsFiniteSet(DOMAIN events)
    BY <1>2, FS_Interval
<1>5. QED
    BY <1>2, <1>3, <1>4 DEF NoEventRow

LEMMA EndTyped ==
    ASSUME TypeInv, NEW i, NEW period \in Period
    PROVE  EndOf(i, period) \in Nat
<1>. DEFINE S == {Now} \cup
               {events[k].at : k \in {k \in DOMAIN events :
                   /\ events[k].issue = i /\ events[k].state = "DONE"
                   /\ period.assigned < events[k].at}}
<1>1. \A k \in DOMAIN events : events[k].at \in Nat
    BY EventsTyped
<1>2. S \in SUBSET Nat /\ S # {}
    BY <1>1, GoldAssumption
<1>3. EndOf(i, period) = IF period.unassigned # StillAssigned THEN period.unassigned ELSE Min(S)
    BY DEF EndOf
<1>. HIDE DEF S
<1>4. Min(S) \in Nat
    BY <1>2, MinIs
<1>5. QED
    BY <1>3, <1>4 DEF Period

\* Row k of the LEFT JOIN for the period j.
RowOf(i, p, j, k) ==
    [nth |-> j, event |-> k, assigned |-> p[j].assigned, end |-> EndOf(i, p[j])]

Joined(i, period) ==
    IF EventsIn(i, period) = {} THEN {NoEventRow} ELSE EventsIn(i, period)

LEMMA RowsAre ==
    ASSUME NEW i \in Issue, NEW n \in Name, NEW p, p = issues[i].assignees.history[n], NEW r
    PROVE  r \in Rows(i, n) <=> \E j \in DOMAIN p : \E k \in Joined(i, p[j]) : r = RowOf(i, p, j, k)
BY DEF Rows, Joined, RowOf

LEMMA PeriodsTyped ==
    ASSUME TypeInv, NEW i \in Issue, NEW n \in Name
    PROVE  /\ issues[i].assignees.history[n] \in Seq(Period)
           /\ IsFiniteSet(DOMAIN issues[i].assignees.history[n])
<1>1. PICK p : p = issues[i].assignees.history[n]
    OBVIOUS
<1>2. p \in Seq(Period)
    BY <1>1 DEF TypeInv, TypeOK, IssueRow, AssigneeHistory
<1>3. DOMAIN p = 1 .. Len(p) /\ Len(p) \in Nat
    BY <1>2
<1>4. IsFiniteSet(DOMAIN p)
    BY <1>3, FS_Interval
<1>5. QED
    BY <1>1, <1>2, <1>4

LEMMA ViewRowsTyped ==
    ASSUME TypeInv, NEW i \in Issue, NEW n \in Name
    PROVE  /\ IsFiniteSet(Rows(i, n))
           /\ \A r \in Rows(i, n) :
                 /\ r.assigned \in Nat /\ r.end \in Nat
                 /\ r.event = NoEventRow \/
                       (r.event \in DOMAIN events /\ events[r.event].at \in Nat
                          /\ events[r.event].state \in CanonicalState)
                 /\ r.nth \in Nat /\ r.event \in Nat
<1>1. PICK p : p = issues[i].assignees.history[n]
    OBVIOUS
<1>2. p \in Seq(Period) /\ IsFiniteSet(DOMAIN p) /\ DOMAIN p \in SUBSET Nat
    BY <1>1, PeriodsTyped
<1>3. PICK K : K = DOMAIN events \cup {NoEventRow}
    OBVIOUS
<1>4. /\ \A k \in DOMAIN events : /\ k \in Nat /\ events[k].at \in Nat
                                  /\ events[k].state \in CanonicalState
      /\ IsFiniteSet(DOMAIN events)
    BY EventsTyped
<1>5. IsFiniteSet(K) /\ K \in SUBSET Nat
    BY <1>3, <1>4, FS_AddElement DEF NoEventRow
<1>6. \A j \in DOMAIN p : Joined(i, p[j]) \subseteq K
    BY <1>3 DEF Joined, EventsIn, Transitions
<1>7. IsFiniteSet(Rows(i, n))
  <2>. DEFINE h == [x \in (DOMAIN p) \X K |-> RowOf(i, p, x[1], x[2])]
              T == {h[x] : x \in (DOMAIN p) \X K}
  <2>1. IsFiniteSet((DOMAIN p) \X K)
      BY <1>2, <1>5, FS_Product
  <2>2. h \in Surjection((DOMAIN p) \X K, T)
      BY DEF Surjection
  <2>3. Rows(i, n) \subseteq T
    <3>1. ASSUME NEW j \in DOMAIN p, NEW k \in K PROVE RowOf(i, p, j, k) \in T
      <4>1. <<j, k>> \in (DOMAIN p) \X K /\ h[<<j, k>>] = RowOf(i, p, j, k)
          OBVIOUS
      <4>2. QED
          BY <4>1
    <3>. HIDE DEF T
    <3>2. QED
        BY <1>1, <1>6, <3>1, RowsAre
  <2>. HIDE DEF h, T
  <2>4. IsFiniteSet(T)
      BY <2>1, <2>2, FS_Surjection
  <2>5. QED
      BY <2>3, <2>4, FS_Subset
<1>8. ASSUME NEW r \in Rows(i, n)
      PROVE  /\ r.assigned \in Nat /\ r.end \in Nat
             /\ r.event \in K /\ r.nth \in Nat
  <2>0. PICK j \in DOMAIN p : \E k \in Joined(i, p[j]) : r = RowOf(i, p, j, k)
      BY <1>1, RowsAre
  <2>1. PICK k \in Joined(i, p[j]) : r = RowOf(i, p, j, k)
      BY <2>0
  <2>2. p[j] \in Period /\ EndOf(i, p[j]) \in Nat
      BY <1>2, EndTyped
  <2>3. QED
      BY <1>2, <1>6, <2>1, <2>2 DEF RowOf, Period
<1>9. QED
    BY <1>3, <1>4, <1>5, <1>7, <1>8

\* NextChange is a time of the view, and what LEAST makes of it a number.
LEMMA ChangeTyped ==
    ASSUME TypeInv, NEW i \in Issue, NEW n \in Name, NEW r \in Rows(i, n)
    PROVE  LET rows == Rows(i, n)
               until == Min({NextChange(rows, r), r.end})
           IN  /\ NextChange(rows, r) \in Nat /\ until \in {NextChange(rows, r), r.end}
               /\ until <= NextChange(rows, r) /\ until <= r.end
               /\ BeginOf(r) \in Nat /\ HoursOf(rows, r) \in Int
<1>1. PICK rows : rows = Rows(i, n)
    OBVIOUS
<1>2. \A q \in rows : /\ q.assigned \in Nat /\ q.end \in Nat
                      /\ q.event = NoEventRow \/ events[q.event].at \in Nat
    BY <1>1, ViewRowsTyped
<1>3. PICK F : F = {q \in rows : Follows(q, r)}
    OBVIOUS
<1>4. NextChange(rows, r) = IF F = {} THEN r.end ELSE Min({events[q.event].at : q \in F})
    BY <1>3 DEF NextChange
<1>5. NextChange(rows, r) \in Nat
  <2>1. CASE F = {}
      BY <1>1, <1>2, <1>4, <2>1
  <2>2. CASE F # {}
    <3>. DEFINE A == {events[q.event].at : q \in F}
    <3>1. A \in SUBSET Nat /\ A # {}
        BY <1>2, <1>3, <2>2 DEF Follows
    <3>. HIDE DEF A
    <3>2. Min(A) \in Nat
        BY <3>1, MinIs
    <3>3. QED
        BY <1>4, <2>2, <3>2 DEF A
  <2>3. QED
      BY <2>1, <2>2
<1>6. PICK c, d, u : c = NextChange(rows, r) /\ d = r.end /\ u = Min({c, d})
    OBVIOUS
<1>7. u \in {c, d} /\ u <= c /\ u <= d /\ u \in Nat
    BY <1>1, <1>2, <1>5, <1>6, MinIs
<1>8. BeginOf(r) \in Nat
    BY <1>1, <1>2 DEF BeginOf
<1>9. HoursOf(rows, r) \in Int
    BY <1>6, <1>7, <1>8 DEF HoursOf
<1>10. QED
    BY <1>1, <1>5, <1>6, <1>7, <1>8, <1>9

-----------------------------------------------------------------------------
(* The reports.                                                            *)

\* The column F adds up like the numbers c.
LEMMA SumOfIsTotal ==
    ASSUME NEW S, IsFiniteSet(S), NEW F, DOMAIN F = S, NEW c \in [S -> Int],
           \A x \in S : Nullable(F[x]) /\ c[x] = Coalesce(F[x])
    PROVE  Coalesce(SumOf(F)) = Total(c, S) /\ Nullable(SumOf(F))
<1>1. PICK d : d = [x \in S |-> Coalesce(F[x])]
    OBVIOUS
<1>2. Coalesce(SumOf(F)) = Total(d, S) /\ Nullable(SumOf(F))
    BY <1>1, SumOfIs
<1>3. \A x \in S : d[x] = c[x]
    BY <1>1
<1>4. QED
    BY <1>2, <1>3, TotalSame

\* The hours of a state are those of the rows in it.
LEMMA HoursInIs ==
    ASSUME TypeInv, NEW i \in Issue, NEW n \in Name, NEW R, R = Rows(i, n),
           NEW f, f = [r \in R |-> HoursOf(R, r)], NEW states
    PROVE  /\ Nullable(HoursIn(R, states))
           /\ Coalesce(HoursIn(R, states)) = Total(f, {r \in R : StateOf(r) \in states})
<1>1. IsFiniteSet(R) /\ f \in [R -> Int] /\ \A r \in R : HoursOf(R, r) \in Int
    BY ViewRowsTyped, ChangeTyped
<1>2. PICK S : S = {r \in R : StateOf(r) \in states}
    OBVIOUS
<1>3. IsFiniteSet(S) /\ S \in SUBSET R
    BY <1>1, <1>2, FS_Subset
<1>4. PICK F, d : F = [r \in S |-> {HoursOf(R, r)}] /\ d = [r \in S |-> HoursOf(R, r)]
    OBVIOUS
<1>5. HoursIn(R, states) = SumOf(F)
    BY <1>2, <1>4 DEF HoursIn
<1>6. DOMAIN F = S /\ d \in [S -> Int] /\ \A r \in S : d[r] = f[r] /\ f[r] = d[r]
    BY <1>1, <1>3, <1>4
<1>7. \A r \in S : Nullable(F[r]) /\ d[r] = Coalesce(F[r])
    BY <1>1, <1>3, <1>4, CoalesceTyped DEF Nullable
<1>8. Coalesce(SumOf(F)) = Total(d, S) /\ Nullable(SumOf(F))
    BY <1>3, <1>6, <1>7, SumOfIsTotal
<1>9. Total(f, S) = Total(d, S)
    BY <1>3, <1>6, TotalSame
<1>10. QED
    BY <1>2, <1>5, <1>8, <1>9

-----------------------------------------------------------------------------
(* ROUND.                                                                  *)

LEMMA Quotient ==
    ASSUME NEW x \in Int, NEW d \in Nat \ {0}
    PROVE  /\ x \div d \in Int
           /\ (x \div d) * d <= x /\ x < (x \div d) * d + d
<1>1. x \div d \in Int
    OBVIOUS
<1>2. x % d \in 0 .. d - 1 /\ x = (x \div d) * d + (x % d)
    OBVIOUS
<1>3. QED
    BY <1>1, <1>2

LEMMA RoundNear ==
    ASSUME NEW x \in Int
    PROVE  /\ Round(x) \in Int
           /\ 2 * x - Round(x) * (2 * Hundredth) \in -Hundredth .. Hundredth
<1>1. PICK h \in Nat \ {0} : h = Hundredth
    BY GoldAssumption
<1>2. ASSUME NEW y \in Int, NEW q, q = (2 * y + h) \div (2 * h)
      PROVE  q \in Int /\ 2 * y - q * (2 * h) \in -h .. h
  <2>1. PICK d \in Nat \ {0}, z \in Int : d = 2 * h /\ z = 2 * y + h
      OBVIOUS
  <2>2. q \in Int /\ q * d <= z /\ z < q * d + d
      BY <1>2, <2>1, Quotient
  <2>3. PICK e \in Int : e = q * d
      BY <2>2
  <2>4. 2 * y - e \in -h .. h
      BY <2>1, <2>2, <2>3
  <2>5. QED
      BY <2>1, <2>2, <2>3, <2>4
<1>3. CASE x >= 0
  <2>1. Round(x) = (2 * x + h) \div (2 * h)
      BY <1>1, <1>3 DEF Round
  <2>2. QED
      BY <1>1, <1>2, <2>1
<1>4. CASE x < 0
  <2>1. PICK y \in Int : y = -x
      OBVIOUS
  <2>2. PICK q : q = (2 * y + h) \div (2 * h)
      OBVIOUS
  <2>3. Round(x) = -q
      BY <1>1, <1>4, <2>1, <2>2 DEF Round
  <2>4. q \in Int /\ 2 * y - q * (2 * h) \in -h .. h
      BY <1>2, <2>2
  <2>5. (-q) * (2 * h) = -(q * (2 * h)) /\ q * (2 * h) \in Int
      BY <2>4
  <2>6. PICK e \in Int : e = q * (2 * h)
      BY <2>5
  <2>7. 2 * x - (-e) \in -h .. h
      BY <2>1, <2>4, <2>6
  <2>8. QED
      BY <1>1, <2>3, <2>4, <2>5, <2>6, <2>7
<1>5. QED
    BY <1>3, <1>4

\* A sum rounded, and the sum of the rounded.
LEMMA RoundedSum ==
    /\ \A x \in Int : Round(x) \in Int /\ (Round(x) > 0 => x > 0)
    /\ \A a, b \in Int : Round(a) + Round(b) - Round(a + b) \in -1 .. 1
    /\ Round(0) = 0
<1>1. PICK h \in Nat \ {0}, d \in Nat \ {0} : h = Hundredth /\ d = 2 * h
    BY GoldAssumption
<1>2. \A x \in Int : Round(x) \in Int /\ 2 * x - Round(x) * d \in -h .. h
    BY <1>1, RoundNear
<1>3. ASSUME NEW q \in Int
      PROVE  /\ q * d \in Int
             /\ q >= 1 => q * d >= d
             /\ q >= 2 => q * d >= d + d
             /\ q <= -1 => q * d <= -d
             /\ q <= -2 => q * d <= -d - d
    OBVIOUS
<1>4. ASSUME NEW x \in Int PROVE Round(x) > 0 => x > 0
  <2>1. PICK r \in Int : r = Round(x)
      BY <1>2
  <2>2. PICK e \in Int : e = r * d
      BY <1>3
  <2>3. 2 * x - e \in -h .. h
      BY <1>2, <2>1, <2>2
  <2>4. r >= 1 => e >= d
      BY <1>3, <2>2
  <2>5. QED
      BY <1>1, <2>1, <2>3, <2>4
<1>5. Round(0) = 0
  <2>1. PICK r \in Int : r = Round(0)
      BY <1>2
  <2>2. PICK e \in Int : e = r * d
      BY <1>3
  <2>3. 0 - e \in -h .. h
    <3>1. 2 * 0 - Round(0) * d \in -h .. h
        BY <1>2
    <3>2. QED
        BY <2>1, <2>2, <3>1
  <2>4. (r >= 1 => e >= d) /\ (r <= -1 => e <= -d)
      BY <1>3, <2>2
  <2>5. QED
      BY <1>1, <2>1, <2>3, <2>4
<1>6. ASSUME NEW a \in Int, NEW b \in Int
      PROVE  Round(a) + Round(b) - Round(a + b) \in -1 .. 1
  <2>1. PICK c \in Int : c = a + b
      OBVIOUS
  <2>2. PICK r \in Int, s \in Int, t \in Int : r = Round(a) /\ s = Round(b) /\ t = Round(c)
      BY <1>2, <2>1
  <2>3. PICK q \in Int : q = r + s - t
      OBVIOUS
  <2>4. q * d = r * d + s * d - t * d
      BY <2>3
  <2>5. PICK e \in Int, f \in Int, g \in Int, k \in Int :
           e = r * d /\ f = s * d /\ g = t * d /\ k = q * d
      BY <1>3
  <2>6. 2 * a - e \in -h .. h /\ 2 * b - f \in -h .. h /\ 2 * c - g \in -h .. h
    <3>1. 2 * a - Round(a) * d \in -h .. h
        BY <1>2
    <3>2. 2 * b - Round(b) * d \in -h .. h
        BY <1>2
    <3>3. 2 * c - Round(c) * d \in -h .. h
        BY <1>2
    <3>4. QED
        BY <2>2, <2>5, <3>1, <3>2, <3>3
  <2>7. k = e + f - g
      BY <2>4, <2>5
  <2>8. (q >= 2 => k >= d + d) /\ (q <= -2 => k <= -d - d)
      BY <1>3, <2>5
  <2>9. q \in -1 .. 1
      BY <1>1, <2>1, <2>3, <2>6, <2>7, <2>8
  <2>10. QED
      BY <2>1, <2>2, <2>3, <2>9
<1>7. QED
    BY <1>2, <1>4, <1>5, <1>6

LEMMA RoundedTyped ==
    ASSUME NEW x, Nullable(x)
    PROVE  Nullable(Rounded(x)) /\ Coalesce(Rounded(x)) = Round(Coalesce(x))
<1>1. CASE x = Null
  <2>1. Rounded(x) = Null
      BY <1>1 DEF Rounded, Null
  <2>2. QED
      BY <1>1, <2>1, CoalesceTyped, RoundedSum DEF Nullable
<1>2. ASSUME NEW v \in Int, x = {v}
      PROVE  Nullable(Rounded(x)) /\ Coalesce(Rounded(x)) = Round(Coalesce(x))
  <2>1. Rounded(x) = {Round(v)} /\ Round(v) \in Int
      BY <1>2, RoundedSum DEF Rounded
  <2>2. QED
      BY <1>2, <2>1, CoalesceTyped DEF Nullable
<1>3. QED
    BY <1>1, <1>2 DEF Nullable

\* What the columns of a view row have to do with each other.
FitsTogether(v) ==
    /\ Nullable(v.active) /\ Nullable(v.inProgress) /\ Nullable(v.qaReview) /\ Nullable(v.total)
    /\ Coalesce(v.inProgress) + Coalesce(v.qaReview) - Coalesce(v.active) \in -1 .. 1
    /\ Coalesce(v.active) > 0 => v.contributed

LEMMA ViewFitsTogether ==
    ASSUME TypeInv, NEW i \in Issue, NEW n \in Name
    PROVE  FitsTogether(CycleTime(i, n))
<1>1. PICK R, f : R = Rows(i, n) /\ f = [r \in R |-> HoursOf(R, r)]
    OBVIOUS
<1>2. \A states : /\ Nullable(HoursIn(R, states))
                  /\ Coalesce(HoursIn(R, states)) = Total(f, {r \in R : StateOf(r) \in states})
    BY <1>1, HoursInIs
<1>3. PICK A, B, C : /\ A = {r \in R : StateOf(r) \in {"IN_PROGRESS"}}
                     /\ B = {r \in R : StateOf(r) \in {"QA_REVIEW"}}
                     /\ C = {r \in R : StateOf(r) \in Active}
    OBVIOUS
<1>4. C = A \cup B /\ A \cap B = {} /\ A \in SUBSET R /\ B \in SUBSET R
    BY <1>3 DEF Active
<1>5. IsFiniteSet(R) /\ f \in [R -> Int]
    BY <1>1, ViewRowsTyped, ChangeTyped
<1>6. Total(f, C) = Total(f, A) + Total(f, B)
    BY <1>4, <1>5, TotalOfUnion
<1>7. Total(f, A) \in Int /\ Total(f, B) \in Int
    BY <1>4, <1>5, TotalTyped
<1>8. PICK v : v = CycleTime(i, n)
    OBVIOUS
<1>9. /\ v.active = Rounded(HoursIn(R, Active))
      /\ v.inProgress = Rounded(HoursIn(R, {"IN_PROGRESS"}))
      /\ v.qaReview = Rounded(HoursIn(R, {"QA_REVIEW"}))
      /\ v.total = Rounded(HoursIn(R, CanonicalState \cup {None}))
      /\ v.contributed = (Coalesce(HoursIn(R, Active)) > 0)
    BY <1>1, <1>8 DEF CycleTime
<1>10. /\ Nullable(v.active) /\ Nullable(v.inProgress)
       /\ Nullable(v.qaReview) /\ Nullable(v.total)
    BY <1>2, <1>9, RoundedTyped
<1>11. /\ Coalesce(v.inProgress) = Round(Total(f, A)) /\ Coalesce(v.qaReview) = Round(Total(f, B))
       /\ Coalesce(v.active) = Round(Total(f, C)) /\ v.contributed = (Total(f, C) > 0)
    BY <1>2, <1>3, <1>9, RoundedTyped
<1>12. PICK x \in Int, y \in Int : x = Total(f, A) /\ y = Total(f, B)
    BY <1>7
<1>13. /\ Coalesce(v.inProgress) = Round(x) /\ Coalesce(v.qaReview) = Round(y)
       /\ Coalesce(v.active) = Round(x + y) /\ v.contributed = (x + y > 0)
    BY <1>6, <1>11, <1>12
<1>14. /\ Round(x) + Round(y) - Round(x + y) \in -1 .. 1
       /\ Round(x + y) > 0 => x + y > 0
    BY RoundedSum
<1>15. FitsTogether(v)
    BY <1>10, <1>13, <1>14 DEF FitsTogether
<1>16. QED
    BY <1>8, <1>15

\* All of this holds of any state of the database, with any finite number of
\* issues: the wait hours of a row make up for what its rounded columns differ, and
\* what rounding adds or takes is at most a hundredth per row.
LEMMA ReportsAgreeInType ==
    ASSUME TypeInv, IsFiniteSet(Issue)
    PROVE  ReportsAgree
<1>. SUFFICES ASSUME NEW p \in Project, NEW n \in Name
     PROVE  LET rows == {v \in ViewOf(p) : v.assignee = n}
                byProject == AssigneeCycleTimeByProject(rows)
                distribution == AssigneeWorkDistribution(rows)
                metrics == IndividualPerformanceMetrics(rows)
            IN  /\ Coalesce(distribution.active) + Coalesce(distribution.wait)
                     = Coalesce(metrics.totalHours)
                /\ Coalesce(byProject.dev) + Coalesce(byProject.qa)
                     - Coalesce(metrics.totalActive) \in -byProject.issues .. byProject.issues
                /\ Coalesce(metrics.totalActive) > 0 => metrics.issuesContributed > 0
    BY DEF ReportsAgree
<1>1. PICK R : R = {v \in ViewOf(p) : v.assignee = n}
    OBVIOUS
<1>2. ASSUME NEW v \in R PROVE \E i \in Issue : v = CycleTime(i, n)
  <2>1. PICK i \in Issue, m \in Name : v = CycleTime(i, m)
      BY <1>1 DEF ViewOf
  <2>2. m = n
      BY <1>1, <2>1 DEF CycleTime
  <2>3. QED
      BY <2>1, <2>2
<1>3. IsFiniteSet(R)
  <2>. DEFINE h == [i \in Issue |-> CycleTime(i, n)]
              T == {h[i] : i \in Issue}
  <2>1. h \in Surjection(Issue, T) /\ R \subseteq T
      BY <1>2 DEF Surjection
  <2>. HIDE DEF h, T
  <2>2. QED
      BY <2>1, FS_Surjection, FS_Subset
<1>4. \A v \in R : FitsTogether(v)
    BY <1>2, ViewFitsTogether
<1>5. \A v \in R : /\ Coalesce(v.active) \in Int /\ Coalesce(v.inProgress) \in Int
                   /\ Coalesce(v.qaReview) \in Int /\ Coalesce(v.total) \in Int
                   /\ Nullable(WaitHours(v))
                   /\ Coalesce(WaitHours(v)) = Coalesce(v.total) - Coalesce(v.active)
  <2>. SUFFICES ASSUME NEW v \in R
       PROVE  /\ Coalesce(v.active) \in Int /\ Coalesce(v.inProgress) \in Int
              /\ Coalesce(v.qaReview) \in Int /\ Coalesce(v.total) \in Int
              /\ Nullable(WaitHours(v))
              /\ Coalesce(WaitHours(v)) = Coalesce(v.total) - Coalesce(v.active)
      OBVIOUS
  <2>1. /\ Coalesce(v.active) \in Int /\ Coalesce(v.inProgress) \in Int
        /\ Coalesce(v.qaReview) \in Int /\ Coalesce(v.total) \in Int
      BY <1>4, CoalesceTyped DEF FitsTogether
  <2>2. PICK wait \in Int : wait = Coalesce(v.total) - Coalesce(v.active)
      BY <2>1
  <2>3. WaitHours(v) = {wait}
      BY <2>2 DEF WaitHours
  <2>4. Nullable(WaitHours(v)) /\ Coalesce(WaitHours(v)) = wait
      BY <2>3, CoalesceTyped DEF Nullable
  <2>5. QED
      BY <2>1, <2>2, <2>4
<1>6. PICK a, b, c, d, w : /\ a = [v \in R |-> Coalesce(v.active)]
                           /\ b = [v \in R |-> Coalesce(v.inProgress)]
                           /\ c = [v \in R |-> Coalesce(v.qaReview)]
                           /\ d = [v \in R |-> Coalesce(v.total)]
                           /\ w = [v \in R |-> Coalesce(WaitHours(v))]
    OBVIOUS
<1>7. a \in [R -> Int] /\ b \in [R -> Int] /\ c \in [R -> Int] /\ d \in [R -> Int] /\ w \in [R -> Int]
    BY <1>5, <1>6
<1>8. Total(b, R) + Total(c, R) - Total(a, R) \in -Cardinality(R) .. Cardinality(R)
  <2>1. PICK s, gap : /\ s = [v \in R |-> b[v] + c[v]]
                      /\ gap = [v \in R |-> b[v] + c[v] - a[v]]
      OBVIOUS
  <2>2. s \in [R -> Int] /\ gap \in [R -> Int] /\ \A v \in R : s[v] = a[v] + gap[v]
      BY <1>7, <2>1
  <2>3. Total(s, R) = Total(b, R) + Total(c, R)
      BY <1>3, <1>7, <2>1, TotalOfSum
  <2>4. Total(s, R) = Total(a, R) + Total(gap, R)
      BY <1>3, <1>7, <2>2, TotalOfSum
  <2>5. \A v \in R : gap[v] \in -1 .. 1
      BY <1>4, <1>6, <2>1 DEF FitsTogether
  <2>6. Total(gap, R) \in -Cardinality(R) .. Cardinality(R)
      BY <1>3, <2>2, <2>5, TotalWithin
  <2>7. /\ Total(a, R) \in Int /\ Total(b, R) \in Int
        /\ Total(c, R) \in Int /\ Total(gap, R) \in Int
      BY <1>3, <1>7, <2>2, TotalTyped
  <2>8. Total(b, R) + Total(c, R) - Total(a, R) = Total(gap, R)
      BY <2>3, <2>4, <2>7
  <2>9. QED
      BY <2>6, <2>8
<1>9. Total(d, R) = Total(a, R) + Total(w, R)
  <2>1. \A v \in R : d[v] = a[v] + w[v]
      BY <1>5, <1>6
  <2>2. QED
      BY <1>3, <1>7, <2>1, TotalOfSum
<1>10. /\ Coalesce(SumOf([v \in R |-> v.active])) = Total(a, R)
       /\ Coalesce(SumOf([v \in R |-> v.inProgress])) = Total(b, R)
       /\ Coalesce(SumOf([v \in R |-> v.qaReview])) = Total(c, R)
       /\ Coalesce(SumOf([v \in R |-> v.total])) = Total(d, R)
       /\ Coalesce(SumOf([v \in R |-> WaitHours(v)])) = Total(w, R)
  <2>1. ASSUME NEW F, DOMAIN F = R, NEW x \in [R -> Int],
               \A v \in R : Nullable(F[v]) /\ x[v] = Coalesce(F[v])
        PROVE  Coalesce(SumOf(F)) = Total(x, R)
      BY <1>3, <2>1, SumOfIsTotal
  <2>2. \A v \in R : /\ Nullable(v.active) /\ Nullable(v.inProgress)
                     /\ Nullable(v.qaReview) /\ Nullable(v.total) /\ Nullable(WaitHours(v))
      BY <1>4, <1>5 DEF FitsTogether
  <2>3. Coalesce(SumOf([v \in R |-> v.active])) = Total(a, R)
    <3>1. PICK F : F = [v \in R |-> v.active]
        OBVIOUS
    <3>2. DOMAIN F = R /\ \A v \in R : Nullable(F[v]) /\ a[v] = Coalesce(F[v])
        BY <1>6, <2>2, <3>1
    <3>3. QED
        BY <1>7, <2>1, <3>1, <3>2
  <2>4. Coalesce(SumOf([v \in R |-> v.inProgress])) = Total(b, R)
    <3>1. PICK F : F = [v \in R |-> v.inProgress]
        OBVIOUS
    <3>2. DOMAIN F = R /\ \A v \in R : Nullable(F[v]) /\ b[v] = Coalesce(F[v])
        BY <1>6, <2>2, <3>1
    <3>3. QED
        BY <1>7, <2>1, <3>1, <3>2
  <2>5. Coalesce(SumOf([v \in R |-> v.qaReview])) = Total(c, R)
    <3>1. PICK F : F = [v \in R |-> v.qaReview]
        OBVIOUS
    <3>2. DOMAIN F = R /\ \A v \in R : Nullable(F[v]) /\ c[v] = Coalesce(F[v])
        BY <1>6, <2>2, <3>1
    <3>3. QED
        BY <1>7, <2>1, <3>1, <3>2
  <2>6. Coalesce(SumOf([v \in R |-> v.total])) = Total(d, R)
    <3>1. PICK F : F = [v \in R |-> v.total]
        OBVIOUS
    <3>2. DOMAIN F = R /\ \A v \in R : Nullable(F[v]) /\ d[v] = Coalesce(F[v])
        BY <1>6, <2>2, <3>1
    <3>3. QED
        BY <1>7, <2>1, <3>1, <3>2
  <2>7. Coalesce(SumOf([v \in R |-> WaitHours(v)])) = Total(w, R)
    <3>1. PICK F : F = [v \in R |-> WaitHours(v)]
        OBVIOUS
    <3>2. DOMAIN F = R /\ \A v \in R : Nullable(F[v]) /\ w[v] = Coalesce(F[v])
        BY <1>6, <2>2, <3>1
    <3>3. QED
        BY <1>7, <2>1, <3>1, <3>2
  <2>8. QED
      BY <2>3, <2>4, <2>5, <2>6, <2>7
<1>11. Total(a, R) > 0 => Cardinality({v \in R : v.contributed}) > 0
  <2>1. SUFFICES ASSUME Total(a, R) > 0 PROVE Cardinality({v \in R : v.contributed}) > 0
      OBVIOUS
  <2>2. PICK v \in R : a[v] > 0
      BY <1>3, <1>7, <2>1, TotalPositive
  <2>3. PICK W : W = {u \in R : u.contributed}
      OBVIOUS
  <2>4. v \in W
      BY <1>4, <1>6, <2>2, <2>3 DEF FitsTogether
  <2>5. IsFiniteSet(W)
      BY <1>3, <2>3, FS_Subset
  <2>6. Cardinality(W) \in Nat /\ Cardinality(W) # 0
      BY <2>4, <2>5, FS_CardinalityType, FS_EmptySet
  <2>7. QED
      BY <2>3, <2>6
<1>12. QED
    BY <1>1, <1>8, <1>9, <1>10, <1>11
       DEF AssigneeCycleTimeByProject, AssigneeWorkDistribution, IndividualPerformanceMetrics

\* The three reports of a project tell one story (assignee_performance.sql.go),
\* although the view rounds its columns one by one, and whatever is in the tables:
\* also when notes came late or twice, so that a period ends before it begins and
\* hours are negative.
THEOREM ReportsTellOneStory ==
    ASSUME IsFiniteSet(Issue)
    PROVE  Spec => []ReportsAgree
<1>1. TypeInv => ReportsAgree
    BY ReportsAgreeInType
<1>2. QED
    BY <1>1, TypeInvariant, PTL

-----------------------------------------------------------------------------
(* No period ends in the future of the query.                              *)

BoundedPeriods(p) == \A k \in DOMAIN p : p[k].unassigned <= Now

Bounded(h) == \A n \in Name : BoundedPeriods(h.history[n])

BoundedDocuments == {h \in AssigneeHistory : Bounded(h)}

\* An entry a note opens has no end, and one that it closes ends with the note.
LEMMA NotesBound ==
    ASSUME NEW p \in Seq(Period), BoundedPeriods(p), NEW at \in Nat, at <= Now
    PROVE  /\ AssignedPeriods(p, at) \in Seq(Period) /\ BoundedPeriods(AssignedPeriods(p, at))
           /\ BoundedPeriods(UnassignedPeriods(p, at))
<1>0. Now \in Nat
    BY GoldAssumption
<1>1. AssignedPeriods(p, at) \in Seq(Period) /\ BoundedPeriods(AssignedPeriods(p, at))
  <2>. DEFINE new == [assigned |-> at, unassigned |-> StillAssigned]
              q == Append(p, new)
  <2>1. CASE OpenPeriods(p) # {}
      BY <2>1 DEF AssignedPeriods
  <2>2. CASE OpenPeriods(p) = {}
    <3>1. AssignedPeriods(p, at) = q /\ new \in Period /\ new.unassigned <= Now
        BY <1>0, <2>2 DEF AssignedPeriods, Period, StillAssigned
    <3>. HIDE DEF new
    <3>2. /\ q \in Seq(Period) /\ DOMAIN q = 1 .. Len(p) + 1 /\ Len(p) \in Nat
          /\ q[Len(p) + 1] = new /\ \A k \in 1 .. Len(p) : q[k] = p[k]
          /\ DOMAIN p = 1 .. Len(p)
        BY <3>1
    <3>. HIDE DEF q
    <3>3. BoundedPeriods(q)
        BY <3>1, <3>2 DEF BoundedPeriods
    <3>4. QED
        BY <3>1, <3>2, <3>3
  <2>3. QED
      BY <2>1, <2>2
<1>2. BoundedPeriods(UnassignedPeriods(p, at))
  <2>1. CASE OpenPeriods(p) = {}
      BY <2>1 DEF UnassignedPeriods
  <2>2. CASE OpenPeriods(p) # {}
    <3>1. PICK first : UnassignedPeriods(p, at) = [p EXCEPT ![first].unassigned = at]
        BY <2>2 DEF UnassignedPeriods
    <3>2. PICK q : q = UnassignedPeriods(p, at)
        OBVIOUS
    <3>3. DOMAIN q = DOMAIN p /\ \A k \in DOMAIN p : q[k].unassigned \in {p[k].unassigned, at}
      <4>1. \A k \in DOMAIN p : p[k] \in Period
          OBVIOUS
      <4>2. QED
          BY <3>1, <3>2, <4>1 DEF Period
    <3>4. QED
        BY <3>2, <3>3 DEF BoundedPeriods
  <2>3. QED
      BY <2>1, <2>2
<1>3. QED
    BY <1>1, <1>2

LEMMA BoundedClosed == Closed(BoundedDocuments)
<1>1. EmptyHistory \in BoundedDocuments
    BY DEF EmptyHistory, AssigneeHistory, BoundedDocuments, Bounded, BoundedPeriods
<1>2. ASSUME NEW h \in BoundedDocuments, NEW e \in Event
      PROVE  ApplyAssigneeChanges(h, Captured(e.assigned), Captured(e.unassigned), e.at)
                \in BoundedDocuments
  <2>0. e \in EventRecord /\ e.at < Now /\ Now \in Nat
      BY EventAssumption, GoldAssumption
  <2>1. PICK as, un, at : as = Captured(e.assigned) /\ un = Captured(e.unassigned) /\ at = e.at
      OBVIOUS
  <2>2. at \in Nat /\ at <= Now /\ as \in SUBSET Name /\ un \in SUBSET Name
      BY <2>0, <2>1, CapturedTyped DEF EventRecord
  <2>3. PICK g : g = ApplyAssigneeChanges(h, as, un, at)
      OBVIOUS
  <2>4. h \in AssigneeHistory /\ Bounded(h)
      BY DEF BoundedDocuments
  <2>5. g \in AssigneeHistory
      BY <2>2, <2>3, <2>4, ApplyTyped
  <2>6. ASSUME NEW n \in Name PROVE BoundedPeriods(g.history[n])
    <3>1. PICK p : p = h.history[n]
        OBVIOUS
    <3>2. PICK q : q = IF n \in as THEN AssignedPeriods(p, at) ELSE p
        OBVIOUS
    <3>3. p \in Seq(Period) /\ BoundedPeriods(p)
        BY <2>4, <3>1 DEF AssigneeHistory, Bounded
    <3>4. q \in Seq(Period) /\ BoundedPeriods(q)
        BY <2>2, <3>2, <3>3, NotesBound
    <3>5. g.history[n] = IF n \in un THEN UnassignedPeriods(q, at) ELSE q
        BY <2>3, <3>1, <3>2 DEF ApplyAssigneeChanges
    <3>6. QED
        BY <2>2, <3>4, <3>5, NotesBound
  <2>7. QED
      BY <2>1, <2>3, <2>5, <2>6 DEF BoundedDocuments, Bounded
<1>3. QED
    BY <1>1, <1>2 DEF Closed

LEMMA EndBounded ==
    ASSUME TypeInv, DocumentsIn(BoundedDocuments), NEW i \in Issue, NEW n \in Name,
           NEW j \in DOMAIN issues[i].assignees.history[n]
    PROVE  EndOf(i, issues[i].assignees.history[n][j]) <= Now
<1>1. PICK period : period = issues[i].assignees.history[n][j]
    OBVIOUS
<1>2. period.unassigned <= Now
    BY <1>1 DEF DocumentsIn, BoundedDocuments, Bounded, BoundedPeriods
<1>. DEFINE S == {Now} \cup
               {events[k].at : k \in {k \in DOMAIN events :
                   /\ events[k].issue = i /\ events[k].state = "DONE"
                   /\ period.assigned < events[k].at}}
<1>3. \A k \in DOMAIN events : events[k].at \in Nat
    BY EventsTyped
<1>4. S \in SUBSET Nat /\ S # {} /\ Now \in S
    BY <1>3, GoldAssumption
<1>5. EndOf(i, period) = IF period.unassigned # StillAssigned THEN period.unassigned ELSE Min(S)
    BY DEF EndOf
<1>. HIDE DEF S
<1>6. Min(S) <= Now
    BY <1>4, MinIs
<1>7. QED
    BY <1>1, <1>2, <1>5, <1>6

-----------------------------------------------------------------------------
(* The rows of a name with a transition, and the moments each stands for.  *)

\* The total of the sizes of disjoint sets is the size of their union.
LEMMA TotalOfSizes ==
    ASSUME NEW S, IsFiniteSet(S), NEW M, NEW f,
           \A x \in S : IsFiniteSet(M[x]) /\ f[x] = Cardinality(M[x]),
           \A x, y \in S : x # y => M[x] \cap M[y] = {}
    PROVE  Total(f, S) = Cardinality(UNION {M[x] : x \in S})
<1>. DEFINE g == [s \in SUBSET S |-> Cardinality(UNION {M[x] : x \in s})]
<1>1. g[{}] = 0
    BY FS_EmptySet
<1>2. ASSUME NEW s \in SUBSET S, NEW x \in s PROVE g[s] = f[x] + g[s \ {x}]
  <2>1. PICK A, B : A = M[x] /\ B = UNION {M[y] : y \in s \ {x}}
      OBVIOUS
  <2>2. A \cap B = {} /\ UNION {M[y] : y \in s} = A \cup B
      BY <2>1
  <2>3. IsFiniteSet(A) /\ f[x] = Cardinality(A)
      BY <2>1
  <2>4. IsFiniteSet(B)
    <3>. DEFINE F == {M[y] : y \in s \ {x}}
                h == [y \in s \ {x} |-> M[y]]
    <3>1. IsFiniteSet(s \ {x})
        BY FS_Subset
    <3>2. h \in Surjection(s \ {x}, F)
        BY DEF Surjection
    <3>3. \A T \in F : IsFiniteSet(T)
        OBVIOUS
    <3>. HIDE DEF h, F
    <3>4. IsFiniteSet(UNION F)
        BY <3>1, <3>2, <3>3, FS_Surjection, FS_UNION
    <3>5. QED
        BY <2>1, <3>4 DEF F
  <2>5. Cardinality(A \cup B) = Cardinality(A) + Cardinality(B) - Cardinality(A \cap B)
      BY <2>3, <2>4, FS_Union
  <2>6. Cardinality(A \cap B) = 0 /\ Cardinality(A) \in Nat /\ Cardinality(B) \in Nat
      BY <2>2, <2>3, <2>4, FS_EmptySet, FS_CardinalityType
  <2>7. g[s] = Cardinality(A \cup B) /\ g[s \ {x}] = Cardinality(B)
      BY <2>1, <2>2
  <2>8. QED
      BY <2>3, <2>5, <2>6, <2>7
<1>3. /\ DOMAIN g = SUBSET S /\ g = [s \in SUBSET S |-> g[s]]
      /\ g[S] = Cardinality(UNION {M[x] : x \in S})
    OBVIOUS
<1>. HIDE DEF g
<1>4. AddsUp(g, f, S)
    BY <1>1, <1>2 DEF AddsUp
<1>5. QED
    BY <1>3, <1>4, TotalAddsUp

\* A row is that of its period and its event, and there is one for each pair.
LEMMA RowsArePairs ==
    ASSUME NEW i \in Issue, NEW n \in Name, NEW p, p = issues[i].assignees.history[n]
    PROVE  /\ \A r \in Rows(i, n) : /\ r.nth \in DOMAIN p /\ r.event \in Joined(i, p[r.nth])
                                    /\ r = RowOf(i, p, r.nth, r.event)
           /\ \A j \in DOMAIN p : \A k \in Joined(i, p[j]) : RowOf(i, p, j, k) \in Rows(i, n)
<1>1. ASSUME NEW r \in Rows(i, n)
      PROVE  /\ r.nth \in DOMAIN p /\ r.event \in Joined(i, p[r.nth])
             /\ r = RowOf(i, p, r.nth, r.event)
  <2>1. PICK j \in DOMAIN p : \E k \in Joined(i, p[j]) : r = RowOf(i, p, j, k)
      BY RowsAre
  <2>2. PICK k \in Joined(i, p[j]) : r = RowOf(i, p, j, k)
      BY <2>1
  <2>3. r.nth = j /\ r.event = k
      BY <2>2 DEF RowOf
  <2>4. QED
      BY <2>2, <2>3
<1>2. QED
    BY <1>1, RowsAre

\* The transition of a row lies in its period, which ends before now.
Within(r) ==
    /\ r.event \in DOMAIN events /\ events[r.event].at \in Nat
    /\ r.assigned \in Nat /\ r.end \in Nat /\ r.nth \in Nat /\ r.event \in Nat
    /\ r.assigned <= events[r.event].at /\ events[r.event].at < r.end /\ r.end <= Now
    /\ BeginOf(r) = events[r.event].at

LEMMA RowsWithin ==
    ASSUME TypeInv, DocumentsIn(BoundedDocuments), NEW i \in Issue, NEW n \in Name,
           NEW r \in Rows(i, n), r.event # NoEventRow
    PROVE  Within(r)
<1>1. PICK p : p = issues[i].assignees.history[n]
    OBVIOUS
<1>2. PICK j, k : j = r.nth /\ k = r.event
    OBVIOUS
<1>3. j \in DOMAIN p /\ k \in Joined(i, p[j]) /\ r = RowOf(i, p, j, k)
    BY <1>1, <1>2, RowsArePairs
<1>4. k \in EventsIn(i, p[j])
    BY <1>2, <1>3 DEF Joined
<1>5. r.assigned <= events[k].at /\ events[k].at < r.end
    BY <1>3, <1>4 DEF EventsIn, Transitions, RowOf
<1>6. /\ r.assigned \in Nat /\ r.end \in Nat /\ j \in Nat /\ k \in Nat
      /\ k \in DOMAIN events /\ events[k].at \in Nat
    BY <1>2, ViewRowsTyped
<1>7. r.end <= Now
    BY <1>1, <1>3, EndBounded DEF RowOf
<1>8. BeginOf(r) = events[k].at
    BY <1>2, <1>5, <1>6 DEF BeginOf
<1>9. QED
    BY <1>2, <1>5, <1>6, <1>7, <1>8 DEF Within

Until(R, r) == Min({NextChange(R, r), r.end})

\* The moments whose time a row counts.
Moments(R, r) == BeginOf(r) .. Until(R, r) - 1

\* A row counts from its transition until the first that follows it, within its
\* period.
LEMMA MomentsAre ==
    ASSUME TypeInv, DocumentsIn(BoundedDocuments), NEW i \in Issue, NEW n \in Name,
           NEW R, R = Rows(i, n), NEW r \in R, r.event # NoEventRow
    PROVE  /\ IsFiniteSet(Moments(R, r)) /\ Moments(R, r) \subseteq 0 .. Now - 1
           /\ HoursOf(R, r) = Cardinality(Moments(R, r))
           /\ \A m : m \in Moments(R, r) <=>
                 /\ m \in Nat /\ events[r.event].at <= m /\ m < r.end
                 /\ \A q \in R : Follows(q, r) => m < events[q.event].at
<1>1. Within(r)
    BY RowsWithin
<1>2. PICK a, d, c, u : /\ a = events[r.event].at /\ d = r.end
                        /\ c = NextChange(R, r) /\ u = Until(R, r)
    OBVIOUS
<1>3. a \in Nat /\ d \in Nat /\ a < d /\ d <= Now /\ BeginOf(r) = a /\ Now \in Nat
    BY <1>1, <1>2, GoldAssumption DEF Within
<1>4. c \in Nat /\ u \in {c, d} /\ u <= c /\ u <= d /\ HoursOf(R, r) = u - a
    BY <1>2, <1>3, ChangeTyped DEF Until, HoursOf
<1>5. PICK F : F = {q \in R : Follows(q, r)}
    OBVIOUS
<1>6. \A q \in F : events[q.event].at \in Nat /\ a <= events[q.event].at
  <2>1. ASSUME NEW q \in F PROVE events[q.event].at \in Nat
      BY <1>5, ViewRowsTyped DEF Follows
  <2>2. QED
      BY <1>2, <1>3, <1>5, <2>1 DEF Follows
<1>7. /\ F = {} => c = d
      /\ F # {} => (\E q \in F : c = events[q.event].at) /\ \A q \in F : c <= events[q.event].at
  <2>1. c = IF F = {} THEN d ELSE Min({events[q.event].at : q \in F})
      BY <1>2, <1>5 DEF NextChange
  <2>2. CASE F = {}
      BY <2>1, <2>2
  <2>3. CASE F # {}
    <3>. DEFINE A == {events[q.event].at : q \in F}
    <3>1. A \in SUBSET Nat /\ A # {}
        BY <1>6, <2>3
    <3>. HIDE DEF A
    <3>2. Min(A) \in A /\ \A y \in A : Min(A) <= y
        BY <3>1, MinIs
    <3>3. QED
        BY <2>1, <2>3, <3>2 DEF A
  <2>4. QED
      BY <2>2, <2>3
<1>8. a <= u
    BY <1>3, <1>4, <1>6, <1>7
<1>9. Moments(R, r) = a .. u - 1 /\ u \in Nat
    BY <1>2, <1>3, <1>4 DEF Moments
<1>10. /\ IsFiniteSet(Moments(R, r)) /\ HoursOf(R, r) = Cardinality(Moments(R, r))
       /\ Moments(R, r) \subseteq 0 .. Now - 1
  <2>1. PICK b \in Int : b = u - 1
      BY <1>9
  <2>2. IsFiniteSet(a .. b) /\ Cardinality(a .. b) = IF a > b THEN 0 ELSE b - a + 1
    <3>1. a \in Int /\ b \in Int
        BY <1>3, <2>1
    <3>2. QED
        BY <3>1, FS_Interval
  <2>3. u - a = Cardinality(a .. b)
      BY <1>3, <1>8, <1>9, <2>1, <2>2
  <2>4. a .. b \subseteq 0 .. Now - 1
      BY <1>3, <1>4, <1>9, <2>1
  <2>5. QED
      BY <1>4, <1>9, <2>1, <2>2, <2>3, <2>4
<1>11. ASSUME NEW m
       PROVE  m \in Moments(R, r) <=>
                 /\ m \in Nat /\ a <= m /\ m < d
                 /\ \A q \in R : Follows(q, r) => m < events[q.event].at
  <2>1. m \in Moments(R, r) <=> m \in Nat /\ a <= m /\ m < u
      BY <1>3, <1>9
  <2>2. ASSUME m \in Nat, m < u
        PROVE  m < d /\ \A q \in R : Follows(q, r) => m < events[q.event].at
    <3>1. m < d /\ m < c
        BY <1>3, <1>4, <1>9, <2>2
    <3>2. ASSUME NEW q \in F PROVE m < events[q.event].at
      <4>1. PICK b \in Nat : b = events[q.event].at
          BY <1>6
      <4>2. c <= b
          BY <1>7, <4>1
      <4>3. QED
          BY <1>4, <2>2, <3>1, <4>1, <4>2
    <3>3. QED
        BY <1>5, <3>1, <3>2
  <2>3. ASSUME m \in Nat, m < d, \A q \in R : Follows(q, r) => m < events[q.event].at
        PROVE  m < u
      BY <1>3, <1>4, <1>5, <1>7, <2>3
  <2>4. QED
      BY <2>1, <2>2, <2>3
<1>12. QED
    BY <1>2, <1>10, <1>11

\* No moment is counted by two rows: of two rows one follows the other.
LEMMA MomentsDisjoint ==
    ASSUME TypeInv, DocumentsIn(BoundedDocuments), NEW i \in Issue, NEW n \in Name,
           NEW R, R = Rows(i, n), NEW q \in R, NEW r \in R, q # r,
           q.event # NoEventRow, r.event # NoEventRow
    PROVE  Moments(R, q) \cap Moments(R, r) = {}
<1>1. Within(q) /\ Within(r)
    BY RowsWithin
<1>2. Follows(q, r) \/ Follows(r, q)
  <2>1. PICK p : p = issues[i].assignees.history[n]
      OBVIOUS
  <2>2. q = RowOf(i, p, q.nth, q.event) /\ r = RowOf(i, p, r.nth, r.event)
      BY <2>1, RowsArePairs
  <2>3. q.nth # r.nth \/ q.event # r.event
      BY <2>2
  <2>4. /\ q.nth \in Nat /\ r.nth \in Nat /\ q.event \in Nat /\ r.event \in Nat
        /\ events[q.event].at \in Nat /\ events[r.event].at \in Nat
      BY <1>1 DEF Within
  <2>5. QED
      BY <2>3, <2>4 DEF Follows
<1>3. ASSUME NEW m, m \in Moments(R, q), m \in Moments(R, r) PROVE FALSE
  <2>1. /\ m \in Nat /\ events[q.event].at <= m /\ events[r.event].at <= m
        /\ Follows(q, r) => m < events[q.event].at
        /\ Follows(r, q) => m < events[r.event].at
      BY <1>3, MomentsAre
  <2>2. events[q.event].at \in Nat /\ events[r.event].at \in Nat
      BY <1>1 DEF Within
  <2>3. QED
      BY <1>2, <2>1, <2>2
<1>4. QED
    BY <1>3

-----------------------------------------------------------------------------
(* The state at a moment.                                                  *)

\* k is the transition of B that decides.
Latest(k, B) ==
    /\ k \in B
    /\ \A j \in B : \/ events[j].at < events[k].at
                    \/ events[j].at = events[k].at /\ j <= k

LEMMA LatestExists ==
    ASSUME TypeInv, NEW B \in SUBSET DOMAIN events, B # {}, NEW m \in Nat,
           \A k \in B : events[k].at <= m
    PROVE  \E k \in B : Latest(k, B)
<1>1. /\ \A k \in DOMAIN events : k \in Nat /\ events[k].at \in Nat
      /\ DOMAIN events = 1 .. Len(events) /\ Len(events) \in Nat
    BY EventsTyped
\* The earliest m - at is that of the latest at.
<1>2. PICK t \in B : \A j \in B : events[j].at <= events[t].at
  <2>. DEFINE A == {m - events[k].at : k \in B}
  <2>1. \A k \in B : m - events[k].at \in Nat
      BY <1>1
  <2>2. A \in SUBSET Nat /\ A # {}
      BY <2>1
  <2>. HIDE DEF A
  <2>3. PICK x \in A : \A y \in A : x <= y
      BY <2>2, Smallest
  <2>4. PICK t \in B : x = m - events[t].at
      BY <2>3 DEF A
  <2>5. ASSUME NEW j \in B PROVE events[j].at <= events[t].at
    <3>1. m - events[t].at <= m - events[j].at
        BY <2>3, <2>4 DEF A
    <3>2. QED
        BY <1>1, <3>1
  <2>6. QED
      BY <2>5
<1>3. PICK k \in B : /\ events[k].at = events[t].at
                     /\ \A j \in B : events[j].at = events[t].at => j <= k
  <2>. DEFINE C == {j \in B : events[j].at = events[t].at}
              A == {Len(events) - j : j \in C}
  <2>1. \A j \in C : Len(events) - j \in Nat
      BY <1>1
  <2>2. A \in SUBSET Nat /\ A # {}
      BY <2>1
  <2>. HIDE DEF A
  <2>3. PICK x \in A : \A y \in A : x <= y
      BY <2>2, Smallest
  <2>4. PICK k \in C : x = Len(events) - k
      BY <2>3 DEF A
  <2>5. ASSUME NEW j \in C PROVE j <= k
    <3>1. Len(events) - k <= Len(events) - j
        BY <2>3, <2>4 DEF A
    <3>2. QED
        BY <1>1, <3>1
  <2>6. QED
      BY <2>5
<1>4. Latest(k, B)
  <2>1. ASSUME NEW j \in B
        PROVE  events[j].at < events[k].at \/ (events[j].at = events[k].at /\ j <= k)
    <3>1. events[j].at \in Nat /\ events[t].at \in Nat /\ events[j].at <= events[t].at
        BY <1>1, <1>2
    <3>2. QED
        BY <1>3, <3>1
  <2>2. QED
      BY <2>1 DEF Latest
<1>5. QED
    BY <1>4

\* The state at m is that of the latest transition, if there is any.
LEMMA StateAtIs ==
    ASSUME TypeInv, NEW K \in SUBSET DOMAIN events, NEW m \in Nat,
           NEW B, B = {k \in K : events[k].at <= m}
    PROVE  /\ B = {} => StateAt(K, m) = None
           /\ B # {} => \E k \in B : Latest(k, B)
           /\ \A k : Latest(k, B) => StateAt(K, m) = events[k].state
<1>1. B \in SUBSET DOMAIN events /\ \A k \in B : events[k].at <= m
    OBVIOUS
<1>2. B # {} => \E k \in B : Latest(k, B)
    BY <1>1, LatestExists
<1>3. StateAt(K, m) = IF B = {} THEN None
                        ELSE events[CHOOSE k \in B : \A j \in B :
                                \/ events[j].at < events[k].at
                                \/ events[j].at = events[k].at /\ j <= k].state
    BY DEF StateAt
<1>4. ASSUME NEW k, Latest(k, B) PROVE StateAt(K, m) = events[k].state
  <2>. DEFINE First(x) == \A j \in B : \/ events[j].at < events[x].at
                                       \/ events[j].at = events[x].at /\ j <= x
  <2>1. k \in B /\ First(k)
      BY <1>4 DEF Latest
  <2>2. PICK c : c = CHOOSE x \in B : First(x)
      OBVIOUS
  <2>3. c \in B /\ First(c)
      BY <2>1, <2>2
  <2>4. /\ events[k].at \in Nat /\ events[c].at \in Nat /\ k \in Nat /\ c \in Nat
        /\ events[k].at < events[c].at \/ (events[k].at = events[c].at /\ k <= c)
        /\ events[c].at < events[k].at \/ (events[c].at = events[k].at /\ c <= k)
      BY <1>1, <2>1, <2>3, EventsTyped
  <2>5. c = k
      BY <2>4
  <2>6. QED
      BY <1>3, <2>1, <2>2, <2>5
<1>5. QED
    BY <1>2, <1>3, <1>4

EventsFrom(R, nth) == {q.event : q \in {q \in R : q.nth = nth}} \ {NoEventRow}

\* The transitions of period j.
LEMMA EventsOfPeriod ==
    ASSUME TypeInv, NEW i \in Issue, NEW n \in Name, NEW p, p = issues[i].assignees.history[n],
           NEW j \in DOMAIN p
    PROVE  /\ EventsFrom(Rows(i, n), j) = EventsIn(i, p[j])
           /\ EventsIn(i, p[j]) \subseteq DOMAIN events
<1>0. PICK K : K = {q.event : q \in {q \in Rows(i, n) : q.nth = j}}
    OBVIOUS
<1>1. NoEventRow \notin EventsIn(i, p[j]) /\ EventsIn(i, p[j]) \subseteq DOMAIN events
    BY EventsTyped DEF EventsIn, Transitions
<1>2. ASSUME NEW k \in Joined(i, p[j]) PROVE k \in K
  <2>1. RowOf(i, p, j, k) \in Rows(i, n)
      BY RowsArePairs
  <2>2. RowOf(i, p, j, k).nth = j /\ RowOf(i, p, j, k).event = k
      BY DEF RowOf
  <2>3. QED
      BY <1>0, <2>1, <2>2
<1>3. ASSUME NEW k \in K PROVE k \in Joined(i, p[j])
  <2>1. PICK q \in Rows(i, n) : q.nth = j /\ k = q.event
      BY <1>0
  <2>2. q.event \in Joined(i, p[q.nth])
      BY RowsArePairs
  <2>3. QED
      BY <2>1, <2>2
<1>4. K \ {NoEventRow} = EventsIn(i, p[j])
    BY <1>1, <1>2, <1>3 DEF Joined
<1>5. QED
    BY <1>0, <1>1, <1>4 DEF EventsFrom

\* The name was assigned at m, and the latest transition since was to s.
InStateAt(R, s, m) ==
    \E r \in R : /\ r.assigned <= m /\ m < r.end
                 /\ StateAt(EventsFrom(R, r.nth), m) = s

\* A row that counts a moment is that of the latest transition of its period.
LEMMA CountedIsInState ==
    ASSUME TypeInv, DocumentsIn(BoundedDocuments), NEW i \in Issue, NEW n \in Name,
           NEW R, R = Rows(i, n), NEW s, NEW m, NEW r \in R,
           r.event # NoEventRow, StateOf(r) = s, m \in Moments(R, r)
    PROVE  InStateAt(R, s, m)
<1>1. PICK p, j, K : /\ p = issues[i].assignees.history[n] /\ j = r.nth
                     /\ K = EventsFrom(R, j)
    OBVIOUS
<1>2. Within(r) /\ j \in DOMAIN p
    BY <1>1, RowsWithin, RowsArePairs
<1>3. /\ m \in Nat /\ events[r.event].at <= m /\ m < r.end
      /\ \A q \in R : Follows(q, r) => m < events[q.event].at
    BY MomentsAre
<1>4. K = EventsIn(i, p[j]) /\ EventsIn(i, p[j]) \subseteq DOMAIN events
    BY <1>1, <1>2, EventsOfPeriod
<1>5. PICK B : B = {k \in K : events[k].at <= m}
    OBVIOUS
<1>6. Latest(r.event, B)
  <2>1. r.event \in B
      BY <1>1, <1>3, <1>5 DEF EventsFrom
  <2>2. ASSUME NEW k \in B
        PROVE  \/ events[k].at < events[r.event].at
               \/ events[k].at = events[r.event].at /\ k <= r.event
    <3>1. PICK q \in R : q.nth = j /\ q.event = k
        BY <1>1, <1>5 DEF EventsFrom
    <3>2. k # NoEventRow /\ k \in DOMAIN events /\ k \in Nat /\ events[k].at \in Nat
          /\ events[k].at <= m
        BY <1>4, <1>5, EventsTyped
    <3>3. ~Follows(q, r)
        BY <1>3, <3>1, <3>2
    <3>4. ~(events[r.event].at < events[k].at)
            /\ ~(events[r.event].at = events[k].at /\ r.event < k)
        BY <3>1, <3>2, <3>3 DEF Follows
    <3>5. QED
        BY <1>2, <3>2, <3>4 DEF Within
  <2>3. QED
      BY <2>1, <2>2 DEF Latest
<1>7. StateAt(K, m) = events[r.event].state
    BY <1>3, <1>4, <1>5, <1>6, StateAtIs
<1>8. r.assigned <= m
    BY <1>2, <1>3 DEF Within
<1>9. QED
    BY <1>1, <1>3, <1>7, <1>8 DEF InStateAt, StateOf

\* Of periods one after the other none takes a moment from another: the row of
\* the latest transition counts it.
LEMMA InStateIsCounted ==
    ASSUME TypeInv, DocumentsIn(BoundedDocuments), NEW i \in Issue, NEW n \in Name,
           Chronological(i, n), NEW R, R = Rows(i, n), NEW s, s # None,
           NEW m \in Nat, InStateAt(R, s, m)
    PROVE  \E r \in R : r.event # NoEventRow /\ StateOf(r) = s /\ m \in Moments(R, r)
<1>1. PICK z \in R : /\ z.assigned <= m /\ m < z.end
                     /\ StateAt(EventsFrom(R, z.nth), m) = s
    BY DEF InStateAt
<1>2. PICK p, j, K : /\ p = issues[i].assignees.history[n] /\ j = z.nth
                     /\ K = EventsFrom(R, j)
    OBVIOUS
<1>3. j \in DOMAIN p /\ z.end = EndOf(i, p[j]) /\ z.assigned = p[j].assigned
  <2>1. z.nth \in DOMAIN p /\ z = RowOf(i, p, z.nth, z.event)
      BY <1>2, RowsArePairs
  <2>2. QED
      BY <1>2, <2>1 DEF RowOf
<1>4. K = EventsIn(i, p[j]) /\ EventsIn(i, p[j]) \subseteq DOMAIN events
    BY <1>2, <1>3, EventsOfPeriod
<1>5. PICK B : B = {k \in K : events[k].at <= m}
    OBVIOUS
<1>6. StateAt(K, m) = s
    BY <1>1, <1>2
<1>7. B # {}
    BY <1>4, <1>5, <1>6, StateAtIs
<1>8. PICK k \in B : Latest(k, B)
    BY <1>4, <1>5, <1>7, StateAtIs
<1>9. events[k].state = s
    BY <1>4, <1>5, <1>6, <1>8, StateAtIs
<1>10. /\ k \in EventsIn(i, p[j]) /\ events[k].at <= m /\ k # NoEventRow /\ k \in DOMAIN events
       /\ p[j].assigned <= events[k].at
  <2>1. k \in EventsIn(i, p[j]) /\ k \in DOMAIN events /\ events[k].at <= m
      BY <1>4, <1>5
  <2>2. QED
      BY <2>1, EventsTyped DEF EventsIn
<1>11. PICK r : r = RowOf(i, p, j, k)
    OBVIOUS
<1>12. r \in R /\ r.nth = j /\ r.event = k /\ r.end = z.end /\ r.assigned = z.assigned
  <2>1. k \in Joined(i, p[j])
      BY <1>10 DEF Joined
  <2>2. QED
      BY <1>2, <1>3, <1>11, <2>1, RowsArePairs DEF RowOf
<1>13. ASSUME NEW q \in R, Follows(q, r) PROVE m < events[q.event].at
  <2>1. q.event # NoEventRow /\ Within(q) /\ Within(r)
      BY <1>10, <1>12, <1>13, RowsWithin DEF Follows
  <2>2. PICK h, b, a : h = q.nth /\ b = events[q.event].at /\ a = events[k].at
      OBVIOUS
  <2>3. /\ b \in Nat /\ a \in Nat /\ h \in Nat /\ j \in Nat /\ k \in Nat /\ q.event \in Nat
        /\ q.assigned \in Nat /\ q.end \in Nat /\ r.end \in Nat /\ r.assigned \in Nat
        /\ q.assigned <= b /\ b < q.end /\ r.assigned <= a /\ a < r.end
      BY <1>12, <2>1, <2>2 DEF Within
  <2>4. /\ a <= b
        /\ a = b => k < q.event \/ (k = q.event /\ j < h)
      BY <1>12, <1>13, <2>2, <2>3 DEF Follows
  <2>5. h \in DOMAIN p /\ q.assigned = p[h].assigned /\ q.end = EndOf(i, p[h])
    <3>1. q.nth \in DOMAIN p /\ q = RowOf(i, p, q.nth, q.event)
        BY <1>2, RowsArePairs
    <3>2. QED
        BY <2>2, <3>1 DEF RowOf
  <2>6. /\ h < j => q.end <= z.assigned
        /\ j < h => z.end <= q.assigned
      BY <1>2, <1>3, <2>5 DEF Chronological
  <2>7. CASE h < j
    <3>1. b < q.end /\ q.end <= r.assigned /\ r.assigned <= a /\ a <= b
        BY <1>12, <2>3, <2>4, <2>6, <2>7
    <3>2. QED
        BY <2>3, <3>1
  <2>8. CASE j < h
      BY <1>1, <1>12, <2>2, <2>3, <2>6, <2>8
  <2>9. CASE h = j
    <3>1. SUFFICES ASSUME b <= m PROVE FALSE
        BY <2>2, <2>3
    <3>2. q.event \in B
        BY <1>2, <1>5, <2>1, <2>2, <2>9, <3>1 DEF EventsFrom
    <3>3. b < a \/ (b = a /\ q.event <= k)
        BY <1>8, <2>2, <3>2 DEF Latest
    <3>4. QED
        BY <2>3, <2>4, <2>9, <3>3
  <2>10. QED
      BY <2>3, <2>7, <2>8, <2>9
<1>14. m \in Moments(R, r)
    BY <1>1, <1>10, <1>12, <1>13, MomentsAre
<1>15. QED
    BY <1>9, <1>10, <1>12, <1>14 DEF StateOf

LEMMA HoursAreMoments ==
    ASSUME TypeInv, DocumentsIn(BoundedDocuments), NEW i \in Issue, NEW n \in Name,
           Chronological(i, n), NEW R, R = Rows(i, n), NEW s, s # None
    PROVE  Coalesce(HoursIn(R, {s})) = Cardinality({m \in 0 .. Now - 1 : InStateAt(R, s, m)})
<1>1. PICK S : S = {r \in R : StateOf(r) \in {s}}
    OBVIOUS
<1>2. PICK f, M : f = [r \in R |-> HoursOf(R, r)] /\ M = [r \in R |-> Moments(R, r)]
    OBVIOUS
<1>3. Coalesce(HoursIn(R, {s})) = Total(f, S)
    BY <1>1, <1>2, HoursInIs
<1>4. IsFiniteSet(S)
    BY <1>1, ViewRowsTyped, FS_Subset
<1>5. \A r \in S : r \in R /\ r.event # NoEventRow /\ StateOf(r) = s
    BY <1>1 DEF StateOf
<1>6. ASSUME NEW r \in S
      PROVE  IsFiniteSet(M[r]) /\ f[r] = Cardinality(M[r]) /\ M[r] = Moments(R, r)
    BY <1>2, <1>5, MomentsAre
<1>7. ASSUME NEW q \in S, NEW r \in S, q # r PROVE M[q] \cap M[r] = {}
  <2>1. M[q] = Moments(R, q) /\ M[r] = Moments(R, r)
      BY <1>6
  <2>2. QED
      BY <1>5, <1>7, <2>1, MomentsDisjoint
<1>8. Total(f, S) = Cardinality(UNION {M[r] : r \in S})
    BY <1>4, <1>6, <1>7, TotalOfSizes
<1>9. UNION {M[r] : r \in S} = {m \in 0 .. Now - 1 : InStateAt(R, s, m)}
  <2>1. ASSUME NEW r \in S, NEW m \in M[r] PROVE m \in 0 .. Now - 1 /\ InStateAt(R, s, m)
    <3>1. m \in Moments(R, r)
        BY <1>6
    <3>2. QED
        BY <1>5, <3>1, MomentsAre, CountedIsInState
  <2>2. ASSUME NEW m \in 0 .. Now - 1, InStateAt(R, s, m) PROVE \E r \in S : m \in M[r]
    <3>1. PICK r \in R : r.event # NoEventRow /\ StateOf(r) = s /\ m \in Moments(R, r)
        BY <2>2, InStateIsCounted, GoldAssumption
    <3>2. r \in S
        BY <1>1, <3>1
    <3>3. QED
        BY <1>6, <3>1, <3>2
  <2>3. QED
      BY <2>1, <2>2
<1>10. QED
    BY <1>3, <1>8, <1>9

\* From a transition within a period on, the latest one of the period is the
\* latest one of the issue.
LEMMA SameState ==
    ASSUME TypeInv, NEW i \in Issue, NEW period \in Period, NEW m \in Nat,
           m < EndOf(i, period), NEW k \in EventsIn(i, period), events[k].at <= m
    PROVE  StateAt(EventsIn(i, period), m) = StateAt(Transitions(i), m)
<1>1. PICK E, T, end : E = EventsIn(i, period) /\ T = Transitions(i) /\ end = EndOf(i, period)
    OBVIOUS
<1>2. /\ E = {j \in T : period.assigned <= events[j].at /\ events[j].at < end}
      /\ E \in SUBSET DOMAIN events /\ T \in SUBSET DOMAIN events
    BY <1>1 DEF EventsIn, Transitions
<1>3. PICK B, C : B = {j \in E : events[j].at <= m} /\ C = {j \in T : events[j].at <= m}
    OBVIOUS
<1>4. B # {}
    BY <1>1, <1>3
<1>5. PICK l \in B : Latest(l, B)
    BY <1>2, <1>3, <1>4, StateAtIs
<1>6. Latest(l, C)
  <2>1. l \in C /\ period.assigned <= events[l].at
      BY <1>2, <1>3, <1>5
  <2>2. ASSUME NEW j \in C
        PROVE  events[j].at < events[l].at \/ (events[j].at = events[l].at /\ j <= l)
    <3>1. CASE j \in B
        BY <1>5, <3>1 DEF Latest
    <3>2. CASE j \notin B
      <4>1. j \in T /\ events[j].at <= m /\ j \notin E
          BY <1>3, <3>2
      <4>2. /\ events[j].at \in Nat /\ events[l].at \in Nat
            /\ period.assigned \in Nat /\ end \in Nat
          BY <1>1, <1>2, <1>3, <4>1, EventsTyped, EndTyped DEF Period
      <4>3. events[j].at < period.assigned
          BY <1>1, <1>2, <4>1, <4>2
      <4>4. QED
          BY <2>1, <4>2, <4>3
    <3>3. QED
        BY <3>1, <3>2
  <2>3. QED
      BY <2>1, <2>2 DEF Latest
<1>7. StateAt(E, m) = events[l].state /\ StateAt(T, m) = events[l].state
    BY <1>2, <1>3, <1>5, <1>6, StateAtIs
<1>8. QED
    BY <1>1, <1>7

LEMMA CountedAre ==
    ASSUME TypeInv, DocumentsIn(BoundedDocuments), NEW i \in Issue, NEW n \in Name,
           NEW p, p = issues[i].assignees.history[n], NEW m
    PROVE  /\ m \in Counted(i, n) <=>
                 \E j \in DOMAIN p : \E k \in EventsIn(i, p[j]) :
                    m \in Nat /\ events[k].at <= m /\ m < EndOf(i, p[j])
           /\ m \in Counted(i, n) => m \in 0 .. Now - 1
<1>1. m \in Counted(i, n) <=>
         \E j \in DOMAIN p : \E k \in EventsIn(i, p[j]) : m \in events[k].at .. EndOf(i, p[j]) - 1
    BY DEF Counted
<1>2. ASSUME NEW j \in DOMAIN p, NEW k \in EventsIn(i, p[j])
      PROVE  /\ m \in events[k].at .. EndOf(i, p[j]) - 1 <=>
                   m \in Nat /\ events[k].at <= m /\ m < EndOf(i, p[j])
             /\ m \in Nat /\ m < EndOf(i, p[j]) => m \in 0 .. Now - 1
  <2>1. PICK a, end : a = events[k].at /\ end = EndOf(i, p[j])
      OBVIOUS
  <2>2. k \in DOMAIN events /\ p \in Seq(Period)
      BY PeriodsTyped DEF EventsIn, Transitions
  <2>3. a \in Nat
      BY <2>1, <2>2, EventsTyped
  <2>4. p[j] \in Period
      BY <2>2
  <2>5. end \in Nat /\ end <= Now /\ Now \in Nat
      BY <2>1, <2>4, EndTyped, EndBounded, GoldAssumption
  <2>6. /\ m \in a .. end - 1 <=> m \in Nat /\ a <= m /\ m < end
        /\ m \in Nat /\ m < end => m \in 0 .. Now - 1
      BY <2>3, <2>5
  <2>7. QED
      BY <2>1, <2>6
<1>3. QED
    BY <1>1, <1>2

\* At the moments that count, the state since the assignment is that of the issue.
LEMMA InStateIsState ==
    ASSUME TypeInv, DocumentsIn(BoundedDocuments), NEW i \in Issue, NEW n \in Name,
           NEW R, R = Rows(i, n), NEW s, s # None, NEW m \in Nat
    PROVE  InStateAt(R, s, m) <=> m \in Counted(i, n) /\ StateAt(Transitions(i), m) = s
<1>1. PICK p : p = issues[i].assignees.history[n]
    OBVIOUS
<1>2. ASSUME NEW j \in DOMAIN p
      PROVE  /\ p[j] \in Period /\ EventsFrom(R, j) = EventsIn(i, p[j])
             /\ EventsIn(i, p[j]) \in SUBSET DOMAIN events
  <2>1. p \in Seq(Period)
      BY <1>1, PeriodsTyped
  <2>2. QED
      BY <1>1, <2>1, EventsOfPeriod
<1>3. ASSUME InStateAt(R, s, m) PROVE m \in Counted(i, n) /\ StateAt(Transitions(i), m) = s
  <2>1. PICK r \in R : r.assigned <= m /\ m < r.end /\ StateAt(EventsFrom(R, r.nth), m) = s
      BY <1>3 DEF InStateAt
  <2>2. PICK j : j = r.nth
      OBVIOUS
  <2>3. j \in DOMAIN p /\ r = RowOf(i, p, j, r.event)
      BY <1>1, <2>2, RowsArePairs
  <2>4. m < EndOf(i, p[j])
      BY <2>1, <2>3 DEF RowOf
  <2>5. PICK E : E = EventsIn(i, p[j])
      OBVIOUS
  <2>6. StateAt(E, m) = s /\ E \in SUBSET DOMAIN events
      BY <1>2, <2>1, <2>2, <2>3, <2>5
  <2>7. PICK B : B = {k \in E : events[k].at <= m}
      OBVIOUS
  <2>8. B # {}
      BY <2>6, <2>7, StateAtIs
  <2>9. PICK k \in E : events[k].at <= m
      BY <2>7, <2>8
  <2>10. StateAt(E, m) = StateAt(Transitions(i), m)
      BY <1>2, <2>3, <2>4, <2>5, <2>9, SameState
  <2>11. m \in Counted(i, n)
      BY <1>1, <2>3, <2>4, <2>5, <2>9, CountedAre
  <2>12. QED
      BY <2>6, <2>10, <2>11
<1>4. ASSUME m \in Counted(i, n), StateAt(Transitions(i), m) = s PROVE InStateAt(R, s, m)
  <2>1. PICK j \in DOMAIN p :
           \E k \in EventsIn(i, p[j]) : events[k].at <= m /\ m < EndOf(i, p[j])
      BY <1>1, <1>4, CountedAre
  <2>2. PICK k \in EventsIn(i, p[j]) : events[k].at <= m /\ m < EndOf(i, p[j])
      BY <2>1
  <2>3. StateAt(EventsIn(i, p[j]), m) = s
      BY <1>2, <1>4, <2>2, SameState
  <2>4. PICK r : r = RowOf(i, p, j, k)
      OBVIOUS
  <2>5. r \in R
    <3>1. k \in Joined(i, p[j])
        BY <2>2 DEF Joined
    <3>2. QED
        BY <1>1, <2>4, <3>1, RowsArePairs
  <2>6. r.nth = j /\ r.assigned = p[j].assigned /\ r.end = EndOf(i, p[j])
      BY <2>4 DEF RowOf
  <2>7. r.assigned <= m
    <3>1. k \in DOMAIN events /\ p[j].assigned <= events[k].at
        BY <2>2 DEF EventsIn, Transitions
    <3>2. events[k].at \in Nat /\ p[j].assigned \in Nat
        BY <1>2, <3>1, EventsTyped DEF Period
    <3>3. QED
        BY <2>2, <2>6, <3>1, <3>2
  <2>8. QED
      BY <1>2, <2>2, <2>3, <2>5, <2>6, <2>7 DEF InStateAt
<1>5. QED
    BY <1>3, <1>4

LEMMA CycleTimeInType ==
    ASSUME TypeInv, DocumentsIn(BoundedDocuments)
    PROVE  CycleTimeIsTimeInState
<1>1. ASSUME NEW i \in Issue, NEW n \in Name, Chronological(i, n), NEW s \in CanonicalState
      PROVE  Coalesce(HoursIn(Rows(i, n), {s}))
               = Cardinality({m \in Counted(i, n) : StateAt(Transitions(i), m) = s})
  <2>1. PICK R, C, T : R = Rows(i, n) /\ C = Counted(i, n) /\ T = Transitions(i)
      OBVIOUS
  <2>2. s # None
      BY DEF CanonicalState, None
  <2>3. Coalesce(HoursIn(R, {s})) = Cardinality({m \in 0 .. Now - 1 : InStateAt(R, s, m)})
      BY <1>1, <2>1, <2>2, HoursAreMoments
  <2>4. \A m \in Nat : InStateAt(R, s, m) <=> m \in C /\ StateAt(T, m) = s
      BY <2>1, <2>2, InStateIsState
  <2>5. \A m : m \in C => m \in 0 .. Now - 1
      BY <2>1, CountedAre
  <2>6. Now \in Nat
      BY GoldAssumption
  <2>7. {m \in 0 .. Now - 1 : InStateAt(R, s, m)} = {m \in C : StateAt(T, m) = s}
      BY <2>4, <2>5, <2>6
  <2>8. QED
      BY <2>1, <2>3, <2>7
<1>2. QED
    BY <1>1 DEF CycleTimeIsTimeInState

\* The hours of a state are the time that the issue spent in it while the name was
\* assigned, from the first transition within each period on (000017 up.sql:44-67),
\* for any issues, notes and transitions, as long as the periods of the name follow
\* each other: nothing is counted twice or outside a period.
THEOREM HoursAreTimeInState == Spec => []CycleTimeIsTimeInState
<1>1. /\ Init => DocumentsIn(BoundedDocuments)
      /\ TypeInv /\ DocumentsIn(BoundedDocuments) /\ [Next]_vars => DocumentsIn(BoundedDocuments)'
    BY BoundedClosed, DocumentsKept
<1>2. TypeInv /\ DocumentsIn(BoundedDocuments) => CycleTimeIsTimeInState
    BY CycleTimeInType
<1>3. QED
    BY <1>1, <1>2, TypeInvariant, PTL DEF Spec

-----------------------------------------------------------------------------
(* When the periods of a name follow each other.                           *)

LEMMA InOrderIsChronological ==
    ASSUME TypeInv, TimesInv, NEW i \in Issue, NEW n \in Name, AssignedInOrder(i)
    PROVE  Chronological(i, n)
<1>1. PICK p : p = Periods(i, n)
    OBVIOUS
<1>2. p \in Seq(Period) /\ InOrder(p) /\ TimesIn(p, Noted(i))
    BY <1>1 DEF TimesInv, TypeInv, TypeOK, IssueRow, AssigneeHistory, Periods
<1>3. ASSUME NEW x \in Noted(i) PROVE x < Now
  <2>1. PICK c \in Covered : x = raw[c].at
      BY DEF Noted
  <2>2. c \in DOMAIN raw
      BY DEF Covered, TypeInv, TypeOK
  <2>3. raw[c] \in Event
      BY <2>2 DEF TypeInv, TypeOK
  <2>4. QED
      BY <2>1, <2>3, GoldAssumption
<1>4. ASSUME NEW j \in DOMAIN p PROVE p[j].assigned <= EndOf(i, p[j])
  <2>1. PICK period : period = p[j]
      OBVIOUS
  <2>2. period \in Period /\ period.assigned < Now
      BY <1>2, <1>3, <2>1 DEF TimesIn
  <2>3. CASE period.unassigned # StillAssigned
      BY <1>2, <2>1, <2>3 DEF InOrder, EndOf
  <2>4. CASE period.unassigned = StillAssigned
    <3>. DEFINE S == {Now} \cup
               {events[k].at : k \in {k \in DOMAIN events :
                   /\ events[k].issue = i /\ events[k].state = "DONE"
                   /\ period.assigned < events[k].at}}
    <3>1. S \in SUBSET Nat /\ S # {}
        BY EventsTyped, GoldAssumption
    <3>2. period.assigned \in Nat /\ \A y \in S : period.assigned <= y
        BY <2>2, EventsTyped, GoldAssumption DEF Period
    <3>3. EndOf(i, period) = Min(S)
        BY <2>4 DEF EndOf
    <3>. HIDE DEF S
    <3>4. QED
        BY <2>1, <3>1, <3>2, <3>3, MinIs
  <2>5. QED
      BY <2>3, <2>4
<1>5. ASSUME NEW j \in DOMAIN p, NEW k \in DOMAIN p, j < k
      PROVE  EndOf(i, p[j]) <= p[k].assigned
    BY <1>2, <1>5 DEF InOrder, EndOf
<1>6. QED
    BY <1>1, <1>4, <1>5 DEF Chronological, Periods

\* The condition under which hours are measured is what the transformer gives
\* (assignees.go:103-179, 000017 up.sql:14-67): with one run active at a time, as
\* long as nothing fails and no run is killed, the periods of each name of an issue
\* whose assignments came once and in order follow each other, however its
\* transitions come in between.
THEOREM NotesInOrderCanBeMeasured ==
    ASSUME OneRun
    PROVE  Spec /\ []NothingFails =>
             [](crashes = 0 =>
                  \A i \in Issue, n \in Name : AssignedInOrder(i) => Chronological(i, n))
<1>1. TypeInv /\ (crashes = 0 => TimesInv) =>
        (crashes = 0 => \A i \in Issue, n \in Name : AssignedInOrder(i) => Chronological(i, n))
    BY InOrderIsChronological
<1>2. QED
    BY <1>1, TimesInvariant, PTL
=============================================================================
