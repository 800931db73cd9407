------------------------------- MODULE Totals -------------------------------
(***************************************************************************)
(* Facts about the total of a function over a finite set, as the library's *)
(* MapThenSumSet computes it: taken apart at any member, of equal          *)
(* functions, of a sum of functions, and its order.  The library's         *)
(* induction theorems take a predicate; FiniteInduction states the same    *)
(* with the set of the sets that satisfy it.                               *)
(***************************************************************************)
EXTENDS Integers, FiniteSetsExt, FiniteSetTheorems, WellFoundedInduction, TLAPS

(* Finite induction: a family that has every subset of S whose proper      *)
(* subsets it has, has every subset of S.                                  *)
LEMMA FiniteInduction ==
    ASSUME NEW S, IsFiniteSet(S), NEW G,
           \A s \in SUBSET S : (\A u \in SUBSET s : u # s => u \in G) => s \in G
    PROVE  \A s \in SUBSET S : s \in G
  <1> DEFINE Bad == (SUBSET S) \ G
  <1> SUFFICES ASSUME Bad # {} PROVE FALSE
    OBVIOUS
  <1>1. \A T \in Bad : T \in FiniteSubsetsOf(S)
    BY FS_Subset DEF FiniteSubsetsOf
  <1>2. \E T \in Bad : \A U \in Bad : <<U, T>> \notin StrictSubsetOrdering(S)
    <2> HIDE DEF Bad
    <2> QED
      BY <1>1, FS_StrictSubsetOrderingWellFounded, WFMin
  <1>3. PICK T \in Bad : \A U \in Bad : U \subseteq T => U = T
    <2>1. Bad \subseteq SUBSET S
      OBVIOUS
    <2> HIDE DEF Bad
    <2> QED
      BY <1>2, <2>1 DEF StrictSubsetOrdering
  <1>4. \A u \in SUBSET T : u # T => u \in G
    BY <1>3
  <1> QED
    BY <1>3, <1>4

(* The member a total takes first, and the function from the subsets of S  *)
(* to their totals.                                                        *)
Pick(s) == CHOOSE x \in s : TRUE
Sums(f, S, g) == g = [s \in SUBSET S |-> IF s = {} THEN 0 ELSE f[Pick(s)] + g[s \ {Pick(s)}]]
Part(f, S, s) == (CHOOSE g : Sums(f, S, g))[s]

(* The member taken first is a member.                                     *)
LEMMA PickIn == \A s : s # {} => Pick(s) \in s
  BY DEF Pick

(* Two such functions agree where both are defined.                        *)
LEMMA SumsUnique ==
    ASSUME NEW f, NEW A, NEW B, IsFiniteSet(A), NEW g, NEW h, Sums(f, A, g), Sums(f, B, h)
    PROVE  \A s \in SUBSET A : s \in SUBSET B => g[s] = h[s]
  <1> DEFINE G == {s \in SUBSET A : s \in SUBSET B => g[s] = h[s]}
  <1>1. ASSUME NEW s \in SUBSET A, \A u \in SUBSET s : u # s => u \in G
        PROVE  s \in G
    <2> SUFFICES ASSUME s \in SUBSET B PROVE g[s] = h[s]
      OBVIOUS
    <2>1. CASE s = {}
      BY <2>1 DEF Sums
    <2>2. CASE s # {}
      <3>1. Pick(s) \in s
        BY <2>2, PickIn
      <3>2. g[s \ {Pick(s)}] = h[s \ {Pick(s)}]
        BY <1>1, <3>1
      <3>3. g[s] = f[Pick(s)] + g[s \ {Pick(s)}] /\ h[s] = f[Pick(s)] + h[s \ {Pick(s)}]
        BY <2>2 DEF Sums
      <3> QED
        BY <3>2, <3>3
    <2> QED
      BY <2>1, <2>2
  <1>2. \A s \in SUBSET A : s \in G
    <2> HIDE DEF G
    <2> QED
      BY <1>1, FiniteInduction
  <1> QED
    BY <1>2

(* There is one on the subsets of a finite set.                            *)
LEMMA SumsExist ==
    ASSUME NEW f, NEW A, IsFiniteSet(A)
    PROVE  \E g : Sums(f, A, g)
  <1> DEFINE Of(s) == CHOOSE g : Sums(f, s, g)
             G == {s \in SUBSET A : \E g : Sums(f, s, g)}
  <1>1. ASSUME NEW T \in SUBSET A, \A u \in SUBSET T : u # T => u \in G
        PROVE  T \in G
    <2> DEFINE val(s) == IF s = {} THEN 0 ELSE f[Pick(s)] + Of(s \ {Pick(s)})[s \ {Pick(s)}]
               g == [s \in SUBSET T |-> val(s)]
    <2>1. \A s \in SUBSET T : s # T => Sums(f, s, Of(s)) /\ IsFiniteSet(s)
      BY <1>1, FS_Subset
    <2>2. \A s \in SUBSET T : s # T => Of(s)[s] = val(s)
      <3>1. TAKE s \in SUBSET T
      <3>2. HAVE s # T
      <3>3. Sums(f, s, Of(s)) /\ IsFiniteSet(s)
        BY <2>1, <3>2
      <3>4. CASE s = {}
        BY <3>3, <3>4 DEF Sums
      <3>5. CASE s # {}
        <4> DEFINE r == s \ {Pick(s)}
        <4>1. r \in SUBSET T /\ r # T /\ r \in SUBSET s
          BY <3>5, PickIn
        <4>2. Sums(f, r, Of(r)) /\ IsFiniteSet(r)
          BY <2>1, <4>1
        <4> HIDE DEF Of
        <4>3. Of(s)[s] = f[Pick(s)] + Of(s)[r]
          BY <3>3, <3>5 DEF Sums
        <4> HIDE DEF r
        <4>4. Of(s)[r] = Of(r)[r]
          BY <3>3, <4>1, <4>2, SumsUnique
        <4> USE DEF r
        <4> QED
          BY <3>5, <4>3, <4>4
      <3> QED
        BY <3>4, <3>5
    <2>3. \A s \in SUBSET T : s # {} => g[s \ {Pick(s)}] = Of(s \ {Pick(s)})[s \ {Pick(s)}]
      <3>1. TAKE s \in SUBSET T
      <3>2. HAVE s # {}
      <3>3. s \ {Pick(s)} \in SUBSET T /\ s \ {Pick(s)} # T
        BY <3>2, PickIn
      <3> HIDE DEF Of, val
      <3> QED
        BY <2>2, <3>3
    <2>4. Sums(f, T, g)
      <3>1. g = [s \in SUBSET T |-> val(s)]
        OBVIOUS
      <3> HIDE DEF g, Of
      <3>2. \A s \in SUBSET T : val(s) = IF s = {} THEN 0 ELSE f[Pick(s)] + g[s \ {Pick(s)}]
        BY <2>3
      <3> HIDE DEF val
      <3>3. [s \in SUBSET T |-> val(s)] = [s \in SUBSET T |-> IF s = {} THEN 0 ELSE f[Pick(s)] + g[s \ {Pick(s)}]]
        BY <3>2
      <3> QED
        BY <3>1, <3>3, Zenon DEF Sums
    <2> HIDE DEF g
    <2> QED
      BY <2>4
  <1>2. \A s \in SUBSET A : s \in G
    <2> HIDE DEF G
    <2> QED
      BY <1>1, FiniteInduction
  <1> QED
    BY <1>2

(* What a total is, member by member.                                      *)
LEMMA PartDef ==
    ASSUME NEW f, NEW S, IsFiniteSet(S)
    PROVE  /\ Part(f, S, {}) = 0
           /\ \A s \in SUBSET S : s # {} => Part(f, S, s) = f[Pick(s)] + Part(f, S, s \ {Pick(s)})
  <1> DEFINE g == CHOOSE h : Sums(f, S, h)
  <1>1. Sums(f, S, g)
    BY SumsExist
  <1> HIDE DEF g
  <1>2. g[{}] = 0 /\ \A s \in SUBSET S : s # {} => g[s] = f[Pick(s)] + g[s \ {Pick(s)}]
    BY <1>1 DEF Sums
  <1> USE DEF g
  <1> QED
    BY <1>2 DEF Part

(* A total of integers is an integer.                                      *)
LEMMA PartInt ==
    ASSUME NEW S, IsFiniteSet(S), NEW f \in [S -> Int]
    PROVE  \A s \in SUBSET S : Part(f, S, s) \in Int
  <1> DEFINE G == {s \in SUBSET S : Part(f, S, s) \in Int}
  <1>1. ASSUME NEW s \in SUBSET S, \A u \in SUBSET s : u # s => u \in G
        PROVE  s \in G
    <2>1. CASE s = {}
      <3>1. Part(f, S, {}) = 0
        BY PartDef
      <3> QED
        BY <2>1, <3>1
    <2>2. CASE s # {}
      <3>1. Pick(s) \in s /\ Part(f, S, s) = f[Pick(s)] + Part(f, S, s \ {Pick(s)})
        BY <2>2, PickIn, PartDef
      <3>2. Part(f, S, s \ {Pick(s)}) \in Int
        BY <1>1, <3>1
      <3> QED
        BY <3>1, <3>2
    <2> QED
      BY <2>1, <2>2
  <1>2. \A s \in SUBSET S : s \in G
    <2> HIDE DEF G
    <2> QED
      BY <1>1, FiniteInduction
  <1> QED
    BY <1>2

(* Any member may be taken first.                                          *)
LEMMA PartSplit ==
    ASSUME NEW S, IsFiniteSet(S), NEW f \in [S -> Int]
    PROVE  \A s \in SUBSET S : \A x \in s : Part(f, S, s) = f[x] + Part(f, S, s \ {x})
  <1> DEFINE G == {s \in SUBSET S : \A x \in s : Part(f, S, s) = f[x] + Part(f, S, s \ {x})}
  <1>1. ASSUME NEW s \in SUBSET S, \A u \in SUBSET s : u # s => u \in G
        PROVE  s \in G
    <2> SUFFICES ASSUME NEW x \in s PROVE Part(f, S, s) = f[x] + Part(f, S, s \ {x})
      OBVIOUS
    <2>1. PICK y \in s : Part(f, S, s) = f[y] + Part(f, S, s \ {y})
      <3>1. Pick(s) \in s /\ Part(f, S, s) = f[Pick(s)] + Part(f, S, s \ {Pick(s)})
        BY PickIn, PartDef
      <3> QED
        BY <3>1
    <2>2. CASE x # y
      <3>1. s \ {x} \in G /\ s \ {y} \in G
        BY <1>1
      <3>2. Part(f, S, s \ {x}) = f[y] + Part(f, S, (s \ {x}) \ {y})
        BY <2>2, <3>1
      <3>3. Part(f, S, s \ {y}) = f[x] + Part(f, S, (s \ {y}) \ {x})
        BY <2>2, <3>1
      <3>4. (s \ {y}) \ {x} = (s \ {x}) \ {y}
        OBVIOUS
      <3> DEFINE rest == Part(f, S, (s \ {x}) \ {y})
      <3>5. rest \in Int /\ f[x] \in Int /\ f[y] \in Int
        BY PartInt
      <3>6. /\ Part(f, S, s \ {x}) = f[y] + rest
            /\ Part(f, S, s) = f[y] + (f[x] + rest)
        BY <2>1, <3>2, <3>3, <3>4
      <3> HIDE DEF rest, G
      <3> QED
        BY <3>5, <3>6
    <2> QED
      BY <2>1, <2>2
  <1>2. \A s \in SUBSET S : s \in G
    <2> HIDE DEF G
    <2> QED
      BY <1>1, FiniteInduction
  <1> QED
    BY <1>2

(* The total of a sum of functions.                                        *)
LEMMA PartAdd ==
    ASSUME NEW S, IsFiniteSet(S), NEW f \in [S -> Int], NEW g \in [S -> Int], NEW h \in [S -> Int],
           \A x \in S : h[x] = f[x] + g[x]
    PROVE  \A s \in SUBSET S : Part(h, S, s) = Part(f, S, s) + Part(g, S, s)
  <1> DEFINE G == {s \in SUBSET S : Part(h, S, s) = Part(f, S, s) + Part(g, S, s)}
  <1>1. ASSUME NEW s \in SUBSET S, \A u \in SUBSET s : u # s => u \in G
        PROVE  s \in G
    <2>1. CASE s = {}
      <3>1. Part(f, S, {}) = 0 /\ Part(g, S, {}) = 0 /\ Part(h, S, {}) = 0
        BY PartDef
      <3> QED
        BY <2>1, <3>1
    <2>2. CASE s # {}
      <3>1. PICK x \in s : TRUE
        BY <2>2
      <3>2. s \ {x} \in G
        BY <1>1, <3>1
      <3> DEFINE r == s \ {x}
      <3>3. /\ Part(f, S, s) = f[x] + Part(f, S, r)
            /\ Part(g, S, s) = g[x] + Part(g, S, r)
            /\ Part(h, S, s) = h[x] + Part(h, S, r)
        BY <3>1, PartSplit
      <3>4. Part(f, S, r) \in Int /\ Part(g, S, r) \in Int /\ f[x] \in Int /\ g[x] \in Int /\ h[x] = f[x] + g[x]
        BY <3>1, PartInt
      <3>5. Part(h, S, r) = Part(f, S, r) + Part(g, S, r)
        BY <3>2
      <3>6. Part(h, S, s) = Part(f, S, s) + Part(g, S, s)
        <4> HIDE DEF r, G
        <4> QED
          BY <3>3, <3>4, <3>5
      <3> QED
        BY <3>6
    <2> QED
      BY <2>1, <2>2
  <1>2. \A s \in SUBSET S : s \in G
    <2> HIDE DEF G
    <2> QED
      BY <1>1, FiniteInduction
  <1> QED
    BY <1>2

(* A total of naturals is a natural, and a total of zeros is zero.         *)
LEMMA PartSign ==
    ASSUME NEW S, IsFiniteSet(S), NEW f \in [S -> Int]
    PROVE  \A s \in SUBSET S : /\ (\A x \in s : f[x] >= 0) => Part(f, S, s) >= 0
                               /\ (\A x \in s : f[x] = 0) => Part(f, S, s) = 0
  <1> DEFINE P(s) == /\ (\A x \in s : f[x] >= 0) => Part(f, S, s) >= 0
                     /\ (\A x \in s : f[x] = 0) => Part(f, S, s) = 0
             G == {s \in SUBSET S : P(s)}
  <1>1. ASSUME NEW s \in SUBSET S, \A u \in SUBSET s : u # s => u \in G
        PROVE  s \in G
    <2>1. CASE s = {}
      <3>1. Part(f, S, {}) = 0
        BY PartDef
      <3> QED
        BY <2>1, <3>1
    <2>2. CASE s # {}
      <3>1. PICK x \in s : TRUE
        BY <2>2
      <3> DEFINE r == s \ {x}
      <3>2. P(r)
        BY <1>1, <3>1
      <3>3. Part(f, S, s) = f[x] + Part(f, S, r) /\ Part(f, S, r) \in Int /\ f[x] \in Int
        BY <3>1, PartSplit, PartInt
      <3>4. P(s)
        BY <3>1, <3>2, <3>3
      <3> QED
        BY <3>4
    <2> QED
      BY <2>1, <2>2
  <1>2. \A s \in SUBSET S : s \in G
    <2> HIDE DEF G
    <2> QED
      BY <1>1, FiniteInduction
  <1> QED
    BY <1>2

-----------------------------------------------------------------------------
(* The same of the whole set.                                              *)

Total(f, S) == MapThenSumSet(LAMBDA x : f[x], S)

(* The library's total is the one of the whole set.                        *)
LEMMA TotalIsPart == \A f, S : Total(f, S) = Part(f, S, S)
  BY DEF Total, Part, MapThenSumSet, MapThenFoldSet, Sums, Pick

(* A total of integers is an integer.                                      *)
LEMMA TotalInt ==
    ASSUME NEW S, IsFiniteSet(S), NEW f \in [S -> Int]
    PROVE  Total(f, S) \in Int
  BY TotalIsPart, PartInt

(* The total of a sum of functions is the sum of their totals.             *)
LEMMA TotalAdd ==
    ASSUME NEW S, IsFiniteSet(S), NEW f \in [S -> Int], NEW g \in [S -> Int], NEW h \in [S -> Int],
           \A x \in S : h[x] = f[x] + g[x]
    PROVE  Total(h, S) = Total(f, S) + Total(g, S)
  BY TotalIsPart, PartAdd

(* A total of naturals is a natural.                                       *)
LEMMA TotalNat ==
    ASSUME NEW S, IsFiniteSet(S), NEW f \in [S -> Int], \A x \in S : f[x] >= 0
    PROVE  Total(f, S) >= 0
  BY TotalIsPart, PartSign

(* A total of zeros is zero.                                               *)
LEMMA TotalZero ==
    ASSUME NEW S, IsFiniteSet(S), NEW f \in [S -> Int], \A x \in S : f[x] = 0
    PROVE  Total(f, S) = 0
  BY TotalIsPart, PartSign

(* One value grows, and the total grows with it.                           *)
LEMMA TotalStep ==
    ASSUME NEW S, IsFiniteSet(S), NEW f \in [S -> Int], NEW h \in [S -> Int], NEW x \in S, NEW d \in Int,
           h[x] = f[x] + d, \A y \in S : y # x => h[y] = f[y]
    PROVE  Total(h, S) = Total(f, S) + d
  <1> DEFINE g == [y \in S |-> IF y = x THEN d ELSE 0]
  <1>1. g \in [S -> Int] /\ g[x] = d /\ \A y \in S : h[y] = f[y] + g[y]
    OBVIOUS
  <1>2. \A y \in S \ {x} : g[y] = 0
    OBVIOUS
  <1> HIDE DEF g
  <1>3. Total(h, S) = Total(f, S) + Total(g, S)
    BY <1>1, TotalAdd
  <1>4. Part(g, S, S \ {x}) = 0
    BY <1>1, <1>2, PartSign
  <1>5. Part(g, S, S) = g[x] + Part(g, S, S \ {x})
    BY <1>1, PartSplit
  <1>6. Total(g, S) = d
    BY <1>1, <1>4, <1>5, TotalIsPart
  <1> QED
    BY <1>3, <1>6

(* Totals of functions in order are in order.                              *)
LEMMA TotalLeq ==
    ASSUME NEW S, IsFiniteSet(S), NEW f \in [S -> Int], NEW h \in [S -> Int], \A x \in S : f[x] <= h[x]
    PROVE  Total(f, S) <= Total(h, S)
  <1> DEFINE g == [x \in S |-> h[x] - f[x]]
  <1>1. g \in [S -> Int] /\ \A x \in S : g[x] >= 0 /\ h[x] = f[x] + g[x]
    OBVIOUS
  <1> HIDE DEF g
  <1>2. Total(h, S) = Total(f, S) + Total(g, S) /\ Total(g, S) >= 0
    BY <1>1, TotalAdd, TotalNat
  <1>3. Total(f, S) \in Int /\ Total(g, S) \in Int
    BY <1>1, TotalInt
  <1> QED
    BY <1>2, <1>3
-----------------------------------------------------------------------------
(* Folds in general: c gives the member taken last of each set, F the step *)
(* from a member and the fold of the rest.  FoldSet and FoldLeft are folds *)
(* of this kind as far as their steps stay in a set.                       *)

Folding(base, c, F, S, g) ==
    g = [s \in SUBSET S |-> IF s = {} THEN base ELSE F[<<c[s], g[s \ {c[s]}]>>]]

TakesOne(c, S) == \A s \in SUBSET S : s # {} => c[s] \in s

(* Two folds of the same steps agree where both are defined.               *)
LEMMA FoldingUnique ==
    ASSUME NEW base, NEW c, NEW F, NEW A, NEW B, IsFiniteSet(A), TakesOne(c, A),
           NEW g, NEW h, Folding(base, c, F, A, g), Folding(base, c, F, B, h)
    PROVE  \A s \in SUBSET A : s \in SUBSET B => g[s] = h[s]
  <1> DEFINE G == {s \in SUBSET A : s \in SUBSET B => g[s] = h[s]}
  <1>1. ASSUME NEW s \in SUBSET A, \A u \in SUBSET s : u # s => u \in G
        PROVE  s \in G
    <2> SUFFICES ASSUME s \in SUBSET B PROVE g[s] = h[s]
      OBVIOUS
    <2>1. CASE s = {}
      BY <2>1 DEF Folding
    <2>2. CASE s # {}
      <3>1. c[s] \in s
        BY <2>2 DEF TakesOne
      <3>2. g[s \ {c[s]}] = h[s \ {c[s]}]
        BY <1>1, <3>1
      <3>3. g[s] = F[<<c[s], g[s \ {c[s]}]>>] /\ h[s] = F[<<c[s], h[s \ {c[s]}]>>]
        BY <2>2 DEF Folding
      <3> QED
        BY <3>2, <3>3
    <2> QED
      BY <2>1, <2>2
  <1>2. \A s \in SUBSET A : s \in G
    <2> HIDE DEF G
    <2> QED
      BY <1>1, FiniteInduction
  <1> QED
    BY <1>2

(* There is a fold of every finite set.                                    *)
LEMMA FoldingExists ==
    ASSUME NEW base, NEW c, NEW F, NEW A, IsFiniteSet(A), TakesOne(c, A)
    PROVE  \E g : Folding(base, c, F, A, g)
  <1> DEFINE Of(s) == CHOOSE g : Folding(base, c, F, s, g)
             G == {s \in SUBSET A : \E g : Folding(base, c, F, s, g)}
  <1>1. ASSUME NEW T \in SUBSET A, \A u \in SUBSET T : u # T => u \in G
        PROVE  T \in G
    <2> DEFINE val(s) == IF s = {} THEN base ELSE F[<<c[s], Of(s \ {c[s]})[s \ {c[s]}]>>]
               g == [s \in SUBSET T |-> val(s)]
    <2>0. \A s \in SUBSET T : s # {} => s \ {c[s]} \in SUBSET T /\ s \ {c[s]} # T /\ s \ {c[s]} \in SUBSET s
      BY DEF TakesOne
    <2>1. \A s \in SUBSET T : s # T => Folding(base, c, F, s, Of(s)) /\ IsFiniteSet(s) /\ TakesOne(c, s)
      BY <1>1, FS_Subset DEF TakesOne
    <2>2. \A s \in SUBSET T : s # T => Of(s)[s] = val(s)
      <3>1. TAKE s \in SUBSET T
      <3>2. HAVE s # T
      <3>3. Folding(base, c, F, s, Of(s)) /\ IsFiniteSet(s) /\ TakesOne(c, s)
        BY <2>1, <3>2
      <3>4. CASE s = {}
        BY <3>3, <3>4 DEF Folding
      <3>5. CASE s # {}
        <4> DEFINE r == s \ {c[s]}
        <4>1. r \in SUBSET T /\ r # T /\ r \in SUBSET s
          BY <2>0, <3>5
        <4>2. Folding(base, c, F, r, Of(r)) /\ IsFiniteSet(r) /\ TakesOne(c, r)
          BY <2>1, <4>1
        <4> HIDE DEF Of
        <4>3. Of(s)[s] = F[<<c[s], Of(s)[r]>>]
          BY <3>3, <3>5 DEF Folding
        <4> HIDE DEF r
        <4>4. Of(s)[r] = Of(r)[r]
          BY <3>3, <4>1, <4>2, FoldingUnique
        <4> USE DEF r
        <4> QED
          BY <3>5, <4>3, <4>4
      <3> QED
        BY <3>4, <3>5
    <2>3. \A s \in SUBSET T : s # {} => g[s \ {c[s]}] = Of(s \ {c[s]})[s \ {c[s]}]
      <3>1. TAKE s \in SUBSET T
      <3>2. HAVE s # {}
      <3>3. s \ {c[s]} \in SUBSET T /\ s \ {c[s]} # T
        BY <2>0, <3>2
      <3> HIDE DEF Of, val
      <3> QED
        BY <2>2, <3>3
    <2>4. Folding(base, c, F, T, g)
      <3>1. g = [s \in SUBSET T |-> val(s)]
        OBVIOUS
      <3> HIDE DEF g, Of
      <3>2. \A s \in SUBSET T : val(s) = IF s = {} THEN base ELSE F[<<c[s], g[s \ {c[s]}]>>]
        BY <2>3
      <3> HIDE DEF val
      <3>3. [s \in SUBSET T |-> val(s)] = [s \in SUBSET T |-> IF s = {} THEN base ELSE F[<<c[s], g[s \ {c[s]}]>>]]
        BY <3>2
      <3> QED
        BY <3>1, <3>3, Zenon DEF Folding
    <2> HIDE DEF g
    <2> QED
      BY <2>4
  <1>2. \A s \in SUBSET A : s \in G
    <2> HIDE DEF G
    <2> QED
      BY <1>1, FiniteInduction
  <1> QED
    BY <1>2

(* A fold whose steps stay in a set is in it.                              *)
LEMMA FoldingStays ==
    ASSUME NEW V, NEW c, NEW S, IsFiniteSet(S), TakesOne(c, S), NEW g, g[{}] \in V,
           \A s \in SUBSET S : s # {} /\ g[s \ {c[s]}] \in V => g[s] \in V
    PROVE  \A s \in SUBSET S : g[s] \in V
  <1> DEFINE G == {s \in SUBSET S : g[s] \in V}
  <1>1. ASSUME NEW s \in SUBSET S, \A u \in SUBSET s : u # s => u \in G
        PROVE  s \in G
    BY <1>1 DEF TakesOne
  <1>2. \A s \in SUBSET S : s \in G
    <2> HIDE DEF G
    <2> QED
      BY <1>1, FiniteInduction
  <1> QED
    BY <1>2

(* The members the library's folds take: any, or the greatest.             *)
LEMMA PickTakes == \A S : TakesOne([s \in SUBSET S |-> CHOOSE x \in s : TRUE], S)
  BY DEF TakesOne

(* A finite set of integers has a greatest member.                         *)
LEMMA MaxIs ==
    ASSUME NEW S \in SUBSET Int, IsFiniteSet(S)
    PROVE  \A s \in SUBSET S : s # {} => Max(s) \in s /\ \A y \in s : Max(s) >= y
  <1> DEFINE G == {s \in SUBSET S : s # {} => \E x \in s : \A y \in s : x >= y}
  <1>1. ASSUME NEW s \in SUBSET S, \A u \in SUBSET s : u # s => u \in G
        PROVE  s \in G
    <2> SUFFICES ASSUME s # {} PROVE \E x \in s : \A y \in s : x >= y
      OBVIOUS
    <2>1. PICK z \in s : TRUE
      OBVIOUS
    <2>2. CASE s \ {z} = {}
      <3>1. \A y \in s : z >= y
        BY <2>2
      <3> QED
        BY <2>1, <3>1
    <2>3. CASE s \ {z} # {}
      <3>0. s \ {z} \in G
        BY <1>1, <2>1
      <3>1. PICK x \in s \ {z} : \A y \in s \ {z} : x >= y
        BY <2>3, <3>0
      <3>2. CASE x >= z
        BY <3>1, <3>2
      <3>3. CASE ~(x >= z)
        <4>1. \A y \in s : z >= y
          BY <3>1, <3>3
        <4> QED
          BY <2>1, <4>1
      <3> QED
        BY <3>2, <3>3
    <2> QED
      BY <2>2, <2>3
  <1>2. \A s \in SUBSET S : s \in G
    <2> HIDE DEF G
    <2> QED
      BY <1>1, FiniteInduction
  <1> QED
    BY <1>2 DEF Max

(* The greatest member of a finite set of integers is a member.            *)
LEMMA MaxTakes ==
    ASSUME NEW S \in SUBSET Int, IsFiniteSet(S)
    PROVE  TakesOne([s \in SUBSET S |-> Max(s)], S)
  BY MaxIs DEF TakesOne
=============================================================================
