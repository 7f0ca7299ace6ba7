------------------------------ MODULE SumLemmas ------------------------------
(***************************************************************************)
(* Facts about SumFunctionOnSet, the sum that StockLedger, SparePartStock, *)
(* SalesDay and SalesMoney take over their records.  The community modules *)
(* define it as a fold that removes the elements of a set in an order      *)
(* chosen by CHOOSE.  An induction over the subsets of a finite set is     *)
(* carried out here as "a smallest counterexample exists", a first-order   *)
(* consequence of the well-foundedness of strict inclusion.                *)
(***************************************************************************)
EXTENDS Integers, FiniteSets, Functions, FiniteSetTheorems, TLAPS

First(s) == CHOOSE x \in s : TRUE

(* g is the table of partial sums that the fold over S builds. *)
IsPartialSums(g, f, S) ==
    g = [s \in SUBSET S |->
            IF s = {} THEN 0 ELSE f[First(s)] + g[s \ {First(s)}]]

(* A non-empty family of subsets of a finite set has a minimal member. *)
LEMMA MinimalSubset ==
  ASSUME NEW S, IsFiniteSet(S), NEW F \in SUBSET SUBSET S, F # {}
  PROVE  \E m \in F : \A k \in F : k \subseteq m => k = m
<1> DEFINE R == StrictSubsetOrdering(S)
<1>1. IsWellFoundedOn(R, SUBSET S)
  BY FS_StrictSubsetOrderingWellFounded, FS_FiniteSubsetsOfFinite
<1>2. \A k, m \in SUBSET S : k \subseteq m /\ k # m => <<k, m>> \in R
  BY DEF StrictSubsetOrdering
<1> HIDE DEF R
<1>3. \E m \in F : \A k \in F : ~(<<k, m>> \in R)
  BY <1>1, WFMin
<1> QED  BY <1>2, <1>3

(* The first element of a non-empty set is one of its elements. *)
LEMMA FirstIn ==
  ASSUME NEW s, s # {}
  PROVE  First(s) \in s
BY DEF First

(* Tables of partial sums agree wherever both are defined. *)
LEMMA PartialSumsUnique ==
  ASSUME NEW f, NEW S, IsFiniteSet(S), NEW T, NEW g, NEW h,
         IsPartialSums(g, f, S), IsPartialSums(h, f, T)
  PROVE  \A s \in SUBSET S : s \in SUBSET T => g[s] = h[s]
<1> DEFINE F == {s \in SUBSET S : s \in SUBSET T /\ g[s] # h[s]}
<1> SUFFICES ASSUME F # {} PROVE FALSE  OBVIOUS
<1>1. PICK m \in F : \A k \in F : k \subseteq m => k = m
  <2>1. F \in SUBSET SUBSET S  OBVIOUS
  <2> HIDE DEF F
  <2> QED  BY <2>1, MinimalSubset
<1>2. /\ g[m] = IF m = {} THEN 0 ELSE f[First(m)] + g[m \ {First(m)}]
      /\ h[m] = IF m = {} THEN 0 ELSE f[First(m)] + h[m \ {First(m)}]
  BY DEF IsPartialSums
<1>3. m # {}  BY <1>2
<1>4. m \ {First(m)} \notin F  BY <1>1, <1>3, FirstIn
<1>5. g[m \ {First(m)}] = h[m \ {First(m)}]  BY <1>4
<1> QED  BY <1>2, <1>5

(* A table of partial sums restricted to fewer subsets is one. *)
LEMMA PartialSumsRestrict ==
  ASSUME NEW f, NEW S, NEW g, IsPartialSums(g, f, S), NEW T \in SUBSET S
  PROVE  \E h : IsPartialSums(h, f, T) /\ h[T] = g[T]
<1> DEFINE h == [s \in SUBSET T |-> g[s]]
<1>1. \A s \in SUBSET T :
          g[s] = IF s = {} THEN 0 ELSE f[First(s)] + g[s \ {First(s)}]
  BY DEF IsPartialSums
<1>2. h = [s \in SUBSET T |->
              IF s = {} THEN 0 ELSE f[First(s)] + h[s \ {First(s)}]]
  BY <1>1
<1> QED  BY <1>2 DEF IsPartialSums

(* Every finite set has a table of partial sums, so the fold is defined. *)
LEMMA PartialSumsExist ==
  ASSUME NEW f, NEW S, IsFiniteSet(S)
  PROVE  \E g : IsPartialSums(g, f, S)
<1> DEFINE F == {T \in SUBSET S : ~\E g : IsPartialSums(g, f, T)}
<1> SUFFICES ASSUME F # {} PROVE FALSE  OBVIOUS
<1>1. PICK m \in F : \A k \in F : k \subseteq m => k = m
  <2>1. F \in SUBSET SUBSET S  OBVIOUS
  <2> HIDE DEF F
  <2> QED  BY <2>1, MinimalSubset
<1> DEFINE table(s) == CHOOSE g : IsPartialSums(g, f, s)
           top == IF m = {} THEN 0
                  ELSE f[First(m)] + table(m \ {First(m)})[m \ {First(m)}]
           g == [s \in SUBSET m |-> IF s = m THEN top ELSE table(s)[s]]
<1>2. \A s \in SUBSET m : s # m => IsPartialSums(table(s), f, s)
  <2> TAKE s \in SUBSET m
  <2> HAVE s # m
  <2>1. \E h : IsPartialSums(h, f, s)  BY <1>1
  <2> QED  BY <2>1
<1>3. \A s \in SUBSET m : s # m /\ s # {} =>
          table(s)[s] = f[First(s)] + table(s \ {First(s)})[s \ {First(s)}]
  <2> TAKE s \in SUBSET m
  <2> HAVE s # m /\ s # {}
  <2> DEFINE r == s \ {First(s)}
  <2>1. r \in SUBSET m /\ r # m /\ r \in SUBSET s /\ s \in SUBSET s
    BY FirstIn
  <2>2. IsPartialSums(table(s), f, s) /\ IsPartialSums(table(r), f, r)
    BY <1>2, <2>1
  <2>3. IsFiniteSet(r)  BY FS_Subset
  <2>4. table(r)[r] = table(s)[r]
    <3> HIDE DEF table, r
    <3> QED  BY <2>1, <2>2, <2>3, PartialSumsUnique
  <2>5. table(s)[s] = f[First(s)] + table(s)[r]
    <3>1. IsPartialSums(table(s), f, s)  BY <2>2
    <3> HIDE DEF table
    <3> QED  BY <3>1 DEF IsPartialSums
  <2> QED  BY <2>4, <2>5
<1>4. \A s \in SUBSET m :
          g[s] = IF s = {} THEN 0 ELSE f[First(s)] + g[s \ {First(s)}]
  <2> TAKE s \in SUBSET m
  <2>1. CASE s = {} /\ s = m  BY <2>1
  <2>2. CASE s = {} /\ s # m
    <3>1. IsPartialSums(table(s), f, s)  BY <1>2, <2>2
    <3> HIDE DEF table
    <3>2. table(s)[s] = 0  BY <3>1, <2>2 DEF IsPartialSums
    <3> QED  BY <2>2, <3>2
  <2>3. CASE s # {}
    <3>1. s \ {First(s)} \in SUBSET m /\ s \ {First(s)} # m
      BY <2>3, FirstIn
    <3>2. CASE s = m  BY <2>3, <3>1, <3>2
    <3>3. CASE s # m
      <4>1. table(s)[s] = f[First(s)] + table(s \ {First(s)})[s \ {First(s)}]
        BY <1>3, <2>3, <3>3
      <4> HIDE DEF table
      <4> QED  BY <2>3, <3>1, <3>3, <4>1
    <3> QED  BY <3>2, <3>3
  <2> QED  BY <2>1, <2>2, <2>3
<1>5. IsPartialSums(g, f, m)
  <2> HIDE DEF table, top
  <2>1. g = [s \in SUBSET m |-> g[s]]  OBVIOUS
  <2> HIDE DEF g
  <2> QED  BY <1>4, <2>1 DEF IsPartialSums
<1> HIDE DEF g
<1> QED  BY <1>1, <1>5

-----------------------------------------------------------------------------
(* What the sum is, and what it does when its set or its function changes. *)

(* The sum is the last entry of any table of partial sums. *)
LEMMA SumByPartialSums ==
  ASSUME NEW f, NEW S, IsFiniteSet(S), NEW g, IsPartialSums(g, f, S)
  PROVE  SumFunctionOnSet(f, S) = g[S]
<1> DEFINE h == CHOOSE h : IsPartialSums(h, f, S)
<1>1. SumFunctionOnSet(f, S) = h[S]
  BY DEF SumFunctionOnSet, FoldFunctionOnSet, MapThenFoldSet, IsPartialSums, First
<1>2. IsPartialSums(h, f, S)  OBVIOUS
<1> HIDE DEF h
<1> QED  BY <1>1, <1>2, PartialSumsUnique

(* The sum over no elements. *)
LEMMA SumEmpty ==
  ASSUME NEW f
  PROVE  SumFunctionOnSet(f, {}) = 0
<1>1. IsFiniteSet({})  BY FS_EmptySet
<1>2. PICK g : IsPartialSums(g, f, {})  BY <1>1, PartialSumsExist
<1>3. g[{}] = 0  BY <1>2 DEF IsPartialSums
<1> QED  BY <1>1, <1>2, <1>3, SumByPartialSums

(* The sum over a non-empty set splits off the element chosen first. *)
LEMMA SumStep ==
  ASSUME NEW f, NEW S, IsFiniteSet(S), S # {}
  PROVE  SumFunctionOnSet(f, S) = f[First(S)] + SumFunctionOnSet(f, S \ {First(S)})
<1> DEFINE T == S \ {First(S)}
<1>1. PICK g : IsPartialSums(g, f, S)  BY PartialSumsExist
<1>2. PICK h : IsPartialSums(h, f, T) /\ h[T] = g[T]
  BY <1>1, PartialSumsRestrict
<1>3. IsFiniteSet(T)  BY FS_RemoveElement
<1>4. SumFunctionOnSet(f, S) = g[S]  BY <1>1, SumByPartialSums
<1>5. SumFunctionOnSet(f, T) = h[T]
  <2> HIDE DEF T
  <2> QED  BY <1>2, <1>3, SumByPartialSums
<1>6. g[S] = f[First(S)] + g[T]  BY <1>1 DEF IsPartialSums
<1> QED  BY <1>2, <1>4, <1>5, <1>6

(* A sum of integers is an integer. *)
LEMMA SumInt ==
  ASSUME NEW f, NEW S, IsFiniteSet(S), \A x \in S : f[x] \in Int
  PROVE  SumFunctionOnSet(f, S) \in Int
<1> DEFINE F == {T \in SUBSET S : SumFunctionOnSet(f, T) \notin Int}
<1> SUFFICES ASSUME F # {} PROVE FALSE  OBVIOUS
<1>1. PICK m \in F : \A k \in F : k \subseteq m => k = m
  <2>1. F \in SUBSET SUBSET S  OBVIOUS
  <2> HIDE DEF F
  <2> QED  BY <2>1, MinimalSubset
<1>2. IsFiniteSet(m)  BY FS_Subset
<1>3. m # {}  BY SumEmpty
<1>4. First(m) \in m  BY <1>3, FirstIn
<1>5. SumFunctionOnSet(f, m \ {First(m)}) \in Int  BY <1>1, <1>4
<1>6. SumFunctionOnSet(f, m) = f[First(m)] + SumFunctionOnSet(f, m \ {First(m)})
  BY <1>2, <1>3, SumStep
<1>7. f[First(m)] \in Int  BY <1>4
<1> QED  BY <1>5, <1>6, <1>7

(* The order of the fold does not matter: any element may be split off. *)
LEMMA SumSplit ==
  ASSUME NEW f, NEW S, IsFiniteSet(S), \A x \in S : f[x] \in Int, NEW e \in S
  PROVE  SumFunctionOnSet(f, S) = f[e] + SumFunctionOnSet(f, S \ {e})
<1> DEFINE Sum(T) == SumFunctionOnSet(f, T)
           F == {T \in SUBSET S : \E x \in T : Sum(T) # f[x] + Sum(T \ {x})}
<1> SUFFICES ASSUME F # {} PROVE FALSE  OBVIOUS
<1>1. PICK m \in F : \A k \in F : k \subseteq m => k = m
  <2>1. F \in SUBSET SUBSET S  OBVIOUS
  <2> HIDE DEF F
  <2> QED  BY <2>1, MinimalSubset
<1>2. PICK x \in m : Sum(m) # f[x] + Sum(m \ {x})  OBVIOUS
<1> DEFINE c == First(m)
           r == (m \ {x}) \ {c}
<1>3. c \in m  BY <1>2, FirstIn
<1>4. IsFiniteSet(m) /\ IsFiniteSet(r)  BY FS_Subset
<1>5. Sum(m) = f[c] + Sum(m \ {c})  BY <1>2, <1>4, SumStep
<1>6. x # c  BY <1>2, <1>5
<1>7. Sum(m \ {c}) = f[x] + Sum(r)
  <2>1. m \ {c} \notin F /\ x \in m \ {c}  BY <1>1, <1>2, <1>3, <1>6
  <2>2. (m \ {c}) \ {x} = r  OBVIOUS
  <2> HIDE DEF r, c
  <2> QED  BY <2>1, <2>2
<1>8. Sum(m \ {x}) = f[c] + Sum(r)
  <2>1. m \ {x} \notin F /\ c \in m \ {x}  BY <1>1, <1>2, <1>3, <1>6
  <2> HIDE DEF c
  <2> QED  BY <2>1
<1>9. Sum(r) \in Int /\ f[c] \in Int /\ f[x] \in Int
  <2>1. \A y \in r : f[y] \in Int  OBVIOUS
  <2> HIDE DEF r, c
  <2> QED  BY <1>2, <1>3, <1>4, <2>1, SumInt
<1> HIDE DEF r, c, Sum
<1> QED  BY <1>2, <1>5, <1>7, <1>8, <1>9

(* The sum over two disjoint sets. *)
LEMMA SumUnion ==
  ASSUME NEW f, NEW A, NEW B, IsFiniteSet(A), IsFiniteSet(B), A \cap B = {},
         \A x \in A \cup B : f[x] \in Int
  PROVE  SumFunctionOnSet(f, A \cup B) = SumFunctionOnSet(f, A) + SumFunctionOnSet(f, B)
<1> DEFINE Sum(T) == SumFunctionOnSet(f, T)
           F == {T \in SUBSET A : Sum(T \cup B) # Sum(T) + Sum(B)}
<1> SUFFICES ASSUME F # {} PROVE FALSE  OBVIOUS
<1>1. PICK m \in F : \A k \in F : k \subseteq m => k = m
  <2>1. F \in SUBSET SUBSET A  OBVIOUS
  <2> HIDE DEF F
  <2> QED  BY <2>1, MinimalSubset
<1>2. Sum(B) \in Int  BY SumInt
<1>3. m # {}
  <2>1. SUFFICES ASSUME m = {} PROVE Sum(m \cup B) = Sum(m) + Sum(B)  OBVIOUS
  <2>2. Sum(m) = 0  BY <2>1, SumEmpty
  <2>3. m \cup B = B  BY <2>1
  <2>4. Sum(m \cup B) = Sum(B)  BY <2>3, Zenon
  <2> HIDE DEF Sum, F
  <2> QED  BY <1>2, <2>2, <2>4
<1>4. PICK x : x \in m  BY <1>3
<1> DEFINE r == m \ {x}
<1>5. IsFiniteSet(m) /\ IsFiniteSet(r)  BY FS_Subset
<1>6. Sum(m) = f[x] + Sum(r)  BY <1>4, <1>5, SumSplit
<1>7. Sum(m \cup B) = f[x] + Sum(r \cup B)
  <2>1. IsFiniteSet(m \cup B)  BY <1>5, FS_Union
  <2>2. (m \cup B) \ {x} = r \cup B  BY <1>4
  <2>3. \A y \in m \cup B : f[y] \in Int  OBVIOUS
  <2> HIDE DEF r
  <2> QED  BY <1>4, <2>1, <2>2, <2>3, SumSplit
<1>8. Sum(r \cup B) = Sum(r) + Sum(B)
  <2>1. r \in SUBSET A /\ r \notin F  BY <1>1, <1>4
  <2> QED  BY <2>1
<1>9. Sum(r) \in Int /\ f[x] \in Int
  <2>1. \A y \in r : f[y] \in Int  OBVIOUS
  <2> HIDE DEF r
  <2> QED  BY <1>4, <1>5, <2>1, SumInt
<1> HIDE DEF r, Sum
<1> QED  BY <1>1, <1>2, <1>6, <1>7, <1>8, <1>9

(* Only the values on the set matter. *)
LEMMA SumSame ==
  ASSUME NEW f, NEW g, NEW S, IsFiniteSet(S), \A x \in S : f[x] = g[x]
  PROVE  SumFunctionOnSet(f, S) = SumFunctionOnSet(g, S)
<1> DEFINE F == {T \in SUBSET S : SumFunctionOnSet(f, T) # SumFunctionOnSet(g, T)}
<1> SUFFICES ASSUME F # {} PROVE FALSE  OBVIOUS
<1>1. PICK m \in F : \A k \in F : k \subseteq m => k = m
  <2>1. F \in SUBSET SUBSET S  OBVIOUS
  <2> HIDE DEF F
  <2> QED  BY <2>1, MinimalSubset
<1>2. IsFiniteSet(m)  BY FS_Subset
<1>3. m # {}  BY SumEmpty
<1>4. First(m) \in m  BY <1>3, FirstIn
<1>5. /\ SumFunctionOnSet(f, m) = f[First(m)] + SumFunctionOnSet(f, m \ {First(m)})
      /\ SumFunctionOnSet(g, m) = g[First(m)] + SumFunctionOnSet(g, m \ {First(m)})
  BY <1>2, <1>3, SumStep
<1>6. SumFunctionOnSet(f, m \ {First(m)}) = SumFunctionOnSet(g, m \ {First(m)})
  BY <1>1, <1>4
<1> QED  BY <1>4, <1>5, <1>6

(* The sum of the opposites is the opposite of the sum. *)
LEMMA SumOpposite ==
  ASSUME NEW f, NEW g, NEW S, IsFiniteSet(S), \A x \in S : f[x] \in Int /\ g[x] = -f[x]
  PROVE  SumFunctionOnSet(g, S) = -SumFunctionOnSet(f, S)
<1> DEFINE F == {T \in SUBSET S : SumFunctionOnSet(g, T) # -SumFunctionOnSet(f, T)}
<1> SUFFICES ASSUME F # {} PROVE FALSE  OBVIOUS
<1>1. PICK m \in F : \A k \in F : k \subseteq m => k = m
  <2>1. F \in SUBSET SUBSET S  OBVIOUS
  <2> HIDE DEF F
  <2> QED  BY <2>1, MinimalSubset
<1>2. IsFiniteSet(m)  BY FS_Subset
<1>3. m # {}
  <2>1. SumFunctionOnSet(f, {}) = 0 /\ SumFunctionOnSet(g, {}) = 0  BY SumEmpty
  <2> QED  BY <2>1
<1>4. First(m) \in m  BY <1>3, FirstIn
<1> DEFINE r == m \ {First(m)}
<1>5. /\ SumFunctionOnSet(f, m) = f[First(m)] + SumFunctionOnSet(f, r)
      /\ SumFunctionOnSet(g, m) = g[First(m)] + SumFunctionOnSet(g, r)
  BY <1>2, <1>3, SumStep
<1>6. SumFunctionOnSet(g, r) = -SumFunctionOnSet(f, r)  BY <1>1, <1>4
<1>7. SumFunctionOnSet(f, r) \in Int
  <2>1. IsFiniteSet(r) /\ \A x \in r : f[x] \in Int  BY <1>2, FS_RemoveElement
  <2> HIDE DEF r
  <2> QED  BY <2>1, SumInt
<1>8. f[First(m)] \in Int /\ g[First(m)] = -f[First(m)]  BY <1>4
<1>9. SumFunctionOnSet(g, m) = -SumFunctionOnSet(f, m)
  <2> HIDE DEF r, F
  <2> QED  BY <1>5, <1>6, <1>7, <1>8
<1> QED  BY <1>9

(* Changing one value shifts the sum by the difference. *)
LEMMA SumChange ==
  ASSUME NEW f, NEW g, NEW S, IsFiniteSet(S), NEW e \in S,
         \A x \in S : f[x] \in Int /\ g[x] \in Int,
         \A x \in S \ {e} : f[x] = g[x]
  PROVE  SumFunctionOnSet(g, S) = SumFunctionOnSet(f, S) + g[e] - f[e]
<1>1. /\ SumFunctionOnSet(f, S) = f[e] + SumFunctionOnSet(f, S \ {e})
      /\ SumFunctionOnSet(g, S) = g[e] + SumFunctionOnSet(g, S \ {e})
  BY SumSplit
<1>2. IsFiniteSet(S \ {e})  BY FS_RemoveElement
<1>3. SumFunctionOnSet(f, S \ {e}) = SumFunctionOnSet(g, S \ {e})
  BY <1>2, SumSame
<1>4. SumFunctionOnSet(f, S \ {e}) \in Int /\ f[e] \in Int /\ g[e] \in Int
  BY <1>2, SumInt
<1> QED  BY <1>1, <1>3, <1>4

(* Zeros add up to zero. *)
LEMMA SumZero ==
  ASSUME NEW f, NEW S, IsFiniteSet(S), \A x \in S : f[x] = 0
  PROVE  SumFunctionOnSet(f, S) = 0
<1> DEFINE F == {T \in SUBSET S : SumFunctionOnSet(f, T) # 0}
<1> SUFFICES ASSUME F # {} PROVE FALSE  OBVIOUS
<1>1. PICK m \in F : \A k \in F : k \subseteq m => k = m
  <2>1. F \in SUBSET SUBSET S  OBVIOUS
  <2> HIDE DEF F
  <2> QED  BY <2>1, MinimalSubset
<1>2. IsFiniteSet(m)  BY FS_Subset
<1>3. m # {}  BY SumEmpty
<1>4. First(m) \in m  BY <1>3, FirstIn
<1>5. SumFunctionOnSet(f, m) = f[First(m)] + SumFunctionOnSet(f, m \ {First(m)})
  BY <1>2, <1>3, SumStep
<1>6. SumFunctionOnSet(f, m \ {First(m)}) = 0  BY <1>1, <1>4
<1> QED  BY <1>4, <1>5, <1>6

(* A sum of natural numbers is one, and each of them is at most the sum. *)
LEMMA SumNat ==
  ASSUME NEW f, NEW S, IsFiniteSet(S), \A x \in S : f[x] \in Nat
  PROVE  /\ SumFunctionOnSet(f, S) \in Nat
         /\ \A e \in S : f[e] <= SumFunctionOnSet(f, S)
<1> DEFINE F == {T \in SUBSET S : SumFunctionOnSet(f, T) \notin Nat}
<1>1. F = {}
  <2> SUFFICES ASSUME F # {} PROVE FALSE  OBVIOUS
  <2>1. PICK m \in F : \A k \in F : k \subseteq m => k = m
    <3>1. F \in SUBSET SUBSET S  OBVIOUS
    <3> HIDE DEF F
    <3> QED  BY <3>1, MinimalSubset
  <2>2. IsFiniteSet(m)  BY FS_Subset
  <2>3. m # {}  BY SumEmpty
  <2>4. First(m) \in m  BY <2>3, FirstIn
  <2>5. SumFunctionOnSet(f, m) = f[First(m)] + SumFunctionOnSet(f, m \ {First(m)})
    BY <2>2, <2>3, SumStep
  <2>6. SumFunctionOnSet(f, m \ {First(m)}) \in Nat  BY <2>1, <2>4
  <2> QED  BY <2>4, <2>5, <2>6
<1>2. SumFunctionOnSet(f, S) \in Nat  BY <1>1
<1>3. ASSUME NEW e \in S PROVE f[e] <= SumFunctionOnSet(f, S)
  <2>1. SumFunctionOnSet(f, S) = f[e] + SumFunctionOnSet(f, S \ {e})  BY SumSplit
  <2>2. SumFunctionOnSet(f, S \ {e}) \in Nat  BY <1>1
  <2> QED  BY <2>1, <2>2
<1> QED  BY <1>2, <1>3

(* The sum of the differences is the difference of the sums. *)
LEMMA SumMinus ==
  ASSUME NEW f, NEW g, NEW h, NEW S, IsFiniteSet(S),
         \A x \in S : f[x] \in Int /\ g[x] \in Int /\ h[x] = f[x] - g[x]
  PROVE  SumFunctionOnSet(h, S) = SumFunctionOnSet(f, S) - SumFunctionOnSet(g, S)
<1> DEFINE Diff(T) == SumFunctionOnSet(h, T) = SumFunctionOnSet(f, T) - SumFunctionOnSet(g, T)
           F == {T \in SUBSET S : ~Diff(T)}
<1> SUFFICES ASSUME F # {} PROVE FALSE  OBVIOUS
<1>1. PICK m \in F : \A k \in F : k \subseteq m => k = m
  <2>1. F \in SUBSET SUBSET S  OBVIOUS
  <2> HIDE DEF F
  <2> QED  BY <2>1, MinimalSubset
<1>2. IsFiniteSet(m)  BY FS_Subset
<1>3. m # {}
  <2>1. /\ SumFunctionOnSet(f, {}) = 0 /\ SumFunctionOnSet(g, {}) = 0
        /\ SumFunctionOnSet(h, {}) = 0
    BY SumEmpty
  <2>2. Diff({})  BY <2>1
  <2> HIDE DEF Diff
  <2> QED  BY <2>2
<1>4. PICK c : c \in m  BY <1>3
<1> DEFINE r == m \ {c}
<1>5. Diff(r)  BY <1>1, <1>4
<1>6. IsFiniteSet(r)  BY <1>2, FS_RemoveElement
<1>7. \A x \in m : f[x] \in Int /\ g[x] \in Int /\ h[x] = f[x] - g[x]  OBVIOUS
<1>8. \A x \in m : h[x] \in Int  BY <1>7
<1>9. /\ SumFunctionOnSet(f, m) = f[c] + SumFunctionOnSet(f, r)
      /\ SumFunctionOnSet(g, m) = g[c] + SumFunctionOnSet(g, r)
      /\ SumFunctionOnSet(h, m) = h[c] + SumFunctionOnSet(h, r)
  BY <1>2, <1>4, <1>7, <1>8, SumSplit
<1>10. SumFunctionOnSet(f, r) \in Int /\ SumFunctionOnSet(g, r) \in Int
  <2>1. \A x \in r : f[x] \in Int /\ g[x] \in Int  BY <1>7
  <2> HIDE DEF r
  <2> QED  BY <1>6, <2>1, SumInt
<1>11. f[c] \in Int /\ g[c] \in Int /\ h[c] = f[c] - g[c]  BY <1>4, <1>7
<1>12. Diff(m)
  <2> HIDE DEF r, F
  <2> QED  BY <1>5, <1>9, <1>10, <1>11
<1> QED  BY <1>12

(* Adding up the parts of a set first, then over the parts. *)
LEMMA SumParts ==
  ASSUME NEW f, NEW g, NEW part, NEW S, NEW T, IsFiniteSet(S), IsFiniteSet(T),
         \A x \in T : f[x] \in Int,
         \A i \in S : part[i] \subseteq T /\ g[i] = SumFunctionOnSet(f, part[i]),
         \A i, j \in S : i # j => part[i] \cap part[j] = {},
         \A x \in T : \E i \in S : x \in part[i]
  PROVE  SumFunctionOnSet(g, S) = SumFunctionOnSet(f, T)
<1> DEFINE Within(k) == {x \in T : \E i \in k : x \in part[i]}
           F == {k \in SUBSET S : SumFunctionOnSet(g, k) # SumFunctionOnSet(f, Within(k))}
<1>0. Within(S) = T  OBVIOUS
<1> SUFFICES ASSUME F # {} PROVE FALSE
  <2>1. F = {} => SumFunctionOnSet(g, S) = SumFunctionOnSet(f, Within(S))  OBVIOUS
  <2> HIDE DEF Within, F
  <2> QED  BY <1>0, <2>1
<1>1. PICK m \in F : \A k \in F : k \subseteq m => k = m
  <2>1. F \in SUBSET SUBSET S  OBVIOUS
  <2> HIDE DEF F
  <2> QED  BY <2>1, MinimalSubset
<1>2. IsFiniteSet(m)  BY FS_Subset
<1>3. m # {}
  <2>1. SUFFICES ASSUME m = {} PROVE SumFunctionOnSet(g, m) = SumFunctionOnSet(f, Within(m))
    OBVIOUS
  <2>2. Within(m) = {}  BY <2>1
  <2>3. SumFunctionOnSet(g, m) = 0  BY <2>1, SumEmpty
  <2>4. SumFunctionOnSet(f, Within(m)) = 0
    <3> HIDE DEF Within
    <3> QED  BY <2>2, SumEmpty
  <2> QED  BY <2>3, <2>4
<1>4. PICK c : c \in m  BY <1>3
<1> DEFINE r == m \ {c}
<1>5. SumFunctionOnSet(g, r) = SumFunctionOnSet(f, Within(r))  BY <1>1, <1>4
<1>6. Within(m) = part[c] \cup Within(r) /\ part[c] \cap Within(r) = {}  BY <1>4
<1>7. IsFiniteSet(part[c]) /\ IsFiniteSet(Within(r))
  <2>1. part[c] \subseteq T /\ Within(r) \subseteq T  BY <1>4
  <2> QED  BY <2>1, FS_Subset
<1>8. \A x \in part[c] \cup Within(r) : f[x] \in Int  BY <1>4
<1>9. \A i \in m : g[i] \in Int
  <2> TAKE i \in m
  <2>1. part[i] \subseteq T  OBVIOUS
  <2>2. IsFiniteSet(part[i]) /\ \A x \in part[i] : f[x] \in Int  BY <2>1, FS_Subset
  <2>3. SumFunctionOnSet(f, part[i]) \in Int  BY <2>2, SumInt
  <2> QED  BY <2>3
<1>10. g[c] = SumFunctionOnSet(f, part[c])  BY <1>4
<1>11. SumFunctionOnSet(g, m) = g[c] + SumFunctionOnSet(g, r)  BY <1>2, <1>4, <1>9, SumSplit
<1>12. SumFunctionOnSet(f, Within(m))
         = SumFunctionOnSet(f, part[c]) + SumFunctionOnSet(f, Within(r))
  <2> HIDE DEF Within, r
  <2> QED  BY <1>6, <1>7, <1>8, SumUnion
<1> HIDE DEF Within, r
<1> QED  BY <1>1, <1>5, <1>10, <1>11, <1>12

(* Leaving out natural numbers makes a sum no larger. *)
LEMMA SumMonotone ==
  ASSUME NEW f, NEW S, IsFiniteSet(S), NEW T \in SUBSET S, \A x \in S : f[x] \in Nat
  PROVE  SumFunctionOnSet(f, T) <= SumFunctionOnSet(f, S)
<1> DEFINE rest == S \ T
<1>1. IsFiniteSet(T) /\ IsFiniteSet(rest)  BY FS_Subset
<1>2. T \cup rest = S /\ T \cap rest = {}  OBVIOUS
<1>3. /\ \A x \in T \cup rest : f[x] \in Int
      /\ \A x \in T : f[x] \in Nat
      /\ \A x \in rest : f[x] \in Nat
  OBVIOUS
<1> HIDE DEF rest
<1>4. SumFunctionOnSet(f, S) = SumFunctionOnSet(f, T) + SumFunctionOnSet(f, rest)
  <2>1. SumFunctionOnSet(f, T \cup rest)
          = SumFunctionOnSet(f, T) + SumFunctionOnSet(f, rest)
    BY <1>1, <1>2, <1>3, SumUnion
  <2> QED  BY <1>2, <2>1
<1>5. SumFunctionOnSet(f, T) \in Nat /\ SumFunctionOnSet(f, rest) \in Nat
  BY <1>1, <1>3, SumNat
<1> QED  BY <1>4, <1>5

(* A sum over an interval of dates, its last one set apart. *)
LEMMA SumLast ==
  ASSUME NEW f, NEW s \in Int, NEW d \in Int, s <= d, \A x \in s .. d : f[x] \in Int
  PROVE  /\ SumFunctionOnSet(f, s .. d) = SumFunctionOnSet(f, s .. (d - 1)) + f[d]
         /\ SumFunctionOnSet(f, s .. (d - 1)) \in Int
<1>1. IsFiniteSet(s .. d) /\ IsFiniteSet(s .. (d - 1))  BY FS_Interval
<1>2. (s .. d) \ {d} = s .. (d - 1) /\ d \in s .. d  OBVIOUS
<1>3. SumFunctionOnSet(f, s .. d) = f[d] + SumFunctionOnSet(f, s .. (d - 1))
  BY <1>1, <1>2, SumSplit
<1>4. \A x \in s .. (d - 1) : f[x] \in Int  OBVIOUS
<1>5. SumFunctionOnSet(f, s .. (d - 1)) \in Int  BY <1>1, <1>4, SumInt
<1> QED  BY <1>2, <1>3, <1>5

-----------------------------------------------------------------------------
(* A non-empty set of natural numbers has a least member ... *)
LEMMA LeastNat ==
  ASSUME NEW T \in SUBSET Nat, T # {}
  PROVE  \E m \in T : \A k \in T : m <= k
<1> DEFINE R == OpToRel(<, Nat)
<1>1. IsWellFoundedOn(R, Nat)  BY NatLessThanWellFounded
<1>2. \A x, y \in Nat : y < x => <<y, x>> \in R  BY DEF OpToRel
<1> HIDE DEF R
<1>3. \E x \in T : \A y \in T : ~(<<y, x>> \in R)  BY <1>1, WFMin
<1>4. PICK x \in T : \A y \in T : ~(<<y, x>> \in R)  BY <1>3
<1>5. \A y \in T : ~(y < x)  BY <1>2, <1>4
<1> QED  BY <1>5

(* ... and a bounded one a greatest. *)
LEMMA GreatestNat ==
  ASSUME NEW n \in Nat, NEW T \in SUBSET (1..n), T # {}
  PROVE  \E m \in T : \A k \in T : k <= m
<1> DEFINE U == {n - k : k \in T}
<1>1. U \in SUBSET Nat /\ U # {}
  <2>1. \A k \in T : k \in 1..n  OBVIOUS
  <2>2. \A k \in 1..n : n - k \in Nat  OBVIOUS
  <2>3. PICK k : k \in T  OBVIOUS
  <2>4. n - k \in U  BY <2>3
  <2> QED  BY <2>1, <2>2, <2>4
<1>2. PICK u \in U : \A v \in U : u <= v
  <2> HIDE DEF U
  <2> QED  BY <1>1, LeastNat
<1>3. PICK m \in T : u = n - m  OBVIOUS
<1>4. \A k \in T : n - m <= n - k  BY <1>2, <1>3
<1> QED  BY <1>4
=============================================================================
