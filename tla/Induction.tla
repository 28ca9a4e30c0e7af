------------------------------ MODULE Induction ------------------------------
(***************************************************************************)
(* Induction and recursion for the proofs of the other modules, stated of  *)
(* sets and functions: the least element of a set of numbers, induction    *)
(* over a set of numbers, the existence of a function that is defined by   *)
(* recursion on a measure, sums over finite sets, and what a loop gives    *)
(* that goes on from a value, or that writes strings behind each other.    *)
(***************************************************************************)
EXTENDS Integers, Strings, Functions, FiniteSetTheorems, WellFoundedInduction, TLAPS

\* A set of natural numbers that is not empty has a least element.
LEMMA Least ==
  ASSUME NEW T, T \subseteq Nat, T # {}
  PROVE  \E x \in T : \A y \in T : x <= y
<1> DEFINE R == {p \in Nat \X Nat : p[1] < p[2]}
<1>1. R = OpToRel(<, Nat)
  BY DEF OpToRel
<1>2. IsWellFoundedOn(R, Nat)
  BY ONLY <1>1, NatLessThanWellFounded, Zenon
<1>3. \A x, y \in Nat : x < y => <<x, y>> \in R
  OBVIOUS
<1> HIDE DEF R
<1>4. \E x \in T : \A y \in T : ~ (<<y, x>> \in R)
  BY <1>2, WFMin, Zenon
<1>5. PICK x \in T : \A y \in T : ~ (<<y, x>> \in R)
  BY <1>4
<1>6. ASSUME NEW y \in T PROVE x <= y
  <2>1. x \in Nat /\ y \in Nat
    OBVIOUS
  <2>2. ~(y < x)
    BY <1>3, <1>5, <2>1, Zenon
  <2> QED
    BY <2>1, <2>2
<1> QED
  BY <1>6

\* A set of natural numbers that has a bound and is not empty has a greatest
\* element.
LEMMA Greatest ==
  ASSUME NEW T, T \subseteq Nat, T # {},
         NEW n \in Nat, \A x \in T : x <= n
  PROVE  \E x \in T : \A y \in T : y <= x
<1> DEFINE U == {n - x : x \in T}
<1>0. \A x \in T : n - x \in Nat
  OBVIOUS
<1>1. U \subseteq Nat /\ U # {}
  BY <1>0, Zenon
<1>2. PICK u \in U : \A v \in U : u <= v
  BY <1>1, Least
<1>3. PICK x \in T : u = n - x
  BY <1>2
<1>4. ASSUME NEW y \in T PROVE y <= x
  <2>1. n - y \in U
    OBVIOUS
  <2>2. n - x <= n - y
    BY <1>2, <1>3, <2>1
  <2> QED
    BY <2>2
<1> QED
  BY <1>4

\* Some element of a set that is not empty has the least measure.
LEMMA LeastMeasure ==
  ASSUME NEW B, B # {}, NEW m, \A x \in B : m[x] \in Nat
  PROVE  \E x \in B : m[x] \in Nat /\ \A y \in B : m[x] <= m[y]
<1> DEFINE M == {m[x] : x \in B}
<1>1. PICK b : b \in B
  OBVIOUS
<1>2. m[b] \in M /\ M \subseteq Nat
  BY <1>1
<1>3. PICK n \in M : \A k \in M : n <= k
  <2> HIDE DEF M
  <2> QED
    BY <1>2, Least
<1>4. PICK x \in B : n = m[x]
  BY <1>3
<1>5. \A y \in B : m[x] <= m[y]
  BY <1>3, <1>4
<1> QED
  BY <1>5

\* Induction: a set that has 0 and the successor of each number it has has
\* every number.
LEMMA SetInduction ==
  ASSUME NEW S, 0 \in S, \A n \in Nat : n \in S => n + 1 \in S
  PROVE  Nat \subseteq S
<1> SUFFICES ASSUME Nat \ S # {} PROVE FALSE
  OBVIOUS
<1>1. PICK x \in Nat \ S : \A y \in Nat \ S : x <= y
  BY Least
<1>2. x # 0 /\ x - 1 \in Nat /\ x - 1 \in S
  BY <1>1
<1> QED
  BY <1>2

\* A definition by recursion of a function from D to T: the value that step
\* gives k depends only on the values of what has a smaller measure.
Recursive(D, T, m, step) ==
    /\ T # {}
    /\ m \in [D -> Nat]
    /\ step \in [D -> [[D -> T] -> T]]
    /\ \A k \in D : \A g, h \in [D -> T] :
           (\A j \in D : m[j] < m[k] => g[j] = h[j]) => step[k][g] = step[k][h]

\* Some function has at every k the value that step gives k from the function.
Defines(D, T, step) ==
    \E f \in [D -> T] : \A k \in D : f[k] = step[k][f]

\* A definition by recursion defines a function.
LEMMA Recursion ==
  ASSUME NEW D, NEW T, NEW m, NEW step, Recursive(D, T, m, step)
  PROVE  Defines(D, T, step)
<1> SUFFICES ASSUME T # {}, m \in [D -> Nat], step \in [D -> [[D -> T] -> T]],
                    \A k \in D : \A g, h \in [D -> T] :
                        (\A j \in D : m[j] < m[k] => g[j] = h[j])
                            => step[k][g] = step[k][h]
             PROVE  \E f \in [D -> T] : \A k \in D : f[k] = step[k][f]
  BY DEF Recursive, Defines
<1> DEFINE Sol == [n \in Nat |->
                      {f \in [D -> T] : \A k \in D : m[k] < n => f[k] = step[k][f]}]
           S == {n \in Nat : Sol[n] # {}}
<1>1. 0 \in S
  <2>1. PICK t : t \in T
    OBVIOUS
  <2>2. [k \in D |-> t] \in Sol[0]
    BY <2>1
  <2> QED
    BY <2>2
<1>2. ASSUME NEW n \in Nat, n \in S PROVE n + 1 \in S
  <2>1. PICK f \in [D -> T] : \A k \in D : m[k] < n => f[k] = step[k][f]
    BY <1>2
  <2> DEFINE g == [k \in D |-> step[k][f]]
  <2>2. g \in [D -> T]
    OBVIOUS
  <2>3. ASSUME NEW k \in D, m[k] < n + 1 PROVE g[k] = step[k][g]
    <3>1. \A j \in D : m[j] < m[k] => f[j] = g[j]
      BY <2>1, <2>3
    <3>2. step[k][f] = step[k][g]
      BY <2>2, <3>1
    <3> QED
      BY <3>2
  <2>4. g \in Sol[n + 1]
    BY <2>2, <2>3
  <2> HIDE DEF Sol, g
  <2> QED
    BY <2>4
<1>3. Nat \subseteq S
  <2> HIDE DEF S
  <2> QED
    BY <1>1, <1>2, SetInduction
<1>4. ASSUME NEW n \in Nat, NEW p \in Nat, NEW f \in Sol[n], NEW g \in Sol[p],
             NEW k \in D, m[k] < n, m[k] < p
      PROVE  f[k] = g[k]
  <2>0. /\ f \in [D -> T] /\ \A i \in D : m[i] < n => f[i] = step[i][f]
        /\ g \in [D -> T] /\ \A i \in D : m[i] < p => g[i] = step[i][g]
    OBVIOUS
  <2> HIDE DEF Sol
  <2> DEFINE A == {i \in D : m[i] < n /\ m[i] < p /\ f[i] # g[i]}
             B == {m[i] : i \in A}
  <2> SUFFICES ASSUME f[k] # g[k] PROVE FALSE
    OBVIOUS
  <2>1. m[k] \in B /\ B \subseteq Nat
    BY <1>4
  <2>2. PICK x \in B : \A y \in B : x <= y
    BY <2>1, Least
  <2>3. PICK j \in A : x = m[j]
    BY <2>2
  <2>4. \A i \in D : m[i] < m[j] => f[i] = g[i]
    <3> SUFFICES ASSUME NEW i \in D, m[i] < m[j], f[i] # g[i] PROVE FALSE
      OBVIOUS
    <3>1. i \in A
      BY <2>3
    <3>2. x <= m[i]
      BY <2>2, <3>1
    <3> QED
      BY <2>3, <3>2
  <2>5. step[j][f] = step[j][g]
    BY <2>0, <2>4
  <2> QED
    BY <2>0, <2>3, <2>5
<1> DEFINE F == [n \in Nat |-> CHOOSE f : f \in Sol[n]]
           h == [k \in D |-> F[m[k] + 1][k]]
<1>5. \A n \in Nat : F[n] \in Sol[n]
  <2> HIDE DEF Sol
  <2> QED
    BY <1>3
<1>6. \A n \in Nat : /\ F[n] \in [D -> T]
                     /\ \A k \in D : m[k] < n => F[n][k] = step[k][F[n]]
  <2> HIDE DEF F
  <2> QED
    BY <1>5
<1> HIDE DEF F, Sol
<1>7. h \in [D -> T]
  BY <1>6
<1>8. ASSUME NEW k \in D PROVE h[k] = step[k][h]
  <2>1. m[k] + 1 \in Nat
    OBVIOUS
  <2>2. h[k] = step[k][F[m[k] + 1]]
    BY <1>6, <2>1
  <2>3. ASSUME NEW j \in D, m[j] < m[k] PROVE F[m[k] + 1][j] = h[j]
    <3>1. m[j] + 1 \in Nat /\ m[j] < m[j] + 1 /\ m[j] < m[k] + 1
      BY <2>3
    <3>2. F[m[j] + 1] \in Sol[m[j] + 1] /\ F[m[k] + 1] \in Sol[m[k] + 1]
      BY <1>5, <2>1, <3>1
    <3>3. F[m[j] + 1][j] = F[m[k] + 1][j]
      BY <1>4, <2>1, <3>1, <3>2
    <3> QED
      BY <3>3
  <2>4. step[k][F[m[k] + 1]] = step[k][h]
    BY <1>6, <1>7, <2>1, <2>3
  <2> QED
    BY <2>2, <2>4
<1> HIDE DEF h
<1> QED
  BY <1>7, <1>8

-----------------------------------------------------------------------------
(* Sums over finite sets, as Functions defines them: the terms are added in *)
(* the order in which CHOOSE picks them.                                    *)

\* The sums over the subsets of S.
Sums(g, S) ==
    CHOOSE f : f = [s \in SUBSET S |->
                       IF s = {} THEN 0
                       ELSE g[CHOOSE x \in s : TRUE] + f[s \ {CHOOSE x \in s : TRUE}]]

\* A sum over S is the last of them.
LEMMA SumOfIs == ASSUME NEW g, NEW S PROVE SumFunctionOnSet(g, S) = Sums(g, S)[S]
BY DEF Sums, SumFunctionOnSet, FoldFunctionOnSet, MapThenFoldSet

\* The subsets of a finite set and their sizes.
LEMMA Subsets ==
    ASSUME NEW S, IsFiniteSet(S), NEW s \in SUBSET S
    PROVE  /\ IsFiniteSet(s) /\ Cardinality(s) \in Nat
           /\ \A x \in s : /\ s \ {x} \in SUBSET S
                           /\ Cardinality(s \ {x}) < Cardinality(s)
<1>1. IsFiniteSet(s) /\ Cardinality(s) \in Nat
  BY FS_Subset, FS_CardinalityType
<1>2. ASSUME NEW x \in s PROVE Cardinality(s \ {x}) < Cardinality(s)
  <2>1. Cardinality(s \ {x}) = Cardinality(s) - 1
    BY <1>1, FS_RemoveElement
  <2> QED
    BY <1>1, <2>1
<1> QED
  BY <1>1, <1>2

\* F[s] is one of the terms of the sum over s and F of the others, for every
\* subset s of S, ...
SomeFirst(F, g, S) ==
    \A s \in SUBSET S : s # {} => \E x \in s : F[s] = g[x] + F[s \ {x}]

\* ... and is any of the terms and F of the others.
AnyFirst(F, g, S) ==
    \A s \in SUBSET S : \A x \in s : F[s] = g[x] + F[s \ {x}]

\* The sums exist.
LEMMA SumsIs ==
    ASSUME NEW S, IsFiniteSet(S), NEW g, \A x \in S : g[x] \in Nat
    PROVE  /\ Sums(g, S) \in [SUBSET S -> Nat]
           /\ Sums(g, S)[{}] = 0
           /\ SomeFirst(Sums(g, S), g, S)
<1> DEFINE D == SUBSET S
           c == [s \in D |-> CHOOSE x \in s : TRUE]
           m == [s \in D |-> Cardinality(s)]
           step == [s \in D |-> [f \in [D -> Nat] |->
                       IF s = {} THEN 0 ELSE g[c[s]] + f[s \ {c[s]}]]]
           Body(f) == [s \in D |-> IF s = {} THEN 0 ELSE g[c[s]] + f[s \ {c[s]}]]
<1>1. Sums(g, S) = CHOOSE f : f = Body(f)
  BY DEF Sums
<1>2. \A s \in D : s # {} => /\ c[s] \in s /\ g[c[s]] \in Nat
                             /\ s \ {c[s]} \in D
                             /\ m[s \ {c[s]}] < m[s]
  <2> SUFFICES ASSUME NEW s \in D, s # {}
               PROVE  /\ c[s] \in s /\ g[c[s]] \in Nat
                      /\ s \ {c[s]} \in D
                      /\ m[s \ {c[s]}] < m[s]
    OBVIOUS
  <2>1. c[s] \in s
    OBVIOUS
  <2>2. g[c[s]] \in Nat
    BY <2>1
  <2> HIDE DEF c
  <2> QED
    BY <2>1, <2>2, Subsets
<1>3. m \in [D -> Nat]
  BY Subsets
<1> HIDE DEF c, m
<1>4. Recursive(D, Nat, m, step)
  <2>1. step \in [D -> [[D -> Nat] -> Nat]]
    <3>1. ASSUME NEW s \in D, NEW f \in [D -> Nat]
          PROVE  (IF s = {} THEN 0 ELSE g[c[s]] + f[s \ {c[s]}]) \in Nat
      <4>1. CASE s = {}
        BY <4>1
      <4>2. CASE s # {}
        <5>1. g[c[s]] \in Nat /\ f[s \ {c[s]}] \in Nat
          BY <1>2, <4>2
        <5> HIDE DEF D
        <5> QED
          BY <4>2, <5>1
      <4> QED
        BY <4>1, <4>2
    <3> HIDE DEF D
    <3> QED
      BY <3>1
  <2>2. ASSUME NEW s \in D, NEW f \in [D -> Nat], NEW h \in [D -> Nat],
               \A t \in D : m[t] < m[s] => f[t] = h[t]
        PROVE  step[s][f] = step[s][h]
    <3>1. CASE s = {}
      BY <3>1
    <3>2. CASE s # {}
      <4>1. f[s \ {c[s]}] = h[s \ {c[s]}]
        BY <1>2, <2>2, <3>2
      <4> QED
        BY <3>2, <4>1
    <3> QED
      BY <3>1, <3>2
  <2>3. Nat # {}
    <3>1. 0 \in Nat
      OBVIOUS
    <3> QED
      BY <3>1
  <2> HIDE DEF step, D
  <2> QED
    BY <1>3, <2>1, <2>2, <2>3 DEF Recursive
<1>5. PICK f \in [D -> Nat] : \A s \in D : f[s] = step[s][f]
  <2> HIDE DEF step, D
  <2> QED
    BY <1>4, Recursion DEF Defines
<1>6. f = Body(f)
  BY <1>5
<1>7. Sums(g, S) = Body(Sums(g, S))
  <2> HIDE DEF D
  <2> QED
    BY <1>1, <1>6
<1> DEFINE F == Sums(g, S)
<1> HIDE DEF F
<1>8. \A s \in D : F[s] = IF s = {} THEN 0 ELSE g[c[s]] + F[s \ {c[s]}]
  BY <1>7 DEF F
<1>9. \A s \in D : F[s] \in Nat
  <2> DEFINE B == {s \in D : F[s] \notin Nat}
  <2> SUFFICES ASSUME B # {} PROVE FALSE
    OBVIOUS
  <2>3. PICK s \in B : \A t \in B : m[s] <= m[t]
    <3>1. \A s \in B : m[s] \in Nat
      BY <1>3
    <3> HIDE DEF B
    <3> QED
      BY <3>1, LeastMeasure
  <2>4. s # {}
    <3>1. s = {} => F[s] = 0
      BY <1>8, <2>3
    <3>2. F[s] \notin Nat
      BY <2>3
    <3> QED
      BY <3>1, <3>2
  <2>5. /\ g[c[s]] \in Nat /\ s \ {c[s]} \in D
        /\ m[s \ {c[s]}] < m[s]
    BY <1>2, <2>3, <2>4
  <2>6. F[s \ {c[s]}] \in Nat
    <3> SUFFICES ASSUME s \ {c[s]} \in B PROVE FALSE
      BY <2>5
    <3>1. m[s] <= m[s \ {c[s]}]
      BY <2>3
    <3>2. m[s] \in Nat /\ m[s \ {c[s]}] \in Nat
      BY <1>3, <2>3, <2>5
    <3> HIDE DEF B, D
    <3> QED
      BY <2>5, <3>1, <3>2
  <2>7. F[s] = g[c[s]] + F[s \ {c[s]}]
    BY <1>8, <2>3, <2>4
  <2> QED
    BY <2>3, <2>5, <2>6, <2>7
<1>10. F \in [D -> Nat]
  <2>1. F = [s \in D |-> F[s]]
    BY <1>7 DEF F
  <2> QED
    BY <1>9, <2>1
<1>11. {} \in D
  OBVIOUS
<1>12. \A s \in D : s # {} => \E x \in s : F[s] = g[x] + F[s \ {x}]
  BY <1>2, <1>8
<1> QED
  BY <1>8, <1>10, <1>11, <1>12 DEF F, SomeFirst

\* Any element may be taken out first.
LEMMA SumsRemove ==
    ASSUME NEW S, IsFiniteSet(S), NEW g, \A x \in S : g[x] \in Nat
    PROVE  AnyFirst(Sums(g, S), g, S)
<1> DEFINE F == Sums(g, S)
           m == [t \in SUBSET S |-> Cardinality(t)]
           B == {t \in SUBSET S : \E y \in t : F[t] # g[y] + F[t \ {y}]}
<1>0. F \in [SUBSET S -> Nat] /\ SomeFirst(F, g, S)
  BY SumsIs
<1>1. /\ \A t \in SUBSET S : F[t] \in Nat
      /\ \A t \in SUBSET S : t # {} => \E y \in t : F[t] = g[y] + F[t \ {y}]
  <2> HIDE DEF F
  <2> QED
    BY <1>0 DEF SomeFirst
<1> HIDE DEF F
<1> SUFFICES ASSUME B # {} PROVE FALSE
  BY DEF F, AnyFirst
<1>2. PICK t \in B : \A u \in B : m[t] <= m[u]
  <2>1. \A u \in B : m[u] \in Nat
    BY Subsets
  <2> HIDE DEF B, m
  <2> QED
    BY <2>1, LeastMeasure
<1>3. PICK y \in t : F[t] # g[y] + F[t \ {y}]
  BY <1>2
<1>4. PICK z \in t : F[t] = g[z] + F[t \ {z}]
  BY <1>1
<1>5. t \in SUBSET S /\ y # z
  BY <1>3, <1>4
<1>6. ASSUME NEW a \in t, NEW b \in t, a # b
      PROVE  F[t \ {a}] = g[b] + F[(t \ {a}) \ {b}]
  <2>1. t \ {a} \in SUBSET S /\ m[t \ {a}] < m[t] /\ m[t \ {a}] \in Nat /\ m[t] \in Nat
    BY <1>5, Subsets
  <2> HIDE DEF m
  <2>2. t \ {a} \notin B
    BY <1>2, <2>1
  <2>3. b \in t \ {a}
    BY <1>6
  <2> QED
    BY <2>1, <2>2, <2>3
<1>7. (t \ {y}) \ {z} = (t \ {z}) \ {y} /\ (t \ {y}) \ {z} \in SUBSET S
  BY <1>5
<1> DEFINE r == F[(t \ {y}) \ {z}]
<1>8. F[t \ {y}] = g[z] + r /\ F[t \ {z}] = g[y] + r
  BY <1>5, <1>6, <1>7
<1>9. r \in Nat /\ g[y] \in Nat /\ g[z] \in Nat
  BY <1>1, <1>5, <1>7
<1> HIDE DEF r, B, m
<1> QED
  BY <1>3, <1>4, <1>8, <1>9

\* The sum over a subset is the same whichever set it is a subset of, and depends
\* on the values there only.
LEMMA SumsSame ==
    ASSUME NEW S, IsFiniteSet(S), NEW g, \A x \in S : g[x] \in Nat,
           NEW R \in SUBSET S, NEW h, \A x \in R : h[x] = g[x]
    PROVE  \A s \in SUBSET R : Sums(h, R)[s] = Sums(g, S)[s]
<1> DEFINE F == Sums(g, S)
           H == Sums(h, R)
           m == [t \in SUBSET S |-> Cardinality(t)]
           B == {t \in SUBSET R : H[t] # F[t]}
<1>0. IsFiniteSet(R) /\ \A x \in R : h[x] \in Nat
  BY FS_Subset
<1>1. F[{}] = 0 /\ H[{}] = 0
  BY <1>0, SumsIs
<1>2. \A t \in SUBSET R : t # {} => \E y \in t : H[t] = h[y] + H[t \ {y}]
  <2>1. SomeFirst(H, h, R)
    BY <1>0, SumsIs
  <2> HIDE DEF H
  <2> QED
    BY <2>1 DEF SomeFirst
<1>3. \A t \in SUBSET S : \A y \in t : F[t] = g[y] + F[t \ {y}]
  <2>1. AnyFirst(F, g, S)
    BY SumsRemove
  <2> HIDE DEF F
  <2> QED
    BY <2>1 DEF AnyFirst
<1> HIDE DEF F, H
<1> SUFFICES ASSUME B # {} PROVE FALSE
  BY DEF F, H
<1>4. PICK t \in B : \A u \in B : m[t] <= m[u]
  <2>1. \A u \in B : m[u] \in Nat
    BY Subsets
  <2> HIDE DEF B, m
  <2> QED
    BY <2>1, LeastMeasure
<1>5. t \in SUBSET R /\ t # {}
  BY <1>1, <1>4
<1>6. PICK y \in t : H[t] = h[y] + H[t \ {y}]
  BY <1>2, <1>5
<1>7. H[t \ {y}] = F[t \ {y}]
  <2>1. t \ {y} \in SUBSET R /\ m[t \ {y}] < m[t] /\ m[t \ {y}] \in Nat /\ m[t] \in Nat
    BY <1>5, Subsets
  <2> HIDE DEF m
  <2> QED
    BY <1>4, <2>1
<1>8. F[t] = g[y] + F[t \ {y}] /\ h[y] = g[y]
  BY <1>3, <1>5
<1> QED
  BY <1>4, <1>6, <1>7, <1>8

\* The sum over nothing is 0.
LEMMA SumEmpty == ASSUME NEW g PROVE SumFunctionOnSet(g, {}) = 0
<1>1. IsFiniteSet({})
  BY FS_EmptySet
<1> QED
  BY <1>1, SumsIs, SumOfIs

\* A sum of natural numbers is one.
LEMMA SumType ==
    ASSUME NEW S, IsFiniteSet(S), NEW g, \A x \in S : g[x] \in Nat
    PROVE  SumFunctionOnSet(g, S) \in Nat
<1>1. Sums(g, S) \in [SUBSET S -> Nat]
  BY SumsIs
<1> QED
  BY <1>1, SumOfIs

\* Sums of the same values are the same.
LEMMA SumSame ==
    ASSUME NEW S, IsFiniteSet(S), NEW g, \A x \in S : g[x] \in Nat,
           NEW h, \A x \in S : h[x] = g[x]
    PROVE  SumFunctionOnSet(h, S) = SumFunctionOnSet(g, S)
<1>1. S \in SUBSET S
  OBVIOUS
<1>2. Sums(h, S)[S] = Sums(g, S)[S]
  BY <1>1, SumsSame
<1> QED
  BY <1>2, SumOfIs

\* A sum is any of its terms and the sum of the others.
LEMMA SumRemove ==
    ASSUME NEW S, IsFiniteSet(S), NEW g, \A x \in S : g[x] \in Nat, NEW x \in S
    PROVE  SumFunctionOnSet(g, S) = g[x] + SumFunctionOnSet(g, S \ {x})
<1> DEFINE R == S \ {x}
<1>1. S \in SUBSET S /\ R \in SUBSET S /\ R \in SUBSET R
  OBVIOUS
<1>2. Sums(g, S)[S] = g[x] + Sums(g, S)[R]
  BY <1>1, SumsRemove DEF AnyFirst
<1>3. Sums(g, R)[R] = Sums(g, S)[R]
  <2> HIDE DEF R
  <2> QED
    BY <1>1, SumsSame
<1> QED
  BY <1>2, <1>3, SumOfIs

\* The sum over a set is the sum over a part of it and the sum over the rest.
LEMMA SumSplit ==
    ASSUME NEW S, IsFiniteSet(S), NEW g, \A x \in S : g[x] \in Nat, NEW R \in SUBSET S
    PROVE  SumFunctionOnSet(g, S) = SumFunctionOnSet(g, R) + SumFunctionOnSet(g, S \ R)
<1> DEFINE m == [t \in SUBSET S |-> Cardinality(t)]
           B == {t \in SUBSET S : SumFunctionOnSet(g, S) # SumFunctionOnSet(g, t) + SumFunctionOnSet(g, S \ t)}
<1> SUFFICES ASSUME B # {} PROVE FALSE
  OBVIOUS
<1>1. PICK t \in B : \A u \in B : m[t] <= m[u]
  <2>1. \A u \in B : m[u] \in Nat
    BY Subsets
  <2> HIDE DEF B, m
  <2> QED
    BY <2>1, LeastMeasure
<1>2. t \in SUBSET S /\ SumFunctionOnSet(g, S) # SumFunctionOnSet(g, t) + SumFunctionOnSet(g, S \ t)
  BY <1>1
<1>3. SumFunctionOnSet(g, S) \in Nat
  BY SumType
<1>4. t # {}
  <2> SUFFICES ASSUME t = {} PROVE FALSE
    OBVIOUS
  <2>1. S \ t = S /\ SumFunctionOnSet(g, t) = 0
    BY SumEmpty
  <2> QED
    BY <1>2, <1>3, <2>1
<1>5. PICK x : x \in t
  BY <1>4
<1> DEFINE u == t \ {x}
           v == S \ u
<1>6. u \in SUBSET S /\ m[u] < m[t] /\ m[u] \in Nat /\ m[t] \in Nat
  BY <1>2, <1>5, Subsets
<1>7. SumFunctionOnSet(g, S) = SumFunctionOnSet(g, u) + SumFunctionOnSet(g, v)
  <2>1. u \notin B
    <3> HIDE DEF B, m, u
    <3> QED
      BY <1>1, <1>6
  <2> QED
    BY <1>6, <2>1
<1>8. v \in SUBSET S /\ x \in v /\ v \ {x} = S \ t /\ S \ t \in SUBSET S
  BY <1>2, <1>5
<1> HIDE DEF m, B
<1>9. IsFiniteSet(t) /\ IsFiniteSet(u) /\ IsFiniteSet(v) /\ IsFiniteSet(S \ t)
  BY <1>2, <1>6, <1>8, FS_Subset
<1>10. SumFunctionOnSet(g, t) = g[x] + SumFunctionOnSet(g, u)
  BY <1>2, <1>5, <1>9, SumRemove
<1> HIDE DEF v, u
<1>11. SumFunctionOnSet(g, v) = g[x] + SumFunctionOnSet(g, S \ t)
  <2>1. \A y \in v : g[y] \in Nat
    BY <1>8
  <2>2. SumFunctionOnSet(g, v) = g[x] + SumFunctionOnSet(g, v \ {x})
    BY <1>8, <1>9, <2>1, SumRemove
  <2> QED
    BY <1>8, <2>2
<1>12. /\ SumFunctionOnSet(g, u) \in Nat /\ SumFunctionOnSet(g, S \ t) \in Nat /\ g[x] \in Nat
  BY <1>2, <1>5, <1>6, <1>8, <1>9, SumType
<1> QED
  BY <1>2, <1>7, <1>10, <1>11, <1>12

\* The terms of h over S are those of g over K: no two are the same one.
Renumbering(h, S, at, g, K) ==
    /\ K = {at[x] : x \in S}
    /\ \A x \in S : h[x] = g[at[x]] /\ h[x] \in Nat
    /\ \A x, y \in S : at[x] = at[y] => x = y

\* A sum does not depend on how its terms are numbered.
LEMMA SumReindex ==
    ASSUME NEW S, IsFiniteSet(S), NEW g, NEW h, NEW at, NEW K,
           Renumbering(h, S, at, g, K)
    PROVE  SumFunctionOnSet(h, S) = SumFunctionOnSet(g, K)
<1>0. /\ K = {at[x] : x \in S}
      /\ \A x \in S : h[x] = g[at[x]] /\ h[x] \in Nat
      /\ \A x, y \in S : at[x] = at[y] => x = y
  BY DEF Renumbering
<1> DEFINE m == [t \in SUBSET S |-> Cardinality(t)]
           Im(t) == {at[x] : x \in t}
           B == {t \in SUBSET S : SumFunctionOnSet(h, t) # SumFunctionOnSet(g, Im(t))}
<1> SUFFICES ASSUME B # {} PROVE FALSE
  BY <1>0
<1>1. PICK t \in B : \A u \in B : m[t] <= m[u]
  <2>1. \A u \in B : m[u] \in Nat
    BY Subsets
  <2> HIDE DEF B, m
  <2> QED
    BY <2>1, LeastMeasure
<1>2. t \in SUBSET S /\ SumFunctionOnSet(h, t) # SumFunctionOnSet(g, Im(t))
  BY <1>1
<1>3. t # {}
  <2>1. Im({}) = {}
    OBVIOUS
  <2> QED
    BY <1>2, <2>1, SumEmpty
<1>4. PICK x : x \in t
  BY <1>3
<1> DEFINE u == t \ {x}
<1>5. u \in SUBSET S /\ m[u] < m[t] /\ m[u] \in Nat /\ m[t] \in Nat
  BY <1>2, <1>4, Subsets
<1>6. SumFunctionOnSet(h, u) = SumFunctionOnSet(g, Im(u))
  <2>1. u \notin B
    <3> HIDE DEF B, m, u
    <3> QED
      BY <1>1, <1>5
  <2> QED
    BY <1>5, <2>1
<1> HIDE DEF m, B
<1>7. IsFiniteSet(t) /\ IsFiniteSet(Im(t))
  <2>1. IsFiniteSet(t)
    BY <1>2, FS_Subset
  <2>2. [y \in t |-> at[y]] \in Surjection(t, Im(t))
    BY DEF Surjection
  <2>3. IsFiniteSet(Im(t))
    <3> HIDE DEF Im
    <3> QED
      BY <2>1, <2>2, FS_Surjection
  <2> QED
    BY <2>1, <2>3
<1>8. SumFunctionOnSet(h, t) = h[x] + SumFunctionOnSet(h, u)
  <2>1. \A y \in t : h[y] \in Nat
    BY <1>0, <1>2
  <2> QED
    BY <1>4, <1>7, <2>1, SumRemove
<1>9. /\ at[x] \in Im(t) /\ Im(t) \ {at[x]} = Im(u)
      /\ \A y \in Im(t) : g[y] \in Nat
  BY <1>0, <1>2, <1>4
<1>10. SumFunctionOnSet(g, Im(t)) = g[at[x]] + SumFunctionOnSet(g, Im(u))
  <2> DEFINE V == Im(t)
             y == at[x]
  <2>1. SumFunctionOnSet(g, V) = g[y] + SumFunctionOnSet(g, V \ {y})
    <3>1. IsFiniteSet(V) /\ y \in V /\ \A z \in V : g[z] \in Nat
      BY <1>7, <1>9
    <3> HIDE DEF V, y
    <3> QED
      BY <3>1, SumRemove
  <2> QED
    BY <1>9, <2>1
<1>11. h[x] = g[at[x]]
  BY <1>0, <1>2, <1>4
<1> HIDE DEF Im
<1> QED
  BY <1>2, <1>6, <1>8, <1>10, <1>11

-----------------------------------------------------------------------------
(* Loops. *)

\* Some function begins with a, and its value at i is a step from its value at i - 1.
Iterates(n, T, a, g) ==
    \E f \in [0..n -> T] : f[0] = a /\ \A i \in 1..n : f[i] = g[i][f[i - 1]]

\* A function whose value at i is a step from its value at i - 1 exists.
LEMMA Iteration ==
  ASSUME NEW n \in Nat, NEW T, NEW a \in T, NEW g \in [1..n -> [T -> T]]
  PROVE  Iterates(n, T, a, g)
<1> DEFINE D == 0..n
           m == [i \in D |-> i]
           step == [i \in D |-> [h \in [D -> T] |-> IF i = 0 THEN a ELSE g[i][h[i - 1]]]]
<1>1. \A i \in D : i # 0 => i \in 1..n /\ i - 1 \in D /\ i - 1 < i
  OBVIOUS
<1>2. T # {} /\ m \in [D -> Nat]
  OBVIOUS
<1>3. ASSUME NEW i \in D, NEW h \in [D -> T]
      PROVE  (IF i = 0 THEN a ELSE g[i][h[i - 1]]) \in T
  BY <1>1, <1>3
<1>4. step \in [D -> [[D -> T] -> T]]
  BY <1>3, ZenonT(30)
<1>5. ASSUME NEW k \in D, NEW p \in [D -> T], NEW q \in [D -> T],
             \A j \in D : m[j] < m[k] => p[j] = q[j]
      PROVE  step[k][p] = step[k][q]
  <2>1. CASE k = 0
    BY <2>1
  <2>2. CASE k # 0
    <3>1. p[k - 1] = q[k - 1]
      BY <1>1, <1>5, <2>2
    <3> QED
      BY <2>2, <3>1
  <2> QED
    BY <2>1, <2>2
<1> HIDE DEF m, step, D
<1>6. Recursive(D, T, m, step)
  BY <1>2, <1>4, <1>5, ZenonT(30) DEF Recursive
<1>7. Defines(D, T, step)
  BY <1>6, Recursion
<1>8. PICK f \in [D -> T] : \A k \in D : f[k] = step[k][f]
  BY <1>7 DEF Defines
<1>9. f[0] = a /\ \A i \in 1..n : f[i] = g[i][f[i - 1]]
  BY <1>8 DEF step, D
<1> QED
  BY <1>8, <1>9 DEF D, Iterates

\* Some function begins with a, goes on with the steps st, and is in G all the way.
Passes(n, T, G, a, st) ==
    \E f \in [0..n -> T] :
       /\ f[0] = a
       /\ \A i \in 1..n : f[i] = st[i][f[i - 1]]
       /\ \A i \in 0..n : f[i] \in G[i]

\* The same for steps that are only known to lead from G[i - 1] to G[i].
LEMMA Passing ==
  ASSUME NEW n \in Nat, NEW T, NEW G, \A i \in 0..n : G[i] \subseteq T,
         NEW a, a \in G[0],
         NEW st, \A i \in 1..n : \A x \in G[i - 1] : st[i][x] \in G[i]
  PROVE  Passes(n, T, G, a, st)
<1> DEFINE g == [i \in 1..n |-> [x \in T |-> IF x \in G[i - 1] THEN st[i][x] ELSE x]]
<1>0. 0 \in 0..n /\ \A i \in 1..n : i \in 0..n /\ i - 1 \in 0..n
  OBVIOUS
<1>1. ASSUME NEW i \in 1..n, NEW x \in T
      PROVE  (IF x \in G[i - 1] THEN st[i][x] ELSE x) \in T
  <2>1. x \in G[i - 1] => st[i][x] \in T
    BY <1>0, ZenonT(30)
  <2> QED
    BY <2>1
<1>2. g \in [1..n -> [T -> T]]
  BY <1>1, ZenonT(30)
<1>3. a \in T
  BY <1>0
<1>4. \A i \in 1..n : \A x \in T : x \in G[i - 1] => g[i][x] = st[i][x]
  OBVIOUS
<1> HIDE DEF g
<1>5. Iterates(n, T, a, g)
  BY <1>2, <1>3, Iteration
<1>6. PICK f \in [0..n -> T] : f[0] = a /\ \A i \in 1..n : f[i] = g[i][f[i - 1]]
  BY <1>5, ZenonT(30) DEF Iterates
<1>7. \A i \in 1..n : f[i - 1] \in G[i - 1] => f[i] = st[i][f[i - 1]] /\ f[i] \in G[i]
  <2> SUFFICES ASSUME NEW i \in 1..n, f[i - 1] \in G[i - 1]
               PROVE  f[i] = st[i][f[i - 1]] /\ f[i] \in G[i]
    OBVIOUS
  <2>1. f[i - 1] \in T
    BY <1>0, <1>6, ZenonT(30)
  <2>2. f[i] = g[i][f[i - 1]]
    BY <1>6
  <2>3. f[i] = st[i][f[i - 1]]
    BY <1>4, <2>1, <2>2, ZenonT(30)
  <2> QED
    BY <2>3, ZenonT(30)
<1>8. \A i \in 0..n : f[i] \in G[i]
  <2> DEFINE S == {i \in Nat : i <= n => f[i] \in G[i]}
  <2>1. 0 \in S
    BY <1>6
  <2>2. ASSUME NEW i \in Nat, i \in S PROVE i + 1 \in S
    <3>1. SUFFICES ASSUME i + 1 <= n PROVE f[i + 1] \in G[i + 1]
      BY <2>2
    <3>2. i + 1 \in 1..n /\ (i + 1) - 1 = i /\ f[i] \in G[i]
      BY <2>2, <3>1
    <3> QED
      BY <1>7, <3>2
  <2>3. Nat \subseteq S
    <3> HIDE DEF S
    <3> QED
      BY <2>1, <2>2, SetInduction
  <2> QED
    BY <2>3
<1>9. \A i \in 1..n : f[i] = st[i][f[i - 1]]
  BY <1>0, <1>7, <1>8, ZenonT(30)
<1> QED
  BY <1>6, <1>8, <1>9, ZenonT(30) DEF Passes

\* Two functions begin alike and go on alike; they are the same.
GoAlike(n, p, q) == p[0] = q[0] /\ \A i \in 1..n : p[i - 1] = q[i - 1] => p[i] = q[i]
Agree(n, p, q) == \A i \in 0..n : p[i] = q[i]

\* Two functions with the same start and the same steps are the same.
LEMMA SameSteps ==
  ASSUME NEW n \in Nat, NEW p, NEW q, GoAlike(n, p, q)
  PROVE  Agree(n, p, q)
<1> DEFINE S == {i \in Nat : i <= n => p[i] = q[i]}
<1>1. 0 \in S
  BY DEF GoAlike
<1>2. ASSUME NEW i \in Nat, i \in S PROVE i + 1 \in S
  <2>1. SUFFICES ASSUME i + 1 <= n PROVE p[i + 1] = q[i + 1]
    BY <1>2
  <2>2. i + 1 \in 1..n /\ (i + 1) - 1 = i /\ p[i] = q[i]
    BY <1>2, <2>1
  <2> QED
    BY <2>2 DEF GoAlike
<1>3. Nat \subseteq S
  <2> HIDE DEF S
  <2> QED
    BY <1>1, <1>2, SetInduction
<1> QED
  BY <1>3 DEF Agree

-----------------------------------------------------------------------------
(* Strings behind each other. *)

\* The strings that a loop has after each turn which appends one of ss.
JoiningSteps(A, n, ss, f) ==
    /\ f \in [0..n -> Seq(A)]
    /\ f[0] = <<>> /\ f[n] = Joined(ss)
    /\ \A i \in 1..n : f[i] = f[i - 1] \o ss[i]

\* Joined is what such a loop ends with.
LEMMA JoiningIs ==
  ASSUME NEW A, NEW n \in Nat, NEW ss \in [1..n -> Seq(A)]
  PROVE  \E f : JoiningSteps(A, n, ss, f)
<1> DEFINE T == Seq(A)
           Body(f) == [i \in 0..n |-> IF i = 0 THEN <<>> ELSE f[i - 1] \o ss[i]]
           first == CHOOSE f : f = Body(f)
           g == [i \in 1..n |-> [x \in T |-> x \o ss[i]]]
<1>1. ss \in Seq(T) /\ Len(ss) = n
  OBVIOUS
<1>2. g \in [1..n -> [T -> T]] /\ <<>> \in T
  OBVIOUS
<1>3. PICK f \in [0..n -> T] : f[0] = <<>> /\ \A i \in 1..n : f[i] = g[i][f[i - 1]]
  <2> DEFINE a == <<>>
  <2>1. a \in T /\ g \in [1..n -> [T -> T]]
    BY <1>2
  <2> HIDE DEF g, T, a
  <2>2. Iterates(n, T, a, g)
    BY <2>1, Iteration
  <2> QED
    BY <2>2 DEF a, Iterates
<1>4. \A i \in 1..n : i - 1 \in 0..n /\ f[i - 1] \in T /\ f[i] = f[i - 1] \o ss[i]
  <2> SUFFICES ASSUME NEW i \in 1..n
               PROVE  i - 1 \in 0..n /\ f[i - 1] \in T /\ f[i] = f[i - 1] \o ss[i]
    OBVIOUS
  <2>1. i - 1 \in 0..n
    OBVIOUS
  <2> HIDE DEF T
  <2>2. f[i - 1] \in T
    BY <1>3, <2>1
  <2>3. f[i] = g[i][f[i - 1]]
    BY <1>3
  <2> QED
    BY <2>1, <2>2, <2>3
<1>5. f = Body(f)
  <2>1. \A i \in 0..n : f[i] = IF i = 0 THEN <<>> ELSE f[i - 1] \o ss[i]
    <3> HIDE DEF T, g
    <3>1. \A i \in 0..n : i # 0 => i \in 1..n
      OBVIOUS
    <3> QED
      BY <1>3, <1>4, <3>1
  <2> QED
    BY <1>3, <2>1
<1>6. first = Body(first)
  BY <1>5, ZenonT(30)
<1>7. Joined(ss) = first[n]
  BY <1>1, ZenonT(30) DEF Joined
<1> HIDE DEF first
<1>8. first[0] = <<>> /\ \A i \in 1..n : first[i] = first[i - 1] \o ss[i]
  <2>1. \A i \in 0..n : first[i] = IF i = 0 THEN <<>> ELSE first[i - 1] \o ss[i]
    BY <1>6, ZenonT(30)
  <2>2. 0 \in 0..n /\ \A i \in 1..n : i \in 0..n /\ i # 0
    OBVIOUS
  <2> QED
    BY <2>1, <2>2, ZenonT(30)
<1> HIDE DEF T
<1>9. \A i \in 0..n : first[i] \in T
  <2> DEFINE S == {i \in Nat : i <= n => first[i] \in T}
  <2>1. 0 \in S
    BY <1>2, <1>8
  <2>2. ASSUME NEW i \in Nat, i \in S PROVE i + 1 \in S
    <3>1. SUFFICES ASSUME i + 1 <= n PROVE first[i + 1] \in T
      BY <2>2
    <3>2. i + 1 \in 1..n /\ (i + 1) - 1 = i /\ first[i] \in T /\ ss[i + 1] \in T
      BY <2>2, <3>1 DEF T
    <3>3. first[i + 1] = first[i] \o ss[i + 1]
      BY <1>8, <3>2
    <3> QED
      BY <3>2, <3>3 DEF T
  <2>3. Nat \subseteq S
    <3> HIDE DEF S
    <3> QED
      BY <2>1, <2>2, SetInduction
  <2> QED
    BY <2>3
<1>10. first \in [0..n -> Seq(A)]
  BY <1>6, <1>9 DEF T
<1> QED
  BY <1>7, <1>8, <1>10, ZenonT(30) DEF JoiningSteps

\* The strings of ss are behind each other in s, from off[0] on: the i-th ends at
\* off[i].
JoinedAt(s, n, ss, off) ==
    /\ off \in [0..n -> Nat]
    /\ off[0] = 0 /\ off[n] = Len(s)
    /\ \A i \in 1..n : off[i] = off[i - 1] + Len(ss[i])
    /\ \A i \in 1..n : \A k \in 1..Len(ss[i]) :
          off[i - 1] + k <= off[n] /\ s[off[i - 1] + k] = ss[i][k]

IsJoined(A, s, n, ss) == s \in Seq(A) /\ \E off : JoinedAt(s, n, ss, off)

\* What Joined gives.
LEMMA JoinedIs ==
  ASSUME NEW A, NEW n \in Nat, NEW ss \in [1..n -> Seq(A)]
  PROVE  IsJoined(A, Joined(ss), n, ss)
<1> DEFINE T == Seq(A)
<1>1. PICK first : JoiningSteps(A, n, ss, first)
  BY JoiningIs
<1>2. Joined(ss) = first[n]
  BY <1>1 DEF JoiningSteps
<1>3. first[0] = <<>> /\ \A i \in 1..n : first[i] = first[i - 1] \o ss[i]
  BY <1>1, ZenonT(30) DEF JoiningSteps
<1>4. \A i \in 0..n : first[i] \in T
  BY <1>1 DEF JoiningSteps
<1> HIDE DEF T
<1> DEFINE off == [i \in 0..n |-> Len(first[i])]
<1>5. off \in [0..n -> Nat] /\ off[0] = 0 /\ off[n] = Len(first[n])
  BY <1>3, <1>4 DEF T
<1>6. ASSUME NEW i \in 1..n
       PROVE  /\ i - 1 \in 0..n /\ i \in 0..n /\ first[i - 1] \in T /\ ss[i] \in T
              /\ off[i] = off[i - 1] + Len(ss[i])
              /\ \A k \in 1..Len(ss[i]) : first[i][off[i - 1] + k] = ss[i][k]
              /\ \A k \in 1..off[i - 1] : first[i][k] = first[i - 1][k]
  <2>1. i - 1 \in 0..n /\ i \in 0..n /\ first[i - 1] \in T /\ ss[i] \in T
    BY <1>4 DEF T
  <2>2. first[i] = first[i - 1] \o ss[i]
    BY <1>3
  <2>3. off[i] = Len(first[i]) /\ off[i - 1] = Len(first[i - 1])
    BY <2>1
  <2> HIDE DEF off
  <2> QED
    BY <2>1, <2>2, <2>3 DEF T
<1> HIDE DEF off
<1>7. \A j \in 0..n : \A i \in 1..j : \A k \in 1..Len(ss[i]) :
           off[i - 1] + k <= off[j] /\ first[j][off[i - 1] + k] = ss[i][k]
  <2> DEFINE Good(j) == \A i \in 1..j : \A k \in 1..Len(ss[i]) :
                 off[i - 1] + k <= off[j] /\ first[j][off[i - 1] + k] = ss[i][k]
             S == {j \in Nat : j <= n => Good(j)}
  <2>1. 0 \in S
    OBVIOUS
  <2>2. ASSUME NEW j \in Nat, j \in S PROVE j + 1 \in S
    <3>1. SUFFICES ASSUME j + 1 <= n, NEW i \in 1..(j + 1), NEW k \in 1..Len(ss[i])
                   PROVE  /\ off[i - 1] + k <= off[j + 1]
                          /\ first[j + 1][off[i - 1] + k] = ss[i][k]
      OBVIOUS
    <3>2. j + 1 \in 1..n /\ (j + 1) - 1 = j /\ Good(j) /\ i \in 1..n /\ i - 1 \in 0..n /\ j \in 0..n
      BY <2>2, <3>1
    <3> HIDE DEF Good
    <3>3. ss[i] \in T /\ off[i - 1] \in Nat /\ off[j] \in Nat /\ off[j + 1] \in Nat
      BY <1>5, <1>6, <3>2
    <3>4. k \in Nat /\ k >= 1
      BY <3>3 DEF T
    <3>5. off[j + 1] = off[j] + Len(ss[j + 1]) /\ Len(ss[j + 1]) \in Nat
      BY <1>6, <3>2 DEF T
    <3>6. CASE i = j + 1
      <4>1. first[j + 1][off[i - 1] + k] = ss[i][k]
        BY <1>6, <3>2, <3>6
      <4>2. i - 1 = j /\ k <= Len(ss[j + 1])
        BY <3>1, <3>6
      <4>3. off[i - 1] + k <= off[j + 1]
        BY <3>3, <3>4, <3>5, <4>2
      <4> QED
        BY <4>1, <4>3
    <3>7. CASE i # j + 1
      <4>1. i \in 1..j
        BY <3>1, <3>7
      <4>2. off[i - 1] + k <= off[j] /\ first[j][off[i - 1] + k] = ss[i][k]
        BY <3>1, <3>2, <4>1 DEF Good
      <4>3. off[i - 1] + k \in 1..off[(j + 1) - 1]
        BY <3>2, <3>3, <3>4, <4>2
      <4>4. first[j + 1][off[i - 1] + k] = first[(j + 1) - 1][off[i - 1] + k]
        BY <1>6, <3>2, <4>3
      <4>5. off[i - 1] + k <= off[j + 1]
        BY <3>3, <3>4, <3>5, <4>2
      <4> QED
        BY <3>2, <4>2, <4>4, <4>5
    <3> QED
      BY <3>6, <3>7
  <2>3. Nat \subseteq S
    <3> HIDE DEF S
    <3> QED
      BY <2>1, <2>2, SetInduction
  <2> QED
    BY <2>3
<1>8. JoinedAt(first[n], n, ss, off)
  <2>1. \A i \in 1..n : \A k \in 1..Len(ss[i]) :
            off[i - 1] + k <= off[n] /\ first[n][off[i - 1] + k] = ss[i][k]
    <3>1. n \in 0..n
      OBVIOUS
    <3> QED
      BY <1>7, <3>1
  <2>2. \A i \in 1..n : off[i] = off[i - 1] + Len(ss[i])
    BY <1>6
  <2> QED
    BY <1>5, <2>1, <2>2, ZenonT(30) DEF JoinedAt
<1>9. n \in 0..n
  OBVIOUS
<1> QED
  BY <1>2, <1>4, <1>8, <1>9, ZenonT(30) DEF IsJoined, T


\* One string more is behind the others.
LEMMA JoinedAppend ==
  ASSUME NEW A, NEW n \in Nat, NEW ss \in [1..n -> Seq(A)],
         NEW tt \in [1..(n + 1) -> Seq(A)], \A i \in 1..n : tt[i] = ss[i]
  PROVE  Joined(tt) = Joined(ss) \o tt[n + 1]
<1>1. PICK f : JoiningSteps(A, n, ss, f)
  BY JoiningIs
<1>2. n + 1 \in Nat
  OBVIOUS
<1>3. PICK g : JoiningSteps(A, n + 1, tt, g)
  BY <1>2, JoiningIs
<1>4. /\ f[0] = <<>> /\ f[n] = Joined(ss)
      /\ \A i \in 1..n : f[i] = f[i - 1] \o ss[i]
  BY <1>1, ZenonT(30) DEF JoiningSteps
<1>5. /\ g[0] = <<>> /\ g[n + 1] = Joined(tt)
      /\ \A i \in 1..(n + 1) : g[i] = g[i - 1] \o tt[i]
  BY <1>3, ZenonT(30) DEF JoiningSteps
<1>6. \A i \in 1..n : i \in 1..(n + 1)
  OBVIOUS
<1>7. \A i \in 1..n : g[i - 1] = f[i - 1] => g[i] = f[i]
  BY <1>4, <1>5, <1>6, ZenonT(30)
<1>8. \A i \in 0..n : g[i] = f[i]
  <2>1. GoAlike(n, g, f)
    BY <1>4, <1>5, <1>7 DEF GoAlike
  <2>2. Agree(n, g, f)
    BY <2>1, SameSteps
  <2> QED
    BY <2>2 DEF Agree
<1>9. n \in 0..n /\ n + 1 \in 1..(n + 1) /\ (n + 1) - 1 = n
  OBVIOUS
<1>10. g[n + 1] = g[(n + 1) - 1] \o tt[n + 1]
  BY <1>5, <1>9, ZenonT(30)
<1> QED
  BY <1>4, <1>5, <1>8, <1>9, <1>10

\* Offsets that never go down are at most the last.
LEMMA Rising ==
  ASSUME NEW n \in Nat, NEW p \in [0..n -> Nat], \A i \in 1..n : p[i - 1] <= p[i]
  PROVE  \A i \in 0..n : p[i] <= p[n]
<1> DEFINE S == {k \in Nat : k <= n => p[n - k] <= p[n]}
<1>1. 0 \in S
  OBVIOUS
<1>2. ASSUME NEW k \in Nat, k \in S PROVE k + 1 \in S
  <2>1. SUFFICES ASSUME k + 1 <= n PROVE p[n - (k + 1)] <= p[n]
    BY <1>2
  <2>2. n - k \in 1..n /\ (n - k) - 1 = n - (k + 1) /\ p[n - k] <= p[n]
        /\ n - (k + 1) \in 0..n /\ n - k \in 0..n /\ n \in 0..n
    BY <1>2, <2>1
  <2>3. p[n - (k + 1)] <= p[n - k]
    BY <2>2
  <2>4. p[n - (k + 1)] \in Nat /\ p[n - k] \in Nat /\ p[n] \in Nat
    BY <2>2
  <2> QED
    BY <2>2, <2>3, <2>4
<1>3. Nat \subseteq S
  <2> HIDE DEF S
  <2> QED
    BY <1>1, <1>2, SetInduction
<1>4. ASSUME NEW i \in 0..n PROVE p[i] <= p[n]
  <2>1. n - i \in Nat /\ n - i <= n /\ n - (n - i) = i
    OBVIOUS
  <2> QED
    BY <1>3, <2>1
<1> QED
  BY <1>4

\* Every place below the last offset is in one of the strings.
LEMMA Covered ==
  ASSUME NEW n \in Nat, NEW off \in [0..n -> Nat], off[0] = 0, NEW x \in 1..off[n]
  PROVE  \E i \in 1..n : off[i - 1] < x /\ x <= off[i]
<1> DEFINE S == {i \in 0..n : x <= off[i]}
<1>1. n \in 0..n /\ off[n] \in Nat
  OBVIOUS
<1>2. S \subseteq Nat /\ n \in S
  BY <1>1
<1>3. PICK i \in S : \A j \in S : i <= j
  <2> HIDE DEF S
  <2> QED
    BY <1>2, Least
<1>4. i # 0 /\ i \in 1..n /\ i - 1 \in 0..n
  BY <1>1, <1>3
<1>5. ~(x <= off[i - 1])
  BY <1>3, <1>4
<1> QED
  BY <1>3, <1>4, <1>5

=============================================================================
