----------------------------- MODULE FiniteLemmas -----------------------------
(***************************************************************************)
(* Facts about the operators of the community modules that the models use  *)
(* on finite sets: a sum or a request folded over a set, a set put into an *)
(* order, and how many values a function takes.                            *)
(* The library's induction theorems take a predicate as a parameter; here  *)
(* induction is over a set of numbers, which the provers can instantiate.  *)
(***************************************************************************)
EXTENDS Integers, FiniteSets, SequencesExt, FiniteSetTheorems, WellFoundedInduction,
        TLAPS

(* A set of numbers that has 0, and the successor of each of its members,  *)
(* has every number.                                                       *)
LEMMA SetInduction ==
  ASSUME NEW P, 0 \in P, \A n \in Nat : n \in P => n + 1 \in P
  PROVE  \A n \in Nat : n \in P
<1> SUFFICES ASSUME Nat \ P # {} PROVE FALSE
  OBVIOUS
<1>1. IsWellFoundedOn(OpToRel(<, Nat), Nat)
  BY NatLessThanWellFounded
<1>2. PICK m \in Nat \ P : \A n \in Nat \ P : ~ (<<n, m>> \in OpToRel(<, Nat))
  BY <1>1, WFMin
<1>3. \A n \in Nat \ P : ~ (n < m)
  BY <1>2 DEF OpToRel
<1>4. m \in Nat /\ m # 0
  BY <1>2
<1>5. m - 1 \in Nat /\ m - 1 < m /\ (m - 1) + 1 = m
  BY <1>4
<1>6. m - 1 \in P
  BY <1>3, <1>5
<1>7. QED BY <1>2, <1>5, <1>6

LEMMA LeastExists ==
  ASSUME NEW S \in SUBSET Nat, S # {}
  PROVE  \E m \in S : \A x \in S : m <= x
<1>1. IsWellFoundedOn(OpToRel(<, Nat), Nat)
  BY NatLessThanWellFounded
<1>2. PICK m \in S : \A x \in S : ~ (<<x, m>> \in OpToRel(<, Nat))
  BY <1>1, WFMin
<1>3. \A x \in S : ~ (x < m)
  BY <1>2 DEF OpToRel
<1>4. QED BY <1>3

-----------------------------------------------------------------------------
(* The element of a set that a fold takes next.                            *)
Taken(s) == CHOOSE x \in s : TRUE

(* it is the function, over the subsets of S, by which MapThenFoldSet sums *)
(* the numbers w[x].                                                       *)
Sums(it, w, S) ==
  it = [s \in SUBSET S |-> IF s = {} THEN 0 ELSE w[Taken(s)] + it[s \ {Taken(s)}]]

LEMMA TakenIsElement == \A s : s # {} => Taken(s) \in s
BY DEF Taken

(* The subsets that have at most n elements.                               *)
UpTo(S, n) == {s \in SUBSET S : Cardinality(s) <= n}

LEMMA TakenIsFewer ==
  ASSUME NEW S, IsFiniteSet(S), NEW s \in SUBSET S, s # {}
  PROVE  /\ Cardinality(s) \in Nat \ {0}
         /\ s \ {Taken(s)} \in SUBSET S
         /\ Cardinality(s \ {Taken(s)}) = Cardinality(s) - 1
<1>1. IsFiniteSet(s) /\ Cardinality(s) \in Nat
  BY FS_Subset, FS_CardinalityType
<1>2. Cardinality(s) # 0
  BY <1>1, FS_EmptySet
<1>3. QED BY <1>1, <1>2, TakenIsElement, FS_RemoveElement

(* The recursive function of a sum exists: TLA+ has no axiom for that, so  *)
(* it is built up from functions on ever larger subsets.                   *)
LEMMA SumsExists ==
  ASSUME NEW S, IsFiniteSet(S), NEW w
  PROVE  \E it : Sums(it, w, S)
<1> DEFINE Part(g, n) ==
      g = [s \in UpTo(S, n) |-> IF s = {} THEN 0 ELSE w[Taken(s)] + g[s \ {Taken(s)}]]
           P == {n \in Nat : \E g : Part(g, n)}
<1>0. \A s \in SUBSET S : IsFiniteSet(s) /\ Cardinality(s) \in Nat
  BY FS_Subset, FS_CardinalityType
<1>1. 0 \in P
  <2> DEFINE g == [s \in UpTo(S, 0) |-> 0]
  <2>1. \A s \in UpTo(S, 0) : s = {}
    BY <1>0, FS_EmptySet DEF UpTo
  <2>2. Part(g, 0)
    BY <2>1
  <2>3. QED BY <2>2
<1>2. ASSUME NEW n \in Nat, n \in P PROVE n + 1 \in P
  <2>1. PICK g : Part(g, n)
    BY <1>2
  <2> DEFINE F(h, s) == IF s = {} THEN 0 ELSE w[Taken(s)] + h[s \ {Taken(s)}]
             h == [s \in UpTo(S, n + 1) |-> F(g, s)]
  <2>2. \A s \in UpTo(S, n + 1) : s # {} => s \ {Taken(s)} \in UpTo(S, n)
    BY TakenIsFewer, <1>0 DEF UpTo
  <2>3. UpTo(S, n) \subseteq UpTo(S, n + 1)
    BY <1>0 DEF UpTo
  <2>4. g = [s \in UpTo(S, n) |-> F(g, s)]
    BY <2>1
  <2>5. \A s \in UpTo(S, n) : h[s] = g[s]
    <3> HIDE DEF F
    <3>1. \A s \in UpTo(S, n) : g[s] = F(g, s)
      BY <2>4
    <3>2. \A s \in UpTo(S, n + 1) : h[s] = F(g, s)
      OBVIOUS
    <3>3. QED BY <2>3, <3>1, <3>2
  <2> HIDE DEF h
  <2>6. \A s \in UpTo(S, n + 1) : F(h, s) = F(g, s)
    BY <2>2, <2>5
  <2>7. h = [s \in UpTo(S, n + 1) |-> F(h, s)]
    <3> HIDE DEF F
    <3>1. QED BY <2>6 DEF h
  <2>8. Part(h, n + 1)
    BY <2>7
  <2>9. QED BY <2>8
<1>3. Cardinality(S) \in Nat /\ Cardinality(S) \in P
  <2> HIDE DEF P
  <2>1. QED BY <1>1, <1>2, SetInduction, FS_CardinalityType
<1>4. UpTo(S, Cardinality(S)) = SUBSET S
  BY FS_Subset DEF UpTo
<1>5. QED BY <1>3, <1>4 DEF Sums

(* A sum over a set does not depend on the order in which it is folded.    *)
LEMMA SumsFacts ==
  ASSUME NEW S, IsFiniteSet(S), NEW w, \A x \in S : w[x] \in Nat,
         NEW it, Sums(it, w, S)
  PROVE  /\ it[{}] = 0
         /\ \A s \in SUBSET S : it[s] \in Nat
         /\ \A s \in SUBSET S : \A x \in s : it[s] = w[x] + it[s \ {x}]
<1> DEFINE Good(s) == /\ it[s] \in Nat
                      /\ \A x \in s : it[s] = w[x] + it[s \ {x}]
           P == {n \in Nat : \A s \in UpTo(S, n) : Good(s)}
<1>0. \A s \in SUBSET S : IsFiniteSet(s) /\ Cardinality(s) \in Nat
  BY FS_Subset, FS_CardinalityType
<1>1. it[{}] = 0
  BY DEF Sums
<1>2. \A s \in SUBSET S : s # {} => it[s] = w[Taken(s)] + it[s \ {Taken(s)}]
  BY DEF Sums
<1>. Good({})
  BY <1>1
<1>3. 0 \in P
  <2>1. \A s \in UpTo(S, 0) : s = {}
    BY <1>0, FS_EmptySet DEF UpTo
  <2> HIDE DEF Good
  <2>2. QED BY <2>1
<1>4. ASSUME NEW n \in Nat, n \in P PROVE n + 1 \in P
  <2> SUFFICES ASSUME NEW s \in UpTo(S, n + 1), s # {} PROVE Good(s)
    <3> HIDE DEF Good
    <3>1. QED OBVIOUS
  <2> DEFINE t == Taken(s)
  <2>1. s \in SUBSET S /\ t \in s /\ t \in S
    BY TakenIsElement DEF UpTo
  <2>2. \A x \in s : s \ {x} \in UpTo(S, n) /\ Good(s \ {x})
    <3>1. ASSUME NEW x \in s PROVE s \ {x} \in UpTo(S, n)
      <4>1. Cardinality(s \ {x}) = Cardinality(s) - 1 /\ Cardinality(s) <= n + 1
        BY <1>0, <2>1, FS_RemoveElement DEF UpTo
      <4>2. QED BY <1>0, <2>1, <4>1 DEF UpTo
    <3>2. QED BY <1>4, <3>1
  <2>3. it[s] = w[t] + it[s \ {t}] /\ it[s \ {t}] \in Nat /\ w[t] \in Nat
    BY <1>2, <2>1, <2>2
  <2>4. ASSUME NEW x \in s, x # t PROVE it[s] = w[x] + it[s \ {x}]
    <3>1. x \in s \ {t} /\ t \in s \ {x} /\ w[x] \in Nat
      BY <2>1, <2>4
    <3>2. it[s \ {t}] = w[x] + it[(s \ {t}) \ {x}]
      BY <2>1, <2>2, <3>1
    <3>3. it[s \ {x}] = w[t] + it[(s \ {x}) \ {t}]
      BY <2>1, <2>2, <3>1
    <3>4. (s \ {t}) \ {x} = (s \ {x}) \ {t}
      OBVIOUS
    <3>5. (s \ {t}) \ {x} \in UpTo(S, n)
      <4>1. Cardinality((s \ {t}) \ {x}) <= Cardinality(s \ {t})
        BY <1>0, <2>1, FS_Subset
      <4>2. Cardinality(s \ {t}) <= n
        BY <2>1, <2>2 DEF UpTo
      <4>3. QED BY <1>0, <2>1, <4>1, <4>2 DEF UpTo
    <3>6. it[(s \ {t}) \ {x}] \in Nat
      BY <1>4, <3>5
    <3> DEFINE most == it[s \ {t}]
               other == it[s \ {x}]
               rest == it[(s \ {t}) \ {x}]
    <3>7. /\ it[s] = w[t] + most /\ most = w[x] + rest /\ other = w[t] + rest
          /\ {w[t], w[x], rest} \subseteq Nat
      BY <2>3, <3>1, <3>2, <3>3, <3>4, <3>6
    <3> HIDE DEF most, other, rest, t, Good
    <3>8. it[s] = w[x] + other
      BY <3>7
    <3>9. QED BY <3>8 DEF other
  <2>5. \A x \in s : it[s] = w[x] + it[s \ {x}]
    BY <2>3, <2>4
  <2>6. it[s] \in Nat
    BY <2>3
  <2>7. QED BY <2>5, <2>6
<1>5. \A n \in Nat : n \in P
  <2> HIDE DEF P
  <2>1. QED BY <1>3, <1>4, SetInduction
<1>6. \A s \in SUBSET S : Good(s)
  BY <1>0, <1>5 DEF UpTo
<1>7. QED BY <1>1, <1>6

-----------------------------------------------------------------------------
(* The sum of the numbers w[x] of the elements x of S.                     *)
Total(w, S) == (CHOOSE it : Sums(it, w, S))[S]

(* Sums of equal numbers are equal, though they are parts of other sums.   *)
LEMMA SumsAgree ==
  ASSUME NEW S, IsFiniteSet(S), NEW w, \A x \in S : w[x] \in Nat,
         NEW it, Sums(it, w, S),
         NEW T, IsFiniteSet(T), NEW v, \A x \in T : v[x] \in Nat,
         NEW ti, Sums(ti, v, T),
         NEW U \in SUBSET S, U \in SUBSET T, \A x \in U : w[x] = v[x]
  PROVE  it[U] = ti[U]
<1> DEFINE P == {n \in Nat : \A s \in UpTo(U, n) : it[s] = ti[s]}
<1>0. \A s \in SUBSET U : /\ IsFiniteSet(s) /\ Cardinality(s) \in Nat
                          /\ s \in SUBSET S /\ s \in SUBSET T
  BY FS_Subset, FS_CardinalityType
<1>b. it[{}] = 0 /\ ti[{}] = 0
  BY SumsFacts
<1>1. 0 \in P
  <2>1. \A s \in UpTo(U, 0) : s = {}
    BY <1>0, FS_EmptySet DEF UpTo
  <2>2. QED BY <1>b, <2>1
<1>2. ASSUME NEW n \in Nat, n \in P PROVE n + 1 \in P
  <2> SUFFICES ASSUME NEW s \in UpTo(U, n + 1), s # {} PROVE it[s] = ti[s]
    BY <1>b
  <2>1. PICK x : x \in s
    OBVIOUS
  <2>2. s \in SUBSET U /\ x \in S /\ x \in T /\ w[x] = v[x]
    BY <2>1 DEF UpTo
  <2>3. it[s] = w[x] + it[s \ {x}]
    BY <1>0, <2>1, <2>2, SumsFacts
  <2>4. ti[s] = v[x] + ti[s \ {x}]
    BY <1>0, <2>1, <2>2, SumsFacts
  <2>5. s \ {x} \in UpTo(U, n)
    <3>1. Cardinality(s \ {x}) = Cardinality(s) - 1 /\ Cardinality(s) <= n + 1
      BY <1>0, <2>1, <2>2, FS_RemoveElement DEF UpTo
    <3>2. QED BY <1>0, <2>2, <3>1 DEF UpTo
  <2>6. it[s \ {x}] = ti[s \ {x}]
    BY <1>2, <2>5
  <2>7. QED BY <2>2, <2>3, <2>4, <2>6
<1>3. \A n \in Nat : n \in P
  <2> HIDE DEF P
  <2>1. QED BY <1>1, <1>2, SetInduction
<1>4. U \in UpTo(U, Cardinality(U)) /\ Cardinality(U) \in Nat
  BY <1>0 DEF UpTo
<1>5. QED BY <1>3, <1>4

LEMMA TotalSums ==
  ASSUME NEW S, IsFiniteSet(S), NEW w
  PROVE  \E it : Sums(it, w, S) /\ Total(w, S) = it[S]
BY SumsExists DEF Total

LEMMA TotalSame ==
  ASSUME NEW S, IsFiniteSet(S), NEW w, \A x \in S : w[x] \in Nat,
         NEW v, \A x \in S : w[x] = v[x]
  PROVE  Total(w, S) = Total(v, S)
<1>1. PICK it : Sums(it, w, S) /\ Total(w, S) = it[S]
  BY TotalSums
<1>2. PICK ti : Sums(ti, v, S) /\ Total(v, S) = ti[S]
  BY TotalSums
<1>3. QED BY <1>1, <1>2, SumsAgree

LEMMA TotalFacts ==
  ASSUME NEW S, IsFiniteSet(S), NEW w, \A x \in S : w[x] \in Nat
  PROVE  /\ Total(w, S) \in Nat
         /\ S = {} => Total(w, S) = 0
         /\ \A x \in S : Total(w, S) = w[x] + Total(w, S \ {x})
<1>1. PICK it : Sums(it, w, S) /\ Total(w, S) = it[S]
  BY TotalSums
<1>2. Total(w, S) \in Nat /\ (S = {} => Total(w, S) = 0)
  <2>1. it[{}] = 0 /\ it[S] \in Nat
    BY <1>1, SumsFacts
  <2>2. QED BY <1>1, <2>1
<1>3. ASSUME NEW x \in S PROVE Total(w, S) = w[x] + Total(w, S \ {x})
  <2>1. IsFiniteSet(S \ {x}) /\ S \ {x} \in SUBSET S
    BY FS_Subset
  <2>2. PICK ti : Sums(ti, w, S \ {x}) /\ Total(w, S \ {x}) = ti[S \ {x}]
    BY <2>1, TotalSums
  <2>3. it[S \ {x}] = ti[S \ {x}]
    BY <1>1, <2>1, <2>2, SumsAgree
  <2>4. it[S] = w[x] + it[S \ {x}]
    BY <1>1, SumsFacts
  <2>5. QED BY <1>1, <2>2, <2>3, <2>4
<1>4. QED BY <1>2, <1>3

(* When the number of one element changes, so does the sum.                *)
LEMMA TotalChanges ==
  ASSUME NEW S, IsFiniteSet(S), NEW x \in S,
         NEW w, \A y \in S : w[y] \in Nat,
         NEW v, \A y \in S : v[y] \in Nat,
         \A y \in S \ {x} : w[y] = v[y]
  PROVE  Total(v, S) = (Total(w, S) - w[x]) + v[x]
<1>1. IsFiniteSet(S \ {x})
  BY FS_Subset
<1>2. Total(w, S \ {x}) = Total(v, S \ {x}) /\ Total(w, S \ {x}) \in Nat
  BY <1>1, TotalSame, TotalFacts
<1>3. Total(w, S) = w[x] + Total(w, S \ {x})
  BY TotalFacts
<1>4. Total(v, S) = v[x] + Total(v, S \ {x})
  BY TotalFacts
<1>5. w[x] \in Nat /\ v[x] \in Nat
  OBVIOUS
<1>6. QED BY <1>2, <1>3, <1>4, <1>5

(* The elements of a subset sum up to no more.                             *)
LEMMA TotalMonotone ==
  ASSUME NEW S, IsFiniteSet(S), NEW w, \A x \in S : w[x] \in Nat,
         NEW T \in SUBSET S
  PROVE  Total(w, T) <= Total(w, S)
<1> DEFINE P == {n \in Nat : \A s \in SUBSET S :
                   Cardinality(s) = Cardinality(T) + n /\ T \subseteq s =>
                     Total(w, T) <= Total(w, s)}
<1>0. \A s \in SUBSET S : /\ IsFiniteSet(s) /\ Cardinality(s) \in Nat
                          /\ Total(w, s) \in Nat
  BY FS_Subset, FS_CardinalityType, TotalFacts
<1>1. 0 \in P
  <2> SUFFICES ASSUME NEW s \in SUBSET S, Cardinality(s) = Cardinality(T) + 0, T \subseteq s
               PROVE  Total(w, T) <= Total(w, s)
    OBVIOUS
  <2>1. Cardinality(s) = Cardinality(T)
    BY <1>0
  <2>2. s = T
    BY <1>0, <2>1, FS_Subset
  <2>3. QED BY <1>0, <2>2
<1>2. ASSUME NEW n \in Nat, n \in P PROVE n + 1 \in P
  <2> SUFFICES ASSUME NEW s \in SUBSET S, Cardinality(s) = Cardinality(T) + (n + 1),
                      T \subseteq s
               PROVE  Total(w, T) <= Total(w, s)
    OBVIOUS
  <2>1. T # s
    BY <1>0
  <2>2. PICK x \in s : x \notin T
    BY <2>1
  <2>3. Cardinality(s \ {x}) = Cardinality(s) - 1
    BY <1>0, FS_RemoveElement
  <2>4. Cardinality(s \ {x}) = Cardinality(T) + n
    BY <1>0, <2>3
  <2>5. Total(w, T) <= Total(w, s \ {x})
    BY <1>2, <2>2, <2>4
  <2>6. Total(w, s) = w[x] + Total(w, s \ {x})
    BY <1>0, TotalFacts
  <2>7. w[x] \in Nat /\ Total(w, T) \in Nat /\ Total(w, s \ {x}) \in Nat
    BY <1>0
  <2>8. QED BY <2>5, <2>6, <2>7
<1>3. \A n \in Nat : n \in P
  <2> HIDE DEF P
  <2>1. QED BY <1>1, <1>2, SetInduction
<1>4. /\ Cardinality(S) - Cardinality(T) \in Nat
      /\ Cardinality(S) = Cardinality(T) + (Cardinality(S) - Cardinality(T))
  BY <1>0, FS_Subset
<1>5. QED BY <1>3, <1>4

(* What holds of the empty set, and of a set when of it without one        *)
(* element, holds of every finite set.                                     *)
LEMMA FiniteInduction ==
  ASSUME NEW S, IsFiniteSet(S), NEW Q, {} \in Q,
         \A s \in SUBSET S : \A x \in s : s \ {x} \in Q => s \in Q
  PROVE  S \in Q
<1> DEFINE P == {n \in Nat : UpTo(S, n) \subseteq Q}
<1>0. \A s \in SUBSET S : IsFiniteSet(s) /\ Cardinality(s) \in Nat
  BY FS_Subset, FS_CardinalityType
<1>1. 0 \in P
  <2>1. \A s \in UpTo(S, 0) : s = {}
    BY <1>0, FS_EmptySet DEF UpTo
  <2>2. QED BY <2>1
<1>2. ASSUME NEW n \in Nat, n \in P PROVE n + 1 \in P
  <2> SUFFICES ASSUME NEW s \in UpTo(S, n + 1), s # {} PROVE s \in Q
    <3>1. n + 1 \in Nat
      OBVIOUS
    <3>2. QED BY <3>1, Zenon
  <2>1. PICK x : x \in s
    OBVIOUS
  <2>2. s \in SUBSET S
    BY DEF UpTo
  <2>3. Cardinality(s \ {x}) = Cardinality(s) - 1 /\ Cardinality(s) <= n + 1
    BY <1>0, <2>1, <2>2, FS_RemoveElement DEF UpTo
  <2>4. s \ {x} \in UpTo(S, n)
    BY <1>0, <2>2, <2>3 DEF UpTo
  <2>5. s \ {x} \in Q
    BY <1>2, <2>4
  <2>6. QED BY <2>1, <2>2, <2>5
<1>3. \A n \in Nat : n \in P
  <2> HIDE DEF P
  <2>1. QED BY <1>1, <1>2, SetInduction
<1>4. S \in UpTo(S, Cardinality(S)) /\ Cardinality(S) \in Nat
  BY <1>0 DEF UpTo
<1>5. QED BY <1>3, <1>4

LEMMA TotalOfSome ==
  ASSUME NEW S, IsFiniteSet(S), NEW w, \A x \in S : w[x] \in Nat
  PROVE  \A s \in SUBSET S :
           /\ IsFiniteSet(s) /\ Total(w, s) \in Nat
           /\ s = {} => Total(w, s) = 0
           /\ \A x \in s : Total(w, s) = w[x] + Total(w, s \ {x})
<1> SUFFICES ASSUME NEW s \in SUBSET S
             PROVE  /\ IsFiniteSet(s) /\ Total(w, s) \in Nat
                    /\ s = {} => Total(w, s) = 0
                    /\ \A x \in s : Total(w, s) = w[x] + Total(w, s \ {x})
  OBVIOUS
<1>1. IsFiniteSet(s) /\ \A x \in s : w[x] \in Nat
  BY FS_Subset
<1>2. QED BY <1>1, TotalFacts

(* Larger numbers have a larger sum.                                       *)
LEMMA TotalPointwise ==
  ASSUME NEW S, IsFiniteSet(S), NEW w, \A x \in S : w[x] \in Nat,
         NEW v, \A x \in S : v[x] \in Nat, \A x \in S : w[x] <= v[x]
  PROVE  Total(w, S) <= Total(v, S)
<1> DEFINE Q == {s \in SUBSET S : Total(w, s) <= Total(v, s)}
<1>1. \A s \in SUBSET S :
        /\ Total(w, s) \in Nat /\ Total(v, s) \in Nat
        /\ s = {} => Total(w, s) = 0 /\ Total(v, s) = 0
        /\ \A x \in s : /\ Total(w, s) = w[x] + Total(w, s \ {x})
                        /\ Total(v, s) = v[x] + Total(v, s \ {x})
  BY TotalOfSome
<1>2. {} \in Q
  BY <1>1
<1>3. ASSUME NEW s \in SUBSET S, NEW x \in s, s \ {x} \in Q PROVE s \in Q
  <2>1. w[x] \in Nat /\ v[x] \in Nat /\ w[x] <= v[x]
    OBVIOUS
  <2>2. s \ {x} \in SUBSET S
    OBVIOUS
  <2>3. QED BY <1>1, <1>3, <2>1, <2>2
<1>4. S \in Q
  <2> HIDE DEF Q
  <2>1. QED BY <1>2, <1>3, FiniteInduction
<1>5. QED BY <1>4

(* Only the elements whose number is not zero count.                       *)
LEMMA TotalOfSupport ==
  ASSUME NEW S, IsFiniteSet(S), NEW w, \A x \in S : w[x] \in Nat,
         NEW T \in SUBSET S, \A x \in S \ T : w[x] = 0
  PROVE  Total(w, T) = Total(w, S)
<1> DEFINE Q == {s \in SUBSET S : Total(w, s \cap T) = Total(w, s)}
<1>1. \A s \in SUBSET S :
        /\ Total(w, s) \in Nat
        /\ \A x \in s : Total(w, s) = w[x] + Total(w, s \ {x})
  BY TotalOfSome
<1>2. {} \in Q
  <2>1. {} \cap T = {}
    OBVIOUS
  <2>2. QED BY <2>1
<1>3. ASSUME NEW s \in SUBSET S, NEW x \in s, s \ {x} \in Q PROVE s \in Q
  <2>1. w[x] \in Nat /\ Total(w, s) = w[x] + Total(w, s \ {x})
    BY <1>1
  <2>2. Total(w, (s \ {x}) \cap T) = Total(w, s \ {x}) /\ Total(w, s \ {x}) \in Nat
    BY <1>1, <1>3
  <2>3. CASE x \in T
    <3>1. (s \cap T) \ {x} = (s \ {x}) \cap T
      OBVIOUS
    <3>2. Total(w, s \cap T) = w[x] + Total(w, (s \cap T) \ {x})
      BY <1>1, <2>3
    <3>3. Total(w, s \cap T) = Total(w, s)
      BY <2>1, <2>2, <3>1, <3>2
    <3>4. QED BY <3>3
  <2>4. CASE x \notin T
    <3>1. s \cap T = (s \ {x}) \cap T /\ w[x] = 0
      BY <2>4
    <3>2. Total(w, s \cap T) = Total(w, s \ {x})
      BY <2>2, <3>1
    <3>3. Total(w, s) = Total(w, s \ {x})
      BY <2>1, <2>2, <3>1
    <3>4. QED BY <3>2, <3>3
  <2>5. QED BY <2>3, <2>4
<1>4. S \in Q
  <2> HIDE DEF Q
  <2>1. QED BY <1>2, <1>3, FiniteInduction
<1>5. S \cap T = T
  OBVIOUS
<1>6. QED BY <1>4, <1>5

LEMMA TotalOfOnes ==
  ASSUME NEW S, IsFiniteSet(S), NEW w, \A x \in S : w[x] = 1
  PROVE  Total(w, S) = Cardinality(S)
<1> DEFINE Q == {s \in SUBSET S : Total(w, s) = Cardinality(s)}
<1>1. \A s \in SUBSET S :
        /\ IsFiniteSet(s) /\ Cardinality(s) \in Nat
        /\ s = {} => Total(w, s) = 0
        /\ \A x \in s : Total(w, s) = w[x] + Total(w, s \ {x})
  <2>1. \A x \in S : w[x] \in Nat
    OBVIOUS
  <2>2. QED BY <2>1, TotalOfSome, FS_CardinalityType
<1>2. {} \in Q
  BY <1>1, FS_EmptySet
<1>3. ASSUME NEW s \in SUBSET S, NEW x \in s, s \ {x} \in Q PROVE s \in Q
  <2>1. Cardinality(s \ {x}) = Cardinality(s) - 1
    BY <1>1, FS_RemoveElement
  <2>2. Total(w, s) = 1 + Total(w, s \ {x}) /\ Cardinality(s) \in Nat
    BY <1>1
  <2>3. Total(w, s) = Cardinality(s)
    BY <1>3, <2>1, <2>2
  <2>4. QED BY <2>3
<1>4. S \in Q
  <2> HIDE DEF Q
  <2>1. QED BY <1>2, <1>3, FiniteInduction
<1>5. QED BY <1>4

-----------------------------------------------------------------------------
(* R puts the elements of S in a strict order, one after the other.        *)
Orders(R, S) ==
  /\ \A x \in S : <<x, x>> \notin R
  /\ \A x, y \in S : x # y => <<x, y>> \in R \/ <<y, x>> \in R
  /\ \A x, y, z \in S : <<x, y>> \in R /\ <<y, z>> \in R => <<x, z>> \in R

(* A finite set in an order has a last element.                            *)
LEMMA LastExists ==
  ASSUME NEW S, IsFiniteSet(S), NEW R, Orders(R, S)
  PROVE  \A T \in SUBSET S : T # {} =>
           \E m \in T : \A x \in T \ {m} : <<x, m>> \in R
<1> DEFINE Has(T) == \E m \in T : \A x \in T \ {m} : <<x, m>> \in R
           P == {n \in Nat : \A T \in UpTo(S, n) : T # {} => Has(T)}
<1>0. \A T \in SUBSET S : IsFiniteSet(T) /\ Cardinality(T) \in Nat
  BY FS_Subset, FS_CardinalityType
<1>1. 0 \in P
  <2>1. \A T \in UpTo(S, 0) : T = {}
    BY <1>0, FS_EmptySet DEF UpTo
  <2> HIDE DEF Has
  <2>2. QED BY <2>1
<1>2. ASSUME NEW n \in Nat, n \in P PROVE n + 1 \in P
  <2> SUFFICES ASSUME NEW T \in UpTo(S, n + 1), T # {} PROVE Has(T)
    <3> HIDE DEF Has
    <3>1. QED OBVIOUS
  <2>1. PICK t : t \in T
    OBVIOUS
  <2>2. T \in SUBSET S /\ t \in S
    BY <2>1 DEF UpTo
  <2>3. CASE T = {t}
    BY <2>3
  <2>4. CASE T # {t}
    <3>1. Cardinality(T \ {t}) = Cardinality(T) - 1 /\ Cardinality(T) <= n + 1
      BY <1>0, <2>1, <2>2, FS_RemoveElement DEF UpTo
    <3>2. T \ {t} \in UpTo(S, n) /\ T \ {t} # {}
      BY <1>0, <2>1, <2>2, <2>4, <3>1 DEF UpTo
    <3>3. PICK m \in T \ {t} : \A x \in (T \ {t}) \ {m} : <<x, m>> \in R
      BY <1>2, <3>2
    <3>4. m \in S /\ m # t
      BY <2>2
    <3>5. CASE <<t, m>> \in R
      <4>1. \A x \in T \ {m} : <<x, m>> \in R
        BY <3>3, <3>5
      <4>2. QED BY <4>1
    <3>6. CASE <<m, t>> \in R
      <4>1. ASSUME NEW x \in T \ {t} PROVE <<x, t>> \in R
        <5>1. x \in S /\ (x = m \/ <<x, m>> \in R)
          BY <2>2, <3>3
        <5>2. QED BY <2>2, <3>4, <3>6, <5>1 DEF Orders
      <4>2. QED BY <2>1, <4>1
    <3>7. QED BY <2>2, <3>4, <3>5, <3>6 DEF Orders
  <2>5. QED BY <2>3, <2>4
<1>3. \A n \in Nat : n \in P
  <2> HIDE DEF P
  <2>1. QED BY <1>1, <1>2, SetInduction
<1>4. QED BY <1>0, <1>3 DEF UpTo

(* A finite set in an order can be written as an ordered sequence.         *)
LEMMA SequenceExists ==
  ASSUME NEW S, IsFiniteSet(S), NEW R, Orders(R, S)
  PROVE  \E f \in [1 .. Cardinality(S) -> S] :
           \A i, j \in 1 .. Cardinality(S) : i < j => <<f[i], f[j]>> \in R
<1> DEFINE Listed(T) == \E f \in [1 .. Cardinality(T) -> T] :
             \A i, j \in 1 .. Cardinality(T) : i < j => <<f[i], f[j]>> \in R
           P == {n \in Nat : \A T \in UpTo(S, n) : Listed(T)}
<1>0. \A T \in SUBSET S : IsFiniteSet(T) /\ Cardinality(T) \in Nat
  BY FS_Subset, FS_CardinalityType
<1>b. Listed({})
  <2>1. Cardinality({}) = 0
    BY FS_EmptySet
  <2>2. [i \in 1 .. 0 |-> 0] \in [1 .. 0 -> {}]
    OBVIOUS
  <2>3. \A i, j \in 1 .. 0 : FALSE
    OBVIOUS
  <2>4. QED BY <2>1, <2>2, <2>3
<1>1. 0 \in P
  <2>1. \A T \in UpTo(S, 0) : T = {}
    BY <1>0, FS_EmptySet DEF UpTo
  <2> HIDE DEF Listed
  <2>2. QED BY <1>b, <2>1
<1>2. ASSUME NEW n \in Nat, n \in P PROVE n + 1 \in P
  <2> SUFFICES ASSUME NEW T \in UpTo(S, n + 1), T # {} PROVE Listed(T)
    <3> HIDE DEF Listed
    <3>1. QED BY <1>b
  <2>1. T \in SUBSET S
    BY DEF UpTo
  <2>2. PICK m \in T : \A x \in T \ {m} : <<x, m>> \in R
    BY <2>1, LastExists
  <2> DEFINE U == T \ {m}
             k == Cardinality(T)
  <2>3. /\ k \in Nat /\ k - 1 \in Nat /\ k # 0 /\ Cardinality(U) = k - 1 /\ k <= n + 1
        /\ U \in SUBSET S
    <3>1. IsFiniteSet(T) /\ k \in Nat /\ k <= n + 1
      BY <1>0, <2>1 DEF UpTo
    <3>2. k # 0
      BY <3>1, FS_EmptySet
    <3>3. Cardinality(U) = k - 1
      BY <3>1, FS_RemoveElement
    <3>4. QED BY <2>1, <3>1, <3>2, <3>3
  <2>4. U \in UpTo(S, n)
    BY <2>3 DEF UpTo
  <2>5. Listed(U)
    BY <1>2, <2>4
  <2>6. PICK g \in [1 .. k - 1 -> U] :
             \A i, j \in 1 .. k - 1 : i < j => <<g[i], g[j]>> \in R
    BY <2>3, <2>5
  <2> DEFINE f == [i \in 1 .. k |-> IF i = k THEN m ELSE g[i]]
  <2>7. \A i \in 1 .. k : i # k => i \in 1 .. k - 1 /\ f[i] = g[i] /\ g[i] \in U
    BY <2>3, <2>6
  <2>8. f \in [1 .. k -> T] /\ f[k] = m
    BY <2>3, <2>7
  <2>9. ASSUME NEW i \in 1 .. k, NEW j \in 1 .. k, i < j PROVE <<f[i], f[j]>> \in R
    <3>1. i # k
      BY <2>3, <2>9
    <3>2. i \in 1 .. k - 1 /\ f[i] = g[i] /\ g[i] \in U
      BY <2>7, <3>1
    <3>3. CASE j = k
      BY <2>2, <2>8, <3>2, <3>3
    <3>4. CASE j # k
      <4>1. j \in 1 .. k - 1 /\ f[j] = g[j]
        BY <2>7, <3>4
      <4> HIDE DEF f, k, U
      <4>2. QED BY <2>6, <2>9, <3>2, <4>1
    <3>5. QED BY <3>3, <3>4
  <2> HIDE DEF f
  <2>10. QED BY <2>8, <2>9
<1>3. \A n \in Nat : n \in P
  <2> HIDE DEF P
  <2>1. QED BY <1>1, <1>2, SetInduction
<1>4. S \in UpTo(S, Cardinality(S)) /\ Cardinality(S) \in Nat
  BY <1>0 DEF UpTo
<1>5. QED BY <1>3, <1>4

(* The ordered sequence that a model chooses among those of the set.       *)
LEMMA OrderedExists ==
  ASSUME NEW S, IsFiniteSet(S), NEW R, Orders(R, S)
  PROVE  \E s \in SetToSeqs(S) :
           \A i, j \in DOMAIN s : i < j => <<s[i], s[j]>> \in R
<1> DEFINE n == Cardinality(S)
<1>1. PICK f \in [1 .. n -> S] : \A i, j \in 1 .. n : i < j => <<f[i], f[j]>> \in R
  BY SequenceExists
<1>2. n \in Nat
  BY FS_CardinalityType
<1>3. ASSUME NEW i \in 1 .. n, NEW j \in 1 .. n, i # j PROVE f[i] # f[j]
  <2>1. i < j \/ j < i
    BY <1>2, <1>3
  <2>2. <<f[i], f[j]>> \in R \/ <<f[j], f[i]>> \in R
    BY <1>1, <2>1
  <2>3. f[i] \in S /\ f[j] \in S
    BY <1>1
  <2>4. QED BY <2>2, <2>3 DEF Orders
<1>4. f \in SetToSeqs(S)
  BY <1>1, <1>3 DEF SetToSeqs
<1>5. DOMAIN f = 1 .. n
  OBVIOUS
<1>6. QED BY <1>1, <1>4, <1>5

LEMMA SetToSeqsType ==
  ASSUME NEW S, IsFiniteSet(S), NEW s \in SetToSeqs(S)
  PROVE  s \in Seq(S) /\ Len(s) = Cardinality(S) /\ Len(s) \in Nat
<1> DEFINE n == Cardinality(S)
<1>1. n \in Nat /\ s \in [1 .. n -> S]
  BY FS_CardinalityType DEF SetToSeqs
<1> HIDE DEF n
<1>2. s \in Seq(S) /\ Len(s) = n
  BY <1>1
<1>3. QED BY <1>1, <1>2 DEF n
-----------------------------------------------------------------------------
(* What a function makes of a finite set has no more elements, and as many *)
(* when no two of them are made of the same.                               *)
LEMMA ImageOfFinite ==
  ASSUME NEW f, IsFiniteSet(DOMAIN f), f = [x \in DOMAIN f |-> f[x]],
         NEW T, T = {f[x] : x \in DOMAIN f}
  PROVE  /\ IsFiniteSet(T) /\ Cardinality(T) <= Cardinality(DOMAIN f)
         /\ (\A x, y \in DOMAIN f : f[x] = f[y] => x = y)
              => Cardinality(T) = Cardinality(DOMAIN f)
<1>1. f \in [DOMAIN f -> T]
  OBVIOUS
<1>2. f \in Surjection(DOMAIN f, T)
  BY <1>1 DEF Surjection
<1>3. (\A x, y \in DOMAIN f : f[x] = f[y] => x = y) => f \in Injection(DOMAIN f, T)
  BY <1>1 DEF Injection, IsInjective
<1>4. QED BY <1>2, <1>3, FS_Surjection

-----------------------------------------------------------------------------
(* What holds of a set whenever it holds of the set without any one of its *)
(* elements holds of every finite set.                                     *)
LEMMA SmallerInduction ==
  ASSUME NEW S, IsFiniteSet(S), NEW Q,
         \A s \in SUBSET S : (\A x \in s : s \ {x} \in Q) => s \in Q
  PROVE  \A s \in SUBSET S : s \in Q
<1> DEFINE P == {n \in Nat : UpTo(S, n) \subseteq Q}
<1>0. \A s \in SUBSET S : IsFiniteSet(s) /\ Cardinality(s) \in Nat
  BY FS_Subset, FS_CardinalityType
<1>1. 0 \in P
  <2>1. \A s \in UpTo(S, 0) : s = {}
    BY <1>0, FS_EmptySet DEF UpTo
  <2>2. {} \in SUBSET S
    OBVIOUS
  <2>3. {} \in Q
    BY <2>2
  <2>4. QED BY <2>1, <2>3
<1>2. ASSUME NEW n \in Nat, n \in P PROVE n + 1 \in P
  <2> SUFFICES ASSUME NEW s \in UpTo(S, n + 1) PROVE s \in Q
    <3>1. n + 1 \in Nat
      OBVIOUS
    <3>2. QED BY <3>1, Zenon
  <2>1. s \in SUBSET S
    BY DEF UpTo
  <2>2. ASSUME NEW x \in s PROVE s \ {x} \in Q
    <3>1. Cardinality(s \ {x}) = Cardinality(s) - 1 /\ Cardinality(s) <= n + 1
      BY <1>0, <2>1, FS_RemoveElement DEF UpTo
    <3>2. s \ {x} \in UpTo(S, n)
      BY <1>0, <2>1, <3>1 DEF UpTo
    <3>3. QED BY <1>2, <3>2
  <2>3. QED BY <2>1, <2>2
<1>3. \A n \in Nat : n \in P
  <2> HIDE DEF P
  <2>1. QED BY <1>1, <1>2, SetInduction
<1>4. \A s \in SUBSET S : s \in UpTo(S, Cardinality(s)) /\ Cardinality(s) \in Nat
  BY <1>0 DEF UpTo
<1>5. QED BY <1>3, <1>4

(* it is the function by which MapThenFoldSet folds a set: of the elements *)
(* of s, c[s] is applied last; g[x][v] is what x makes of v.               *)
Folds(it, c, g, v, S) ==
  it = [s \in SUBSET S |-> IF s = {} THEN v ELSE g[c[s]][it[s \ {c[s]}]]]

(* c takes an element of every set.                                        *)
Picks(c, S) == \A s \in SUBSET S : s # {} => c[s] \in s

LEMMA FoldsExists ==
  ASSUME NEW S, IsFiniteSet(S), NEW c, Picks(c, S), NEW g, NEW v
  PROVE  \E it : Folds(it, c, g, v, S)
<1> DEFINE Part(h, n) ==
      h = [s \in UpTo(S, n) |-> IF s = {} THEN v ELSE g[c[s]][h[s \ {c[s]}]]]
           P == {n \in Nat : \E h : Part(h, n)}
<1>0. \A s \in SUBSET S : IsFiniteSet(s) /\ Cardinality(s) \in Nat
  BY FS_Subset, FS_CardinalityType
<1>1. 0 \in P
  <2> DEFINE h == [s \in UpTo(S, 0) |-> v]
  <2>1. \A s \in UpTo(S, 0) : s = {}
    BY <1>0, FS_EmptySet DEF UpTo
  <2>2. Part(h, 0)
    BY <2>1
  <2>3. QED BY <2>2
<1>2. ASSUME NEW n \in Nat, n \in P PROVE n + 1 \in P
  <2>1. PICK k : Part(k, n)
    BY <1>2
  <2> DEFINE F(h, s) == IF s = {} THEN v ELSE g[c[s]][h[s \ {c[s]}]]
             h == [s \in UpTo(S, n + 1) |-> F(k, s)]
  <2>2. \A s \in UpTo(S, n + 1) : s # {} => s \ {c[s]} \in UpTo(S, n)
    <3> SUFFICES ASSUME NEW s \in UpTo(S, n + 1), s # {} PROVE s \ {c[s]} \in UpTo(S, n)
      OBVIOUS
    <3>1. s \in SUBSET S /\ Cardinality(s) <= n + 1 /\ c[s] \in s
      BY DEF UpTo, Picks
    <3>2. Cardinality(s \ {c[s]}) = Cardinality(s) - 1
      BY <1>0, <3>1, FS_RemoveElement
    <3>3. QED BY <1>0, <3>1, <3>2 DEF UpTo
  <2>3. UpTo(S, n) \subseteq UpTo(S, n + 1)
    BY <1>0 DEF UpTo
  <2>4. k = [s \in UpTo(S, n) |-> F(k, s)]
    BY <2>1
  <2>5. \A s \in UpTo(S, n) : h[s] = k[s]
    <3> HIDE DEF F
    <3>1. \A s \in UpTo(S, n) : k[s] = F(k, s)
      BY <2>4
    <3>2. \A s \in UpTo(S, n + 1) : h[s] = F(k, s)
      OBVIOUS
    <3>3. QED BY <2>3, <3>1, <3>2
  <2> HIDE DEF h
  <2>6. \A s \in UpTo(S, n + 1) : F(h, s) = F(k, s)
    BY <2>2, <2>5
  <2>7. h = [s \in UpTo(S, n + 1) |-> F(h, s)]
    <3> HIDE DEF F
    <3>1. QED BY <2>6 DEF h
  <2>8. Part(h, n + 1)
    BY <2>7
  <2>9. n + 1 \in Nat
    OBVIOUS
  <2> HIDE DEF Part
  <2>10. QED BY <2>8, <2>9
<1>3. Cardinality(S) \in Nat /\ Cardinality(S) \in P
  <2> HIDE DEF P
  <2>1. QED BY <1>1, <1>2, SetInduction, FS_CardinalityType
<1>4. UpTo(S, Cardinality(S)) = SUBSET S
  BY FS_Subset DEF UpTo
<1>5. QED BY <1>3, <1>4 DEF Folds

(* What holds at the start and is kept by every step of a fold holds of    *)
(* its result: Q[s] is what the fold of s may be.                          *)
LEMMA FoldKeeps ==
  ASSUME NEW S, IsFiniteSet(S), NEW c, Picks(c, S), NEW g, NEW v,
         NEW it, Folds(it, c, g, v, S), NEW Q, v \in Q[{}],
         \A s \in SUBSET S : s # {} =>
           \A w \in Q[s \ {c[s]}] : g[c[s]][w] \in Q[s]
  PROVE  \A s \in SUBSET S : it[s] \in Q[s]
<1> DEFINE R == {s \in SUBSET S : it[s] \in Q[s]}
<1>1. ASSUME NEW s \in SUBSET S, \A x \in s : s \ {x} \in R PROVE s \in R
  <2>1. CASE s = {}
    BY <2>1 DEF Folds
  <2>2. CASE s # {}
    <3>1. c[s] \in s
      BY <2>2 DEF Picks
    <3>2. it[s \ {c[s]}] \in Q[s \ {c[s]}]
      BY <1>1, <3>1
    <3>3. it[s] = g[c[s]][it[s \ {c[s]}]]
      BY <2>2 DEF Folds
    <3>4. QED BY <2>2, <3>2, <3>3
  <2>3. QED BY <2>1, <2>2
<1>2. \A s \in SUBSET S : s \in R
  <2> HIDE DEF R
  <2>1. QED BY <1>1, SmallerInduction
<1>3. QED BY <1>2

(* The largest of a finite set of numbers, which a left fold applies last. *)
LEMMA MaxIsLast ==
  ASSUME NEW s \in SUBSET Nat, IsFiniteSet(s), s # {}
  PROVE  Max(s) \in s /\ \A x \in s : x <= Max(s)
<1> DEFINE R == {e \in s \X s : e[1] < e[2]}
<1>0. \A x, y \in s : <<x, y>> \in R <=> x < y
  OBVIOUS
<1> HIDE DEF R
<1>1. Orders(R, s)
  <2>1. \A x, y, z \in s : x < y /\ y < z => x < z
    OBVIOUS
  <2>2. \A x, y \in s : x # y => x < y \/ y < x
    OBVIOUS
  <2>3. \A x \in s : ~(x < x)
    OBVIOUS
  <2>4. QED BY <1>0, <2>1, <2>2, <2>3 DEF Orders
<1>2. \A T \in SUBSET s : T # {} => \E m \in T : \A x \in T \ {m} : <<x, m>> \in R
  BY <1>1, LastExists
<1>3. PICK m \in s : \A x \in s \ {m} : <<x, m>> \in R
  BY <1>2
<1>4. ASSUME NEW x \in s PROVE m >= x
  <2>1. CASE x = m
    BY <2>1
  <2>2. CASE x # m
    <3>1. <<x, m>> \in R
      BY <1>3, <2>2
    <3>2. x < m
      BY <1>0, <3>1
    <3>3. x \in Nat /\ m \in Nat
      OBVIOUS
    <3>4. QED BY <3>2, <3>3
  <2>3. QED BY <2>1, <2>2
<1>5. \A x \in s : Max(s) >= x /\ Max(s) \in s
  BY <1>4 DEF Max
<1>6. QED BY <1>5
=============================================================================
