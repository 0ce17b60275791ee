------------------------------- MODULE Sums -------------------------------
(***************************************************************************)
(* Lemmas about MapThenSumSet over finite sets.  The community module      *)
(* defines a sum as the solution, over all subsets of a set, of a          *)
(* recursive equation.  That a solution exists, that it is unique and what *)
(* it is of is shown by the least size of a set for which it fails, since  *)
(* the induction theorems of the library take an operator as a parameter.  *)
(* The same for FlattenSeq, by the least index for which it fails.         *)
(***************************************************************************)
EXTENDS Integers, FiniteSets, FiniteSetsExt, FiniteSetTheorems, WellFoundedInduction,
    Sequences, SequencesExt, SequenceTheorems, TLAPS

\* A set of numbers has a least one.
LEMMA LeastNumber ==
    ASSUME NEW T \in SUBSET Nat, T # {}
    PROVE  \E n \in T : \A m \in T : n <= m
<1>1. PICK n \in T : \A m \in T : <<m, n>> \notin OpToRel(<, Nat)
  BY NatLessThanWellFounded, WFMin, Zenon
<1>2. \A m \in T : ~(m < n)
  BY <1>1, Zenon DEF OpToRel
<1> QED BY <1>2

\* A set of numbers up to a bound has a greatest one.
LEMMA GreatestNumber ==
    ASSUME NEW S \in SUBSET Nat, S # {}, NEW b \in Nat, \A x \in S : x <= b
    PROVE  \E g \in S : \A x \in S : x <= g
<1>1. PICK T : T = {b - x : x \in S}
  OBVIOUS
<1>2. T \in SUBSET Nat /\ T # {}
  <2>1. \A x \in S : b - x \in Nat
    OBVIOUS
  <2> QED BY <1>1, <2>1
<1>3. PICK n \in T : \A m \in T : n <= m
  BY <1>2, LeastNumber
<1>4. PICK g \in S : n = b - g
  BY <1>1, <1>3
<1>5. ASSUME NEW x \in S
      PROVE  x <= g
  <2>1. b - g <= b - x
    BY <1>1, <1>3, <1>4
  <2> QED BY <2>1
<1> QED BY <1>5

-----------------------------------------------------------------------------
(* A sum is the solution of an equation.                                   *)

SumOver(f, S) == MapThenSumSet(LAMBDA x : f[x], S)

Picked(s) == CHOOSE x \in s : TRUE

SumRule(f, g, s) == IF s = {} THEN 0 ELSE f[Picked(s)] + g[s \ {Picked(s)}]

SumSolution(g, f, D) == g = [s \in D |-> SumRule(f, g, s)]

LEMMA PickedIn == ASSUME NEW s, s # {} PROVE Picked(s) \in s
BY DEF Picked

LEMMA SumSmaller ==
    ASSUME NEW s, IsFiniteSet(s), s # {}
    PROVE  /\ IsFiniteSet(s \ {Picked(s)})
           /\ Cardinality(s) \in Nat
           /\ Cardinality(s \ {Picked(s)}) = Cardinality(s) - 1
           /\ Cardinality(s \ {Picked(s)}) \in Nat
<1>1. Picked(s) \in s BY PickedIn
<1>2. IsFiniteSet(s \ {Picked(s)}) /\ Cardinality(s \ {Picked(s)}) = Cardinality(s) - 1
  BY <1>1, FS_RemoveElement
<1> QED BY <1>2, FS_CardinalityType

\* The equation can be solved over all subsets of a finite set.
LEMMA SumSolvable ==
    ASSUME NEW f, NEW S, IsFiniteSet(S)
    PROVE  \E g : SumSolution(g, f, SUBSET S)
<1> DEFINE Small(n) == {s \in SUBSET S : Cardinality(s) <= n}
           T == {n \in Nat : ~\E g : SumSolution(g, f, Small(n))}
<1>0. \A s \in SUBSET S : IsFiniteSet(s) /\ Cardinality(s) \in Nat
  BY FS_Subset, FS_CardinalityType
<1>1. T = {}
  <2> SUFFICES ASSUME T # {} PROVE FALSE
    OBVIOUS
  <2>1. PICK n \in T : \A m \in T : n <= m
    <3> T \in SUBSET Nat OBVIOUS
    <3> HIDE DEF T
    <3> QED BY LeastNumber
  <2>2. n # 0
    <3> SUFFICES ASSUME n = 0 PROVE FALSE OBVIOUS
    <3> DEFINE g == [s \in Small(0) |-> 0]
    <3>1. \A s \in Small(0) : s = {}
      BY <1>0, FS_EmptySet
    <3>2. SumSolution(g, f, Small(0))
      BY <3>1 DEF SumSolution, SumRule
    <3> QED BY <3>2
  <2>3. n - 1 \in Nat /\ n - 1 \notin T
    <3> n \in Nat OBVIOUS
    <3> HIDE DEF T
    <3> QED BY <2>1, <2>2
  <2>4. PICK g : SumSolution(g, f, Small(n - 1))
    BY <2>3
  <2> DEFINE h == [s \in Small(n) |-> SumRule(f, g, s)]
  <2>5. ASSUME NEW s \in Small(n)
        PROVE  SumRule(f, g, s) = SumRule(f, h, s)
    <3>1. CASE s = {}
      BY <3>1 DEF SumRule
    <3>2. CASE s # {}
      <4> DEFINE r == s \ {Picked(s)}
      <4>1. r \in SUBSET S OBVIOUS
      <4>2. Cardinality(r) <= n - 1 /\ Cardinality(r) <= n
        <5> Cardinality(s) <= n OBVIOUS
        <5> QED BY <1>0, SumSmaller, <3>2, <2>1
      <4>3. r \in Small(n - 1) /\ r \in Small(n)
        BY <4>1, <4>2
      <4>4. g[r] = SumRule(f, g, r)
        BY <2>4, <4>3 DEF SumSolution
      <4>5. h[r] = SumRule(f, g, r)
        BY <4>3
      <4> QED BY <3>2, <4>4, <4>5 DEF SumRule
    <3> QED BY <3>1, <3>2
  <2>6. SumSolution(h, f, Small(n))
    BY <2>5 DEF SumSolution
  <2> QED BY <2>1, <2>6
<1>2. Cardinality(S) \in Nat /\ Cardinality(S) \notin T
  BY <1>1, FS_CardinalityType
<1>3. Small(Cardinality(S)) = SUBSET S
  BY FS_Subset
<1> QED BY <1>2, <1>3

\* Two solutions agree where both are defined.
LEMMA SumUnique ==
    ASSUME NEW f, NEW S, NEW D, IsFiniteSet(S), \A s \in SUBSET S : s \in D,
           NEW g, NEW h, SumSolution(g, f, SUBSET S), SumSolution(h, f, D)
    PROVE  g[S] = h[S]
<1> DEFINE T == {n \in Nat : \E s \in SUBSET S : Cardinality(s) = n /\ g[s] # h[s]}
<1>0. \A s \in SUBSET S : IsFiniteSet(s) /\ Cardinality(s) \in Nat
  BY FS_Subset, FS_CardinalityType
<1>1. T = {}
  <2> SUFFICES ASSUME T # {} PROVE FALSE
    OBVIOUS
  <2>1. PICK n \in T : \A m \in T : n <= m
    <3> T \in SUBSET Nat OBVIOUS
    <3> HIDE DEF T
    <3> QED BY LeastNumber
  <2>2. PICK s \in SUBSET S : Cardinality(s) = n /\ g[s] # h[s]
    BY <2>1
  <2>3. g[s] = SumRule(f, g, s) /\ h[s] = SumRule(f, h, s)
    BY DEF SumSolution
  <2>4. s # {} /\ g[s \ {Picked(s)}] # h[s \ {Picked(s)}]
    BY <2>2, <2>3 DEF SumRule
  <2>5. s \ {Picked(s)} \in SUBSET S /\ Cardinality(s \ {Picked(s)}) = n - 1
    BY <2>4, <2>2, SumSmaller, <1>0
  <2>6. n - 1 \in T
    BY <2>4, <2>5, <1>0
  <2> QED BY <2>1, <2>6
<1> QED BY <1>0, <1>1

LEMMA SumUnfold ==
    ASSUME NEW f, NEW S
    PROVE  SumOver(f, S) = (CHOOSE g : SumSolution(g, f, SUBSET S))[S]
BY Zenon DEF SumOver, MapThenSumSet, MapThenFoldSet, Picked, SumSolution, SumRule

LEMMA SumSolves ==
    ASSUME NEW f, NEW D, NEW S, IsFiniteSet(D), S \subseteq D, NEW h, SumSolution(h, f, SUBSET D)
    PROVE  h[S] = SumOver(f, S)
<1>1. IsFiniteSet(S) BY FS_Subset
<1>2. PICK g : g = (CHOOSE k : SumSolution(k, f, SUBSET S))
  OBVIOUS
<1>3. SumSolution(g, f, SUBSET S)
  BY <1>1, <1>2, SumSolvable
<1>4. SumOver(f, S) = g[S]
  BY <1>2, SumUnfold
<1>5. \A s \in SUBSET S : s \in SUBSET D
  OBVIOUS
<1>6. g[S] = h[S]
  BY <1>1, <1>3, <1>5, SumUnique
<1> QED BY <1>4, <1>6

-----------------------------------------------------------------------------
(* What a sum is.                                                          *)

LEMMA SumStep ==
    ASSUME NEW f, NEW S, IsFiniteSet(S)
    PROVE  SumOver(f, S) = IF S = {} THEN 0 ELSE f[Picked(S)] + SumOver(f, S \ {Picked(S)})
<1>1. PICK h : SumSolution(h, f, SUBSET S)
  BY SumSolvable
<1>2. h[S] = SumOver(f, S) /\ h[S \ {Picked(S)}] = SumOver(f, S \ {Picked(S)})
  BY <1>1, SumSolves
<1>3. h[S] = SumRule(f, h, S)
  BY <1>1 DEF SumSolution
<1> QED BY <1>2, <1>3 DEF SumRule

LEMMA SumEmpty == ASSUME NEW f PROVE SumOver(f, {}) = 0
  BY SumStep, FS_EmptySet

\* A sum of numbers that are closed under addition is one of them.
LEMMA SumClosed ==
    ASSUME NEW f, NEW S, IsFiniteSet(S), NEW N, 0 \in N, \A p, q \in N : p + q \in N,
           \A x \in S : f[x] \in N
    PROVE  SumOver(f, S) \in N
<1> DEFINE T == {n \in Nat : \E s \in SUBSET S : Cardinality(s) = n /\ SumOver(f, s) \notin N}
<1>0. \A s \in SUBSET S : IsFiniteSet(s) /\ Cardinality(s) \in Nat
  BY FS_Subset, FS_CardinalityType
<1>1. T = {}
  <2> SUFFICES ASSUME T # {} PROVE FALSE
    OBVIOUS
  <2>1. PICK n \in T : \A m \in T : n <= m
    <3> T \in SUBSET Nat OBVIOUS
    <3> HIDE DEF T
    <3> QED BY LeastNumber
  <2>2. PICK s \in SUBSET S : Cardinality(s) = n /\ SumOver(f, s) \notin N
    BY <2>1
  <2>3. SumOver(f, s) = IF s = {} THEN 0 ELSE f[Picked(s)] + SumOver(f, s \ {Picked(s)})
    BY <1>0, SumStep
  <2>4. s # {} /\ SumOver(f, s \ {Picked(s)}) \notin N
    <3>1. s # {}
      BY <2>2, <2>3
    <3>2. f[Picked(s)] \in N
      BY <3>1, PickedIn
    <3>3. SumOver(f, s) = f[Picked(s)] + SumOver(f, s \ {Picked(s)})
      BY Zenon, <2>3, <3>1
    <3>4. SumOver(f, s \ {Picked(s)}) \notin N
      BY Zenon, <2>2, <3>2, <3>3
    <3> QED BY <3>1, <3>4
  <2>5. s \ {Picked(s)} \in SUBSET S /\ Cardinality(s \ {Picked(s)}) = n - 1
    BY <2>4, <2>2, SumSmaller, <1>0
  <2>6. n - 1 \in T
    BY <2>4, <2>5, <1>0
  <2> QED BY <2>1, <2>6
<1> QED BY <1>0, <1>1

\* A sum of numbers is a number.
LEMMA SumType ==
    ASSUME NEW f, NEW S, IsFiniteSet(S), NEW N \in {Nat, Int}, \A x \in S : f[x] \in N
    PROVE  SumOver(f, S) \in N
<1>1. 0 \in N /\ \A p, q \in N : p + q \in N
  OBVIOUS
<1> QED BY <1>1, SumClosed

\* A sum is that of any of its members and the others.
LEMMA SumTake ==
    ASSUME NEW f, NEW S, IsFiniteSet(S), \A x \in S : f[x] \in Int, NEW a \in S
    PROVE  SumOver(f, S) = f[a] + SumOver(f, S \ {a})
<1> DEFINE Takes(s) == \A x \in s : SumOver(f, s) = f[x] + SumOver(f, s \ {x})
           T == {n \in Nat : \E s \in SUBSET S : Cardinality(s) = n /\ ~Takes(s)}
<1>0. \A s \in SUBSET S : IsFiniteSet(s) /\ Cardinality(s) \in Nat /\ SumOver(f, s) \in Int
  BY FS_Subset, FS_CardinalityType, SumType
<1>1. T = {}
  <2> SUFFICES ASSUME T # {} PROVE FALSE
    OBVIOUS
  <2>1. PICK n \in T : \A m \in T : n <= m
    <3> T \in SUBSET Nat OBVIOUS
    <3> HIDE DEF T
    <3> QED BY LeastNumber
  <2>2. PICK s \in SUBSET S : Cardinality(s) = n /\ ~Takes(s)
    BY <2>1
  <2>3. PICK x \in s : SumOver(f, s) # f[x] + SumOver(f, s \ {x})
    BY <2>2
  <2>4. PICK c : c = Picked(s)
    OBVIOUS
  <2>5. s # {} /\ c \in s
    BY <2>4, PickedIn
  <2>6. SumOver(f, s) = f[c] + SumOver(f, s \ {c})
    BY <1>0, <2>4, <2>5, SumStep
  <2>7. c # x
    BY <2>3, <2>6
  <2>8. ASSUME NEW y \in s
        PROVE  Takes(s \ {y})
    <3>1. s \ {y} \in SUBSET S
      OBVIOUS
    <3>2. Cardinality(s \ {y}) = n - 1 /\ n - 1 \in Nat
      <4>1. IsFiniteSet(s) /\ Cardinality(s) = n
        BY <1>0, <2>2
      <4>2. Cardinality(s \ {y}) = n - 1
        BY <4>1, FS_RemoveElement
      <4>3. Cardinality(s \ {y}) \in Nat
        BY <1>0, <3>1
      <4> QED BY <4>2, <4>3
    <3>3. n - 1 \notin T
      <4> n \in Nat OBVIOUS
      <4> HIDE DEF T
      <4> QED BY <2>1, <3>2
    <3> HIDE DEF Takes
    <3> QED BY <3>1, <3>2, <3>3
  <2>9. SumOver(f, s \ {c}) = f[x] + SumOver(f, (s \ {c}) \ {x})
    BY <2>5, <2>7, <2>8
  <2>10. SumOver(f, s \ {x}) = f[c] + SumOver(f, (s \ {x}) \ {c})
    BY <2>5, <2>7, <2>8
  <2>11. (s \ {c}) \ {x} = (s \ {x}) \ {c}
    OBVIOUS
  <2>12. f[x] \in Int /\ f[c] \in Int /\ SumOver(f, (s \ {c}) \ {x}) \in Int
    <3>1. PICK r \in SUBSET S : r = (s \ {c}) \ {x}
      OBVIOUS
    <3>2. SumOver(f, r) \in Int
      BY <1>0
    <3>3. f[x] \in Int
      BY <2>5
    <3>4. f[c] \in Int
      BY <2>5
    <3> QED BY <3>1, <3>2, <3>3, <3>4
  <2>13. PICK u, v, p : u = f[x] /\ v = f[c] /\ p = SumOver(f, (s \ {c}) \ {x})
    OBVIOUS
  <2>14. SumOver(f, s) = v + (u + p) /\ f[x] + SumOver(f, s \ {x}) = u + (v + p)
    BY <2>6, <2>9, <2>10, <2>11, <2>13, Zenon
  <2>15. v + (u + p) = u + (v + p)
    BY <2>12, <2>13
  <2> QED BY <2>3, <2>14, <2>15, Zenon
<1>2. Cardinality(S) \in Nat /\ Cardinality(S) \notin T
  BY <1>0, <1>1
<1>3. Takes(S)
  <2> HIDE DEF Takes
  <2> QED BY <1>2
<1> QED BY <1>3

\* One more member.
LEMMA SumAdd ==
    ASSUME NEW f, NEW S, IsFiniteSet(S), NEW a, a \notin S, \A x \in S \cup {a} : f[x] \in Int
    PROVE  SumOver(f, S \cup {a}) = SumOver(f, S) + f[a]
<1>1. IsFiniteSet(S \cup {a})
  BY FS_AddElement
<1>2. PICK R : R = S \cup {a}
  OBVIOUS
<1>3. SumOver(f, R) = f[a] + SumOver(f, R \ {a})
  BY <1>1, <1>2, SumTake
<1>6. R \ {a} = S
  BY <1>2
<1>4. SumOver(f, S) \in Int
  <2>1. \A x \in S : f[x] \in Int
    OBVIOUS
  <2> QED BY <2>1, SumType
<1>5. f[a] \in Int
  OBVIOUS
<1>7. PICK u, p : u = f[a] /\ p = SumOver(f, S)
  OBVIOUS
<1>8. SumOver(f, S \cup {a}) = u + p
  BY <1>2, <1>3, <1>6, <1>7, Zenon
<1>9. u + p = p + u
  BY <1>4, <1>5, <1>7
<1> QED BY <1>7, <1>8, <1>9, Zenon

\* Only the values at the members of a set decide.
LEMMA SumAgree ==
    ASSUME NEW f, NEW g, NEW S, IsFiniteSet(S), \A x \in S : f[x] = g[x]
    PROVE  SumOver(f, S) = SumOver(g, S)
<1> DEFINE T == {n \in Nat : \E s \in SUBSET S : Cardinality(s) = n /\ SumOver(f, s) # SumOver(g, s)}
<1>0. \A s \in SUBSET S : IsFiniteSet(s) /\ Cardinality(s) \in Nat
  BY FS_Subset, FS_CardinalityType
<1>1. T = {}
  <2> SUFFICES ASSUME T # {} PROVE FALSE
    OBVIOUS
  <2>1. PICK n \in T : \A m \in T : n <= m
    <3> T \in SUBSET Nat OBVIOUS
    <3> HIDE DEF T
    <3> QED BY LeastNumber
  <2>2. PICK s \in SUBSET S : Cardinality(s) = n /\ SumOver(f, s) # SumOver(g, s)
    BY <2>1
  <2>3. /\ SumOver(f, s) = IF s = {} THEN 0 ELSE f[Picked(s)] + SumOver(f, s \ {Picked(s)})
        /\ SumOver(g, s) = IF s = {} THEN 0 ELSE g[Picked(s)] + SumOver(g, s \ {Picked(s)})
    BY <1>0, SumStep
  <2>4. s # {} /\ SumOver(f, s \ {Picked(s)}) # SumOver(g, s \ {Picked(s)})
    <3>1. s # {}
      BY <2>2, <2>3
    <3>2. f[Picked(s)] = g[Picked(s)]
      BY <3>1, PickedIn
    <3> QED BY <2>2, <2>3, <3>1, <3>2
  <2>5. s \ {Picked(s)} \in SUBSET S /\ Cardinality(s \ {Picked(s)}) = n - 1
    BY <2>4, <2>2, SumSmaller, <1>0
  <2>6. n - 1 \in T
    BY <2>4, <2>5, <1>0
  <2> QED BY <2>1, <2>6
<1> QED BY <1>0, <1>1

\* The sum over two sets without common members.
LEMMA SumUnion ==
    ASSUME NEW f, NEW A, IsFiniteSet(A), NEW B, IsFiniteSet(B), A \cap B = {},
           \A x \in A \cup B : f[x] \in Int
    PROVE  SumOver(f, A \cup B) = SumOver(f, A) + SumOver(f, B)
<1> DEFINE T == {n \in Nat : \E s \in SUBSET B : /\ Cardinality(s) = n
                                             /\ SumOver(f, A \cup s) # SumOver(f, A) + SumOver(f, s)}
<1>0. \A s \in SUBSET B : IsFiniteSet(s) /\ Cardinality(s) \in Nat
  BY FS_Subset, FS_CardinalityType
<1>a. ASSUME NEW s \in SUBSET B
      PROVE  /\ SumOver(f, A \cup s) \in Int /\ SumOver(f, s) \in Int /\ SumOver(f, A) \in Int
             /\ IsFiniteSet(A \cup s)
  <2>1. IsFiniteSet(A \cup s)
    BY <1>0, FS_Union
  <2> QED BY <1>0, <2>1, SumType
<1>1. T = {}
  <2> SUFFICES ASSUME T # {} PROVE FALSE
    OBVIOUS
  <2>1. PICK n \in T : \A m \in T : n <= m
    <3> T \in SUBSET Nat OBVIOUS
    <3> HIDE DEF T
    <3> QED BY LeastNumber
  <2>2. PICK s \in SUBSET B : Cardinality(s) = n /\ SumOver(f, A \cup s) # SumOver(f, A) + SumOver(f, s)
    BY <2>1
  <2>3. s # {}
    <3> SUFFICES ASSUME s = {} PROVE FALSE
      OBVIOUS
    <3>1. A \cup s = A /\ SumOver(f, s) = 0
      BY SumEmpty
    <3> QED BY <1>a, <2>2, <3>1
  <2>4. PICK x \in s : TRUE
    BY <2>3
  <2>5. SumOver(f, s) = f[x] + SumOver(f, s \ {x})
    BY <1>0, SumTake
  <2>6. SumOver(f, A \cup s) = f[x] + SumOver(f, (A \cup s) \ {x})
    <3>1. PICK u : u = A \cup s
      OBVIOUS
    <3>2. IsFiniteSet(u)
      BY <1>a, <3>1
    <3>3. (\A y \in u : f[y] \in Int) /\ x \in u
      BY <3>1
    <3>4. SumOver(f, u) = f[x] + SumOver(f, u \ {x})
      BY <3>2, <3>3, SumTake
    <3> QED BY <3>1, <3>4
  <2>7. (A \cup s) \ {x} = A \cup (s \ {x}) /\ s \ {x} \in SUBSET B
    OBVIOUS
  <2>8. Cardinality(s \ {x}) = n - 1 /\ n - 1 \in Nat
    <3>1. Cardinality(s \ {x}) = Cardinality(s) - 1
      BY <1>0, FS_RemoveElement
    <3>2. Cardinality(s \ {x}) \in Nat
      BY <1>0, <2>7
    <3> QED BY <2>2, <3>1, <3>2
  <2>9. n - 1 \in T
    <3>1. SumOver(f, A \cup (s \ {x})) # SumOver(f, A) + SumOver(f, s \ {x})
      <4>1. PICK u, v, p, q : /\ u = f[x] /\ v = SumOver(f, s \ {x}) /\ p = SumOver(f, A)
                              /\ q = SumOver(f, A \cup (s \ {x}))
        OBVIOUS
      <4>2. u + q # p + (u + v)
        BY Zenon, <2>2, <2>5, <2>6, <2>7, <4>1
      <4>3. u \in Int
        BY <4>1
      <4>4. p \in Int /\ v \in Int /\ q \in Int
        BY <1>a, <2>7, <4>1
      <4>5. q # p + v
        BY <4>2, <4>3, <4>4
      <4> QED BY Zenon, <4>1, <4>5
    <3> QED BY <2>7, <2>8, <3>1
  <2> QED BY <2>1, <2>8, <2>9
<1>2. B \in SUBSET B
  OBVIOUS
<1> QED BY <1>0, <1>1, <1>2

\* A part of a sum of numbers that are not negative is not more than the sum.
LEMMA SumPart ==
    ASSUME NEW f, NEW S, IsFiniteSet(S), NEW P \in SUBSET S, \A x \in S : f[x] \in Nat
    PROVE  SumOver(f, P) <= SumOver(f, S)
<1>1. IsFiniteSet(P) /\ IsFiniteSet(S \ P)
  BY FS_Subset, FS_Difference
<1>2. SumOver(f, P \cup (S \ P)) = SumOver(f, P) + SumOver(f, S \ P)
  BY <1>1, SumUnion
<1>3. P \cup (S \ P) = S
  OBVIOUS
<1>4. SumOver(f, P) \in Nat
  <2>1. \A x \in P : f[x] \in Nat
    OBVIOUS
  <2> QED BY <1>1, <2>1, SumType
<1>5. SumOver(f, S \ P) \in Nat
  <2>1. \A x \in S \ P : f[x] \in Nat
    OBVIOUS
  <2> QED BY <1>1, <2>1, SumType
<1>6. PICK p, q : p = SumOver(f, P) /\ q = SumOver(f, S \ P)
  OBVIOUS
<1>7. SumOver(f, S) = p + q
  BY <1>2, <1>3, <1>6, Zenon
<1>8. p <= p + q
  BY <1>4, <1>5, <1>6
<1> QED BY <1>6, <1>7, <1>8, Zenon

LEMMA SumZero ==
    ASSUME NEW f, NEW S, IsFiniteSet(S), \A x \in S : f[x] = 0
    PROVE  SumOver(f, S) = 0
<1>1. \A p, q \in {0} : p + q \in {0}
  OBVIOUS
<1>2. SumOver(f, S) \in {0}
  BY <1>1, SumClosed
<1> QED BY <1>2

\* What is zero outside of a part has the sum of the part.
LEMMA SumOfPart ==
    ASSUME NEW f, NEW S, IsFiniteSet(S), NEW P \in SUBSET S,
           \A x \in S : f[x] \in Int, \A x \in S \ P : f[x] = 0
    PROVE  SumOver(f, S) = SumOver(f, P)
<1>1. IsFiniteSet(P) /\ IsFiniteSet(S \ P)
  BY FS_Subset, FS_Difference
<1>2. SumOver(f, P \cup (S \ P)) = SumOver(f, P) + SumOver(f, S \ P)
  BY <1>1, SumUnion
<1>3. P \cup (S \ P) = S
  OBVIOUS
<1>4. SumOver(f, S \ P) = 0
  BY <1>1, SumZero
<1>5. SumOver(f, P) \in Int
  <2>1. \A x \in P : f[x] \in Int
    OBVIOUS
  <2> QED BY <1>1, <2>1, SumType
<1>6. PICK p : p = SumOver(f, P)
  OBVIOUS
<1>7. SumOver(f, S) = p + 0
  BY Zenon, <1>2, <1>3, <1>4, <1>6
<1>8. p + 0 = p
  BY <1>5, <1>6
<1> QED BY Zenon, <1>6, <1>7, <1>8

\* One value changes.
LEMMA SumChange ==
    ASSUME NEW f, NEW h, NEW S, IsFiniteSet(S), NEW a \in S, NEW d \in Int,
           \A x \in S : f[x] \in Int /\ h[x] \in Int,
           h[a] = f[a] + d, \A x \in S \ {a} : h[x] = f[x]
    PROVE  SumOver(h, S) = SumOver(f, S) + d
<1>1. IsFiniteSet(S \ {a})
  BY FS_RemoveElement
<1>2. SumOver(h, S \ {a}) = SumOver(f, S \ {a})
  BY <1>1, SumAgree
<1>3. SumOver(h, S) = h[a] + SumOver(h, S \ {a}) /\ SumOver(f, S) = f[a] + SumOver(f, S \ {a})
  BY SumTake
<1>4. SumOver(f, S \ {a}) \in Int
  <2>1. \A x \in S \ {a} : f[x] \in Int
    OBVIOUS
  <2> QED BY <1>1, <2>1, SumType
<1>5. PICK u, r : u = f[a] /\ r = SumOver(f, S \ {a})
  OBVIOUS
<1>6. SumOver(h, S) = (u + d) + r /\ SumOver(f, S) = u + r
  BY Zenon, <1>2, <1>3, <1>5
<1>7. (u + d) + r = (u + r) + d
  BY <1>4, <1>5
<1> QED BY Zenon, <1>6, <1>7

\* The sum of sums of two values each.
LEMMA SumPlus ==
    ASSUME NEW f, NEW g, NEW h, NEW S, IsFiniteSet(S),
           \A x \in S : f[x] \in Int /\ g[x] \in Int /\ h[x] = f[x] + g[x]
    PROVE  SumOver(h, S) = SumOver(f, S) + SumOver(g, S)
<1> DEFINE T == {n \in Nat : \E s \in SUBSET S :
                    Cardinality(s) = n /\ SumOver(h, s) # SumOver(f, s) + SumOver(g, s)}
<1>0. ASSUME NEW s \in SUBSET S
      PROVE  /\ IsFiniteSet(s) /\ Cardinality(s) \in Nat
             /\ SumOver(f, s) \in Int /\ SumOver(g, s) \in Int
  <2>1. IsFiniteSet(s) /\ \A x \in s : f[x] \in Int /\ g[x] \in Int
    BY FS_Subset
  <2> QED BY <2>1, FS_CardinalityType, SumType
<1>1. T = {}
  <2> SUFFICES ASSUME T # {} PROVE FALSE
    OBVIOUS
  <2>1. PICK n \in T : \A m \in T : n <= m
    <3> T \in SUBSET Nat OBVIOUS
    <3> HIDE DEF T
    <3> QED BY LeastNumber
  <2>2. PICK s \in SUBSET S : Cardinality(s) = n /\ SumOver(h, s) # SumOver(f, s) + SumOver(g, s)
    BY <2>1
  <2>3. s # {}
    <3>1. SumOver(h, {}) = 0 /\ SumOver(f, {}) = 0 /\ SumOver(g, {}) = 0
      BY SumEmpty
    <3>2. ASSUME s = {} PROVE FALSE
      <4>1. SumOver(h, s) = 0 /\ SumOver(f, s) = 0 /\ SumOver(g, s) = 0
        BY Zenon, <3>1, <3>2
      <4>2. 0 # 0 + 0
        BY Zenon, <2>2, <4>1
      <4> QED BY <4>2
    <3> QED BY <3>2
  <2>4. PICK a, r : a = Picked(s) /\ r = s \ {a}
    OBVIOUS
  <2>5. a \in s /\ r \in SUBSET S /\ Cardinality(r) = n - 1 /\ Cardinality(r) \in Nat
    BY <1>0, <2>2, <2>3, <2>4, PickedIn, SumSmaller
  <2>6. /\ SumOver(h, s) = h[a] + SumOver(h, r) /\ SumOver(f, s) = f[a] + SumOver(f, r)
        /\ SumOver(g, s) = g[a] + SumOver(g, r)
    BY <1>0, <2>3, <2>4, SumStep
  <2>7. SumOver(h, r) = SumOver(f, r) + SumOver(g, r)
    <3> n \in Nat OBVIOUS
    <3>1. n - 1 \in Nat /\ n - 1 \notin T
      <4> HIDE DEF T
      <4> QED BY <2>1, <2>5
    <3> QED BY <2>5, <3>1
  <2>8. PICK u, v, p, q : u = f[a] /\ v = g[a] /\ p = SumOver(f, r) /\ q = SumOver(g, r)
    OBVIOUS
  <2>9. u \in Int /\ v \in Int /\ p \in Int /\ q \in Int /\ h[a] = u + v
    BY <1>0, <2>5, <2>8
  <2>10. SumOver(h, s) = (u + v) + (p + q) /\ SumOver(f, s) + SumOver(g, s) = (u + p) + (v + q)
    BY Zenon, <2>6, <2>7, <2>8, <2>9
  <2>11. (u + v) + (p + q) = (u + p) + (v + q)
    BY <2>9
  <2> QED BY Zenon, <2>2, <2>10, <2>11
<1>2. S \in SUBSET S
  OBVIOUS
<1> QED BY <1>0, <1>1, <1>2

\* What is not less anywhere has a sum that is not less.
LEMMA SumMore ==
    ASSUME NEW f, NEW h, NEW S, IsFiniteSet(S),
           \A x \in S : f[x] \in Int /\ h[x] \in Int /\ f[x] <= h[x]
    PROVE  SumOver(f, S) <= SumOver(h, S)
<1>1. PICK d : d = [x \in S |-> h[x] - f[x]]
  OBVIOUS
<1>2. \A x \in S : d[x] \in Nat /\ d[x] \in Int /\ h[x] = f[x] + d[x]
  BY <1>1
<1>3. SumOver(h, S) = SumOver(f, S) + SumOver(d, S)
  BY <1>2, SumPlus
<1>4. SumOver(d, S) \in Nat /\ SumOver(f, S) \in Int
  BY <1>2, SumType
<1>5. PICK p, q : p = SumOver(f, S) /\ q = SumOver(d, S)
  OBVIOUS
<1>6. p <= p + q
  BY <1>4, <1>5
<1> QED BY Zenon, <1>3, <1>5, <1>6

-----------------------------------------------------------------------------
(* What determines a sum.                                                  *)

\* What grows by f[x] with every element x of S.
Accumulates(g, f, S) ==
    /\ g[{}] = 0
    /\ \A s \in SUBSET S : \A x \in S \ s : g[s \cup {x}] = g[s] + f[x]

LEMMA SumDetermined ==
    ASSUME NEW f, NEW S, IsFiniteSet(S), \A x \in S : f[x] \in Int, NEW g, Accumulates(g, f, S)
    PROVE  g[S] = SumOver(f, S)
<1> DEFINE T == {n \in Nat : \E s \in SUBSET S : Cardinality(s) = n /\ g[s] # SumOver(f, s)}
<1>0. \A s \in SUBSET S : IsFiniteSet(s) /\ Cardinality(s) \in Nat
  BY FS_Subset, FS_CardinalityType
<1>1. T = {}
  <2> SUFFICES ASSUME T # {} PROVE FALSE
    OBVIOUS
  <2>1. PICK n \in T : \A m \in T : n <= m
    BY LeastNumber
  <2>2. PICK s \in SUBSET S : Cardinality(s) = n /\ g[s] # SumOver(f, s)
    OBVIOUS
  <2>3. s # {}
    BY <2>2, SumEmpty DEF Accumulates
  <2>4. PICK r, x : x = Picked(s) /\ r = s \ {x}
    OBVIOUS
  <2>5. x \in s /\ x \in S \ r /\ r \in SUBSET S /\ r \cup {x} = s
    BY <2>3, <2>4, PickedIn
  <2>6. Cardinality(r) = n - 1 /\ Cardinality(r) \in Nat
    BY <2>2, <2>3, <2>4, <1>0, SumSmaller
  <2>7. g[r] = SumOver(f, r)
    BY <2>1, <2>5, <2>6
  <2>8. SumOver(f, s) = f[x] + SumOver(f, r)
    BY <1>0, <2>3, <2>4, SumStep
  <2>9. SumOver(f, r) \in Int
    BY <1>0, <2>5, SumType
  <2>10. g[s] = g[r] + f[x]
    BY <2>5 DEF Accumulates
  <2> QED BY <2>2, <2>5, <2>7, <2>8, <2>9, <2>10
<1> QED BY <1>0, <1>1

\* A sum over different images is a sum over what they are images of.
LEMMA SumImage ==
    ASSUME NEW S, IsFiniteSet(S), NEW e, \A x, y \in S : e[x] = e[y] => x = y,
           NEW f, NEW h, \A x \in S : h[x] \in Int /\ f[e[x]] = h[x]
    PROVE  SumOver(f, {e[x] : x \in S}) = SumOver(h, S)
<1>1. PICK g : g = [s \in SUBSET S |-> SumOver(f, {e[x] : x \in s})]
  OBVIOUS
<1>2. g[{}] = 0
  <2>1. {e[x] : x \in {}} = {}
    OBVIOUS
  <2> QED BY <1>1, <2>1, SumEmpty
<1>3. ASSUME NEW s \in SUBSET S, NEW y \in S \ s
      PROVE  g[s \cup {y}] = g[s] + h[y]
  <2>1. PICK i : i = {e[x] : x \in s}
    OBVIOUS
  <2>2. {e[x] : x \in s \cup {y}} = i \cup {e[y]} /\ e[y] \notin i
    BY <2>1
  <2>3. IsFiniteSet(i)
    <3>1. IsFiniteSet(s)
      BY FS_Subset
    <3>2. [x \in s |-> e[x]] \in Surjection(s, i)
      BY <2>1 DEF Surjection
    <3> QED BY <3>1, <3>2, FS_Surjection
  <2>4. \A z \in i \cup {e[y]} : f[z] \in Int
    BY <2>1
  <2>5. SumOver(f, i \cup {e[y]}) = SumOver(f, i) + f[e[y]]
    BY <2>2, <2>3, <2>4, SumAdd
  <2>6. f[e[y]] = h[y]
    OBVIOUS
  <2>7. g[s \cup {y}] = SumOver(f, i \cup {e[y]}) /\ g[s] = SumOver(f, i)
    BY <1>1, <2>1, <2>2
  <2> QED BY <2>5, <2>6, <2>7
<1>4. g[S] = SumOver(h, S)
  <2>1. \A s \in SUBSET S : \A y \in S \ s : g[s \cup {y}] = g[s] + h[y]
    BY <1>3
  <2>2. Accumulates(g, h, S)
    BY <1>2, <2>1 DEF Accumulates
  <2> QED BY <2>2, SumDetermined
<1> QED BY <1>1, <1>4

LEMMA SumSingle ==
    ASSUME NEW f, NEW x, f[x] \in Int
    PROVE  SumOver(f, {x}) = f[x]
<1>1. IsFiniteSet({x}) /\ {x} \ {x} = {}
  BY FS_Singleton
<1>2. SumOver(f, {x}) = f[x] + SumOver(f, {x} \ {x})
  BY <1>1, SumTake
<1>3. SumOver(f, {x} \ {x}) = 0
  BY <1>1, SumEmpty
<1> QED BY <1>2, <1>3

LEMMA SumSolved ==
    ASSUME NEW f, NEW S, IsFiniteSet(S), NEW h, SumSolution(h, f, SUBSET S)
    PROVE  h[S] = SumOver(f, S)
BY SumSolves

\* A sum is that of the sums of its groups.
LEMMA SumGroups ==
    ASSUME NEW f, NEW S, IsFiniteSet(S), \A x \in S : f[x] \in Int,
           NEW key, NEW K, IsFiniteSet(K), \A x \in S : key[x] \in K,
           NEW g, \A k \in K : g[k] \subseteq S /\ \A x \in S : x \in g[k] <=> key[x] = k,
           NEW t, \A k \in K : t[k] = SumOver(f, g[k])
    PROVE  SumOver(t, K) = SumOver(f, S)
<1>1. PICK d : d = [A \in SUBSET K |-> SumOver(f, {x \in S : key[x] \in A})]
  OBVIOUS
<1>2. d[{}] = 0
  <2>1. {x \in S : key[x] \in {}} = {}
    OBVIOUS
  <2> QED BY <1>1, <2>1, SumEmpty
<1>3. \A k \in K : t[k] \in Int
  <2> SUFFICES ASSUME NEW k \in K PROVE t[k] \in Int
    OBVIOUS
  <2>1. IsFiniteSet(g[k]) /\ \A x \in g[k] : f[x] \in Int
    BY FS_Subset
  <2> QED BY <2>1, SumType
<1>4. ASSUME NEW A \in SUBSET K, NEW k \in K \ A
      PROVE  d[A \cup {k}] = d[A] + t[k]
  <2>1. PICK P, Q : P = {x \in S : key[x] \in A} /\ Q = g[k]
    OBVIOUS
  <2>2. IsFiniteSet(P) /\ IsFiniteSet(Q) /\ P \subseteq S /\ Q \subseteq S
    BY <2>1, FS_Subset
  <2>3. P \cap Q = {} /\ {x \in S : key[x] \in A \cup {k}} = P \cup Q
    BY <2>1
  <2>4. SumOver(f, P \cup Q) = SumOver(f, P) + SumOver(f, Q)
    BY <2>2, <2>3, SumUnion
  <2>5. d[A \cup {k}] = SumOver(f, P \cup Q) /\ d[A] = SumOver(f, P)
    <3>1. A \cup {k} \in SUBSET K
      OBVIOUS
    <3>2. d[A \cup {k}] = SumOver(f, {x \in S : key[x] \in A \cup {k}})
      BY <1>1, <3>1
    <3>3. d[A] = SumOver(f, {x \in S : key[x] \in A})
      BY <1>1
    <3> QED BY <2>1, <2>3, <3>2, <3>3
  <2>6. t[k] = SumOver(f, Q)
    BY <2>1
  <2> QED BY <2>4, <2>5, <2>6
<1>5. d[K] = SumOver(t, K)
  <2>1. Accumulates(d, t, K)
    BY <1>2, <1>4 DEF Accumulates
  <2> QED BY <1>3, <2>1, SumDetermined
<1>6. {x \in S : key[x] \in K} = S
  OBVIOUS
<1> QED BY <1>1, <1>5, <1>6

\* Finitely many integers have a least one.
LEMMA LeastInteger ==
    ASSUME NEW S \in SUBSET Int, IsFiniteSet(S), S # {}
    PROVE  \E n \in S : \A m \in S : n <= m
<1> DEFINE Least(s) == \E n \in s : \A m \in s : n <= m
           T == {n \in Nat : \E s \in SUBSET S : Cardinality(s) = n /\ s # {} /\ ~Least(s)}
<1>0. \A s \in SUBSET S : IsFiniteSet(s) /\ Cardinality(s) \in Nat
  BY FS_Subset, FS_CardinalityType
<1>1. T = {}
  <2> SUFFICES ASSUME T # {} PROVE FALSE
    OBVIOUS
  <2>1. PICK n \in T : \A m \in T : n <= m
    BY LeastNumber
  <2>2. PICK s \in SUBSET S : Cardinality(s) = n /\ s # {} /\ ~Least(s)
    OBVIOUS
  <2>3. PICK x, r : x = Picked(s) /\ r = s \ {x}
    OBVIOUS
  <2>4. x \in s /\ x \in Int /\ r \in SUBSET S /\ s = r \cup {x} /\ r \subseteq Int
    BY <2>2, <2>3, PickedIn
  <2>5. Cardinality(r) = n - 1 /\ Cardinality(r) \in Nat
    BY <2>2, <2>3, <1>0, SumSmaller
  <2>6. r # {}
    <3> SUFFICES ASSUME r = {} PROVE FALSE
      OBVIOUS
    <3>1. s = {x}
      BY <2>4
    <3> QED BY <2>2, <2>4, <3>1
  <2>7. Least(r)
    BY <2>1, <2>4, <2>5, <2>6
  <2>8. PICK y \in r : \A m \in r : y <= m
    BY <2>7
  <2>9. CASE y <= x
    <3>1. y \in s /\ \A m \in s : y <= m
      BY <2>4, <2>8, <2>9
    <3> QED BY <2>2, <3>1
  <2>10. CASE ~(y <= x)
    <3>1. \A m \in s : x <= m
      BY <2>4, <2>8, <2>10
    <3> QED BY <2>2, <2>4, <3>1
  <2> QED BY <2>9, <2>10
<1> QED BY <1>0, <1>1


\* The sum of multiples is the multiple of the sum.
LEMMA SumTimes ==
    ASSUME NEW f, NEW h, NEW S, IsFiniteSet(S), NEW c \in Int,
           \A x \in S : f[x] \in Int /\ h[x] = c * f[x]
    PROVE  SumOver(h, S) = c * SumOver(f, S)
<1>1. PICK g : g = [s \in SUBSET S |-> c * SumOver(f, s)]
  OBVIOUS
<1>2. \A s \in SUBSET S : g[s] = c * SumOver(f, s)
  BY <1>1
<1>3. g[{}] = 0
  <2>1. SumOver(f, {}) = 0
    BY SumEmpty
  <2> QED BY <1>2, <2>1
<1>4. ASSUME NEW s \in SUBSET S, NEW x \in S \ s
      PROVE  g[s \cup {x}] = g[s] + h[x]
  <2>1. IsFiniteSet(s)
    BY FS_Subset
  <2>2. \A y \in s \cup {x} : f[y] \in Int
    OBVIOUS
  <2>3. SumOver(f, s \cup {x}) = SumOver(f, s) + f[x]
    BY <2>1, <2>2, SumAdd
  <2>4. SumOver(f, s) \in Int
    BY <2>1, SumType
  <2>5. PICK p \in Int, q \in Int : p = SumOver(f, s) /\ q = f[x]
    BY <2>4
  <2>6. c * (p + q) = c * p + c * q
    OBVIOUS
  <2>7. s \cup {x} \in SUBSET S
    OBVIOUS
  <2> QED BY <1>2, <2>3, <2>5, <2>6, <2>7
<1>5. \A x \in S : h[x] \in Int
  OBVIOUS
<1>6. g[S] = SumOver(h, S)
  <2>1. Accumulates(g, h, S)
    BY <1>3, <1>4 DEF Accumulates
  <2> QED BY <1>5, <2>1, SumDetermined
<1> QED BY <1>2, <1>6

\* The sum of a number for each element.
LEMMA SumConstant ==
    ASSUME NEW f, NEW S, IsFiniteSet(S), NEW c \in Int, \A x \in S : f[x] = c
    PROVE  SumOver(f, S) = c * Cardinality(S)
<1>1. PICK g : g = [s \in SUBSET S |-> c * Cardinality(s)]
  OBVIOUS
<1>2. \A s \in SUBSET S : g[s] = c * Cardinality(s)
  BY <1>1
<1>3. g[{}] = 0
  <2>1. Cardinality({}) = 0
    BY FS_EmptySet
  <2> QED BY <1>2, <2>1
<1>4. ASSUME NEW s \in SUBSET S, NEW x \in S \ s
      PROVE  g[s \cup {x}] = g[s] + f[x]
  <2>1. IsFiniteSet(s)
    BY FS_Subset
  <2>2. Cardinality(s) \in Nat
    BY <2>1, FS_CardinalityType
  <2>3. Cardinality(s \cup {x}) = Cardinality(s) + 1
    BY <2>1, FS_AddElement
  <2>4. PICK p \in Nat : p = Cardinality(s)
    BY <2>2
  <2>5. c * (p + 1) = c * p + c
    OBVIOUS
  <2>6. s \cup {x} \in SUBSET S
    OBVIOUS
  <2> QED BY <1>2, <2>3, <2>4, <2>5, <2>6
<1>5. \A x \in S : f[x] \in Int
  OBVIOUS
<1>6. g[S] = SumOver(f, S)
  <2>1. Accumulates(g, f, S)
    BY <1>3, <1>4 DEF Accumulates
  <2> QED BY <1>5, <2>1, SumDetermined
<1> QED BY <1>2, <1>6

\* What numbers miss by at most half their unit, their sum misses by at most half
\* a unit for each of them.
LEMMA SumNearest ==
    ASSUME NEW f, NEW h, NEW S, IsFiniteSet(S), NEW a \in Nat, NEW b \in Nat,
           \A x \in S : f[x] \in Int /\ h[x] \in Int,
           \A x \in S : 2 * b * h[x] <= 2 * a * f[x] + b /\ 2 * a * f[x] <= 2 * b * h[x] + b
    PROVE  /\ 2 * b * SumOver(h, S) <= 2 * a * SumOver(f, S) + b * Cardinality(S)
           /\ 2 * a * SumOver(f, S) <= 2 * b * SumOver(h, S) + b * Cardinality(S)
<1>1. PICK p, q, u, pu, qu :
        /\ p = [x \in S |-> (2 * b) * h[x]] /\ q = [x \in S |-> (2 * a) * f[x]]
        /\ u = [x \in S |-> b]
        /\ pu = [x \in S |-> p[x] + u[x]] /\ qu = [x \in S |-> q[x] + u[x]]
  OBVIOUS
<1>2. \A x \in S : /\ p[x] = (2 * b) * h[x] /\ q[x] = (2 * a) * f[x] /\ u[x] = b
                   /\ p[x] \in Int /\ q[x] \in Int /\ u[x] \in Int
                   /\ pu[x] = p[x] + u[x] /\ qu[x] = q[x] + u[x]
                   /\ pu[x] \in Int /\ qu[x] \in Int
  BY <1>1
<1>3. \A x \in S : p[x] <= qu[x] /\ q[x] <= pu[x]
  BY <1>2
<1>4. SumOver(p, S) = (2 * b) * SumOver(h, S) /\ SumOver(q, S) = (2 * a) * SumOver(f, S)
  <2>1. 2 * b \in Int /\ 2 * a \in Int
    OBVIOUS
  <2>2. SumOver(p, S) = (2 * b) * SumOver(h, S)
    BY <1>2, <2>1, SumTimes
  <2>3. SumOver(q, S) = (2 * a) * SumOver(f, S)
    BY <1>2, <2>1, SumTimes
  <2> QED BY <2>2, <2>3
<1>5. SumOver(u, S) = b * Cardinality(S)
  BY <1>2, SumConstant
<1>6. /\ SumOver(pu, S) = SumOver(p, S) + SumOver(u, S)
      /\ SumOver(qu, S) = SumOver(q, S) + SumOver(u, S)
  BY <1>2, SumPlus
<1>7. SumOver(p, S) <= SumOver(qu, S) /\ SumOver(q, S) <= SumOver(pu, S)
  BY <1>2, <1>3, SumMore
<1>8. SumOver(h, S) \in Int /\ SumOver(f, S) \in Int /\ Cardinality(S) \in Nat
  BY SumType, FS_CardinalityType
<1> QED BY <1>4, <1>5, <1>6, <1>7, <1>8

-----------------------------------------------------------------------------
(* Quotients and products.                                                 *)

\* A number is its quotient times the divisor, and a rest.
LEMMA Quotient ==
    ASSUME NEW a \in Nat, NEW b \in Nat \ {0}
    PROVE  \E q \in Nat, r \in Nat : q = a \div b /\ r = a % b /\ r < b /\ a = b * q + r
<1>1. PICK q, r : q = a \div b /\ r = a % b
  OBVIOUS
<1>2. q \in Nat /\ r \in Nat /\ r < b
  BY <1>1
<1>3. a = b * q + r
  BY <1>1, <1>2
<1> QED BY <1>1, <1>2, <1>3

\* Factors that are not zero cancel.
LEMMA Cancelled ==
    ASSUME NEW a \in Nat \ {0}, NEW b \in Int, NEW c \in Int, a * b <= a * c
    PROVE  b <= c
<1> SUFFICES ASSUME b >= c + 1 PROVE FALSE
  OBVIOUS
<1>1. a * b >= a * (c + 1)
  OBVIOUS
<1>2. a * (c + 1) = a * c + a
  OBVIOUS
<1> QED BY <1>1, <1>2

LEMMA Multiplied ==
    ASSUME NEW a \in Nat, NEW b \in Int, NEW c \in Int, b <= c
    PROVE  a * b <= a * c
  OBVIOUS

-----------------------------------------------------------------------------
(* Sequences put one after the other.                                      *)

\* FlattenSeq is the solution of an equation over the indices.
FlatRule(ss, g, i) == IF i = 1 THEN ss[i] ELSE g[i - 1] \o ss[i]

FlatSolution(g, ss, n) == g = [i \in 1..n |-> FlatRule(ss, g, i)]

LEMMA FlatUnfold ==
    ASSUME NEW ss, Len(ss) # 0
    PROVE  FlattenSeq(ss) = (CHOOSE g : FlatSolution(g, ss, Len(ss)))[Len(ss)]
BY Zenon DEF FlattenSeq, FlatSolution, FlatRule

LEMMA FlatSolvable ==
    ASSUME NEW ss, NEW n \in Nat
    PROVE  \E g : FlatSolution(g, ss, n)
<1> DEFINE T == {m \in Nat : ~\E g : FlatSolution(g, ss, m)}
<1>1. T = {}
  <2> SUFFICES ASSUME T # {} PROVE FALSE
    OBVIOUS
  <2>1. PICK m \in T : \A k \in T : m <= k
    <3> T \in SUBSET Nat OBVIOUS
    <3> HIDE DEF T
    <3> QED BY LeastNumber
  <2>2. m # 0
    <3> SUFFICES ASSUME m = 0 PROVE FALSE OBVIOUS
    <3> DEFINE g == [i \in 1..0 |-> 0]
    <3>1. \A i \in 1..0 : FALSE
      OBVIOUS
    <3>2. FlatSolution(g, ss, 0)
      BY <3>1 DEF FlatSolution
    <3> QED BY <3>2
  <2>3. m - 1 \in Nat /\ m - 1 \notin T
    <3> m \in Nat OBVIOUS
    <3> HIDE DEF T
    <3> QED BY <2>1, <2>2
  <2>4. PICK g : FlatSolution(g, ss, m - 1)
    BY <2>3
  <2> DEFINE h == [i \in 1..m |-> FlatRule(ss, g, i)]
  <2>5. ASSUME NEW i \in 1..m
        PROVE  FlatRule(ss, g, i) = FlatRule(ss, h, i)
    <3>1. CASE i = 1
      BY <3>1 DEF FlatRule
    <3>2. CASE i # 1
      <4>1. i - 1 \in 1..(m - 1) /\ i - 1 \in 1..m
        BY <3>2, <2>3
      <4>2. g[i - 1] = FlatRule(ss, g, i - 1)
        BY <2>4, <4>1 DEF FlatSolution
      <4>3. h[i - 1] = FlatRule(ss, g, i - 1)
        BY <4>1
      <4> QED BY <3>2, <4>2, <4>3 DEF FlatRule
    <3> QED BY <3>1, <3>2
  <2>6. FlatSolution(h, ss, m)
    BY <2>5 DEF FlatSolution
  <2> QED BY <2>1, <2>6
<1> QED BY <1>1


FlatBy(g, A, ss, n) ==
    /\ \A i \in 0..n : g[i] \in Seq(A)
    /\ g[0] = <<>> /\ g[n] = FlattenSeq(ss)
    /\ \A i \in 1..n : g[i] = g[i - 1] \o ss[i]

\* FlattenSeq puts one part after the other.
LEMMA FlatIs ==
    ASSUME NEW A, NEW ss \in Seq(Seq(A)), NEW n, n = Len(ss)
    PROVE  \E g : FlatBy(g, A, ss, n)
<1>1. n \in Nat /\ \A i \in 1..n : ss[i] \in Seq(A)
  OBVIOUS
<1>2. CASE n = 0
  <2>1. ss = <<>>
    <3>1. \A t \in Seq(Seq(A)) : Len(t) = 0 => t = <<>>
      OBVIOUS
    <3> QED BY <1>2, <3>1
  <2>0. <<>> \in Seq(A)
    OBVIOUS
  <2>2. FlattenSeq(ss) = ss
    BY <1>2 DEF FlattenSeq
  <2>3. PICK g : g = [i \in {0} |-> ss]
    OBVIOUS
  <2>4. g[0] = ss /\ (\A i \in 0..n : i = 0) /\ \A i \in 1..n : FALSE
    BY <1>2, <2>3
  <2>5. \A i \in 0..n : g[i] \in Seq(A)
    BY <2>0, <2>1, <2>4
  <2> QED BY <1>2, <2>1, <2>2, <2>4, <2>5 DEF FlatBy
<1>3. CASE n # 0
  <2>1. PICK h : FlatSolution(h, ss, n) /\ h = (CHOOSE f : FlatSolution(f, ss, n))
    BY <1>1, FlatSolvable
  <2>2. h[n] = FlattenSeq(ss)
    BY <1>3, <2>1, FlatUnfold
  <2>3. \A i \in 1..n : h[i] = FlatRule(ss, h, i)
    BY <2>1 DEF FlatSolution
  <2>4. PICK g : g = [i \in 0..n |-> IF i = 0 THEN <<>> ELSE h[i]]
    OBVIOUS
  <2>5. g[0] = <<>> /\ \A i \in 1..n : g[i] = h[i]
    BY <1>1, <2>4
  <2>6. ASSUME NEW i \in 1..n
        PROVE  g[i] = IF i = 1 THEN ss[1] ELSE g[i - 1] \o ss[i]
    <3>1. i = 1 \/ i - 1 \in 1..n
      BY <1>1
    <3> QED BY <2>3, <2>5, <3>1 DEF FlatRule
  <2>7. ASSUME NEW i \in 1..n
        PROVE  g[i] = g[i - 1] \o ss[i]
    <3>1. CASE i = 1
      <4>1. PICK q \in Seq(A) : q = ss[1]
        BY <1>1, <3>1
      <4>2. <<>> \o q = q
        BY ConcatEmptySeq
      <4>3. g[i] = q /\ i - 1 = 0
        BY <2>6, <3>1, <4>1
      <4>4. g[i - 1] = <<>> /\ ss[i] = q
        BY <2>5, <3>1, <4>1, <4>3
      <4> QED BY <4>2, <4>3, <4>4
    <3> QED BY <2>6, <3>1
  <2> DEFINE T == {i \in 0..n : g[i] \notin Seq(A)}
  <2>8. T = {}
    <3> SUFFICES ASSUME T # {} PROVE FALSE
      OBVIOUS
    <3>1. PICK m \in T : \A k \in T : m <= k
      <4> T \in SUBSET Nat OBVIOUS
      <4> HIDE DEF T
      <4> QED BY LeastNumber
    <3>2. m \in 0..n /\ g[m] \notin Seq(A)
      OBVIOUS
    <3>3. m # 0
      <4>1. <<>> \in Seq(A)
        OBVIOUS
      <4> QED BY <2>5, <3>2, <4>1
    <3>4. m - 1 \in 0..n /\ m \in 1..n /\ m - 1 \notin T
      <4> HIDE DEF T
      <4> QED BY <1>1, <3>1, <3>2, <3>3
    <3>5. PICK p, q \in Seq(A) : p = g[m - 1] /\ q = ss[m]
      BY <1>1, <3>4
    <3>6. p \o q \in Seq(A)
      OBVIOUS
    <3>7. g[m] = p \o q
      BY <2>7, <3>4, <3>5
    <3> QED BY <3>2, <3>6, <3>7
  <2>9. n \in 0..n
    BY <1>1
  <2>10. \A i \in 0..n : g[i] \in Seq(A)
    BY <2>8
  <2>11. g[n] = FlattenSeq(ss)
    <3>1. n \in 1..n
      BY <1>1, <1>3
    <3> QED BY <2>2, <2>5, <3>1
  <2> QED BY <2>5, <2>7, <2>10, <2>11 DEF FlatBy
<1> QED BY <1>2, <1>3

\* The parts of a flattened sequence are its members.
LEMMA FlatFrom ==
    ASSUME NEW A, NEW ss \in Seq(Seq(A))
    PROVE  /\ FlattenSeq(ss) \in Seq(A)
           /\ \A x \in Range(FlattenSeq(ss)) : \E s \in Range(ss) : x \in Range(s)
<1>1. PICK L : L = Len(ss)
  OBVIOUS
<1>2. L \in Nat /\ DOMAIN ss = 1..L /\ \A i \in 1..L : ss[i] \in Seq(A)
  BY <1>1
<1>0. PICK g : FlatBy(g, A, ss, L)
  BY <1>1, FlatIs
<1>3. /\ \A i \in 0..L : g[i] \in Seq(A)
     /\ g[0] = <<>> /\ g[L] = FlattenSeq(ss)
     /\ \A i \in 1..L : g[i] = g[i - 1] \o ss[i]
  BY <1>0 DEF FlatBy
<1>4. PICK U : U = {x \in A : \E s \in Range(ss) : x \in Range(s)}
  OBVIOUS
<1> DEFINE T == {i \in 0..L : ~(Range(g[i]) \subseteq U)}
<1>5. T = {}
  <2> SUFFICES ASSUME T # {} PROVE FALSE
    OBVIOUS
  <2>1. PICK m \in T : \A k \in T : m <= k
    <3> T \in SUBSET Nat OBVIOUS
    <3> HIDE DEF T
    <3> QED BY LeastNumber
  <2>2. m \in 0..L /\ ~(Range(g[m]) \subseteq U)
    OBVIOUS
  <2>3. m # 0
    <3>1. \A x : x \notin Range(<<>>)
      BY DEF Range
    <3> QED BY <1>3, <2>2, <3>1
  <2>4. m - 1 \in 0..L /\ m \in 1..L /\ m - 1 \notin T
    <3> HIDE DEF T
    <3> QED BY <1>2, <2>1, <2>2, <2>3
  <2>5. PICK p : p = g[m - 1]
    OBVIOUS
  <2>6. PICK q : q = ss[m]
    OBVIOUS
  <2>7. p \in Seq(A) /\ q \in Seq(A) /\ g[m] = p \o q
    BY <1>2, <1>3, <2>4, <2>5, <2>6
  <2>8. Range(p) \subseteq U
    BY <2>4, <2>5
  <2>9. Range(q) \subseteq U
    <3>1. q \in Range(ss)
      BY <1>2, <2>4, <2>6 DEF Range
    <3>2. \A x \in Range(q) : x \in A
      BY <2>7 DEF Range
    <3> QED BY <1>4, <3>1, <3>2
  <2>10. \A x \in Range(p \o q) : x \in Range(p) \/ x \in Range(q)
    <3> SUFFICES ASSUME NEW x \in Range(p \o q) PROVE x \in Range(p) \/ x \in Range(q)
      OBVIOUS
    <3>0. DOMAIN (p \o q) = 1..(Len(p) + Len(q)) /\ Len(p) \in Nat /\ Len(q) \in Nat
          /\ DOMAIN p = 1..Len(p) /\ DOMAIN q = 1..Len(q)
      BY <2>7
    <3>1. PICK i \in 1..(Len(p) + Len(q)) : x = (p \o q)[i]
      BY <3>0 DEF Range
    <3>2. CASE i <= Len(p)
      <4>1. i \in 1..Len(p) /\ x = p[i]
        BY <2>7, <3>0, <3>1, <3>2
      <4> QED BY <3>0, <4>1 DEF Range
    <3>3. CASE i > Len(p)
      <4>1. i - Len(p) \in 1..Len(q) /\ x = q[i - Len(p)]
        BY <2>7, <3>0, <3>1, <3>3
      <4> QED BY <3>0, <4>1 DEF Range
    <3> QED BY <3>0, <3>2, <3>3
  <2> QED BY <2>2, <2>7, <2>8, <2>9, <2>10
<1>6. L \in 0..L /\ L \notin T
  BY <1>2, <1>5
<1>7. g[L] \in Seq(A) /\ Range(g[L]) \subseteq U
  BY <1>3, <1>6
<1> QED BY <1>3, <1>4, <1>7

\* A flattened sequence has the members of its parts.
LEMMA FlatHas ==
    ASSUME NEW A, NEW ss \in Seq(Seq(A)), NEW s \in Range(ss), NEW x \in Range(s)
    PROVE  x \in Range(FlattenSeq(ss))
<1>1. PICK L : L = Len(ss)
  OBVIOUS
<1>2. L \in Nat /\ DOMAIN ss = 1..L /\ \A i \in 1..L : ss[i] \in Seq(A)
  BY <1>1
<1>3. PICK g : FlatBy(g, A, ss, L)
  BY <1>1, FlatIs
<1>4. /\ \A i \in 0..L : g[i] \in Seq(A)
      /\ g[0] = <<>> /\ g[L] = FlattenSeq(ss)
      /\ \A i \in 1..L : g[i] = g[i - 1] \o ss[i]
  BY <1>3 DEF FlatBy
<1>5. PICK j \in 1..L : s = ss[j]
  BY <1>2 DEF Range
<1> DEFINE T == {i \in 0..L : j <= i /\ x \notin Range(g[i])}
<1>6. T = {}
  <2> SUFFICES ASSUME T # {} PROVE FALSE
    OBVIOUS
  <2>1. PICK m \in T : \A k \in T : m <= k
    <3> T \in SUBSET Nat BY <1>2
    <3> HIDE DEF T
    <3> QED BY LeastNumber
  <2>2. m \in 0..L /\ j <= m /\ x \notin Range(g[m])
    OBVIOUS
  <2>3. m \in 1..L /\ m - 1 \in 0..L
    BY <1>2, <1>5, <2>2
  <2>4. PICK p, q : p = g[m - 1] /\ q = ss[m]
    OBVIOUS
  <2>5. p \in Seq(A) /\ q \in Seq(A) /\ g[m] = p \o q
    BY <1>2, <1>4, <2>3, <2>4
  <2>6. x \in Range(p) \/ x \in Range(q)
    <3>1. CASE j = m
      BY <1>5, <2>4, <3>1
    <3>2. CASE j # m
      <4>1. j <= m - 1 /\ m - 1 < m
        BY <1>2, <1>5, <2>2, <3>2
      <4>2. m - 1 \notin T
        <5> HIDE DEF T
        <5> QED BY <1>2, <2>1, <2>3, <4>1
      <4> QED BY <2>3, <2>4, <4>1, <4>2
    <3> QED BY <3>1, <3>2
  <2>7. x \in Range(p \o q)
    <3>0. DOMAIN (p \o q) = 1..(Len(p) + Len(q)) /\ Len(p) \in Nat /\ Len(q) \in Nat
          /\ DOMAIN p = 1..Len(p) /\ DOMAIN q = 1..Len(q)
      BY <2>5
    <3>1. CASE x \in Range(p)
      <4>1. PICK k \in 1..Len(p) : x = p[k]
        BY <3>0, <3>1 DEF Range
      <4>2. k \in DOMAIN (p \o q) /\ (p \o q)[k] = x
        BY <2>5, <3>0, <4>1
      <4> QED BY <4>2 DEF Range
    <3>2. CASE x \in Range(q)
      <4>1. PICK k \in 1..Len(q) : x = q[k]
        BY <3>0, <3>2 DEF Range
      <4>2. Len(p) + k \in DOMAIN (p \o q) /\ (p \o q)[Len(p) + k] = x
        BY <2>5, <3>0, <4>1
      <4> QED BY <4>2 DEF Range
    <3> QED BY <2>6, <3>1, <3>2
  <2> QED BY <2>2, <2>5, <2>7
<1>7. L \in 0..L /\ j <= L /\ L \notin T
  BY <1>2, <1>6
<1> QED BY <1>4, <1>7

=============================================================================
