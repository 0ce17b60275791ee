-------------------------- MODULE Rollups_proofs --------------------------
(***************************************************************************)
(* What TLAPS proves of Rollups, for any accounts with any costs, any      *)
(* links between them, and any number of scans and of rows in a file.      *)
(***************************************************************************)
EXTENDS Rollups, Sums, SequenceTheorems, FunctionTheorems, TLAPS

-----------------------------------------------------------------------------
(* What is computed in K steps.                                            *)

StepsFrom(f, a, step, K) == f = [i \in 0..K |-> IF i = 0 THEN a ELSE step[<<i, f[i - 1]>>]]

\* Steps that stay within a set can be taken.
LEMMA StepsExist ==
    ASSUME NEW S, NEW a \in S, NEW K \in Nat, NEW step \in [(1..K) \X S -> S]
    PROVE  \E f : StepsFrom(f, a, step, K) /\ \A i \in 0..K : f[i] \in S
<1> DEFINE Good(m) == \E f : StepsFrom(f, a, step, m) /\ \A i \in 0..m : f[i] \in S
           T == {m \in 0..K : ~Good(m)}
<1>1. T = {}
  <2> SUFFICES ASSUME T # {} PROVE FALSE
    OBVIOUS
  <2>1. PICK m \in T : \A j \in T : m <= j
    <3> T \in SUBSET Nat OBVIOUS
    <3> HIDE DEF T
    <3> QED BY LeastNumber
  <2>2. m \in 0..K /\ ~Good(m)
    OBVIOUS
  <2>3. m # 0
    <3> SUFFICES ASSUME m = 0 PROVE FALSE OBVIOUS
    <3>1. PICK f : f = [i \in 0..0 |-> a]
      OBVIOUS
    <3>2. \A i \in 0..0 : i = 0 /\ f[i] = a
      BY <3>1
    <3>3. StepsFrom(f, a, step, 0)
      BY <3>1, <3>2 DEF StepsFrom
    <3>4. Good(0)
      BY <3>2, <3>3
    <3> QED BY <2>2, <3>4
  <2>4. m - 1 \in 0..K /\ m - 1 \notin T
    <3>1. m - 1 \in 0..K
      BY <2>2, <2>3
    <3>2. m \in Int
      BY <2>2
    <3> HIDE DEF T
    <3> QED BY <2>1, <3>1, <3>2
  <2>5. PICK f : StepsFrom(f, a, step, m - 1) /\ \A i \in 0..(m - 1) : f[i] \in S
    BY <2>4
  <2>6. PICK h : h = [i \in 0..m |-> IF i = 0 THEN a ELSE step[<<i, f[i - 1]>>]]
    OBVIOUS
  <2>7. ASSUME NEW i \in 0..(m - 1) PROVE h[i] = f[i]
    <3>1. f[i] = IF i = 0 THEN a ELSE step[<<i, f[i - 1]>>]
      BY <2>5, Zenon DEF StepsFrom
    <3>2. i \in 0..m
      BY <2>2
    <3> QED BY <2>6, <3>1, <3>2
  <2>8. ASSUME NEW i \in 0..m, i # 0 PROVE h[i] = step[<<i, h[i - 1]>>] /\ h[i] \in S
    <3>1. i - 1 \in 0..(m - 1) /\ i \in 1..K
      BY <2>2, <2>8
    <3>2. h[i - 1] = f[i - 1] /\ f[i - 1] \in S
      BY <2>5, <2>7, <3>1
    <3>3. h[i] = step[<<i, f[i - 1]>>]
      BY <2>6, <2>8
    <3>4. step[<<i, f[i - 1]>>] \in S
      BY <3>1, <3>2
    <3> QED BY <3>2, <3>3, <3>4
  <2>9. h[0] = a
    BY <2>2, <2>6
  <2>10. StepsFrom(h, a, step, m)
    <3>1. \A i \in 0..m : (IF i = 0 THEN a ELSE step[<<i, f[i - 1]>>])
                           = (IF i = 0 THEN a ELSE step[<<i, h[i - 1]>>])
      BY <2>6, <2>8
    <3> QED BY <2>6, <3>1 DEF StepsFrom
  <2>11. Good(m)
    BY <2>8, <2>9, <2>10
  <2> QED BY <2>2, <2>11
<1>2. K \in 0..K
  OBVIOUS
<1> QED BY <1>1, <1>2

StepsOf(f, a, step, K) == f[0] = a /\ \A i \in 1..K : f[i] = step[<<i, f[i - 1]>>]

\* They lead to one place only.
LEMMA StepsAgree ==
    ASSUME NEW a, NEW step, NEW K \in Nat, NEW f, NEW g,
           StepsOf(f, a, step, K), StepsOf(g, a, step, K)
    PROVE  \A i \in 0..K : f[i] = g[i]
<1> DEFINE T == {m \in 0..K : f[m] # g[m]}
<1>1. T = {}
  <2> SUFFICES ASSUME T # {} PROVE FALSE
    OBVIOUS
  <2>1. PICK m \in T : \A j \in T : m <= j
    <3> T \in SUBSET Nat OBVIOUS
    <3> HIDE DEF T
    <3> QED BY LeastNumber
  <2>2. m \in 0..K /\ f[m] # g[m]
    OBVIOUS
  <2>3. m # 0
    BY <2>2 DEF StepsOf
  <2>4. m - 1 \in 0..K /\ m \in 1..K
    BY <2>2, <2>3
  <2>5. m - 1 \notin T
    <3>1. m \in Int
      BY <2>2
    <3> HIDE DEF T
    <3> QED BY <2>1, <3>1
  <2>6. f[m - 1] = g[m - 1]
    BY <2>4, <2>5
  <2> QED BY <2>2, <2>4, <2>6 DEF StepsOf
<1> QED BY <1>1

LEMMA StepsAre ==
    ASSUME NEW f, NEW a, NEW step, NEW K \in Nat, StepsFrom(f, a, step, K)
    PROVE  StepsOf(f, a, step, K)
<1>1. f[0] = a
  <2>1. 0 \in 0..K
    OBVIOUS
  <2>2. f[0] = IF 0 = 0 THEN a ELSE step[<<0, f[0 - 1]>>]
    BY <2>1, Zenon DEF StepsFrom
  <2> QED BY <2>2
<1>2. ASSUME NEW i \in 1..K PROVE f[i] = step[<<i, f[i - 1]>>]
  <2>1. i \in 0..K /\ i # 0
    OBVIOUS
  <2>2. f[i] = IF i = 0 THEN a ELSE step[<<i, f[i - 1]>>]
    BY <2>1, Zenon DEF StepsFrom
  <2> QED BY <2>1, <2>2
<1> QED BY <1>1, <1>2 DEF StepsOf

-----------------------------------------------------------------------------
(* Parents: every node has one, a node or the root.                        *)

Nodes(up) == DOMAIN up \cup {Root}

Forest(up) ==
    /\ IsFiniteSet(DOMAIN up) /\ Root \notin DOMAIN up
    /\ up = [n \in DOMAIN up |-> up[n]]
    /\ \A n \in DOMAIN up : up[n] \in Nodes(up)

Upward(up, x) == IF x = Root THEN Root ELSE up[x]

AboveRule(up, n, f, i) == IF i = 0 \/ f[i - 1] = Root THEN (IF i = 0 THEN n ELSE Root) ELSE up[f[i - 1]]

AboveSolution(f, up, n, k) == f = [i \in 0..k |-> AboveRule(up, n, f, i)]

LEMMA AboveUnfold ==
    ASSUME NEW up, NEW n, NEW k
    PROVE  Above(up, n, k) = (CHOOSE f : AboveSolution(f, up, n, k))[k]
BY Zenon DEF Above, AboveSolution, AboveRule

PathOf(g, up, n, k) == g[0] = n /\ \A i \in 1..k : g[i] = Upward(up, g[i - 1])

\* A path leads to what is above a node.
LEMMA PathIs ==
    ASSUME NEW up, Forest(up), NEW n \in Nodes(up), NEW k \in Nat
    PROVE  /\ Above(up, n, k) \in Nodes(up)
           /\ \A g : PathOf(g, up, n, k) => Above(up, n, k) = g[k]
<1>1. PICK step : step = [p \in (1..k) \X Nodes(up) |-> Upward(up, p[2])]
  OBVIOUS
<1>2. \A i \in 1..k, s \in Nodes(up) : step[<<i, s>>] = Upward(up, s) /\ Upward(up, s) \in Nodes(up)
  <2>1. \A s \in Nodes(up) : Upward(up, s) \in Nodes(up)
    BY DEF Upward, Nodes, Forest
  <2> QED BY <1>1, <2>1
<1>3. step \in [(1..k) \X Nodes(up) -> Nodes(up)]
  <2>1. \A s \in Nodes(up) : Upward(up, s) \in Nodes(up)
    BY DEF Upward, Nodes, Forest
  <2> QED BY <1>1, <2>1
<1>4. \A f : AboveSolution(f, up, n, k) => PathOf(f, up, n, k)
  <2> SUFFICES ASSUME NEW f, AboveSolution(f, up, n, k) PROVE PathOf(f, up, n, k)
    OBVIOUS
  <2>1. \A i \in 0..k : f[i] = AboveRule(up, n, f, i)
    BY Zenon DEF AboveSolution
  <2>2. f[0] = n
    <3>1. 0 \in 0..k
      OBVIOUS
    <3> QED BY <2>1, <3>1 DEF AboveRule
  <2>3. ASSUME NEW i \in 1..k PROVE f[i] = Upward(up, f[i - 1])
    <3>1. i \in 0..k /\ i # 0
      OBVIOUS
    <3> QED BY <2>1, <3>1 DEF AboveRule, Upward
  <2> QED BY <2>2, <2>3 DEF PathOf
<1>5. PICK h : StepsFrom(h, n, step, k) /\ \A i \in 0..k : h[i] \in Nodes(up)
  BY <1>3, StepsExist
<1>6. StepsOf(h, n, step, k)
  BY <1>5, StepsAre
<1>7. AboveSolution(h, up, n, k)
  <2>1. ASSUME NEW i \in 0..k
        PROVE  AboveRule(up, n, h, i) = (IF i = 0 THEN n ELSE step[<<i, h[i - 1]>>])
    <3>1. CASE i = 0
      BY <3>1 DEF AboveRule
    <3>2. CASE i # 0
      <4>1. i \in 1..k /\ h[i - 1] \in Nodes(up)
        BY <1>5, <3>2
      <4>2. step[<<i, h[i - 1]>>] = Upward(up, h[i - 1])
        BY <1>2, <4>1
      <4> QED BY <3>2, <4>2 DEF AboveRule, Upward
    <3> QED BY <3>1, <3>2
  <2> QED BY <1>5, <2>1 DEF StepsFrom, AboveSolution
<1>8. ASSUME NEW g, PathOf(g, up, n, k)
      PROVE  \A i \in 0..k : g[i] = h[i]
  <2>1. \A i \in 0..k : g[i] \in Nodes(up)
    <3> DEFINE T == {m \in 0..k : g[m] \notin Nodes(up)}
    <3>1. T = {}
      <4> SUFFICES ASSUME T # {} PROVE FALSE
        OBVIOUS
      <4>1. PICK m \in T : \A j \in T : m <= j
        <5> T \in SUBSET Nat OBVIOUS
        <5> HIDE DEF T
        <5> QED BY LeastNumber
      <4>2. m \in 0..k /\ g[m] \notin Nodes(up)
        OBVIOUS
      <4>3. m # 0
        BY <1>8, <4>2 DEF PathOf
      <4>4. m - 1 \in 0..k /\ m \in 1..k
        BY <4>2, <4>3
      <4>5. m - 1 \notin T
        <5>1. m \in Int
          BY <4>2
        <5> HIDE DEF T
        <5> QED BY <4>1, <5>1
      <4>6. g[m - 1] \in Nodes(up) /\ g[m] = Upward(up, g[m - 1])
        BY <1>8, <4>4, <4>5 DEF PathOf
      <4> QED BY <1>2, <4>2, <4>4, <4>6
    <3> QED BY <3>1
  <2>2. StepsOf(g, n, step, k)
    <3>1. ASSUME NEW i \in 1..k PROVE g[i] = step[<<i, g[i - 1]>>]
      <4>1. i - 1 \in 0..k
        OBVIOUS
      <4>2. g[i - 1] \in Nodes(up)
        BY <2>1, <4>1
      <4> QED BY <1>2, <1>8, <4>2 DEF PathOf
    <3> QED BY <1>8, <3>1 DEF StepsOf, PathOf
  <2> QED BY <1>6, <2>2, StepsAgree
<1>9. Above(up, n, k) = h[k]
  <2>1. PICK f : f = CHOOSE g : AboveSolution(g, up, n, k)
    OBVIOUS
  <2>2. AboveSolution(f, up, n, k)
    BY <1>7, <2>1, Zenon
  <2>3. PathOf(f, up, n, k)
    BY <1>4, <2>2
  <2>4. k \in 0..k
    OBVIOUS
  <2>5. f[k] = h[k]
    BY <1>8, <2>3, <2>4
  <2> QED BY <2>1, <2>5, AboveUnfold
<1>10. k \in 0..k
  OBVIOUS
<1> QED BY <1>5, <1>8, <1>9, <1>10

LEMMA AboveType ==
    ASSUME NEW up, Forest(up), NEW n \in Nodes(up), NEW k \in Nat
    PROVE  Above(up, n, k) \in Nodes(up)
BY PathIs

\* What is above a node makes a path.
LEMMA AboveStep ==
    ASSUME NEW up, Forest(up), NEW n \in Nodes(up)
    PROVE  Above(up, n, 0) = n /\ \A k \in Nat : Above(up, n, k + 1) = Upward(up, Above(up, n, k))
<1>1. ASSUME NEW k \in Nat
      PROVE  \E g : PathOf(g, up, n, k) /\ \A i \in 0..k : g[i] = Above(up, n, i)
  <2>1. PICK s : s = [p \in (1..k) \X Nodes(up) |-> Upward(up, p[2])]
    OBVIOUS
  <2>2. \A x \in Nodes(up) : Upward(up, x) \in Nodes(up)
    BY DEF Upward, Nodes, Forest
  <2>3. s \in [(1..k) \X Nodes(up) -> Nodes(up)]
    BY <2>1, <2>2
  <2>4. PICK h : StepsFrom(h, n, s, k) /\ \A i \in 0..k : h[i] \in Nodes(up)
    BY <2>3, StepsExist
  <2>5. StepsOf(h, n, s, k)
    BY <2>4, StepsAre
  <2>6. \A i \in 1..k : h[i] = Upward(up, h[i - 1])
    <3> TAKE i \in 1..k
    <3>1. h[i - 1] \in Nodes(up)
      BY <2>4
    <3> QED BY <2>1, <2>5, <3>1 DEF StepsOf
  <2>7. ASSUME NEW i \in 0..k PROVE h[i] = Above(up, n, i)
    <3>1. PathOf(h, up, n, i)
      BY <2>5, <2>6 DEF PathOf, StepsOf
    <3>2. i \in Nat
      OBVIOUS
    <3> QED BY <3>1, <3>2, PathIs
  <2>8. PathOf(h, up, n, k)
    BY <2>5, <2>6 DEF PathOf, StepsOf
  <2> QED BY <2>7, <2>8
<1>2. Above(up, n, 0) = n
  <2>1. PICK g : PathOf(g, up, n, 0) /\ \A i \in 0..0 : g[i] = Above(up, n, i)
    BY <1>1
  <2> QED BY <2>1 DEF PathOf
<1>3. ASSUME NEW k \in Nat PROVE Above(up, n, k + 1) = Upward(up, Above(up, n, k))
  <2>1. PICK g : PathOf(g, up, n, k + 1) /\ \A i \in 0..(k + 1) : g[i] = Above(up, n, i)
    BY <1>1
  <2>2. k + 1 \in 1..(k + 1) /\ k \in 0..(k + 1) /\ k + 1 \in 0..(k + 1) /\ (k + 1) - 1 = k
    OBVIOUS
  <2> QED BY <2>1, <2>2 DEF PathOf
<1> QED BY <1>2, <1>3

\* Two climbs one after the other are one.
LEMMA AboveAbove ==
    ASSUME NEW up, Forest(up), NEW n \in Nodes(up), NEW j \in Nat, NEW k \in Nat
    PROVE  Above(up, Above(up, n, j), k) = Above(up, n, j + k)
<1>1. PICK g : g = [i \in 0..k |-> Above(up, n, j + i)]
  OBVIOUS
<1>2. PathOf(g, up, Above(up, n, j), k)
  <2>1. g[0] = Above(up, n, j)
    BY <1>1
  <2>2. ASSUME NEW i \in 1..k PROVE g[i] = Upward(up, g[i - 1])
    <3>1. PICK m \in Nat : m = j + (i - 1)
      OBVIOUS
    <3>2. g[i] = Above(up, n, m + 1)
      <4>1. j + i = m + 1
        BY <3>1
      <4> QED BY <1>1, <4>1
    <3>3. g[i - 1] = Above(up, n, m)
      BY <1>1, <3>1
    <3> QED BY <3>2, <3>3, AboveStep
  <2> QED BY <2>1, <2>2 DEF PathOf
<1>3. Above(up, n, j) \in Nodes(up)
  BY AboveType
<1>4. Above(up, Above(up, n, j), k) = g[k]
  BY <1>2, <1>3, PathIs
<1> QED BY <1>1, <1>4

\* From the root there is no way up.
LEMMA RootStays ==
    ASSUME NEW up, Forest(up), NEW n \in Nodes(up), NEW j \in Nat, Above(up, n, j) = Root, NEW k \in Nat, j <= k
    PROVE  Above(up, n, k) = Root
<1>1. PICK g : g = [i \in 0..(k - j) |-> Root]
  OBVIOUS
<1>2. PathOf(g, up, Root, k - j)
  BY <1>1 DEF PathOf, Upward
<1>3. Root \in Nodes(up) /\ k - j \in Nat
  BY DEF Nodes
<1>4. Above(up, Root, k - j) = g[k - j]
  BY <1>2, <1>3, PathIs
<1>5. j + (k - j) = k
  OBVIOUS
<1>6. Above(up, Above(up, n, j), k - j) = Above(up, n, j + (k - j))
  BY <1>3, AboveAbove
<1> QED BY <1>1, <1>3, <1>4, <1>5, <1>6

-----------------------------------------------------------------------------
(* How deep a node is.                                                     *)

Rooted(up, n) == \E d \in Nat : Above(up, n, d) = Root

IsDepth(up, n, d) == d \in Nat /\ Above(up, n, d) = Root /\ \A k \in Nat : k < d => Above(up, n, k) # Root

Depth(up, n) == CHOOSE d : IsDepth(up, n, d)

LEMMA DepthIs ==
    ASSUME NEW up, NEW n, Rooted(up, n)
    PROVE  IsDepth(up, n, Depth(up, n))
<1>1. PICK T : T = {d \in Nat : Above(up, n, d) = Root}
  OBVIOUS
<1>2. T \in SUBSET Nat /\ T # {}
  BY <1>1 DEF Rooted
<1>3. PICK d \in T : \A m \in T : d <= m
  BY <1>2, LeastNumber
<1>4. d \in Nat /\ Above(up, n, d) = Root
  BY <1>1
<1>5. ASSUME NEW k \in Nat, k < d PROVE Above(up, n, k) # Root
  <2>1. k \notin T
    BY <1>3, <1>4, <1>5
  <2> QED BY <1>1, <2>1
<1>6. IsDepth(up, n, d)
  BY <1>4, <1>5 DEF IsDepth
<1> QED BY <1>6, Zenon DEF Depth

LEMMA DepthOnly ==
    ASSUME NEW up, NEW n, NEW d, IsDepth(up, n, d)
    PROVE  Rooted(up, n) /\ Depth(up, n) = d
<1>1. Rooted(up, n)
  BY DEF IsDepth, Rooted
<1>2. PICK e : e = Depth(up, n)
  OBVIOUS
<1>3. IsDepth(up, n, e)
  BY <1>1, <1>2, DepthIs
<1>4. d \in Nat /\ e \in Nat /\ ~(d < e) /\ ~(e < d)
  BY <1>3 DEF IsDepth
<1> QED BY <1>1, <1>2, <1>4

\* What is above a node is less deep.
LEMMA DepthAbove ==
    ASSUME NEW up, Forest(up), NEW n \in Nodes(up), Rooted(up, n), NEW j \in Nat, j <= Depth(up, n)
    PROVE  /\ Rooted(up, Above(up, n, j)) /\ Depth(up, Above(up, n, j)) = Depth(up, n) - j
           /\ Depth(up, n) \in Nat
<1>1. PICK d : d = Depth(up, n)
  OBVIOUS
<1>2. IsDepth(up, n, d)
  BY <1>1, DepthIs
<1>3. d \in Nat /\ d - j \in Nat
  BY <1>1, <1>2 DEF IsDepth
<1>4. \A k \in Nat : Above(up, Above(up, n, j), k) = Above(up, n, j + k)
  BY AboveAbove
<1>5. Above(up, Above(up, n, j), d - j) = Root
  <2>1. j + (d - j) = d
    BY <1>3
  <2> QED BY <1>2, <1>3, <1>4, <2>1 DEF IsDepth
<1>6. ASSUME NEW k \in Nat, k < d - j PROVE Above(up, Above(up, n, j), k) # Root
  <2>1. j + k \in Nat /\ j + k < d
    BY <1>3, <1>6
  <2> QED BY <1>2, <1>4, <2>1 DEF IsDepth
<1>7. IsDepth(up, Above(up, n, j), d - j)
  BY <1>3, <1>5, <1>6 DEF IsDepth
<1> QED BY <1>1, <1>3, <1>7, DepthOnly

LEMMA DepthRoot ==
    ASSUME NEW up, Forest(up)
    PROVE  Rooted(up, Root) /\ Depth(up, Root) = 0
<1>1. Root \in Nodes(up)
  BY DEF Nodes
<1>2. IsDepth(up, Root, 0)
  BY <1>1, AboveStep DEF IsDepth
<1> QED BY <1>2, DepthOnly

\* A node is one deeper than its parent.
LEMMA DepthUp ==
    ASSUME NEW up, Forest(up), NEW n \in DOMAIN up, Rooted(up, up[n])
    PROVE  Rooted(up, n) /\ Depth(up, n) = Depth(up, up[n]) + 1 /\ Depth(up, up[n]) \in Nat
<1>1. PICK d : d = Depth(up, up[n])
  OBVIOUS
<1>2. IsDepth(up, up[n], d)
  BY <1>1, DepthIs
<1>3. d \in Nat
  BY <1>2 DEF IsDepth
<1>4. n \in Nodes(up) /\ n # Root
  BY DEF Nodes, Forest
<1>5. Above(up, n, 0) = n /\ Above(up, n, 1) = up[n]
  <2>1. Above(up, n, 0 + 1) = Upward(up, Above(up, n, 0))
    BY <1>4, AboveStep
  <2> QED BY <1>4, <2>1, AboveStep DEF Upward
<1>6. \A k \in Nat : Above(up, up[n], k) = Above(up, n, 1 + k)
  BY <1>4, <1>5, AboveAbove
<1>7. Above(up, n, d + 1) = Root
  <2>1. Above(up, n, 1 + d) = Root
    BY <1>2, <1>3, <1>6 DEF IsDepth
  <2>2. 1 + d = d + 1
    BY <1>3
  <2> QED BY <2>1, <2>2
<1>8. ASSUME NEW k \in Nat, k < d + 1 PROVE Above(up, n, k) # Root
  <2>1. CASE k = 0
    BY <1>4, <1>5, <2>1
  <2>2. CASE k # 0
    <3>1. k - 1 \in Nat /\ k - 1 < d /\ 1 + (k - 1) = k
      BY <1>3, <1>8, <2>2
    <3> QED BY <1>2, <1>6, <3>1 DEF IsDepth
  <2> QED BY <2>1, <2>2
<1>9. IsDepth(up, n, d + 1)
  BY <1>3, <1>7, <1>8 DEF IsDepth
<1> QED BY <1>1, <1>3, <1>9, DepthOnly

\* A node that is not above itself is not deeper than there are nodes.
LEMMA DepthBound ==
    ASSUME NEW up, Forest(up), NEW n \in Nodes(up), Rooted(up, n)
    PROVE  Depth(up, n) \in Nat /\ Depth(up, n) <= Cardinality(DOMAIN up)
<1>1. PICK d : d = Depth(up, n)
  OBVIOUS
<1>2. IsDepth(up, n, d)
  BY <1>1, DepthIs
<1>3. d \in Nat
  BY <1>2 DEF IsDepth
<1>4. PICK f : f = [i \in 1..d |-> Above(up, n, i - 1)]
  OBVIOUS
<1>5. ASSUME NEW i \in 1..d PROVE f[i] \in DOMAIN up /\ Depth(up, f[i]) = d - (i - 1)
  <2>1. i - 1 \in Nat /\ i - 1 < d /\ i - 1 <= d
    BY <1>3
  <2>2. f[i] = Above(up, n, i - 1)
    BY <1>4
  <2>3. f[i] \in Nodes(up) /\ f[i] # Root
    BY <1>2, <2>1, <2>2, AboveType DEF IsDepth
  <2>4. Depth(up, f[i]) = d - (i - 1)
    BY <1>1, <2>1, <2>2, DepthAbove
  <2> QED BY <2>3, <2>4 DEF Nodes
<1>6. f \in [1..d -> DOMAIN up]
  BY <1>4, <1>5
<1>7. f \in Injection(1..d, DOMAIN up)
  <2>1. \A i, j \in 1..d : f[i] = f[j] => i = j
    <3> TAKE i, j \in 1..d
    <3>1. Depth(up, f[i]) = d - (i - 1) /\ Depth(up, f[j]) = d - (j - 1)
      BY <1>5
    <3> QED BY <1>3, <3>1
  <2> QED BY <1>6, <2>1, Fun_IsInj
<1>8. Cardinality(1..d) <= Cardinality(DOMAIN up)
  BY <1>7, FS_Injection DEF Forest
<1>9. Cardinality(1..d) = d
  BY <1>3, FS_Interval
<1> QED BY <1>1, <1>3, <1>8, <1>9

\* The climb that decides whether a node reaches the root is long enough.
LEMMA ReachesIs ==
    ASSUME NEW up, Forest(up), NEW n \in Nodes(up)
    PROVE  Reaches(up, n) <=> Rooted(up, n)
<1>1. Cardinality(DOMAIN up) \in Nat /\ Cardinality(DOMAIN up) + 1 \in Nat
  BY FS_CardinalityType DEF Forest
<1>2. Reaches(up, n) => Rooted(up, n)
  BY <1>1 DEF Reaches, Rooted
<1>3. ASSUME Rooted(up, n) PROVE Reaches(up, n)
  <2>1. PICK d : d = Depth(up, n)
    OBVIOUS
  <2>2. d \in Nat /\ d <= Cardinality(DOMAIN up) + 1
    BY <1>1, <1>3, <2>1, DepthBound
  <2>3. Above(up, n, d) = Root
    BY <1>3, <2>1, DepthIs DEF IsDepth
  <2>4. Above(up, n, Cardinality(DOMAIN up) + 1) = Root
    BY <1>1, <2>2, <2>3, RootStays
  <2> QED BY <2>4 DEF Reaches
<1> QED BY <1>2, <1>3

\* The parents of what does not reach the root do not either, and what a set does
\* not lead out of does not reach it.
LEMMA CutOff ==
    ASSUME NEW up, Forest(up)
    PROVE  /\ \A n \in DOMAIN up : ~Reaches(up, n) => up[n] \in DOMAIN up /\ ~Reaches(up, up[n])
           /\ \A S \in SUBSET DOMAIN up : (\A n \in S : up[n] \in S) => \A n \in S : ~Reaches(up, n)
<1>1. ASSUME NEW n \in DOMAIN up, ~Reaches(up, n) PROVE up[n] \in DOMAIN up /\ ~Reaches(up, up[n])
  <2>1. n \in Nodes(up) /\ up[n] \in Nodes(up)
    BY DEF Forest, Nodes
  <2>2. ~Rooted(up, up[n])
    BY <1>1, <2>1, ReachesIs, DepthUp
  <2>3. up[n] # Root
    BY <2>2, DepthRoot
  <2> QED BY <2>1, <2>2, <2>3, ReachesIs DEF Nodes
<1>2. ASSUME NEW S \in SUBSET DOMAIN up, \A n \in S : up[n] \in S, NEW n \in S, Reaches(up, n)
      PROVE  FALSE
  <2>1. n \in Nodes(up) /\ Root \notin S
    BY DEF Forest, Nodes
  <2>2. PICK T : T = {d \in Nat : Above(up, n, d) \notin S}
    OBVIOUS
  <2>3. T \in SUBSET Nat /\ T # {}
    <3>1. PICK d \in Nat : Above(up, n, d) = Root
      BY <1>2, <2>1, ReachesIs DEF Rooted
    <3> QED BY <2>1, <2>2, <3>1
  <2>4. PICK d \in T : \A m \in T : d <= m
    BY <2>3, LeastNumber
  <2>5. d \in Nat /\ Above(up, n, d) \notin S
    BY <2>2
  <2>6. d # 0
    BY <2>1, <2>5, AboveStep
  <2>7. d - 1 \in Nat /\ d - 1 \notin T
    BY <2>4, <2>5, <2>6
  <2>8. Above(up, n, d - 1) \in S
    BY <2>2, <2>7
  <2>9. Above(up, n, (d - 1) + 1) = up[Above(up, n, d - 1)]
    BY <2>1, <2>7, <2>8, AboveStep DEF Upward
  <2>10. (d - 1) + 1 = d
    BY <2>5
  <2> QED BY <1>2, <2>5, <2>8, <2>9, <2>10
<1> QED BY <1>1, <1>2

-----------------------------------------------------------------------------
(* What is below a node.                                                   *)

Height(up, x, y) == Depth(up, y) - Depth(up, x)

\* The nodes from which up to k steps lead to x.
Under(up, x, k) ==
    {y \in Nodes(up) : Rooted(up, y) /\ Height(up, x, y) \in 0..k /\ Above(up, y, Height(up, x, y)) = x}

LEMMA UnderFinite ==
    ASSUME NEW up, Forest(up), NEW x, NEW k
    PROVE  IsFiniteSet(Under(up, x, k)) /\ Under(up, x, k) \subseteq Nodes(up)
<1>1. IsFiniteSet(Nodes(up))
  BY FS_AddElement DEF Forest, Nodes
<1>2. Under(up, x, k) \in SUBSET Nodes(up)
  BY DEF Under
<1> QED BY <1>1, <1>2, FS_Subset

LEMMA DepthType ==
    ASSUME NEW up, NEW n, Rooted(up, n)
    PROVE  Depth(up, n) \in Nat
BY DepthIs DEF IsDepth

LEMMA UnderSelf ==
    ASSUME NEW up, Forest(up), NEW x \in Nodes(up), Rooted(up, x)
    PROVE  Under(up, x, 0) = {x} /\ \A k \in Nat : x \in Under(up, x, k)
<1>1. Height(up, x, x) = 0 /\ Above(up, x, 0) = x
  BY DepthType, AboveStep DEF Height
<1>2. ASSUME NEW k \in Nat PROVE x \in Under(up, x, k)
  <2>1. 0 \in 0..k
    OBVIOUS
  <2> QED BY <1>1, <2>1 DEF Under
<1>3. ASSUME NEW y \in Under(up, x, 0) PROVE y = x
  <2>1. y \in Nodes(up) /\ Height(up, x, y) = 0 /\ Above(up, y, Height(up, x, y)) = x
    BY DEF Under
  <2> QED BY <2>1, AboveStep
<1> QED BY <1>2, <1>3

SplitBy(key, up, x, k) ==
    /\ \A c \in MembersOf(up, x) : c \in Nodes(up) /\ Rooted(up, c)
    /\ \A y \in Under(up, x, k + 1) \ {x} : key[y] \in MembersOf(up, x)
    /\ \A c \in MembersOf(up, x) :
         /\ Under(up, c, k) \subseteq Under(up, x, k + 1) \ {x}
         /\ \A y \in Under(up, x, k + 1) \ {x} : y \in Under(up, c, k) <=> key[y] = c

\* What is below a node is below one of its members.
LEMMA UnderSplit ==
    ASSUME NEW up, Forest(up), NEW x \in Nodes(up), Rooted(up, x), NEW k \in Nat,
           NEW key, key = [y \in Under(up, x, k + 1) \ {x} |-> Above(up, y, Height(up, x, y) - 1)]
    PROVE  SplitBy(key, up, x, k)
<1>1. ASSUME NEW c \in MembersOf(up, x)
      PROVE  c \in DOMAIN up /\ up[c] = x /\ c \in Nodes(up) /\ c # Root
             /\ Rooted(up, c) /\ Depth(up, c) = Depth(up, x) + 1
  <2>1. c \in DOMAIN up /\ up[c] = x
    BY DEF MembersOf
  <2>2. Rooted(up, c) /\ Depth(up, c) = Depth(up, x) + 1
    BY <2>1, DepthUp
  <2> QED BY <2>1, <2>2 DEF Forest, Nodes
<1>2. Depth(up, x) \in Nat
  BY DepthType
<1>3. ASSUME NEW y \in Under(up, x, k + 1) \ {x}
      PROVE  /\ y \in Nodes(up) /\ Rooted(up, y) /\ Depth(up, y) \in Nat
             /\ Height(up, x, y) - 1 \in 0..k
             /\ key[y] = Above(up, y, Height(up, x, y) - 1)
             /\ key[y] \in MembersOf(up, x)
  <2>1. /\ y \in Nodes(up) /\ Rooted(up, y) /\ Height(up, x, y) \in 0..(k + 1)
        /\ Above(up, y, Height(up, x, y)) = x /\ y # x
    BY DEF Under
  <2>2. Depth(up, y) \in Nat
    BY <2>1, DepthType
  <2>3. Height(up, x, y) # 0
    BY <2>1, AboveStep
  <2>4. PICK j : j = Height(up, x, y) - 1
    OBVIOUS
  <2>5. j \in 0..k /\ j \in Nat /\ j + 1 = Height(up, x, y)
    BY <2>1, <2>3, <2>4
  <2>6. j < Depth(up, y)
    BY <1>2, <2>2, <2>5 DEF Height
  <2>7. Above(up, y, j) # Root
    BY <2>1, <2>5, <2>6, DepthIs DEF IsDepth
  <2>8. Above(up, y, j) \in Nodes(up)
    BY <2>1, <2>5, AboveType
  <2>9. Above(up, y, j + 1) = Upward(up, Above(up, y, j))
    BY <2>1, <2>5, AboveStep
  <2>10. Above(up, y, j) \in MembersOf(up, x)
    BY <2>1, <2>5, <2>7, <2>8, <2>9 DEF Upward, Nodes, MembersOf
  <2>11. key[y] = Above(up, y, j)
    BY <2>4
  <2> QED BY <2>1, <2>2, <2>4, <2>5, <2>10, <2>11
<1>4. ASSUME NEW c \in MembersOf(up, x)
      PROVE  /\ Under(up, c, k) \subseteq Under(up, x, k + 1) \ {x}
             /\ \A y \in Under(up, x, k + 1) \ {x} : y \in Under(up, c, k) <=> key[y] = c
  <2>1. ASSUME NEW y, y \in Nodes(up), Rooted(up, y)
        PROVE  Height(up, c, y) = Height(up, x, y) - 1 /\ Height(up, x, y) \in Int
    BY <1>1, <1>2, <2>1, DepthType DEF Height
  <2>2. ASSUME NEW y \in Under(up, c, k) PROVE y \in Under(up, x, k + 1) \ {x}
    <3>1. PICK j : j = Height(up, c, y)
      OBVIOUS
    <3>2. y \in Nodes(up) /\ Rooted(up, y) /\ j \in 0..k /\ Above(up, y, j) = c
      BY <3>1 DEF Under
    <3>3. Height(up, x, y) = j + 1 /\ j \in Nat
      BY <2>1, <3>1, <3>2
    <3>4. Above(up, y, j + 1) = x
      BY <1>1, <3>2, <3>3, AboveStep DEF Upward
    <3>5. y # x
      BY <3>2, <3>3, <1>2 DEF Height
    <3>6. j + 1 \in 0..(k + 1)
      BY <3>2
    <3> QED BY <3>2, <3>3, <3>4, <3>5, <3>6 DEF Under
  <2>3. ASSUME NEW y \in Under(up, x, k + 1) \ {x}
        PROVE  y \in Under(up, c, k) <=> key[y] = c
    <3>1. /\ y \in Nodes(up) /\ Rooted(up, y) /\ Height(up, c, y) \in 0..k
          /\ key[y] = Above(up, y, Height(up, c, y))
      BY <1>3, <2>1
    <3> QED BY <3>1 DEF Under
  <2> QED BY <2>2, <2>3
<1> QED BY <1>1, <1>3, <1>4 DEF SplitBy

\* The root has all below it that reaches it, and does so within as many steps as
\* there are nodes.
LEMMA UnderRoot ==
    ASSUME NEW up, Forest(up)
    PROVE  Under(up, Root, Cardinality(DOMAIN up)) = {n \in Nodes(up) : Reaches(up, n)}
<1>1. ASSUME NEW n \in Nodes(up), Rooted(up, n)
      PROVE  Height(up, Root, n) \in 0..Cardinality(DOMAIN up) /\ Above(up, n, Height(up, Root, n)) = Root
  <2>1. Cardinality(DOMAIN up) \in Nat
    BY FS_CardinalityType DEF Forest
  <2>2. Depth(up, n) \in Nat /\ Depth(up, n) <= Cardinality(DOMAIN up)
    BY <1>1, DepthBound
  <2>3. Height(up, Root, n) = Depth(up, n)
    BY <2>2, DepthRoot DEF Height
  <2>4. Above(up, n, Depth(up, n)) = Root
    BY <1>1, DepthIs DEF IsDepth
  <2> QED BY <2>1, <2>2, <2>3, <2>4
<1> QED BY <1>1, ReachesIs DEF Under

\* What is below two nodes shows one of them to be above the other.
LEMMA UnderBoth ==
    ASSUME NEW up, Forest(up), NEW x \in Nodes(up), NEW z \in Nodes(up), Rooted(up, x), Rooted(up, z), x # z,
           NEW k, NEW y \in Under(up, x, k), y \in Under(up, z, k)
    PROVE  \E j \in 1..Cardinality(DOMAIN up) : Above(up, x, j) = z \/ Above(up, z, j) = x
<1>1. PICK i, j : i = Height(up, x, y) /\ j = Height(up, z, y)
  OBVIOUS
<1>2. y \in Nodes(up) /\ Rooted(up, y) /\ Above(up, y, i) = x /\ Above(up, y, j) = z
  BY <1>1 DEF Under
<1>3. Depth(up, x) \in Nat /\ Depth(up, z) \in Nat /\ Depth(up, y) \in Nat
  BY <1>2, DepthType
<1>4. i \in Int /\ j \in Int /\ i >= 0 /\ j >= 0
  <2>1. i \in Int /\ j \in Int
    BY <1>1, <1>3 DEF Height
  <2>2. i \in 0..k /\ j \in 0..k
    BY <1>1 DEF Under
  <2> QED BY <2>1, <2>2
<1>5. i = j => FALSE
  BY <1>2
<1>6. Cardinality(DOMAIN up) \in Nat /\ Depth(up, x) <= Cardinality(DOMAIN up) /\ Depth(up, z) <= Cardinality(DOMAIN up)
  BY DepthBound, FS_CardinalityType DEF Forest
<1>7. CASE i < j
  <2>1. i \in Nat /\ j - i \in Nat /\ i + (j - i) = j
    BY <1>4, <1>7
  <2>2. Above(up, x, j - i) = z
    BY <1>2, <2>1, AboveAbove
  <2>3. j - i \in 1..Cardinality(DOMAIN up)
    BY <1>1, <1>3, <1>4, <1>6, <1>7 DEF Height
  <2> QED BY <2>2, <2>3
<1>8. CASE j < i
  <2>1. j \in Nat /\ i - j \in Nat /\ j + (i - j) = i
    BY <1>4, <1>8
  <2>2. Above(up, z, i - j) = x
    BY <1>2, <2>1, AboveAbove
  <2>3. i - j \in 1..Cardinality(DOMAIN up)
    BY <1>1, <1>3, <1>4, <1>6, <1>8 DEF Height
  <2> QED BY <2>2, <2>3
<1> QED BY <1>4, <1>5, <1>7, <1>8

-----------------------------------------------------------------------------
(* What the walk down computes.                                            *)

LEMMA CostsOfIs ==
    ASSUME NEW cost, NEW S
    PROVE  CostsOf(cost, S) = SumOver(cost, S)
BY Zenon DEF CostsOf, SumOver

RolledRule(up, cost, groups, f, k) ==
    [x \in DOMAIN up \cup {Root} |->
        Direct(up, cost, groups, x) + IF k = 0 THEN 0 ELSE CostsOf(f[k - 1], MembersOf(up, x))]

RolledSolution(f, up, cost, groups, K) == f = [k \in 0..K |-> RolledRule(up, cost, groups, f, k)]

LEMMA RolledUnfold ==
    ASSUME NEW up, NEW cost, NEW groups, NEW n
    PROVE  Rolled(up, cost, groups, n) =
             (CHOOSE f : RolledSolution(f, up, cost, groups, Cardinality(DOMAIN up)))[Cardinality(DOMAIN up)][n]
BY Zenon DEF Rolled, RolledSolution, RolledRule

\* direct is what each node costs itself.
Directly(direct, up, cost, groups) ==
    \A x \in Nodes(up) : direct[x] = Direct(up, cost, groups, x) /\ direct[x] \in Int

LEMMA RolledSolvable ==
    ASSUME NEW up, Forest(up), NEW cost, NEW groups, NEW direct, Directly(direct, up, cost, groups),
           NEW K \in Nat
    PROVE  \E f : RolledSolution(f, up, cost, groups, K)
<1>1. PICK S : S = [Nodes(up) -> Int]
  OBVIOUS
<1>2. PICK a : a = [x \in Nodes(up) |-> direct[x]]
  OBVIOUS
<1>3. PICK step : step = [p \in (1..K) \X S |->
                            [x \in Nodes(up) |-> direct[x] + SumOver(p[2], MembersOf(up, x))]]
  OBVIOUS
<1>4. ASSUME NEW s \in S, NEW x \in Nodes(up) PROVE SumOver(s, MembersOf(up, x)) \in Int
  <2>1. IsFiniteSet(MembersOf(up, x)) /\ MembersOf(up, x) \subseteq Nodes(up)
    <3>1. MembersOf(up, x) \in SUBSET DOMAIN up
      BY DEF MembersOf
    <3> QED BY <3>1, FS_Subset DEF Forest, Nodes
  <2>2. \A c \in MembersOf(up, x) : s[c] \in Int
    BY <1>1, <2>1
  <2> QED BY <2>1, <2>2, SumType
<1>5. a \in S
  BY <1>1, <1>2 DEF Directly
<1>6. ASSUME NEW s \in S PROVE [x \in Nodes(up) |-> direct[x] + SumOver(s, MembersOf(up, x))] \in S
  <2>1. \A x \in Nodes(up) : direct[x] + SumOver(s, MembersOf(up, x)) \in Int
    BY <1>4 DEF Directly
  <2> QED BY <1>1, <2>1
<1>7. step \in [(1..K) \X S -> S]
  BY <1>3, <1>6
<1>8. PICK f : StepsFrom(f, a, step, K) /\ \A i \in 0..K : f[i] \in S
  BY <1>5, <1>7, StepsExist
<1>9. ASSUME NEW k \in 0..K
      PROVE  RolledRule(up, cost, groups, f, k) = (IF k = 0 THEN a ELSE step[<<k, f[k - 1]>>])
  <2>1. CASE k = 0
    <3>1. \A x \in Nodes(up) : Direct(up, cost, groups, x) + 0 = direct[x]
      BY DEF Directly
    <3> QED BY <1>2, <2>1, <3>1 DEF RolledRule, Nodes
  <2>2. CASE k # 0
    <3>1. k \in 1..K /\ k - 1 \in 0..K
      BY <2>2
    <3>2. f[k - 1] \in S
      BY <1>8, <3>1
    <3>3. step[<<k, f[k - 1]>>] = [x \in Nodes(up) |-> direct[x] + SumOver(f[k - 1], MembersOf(up, x))]
      BY <1>3, <3>1, <3>2
    <3>4. \A x \in Nodes(up) : Direct(up, cost, groups, x) + CostsOf(f[k - 1], MembersOf(up, x))
                                 = direct[x] + SumOver(f[k - 1], MembersOf(up, x))
      BY CostsOfIs DEF Directly
    <3>5. RolledRule(up, cost, groups, f, k) =
            [x \in Nodes(up) |-> Direct(up, cost, groups, x) + CostsOf(f[k - 1], MembersOf(up, x))]
      BY <2>2 DEF RolledRule, Nodes
    <3> QED BY <2>2, <3>3, <3>4, <3>5
  <2> QED BY <2>1, <2>2
<1>10. RolledSolution(f, up, cost, groups, K)
  BY <1>8, <1>9 DEF StepsFrom, RolledSolution
<1> QED BY <1>10

\* It is the sum of what the nodes below cost themselves.
LEMMA WalkIs ==
    ASSUME NEW up, Forest(up), NEW cost, NEW groups, NEW direct, Directly(direct, up, cost, groups),
           NEW K \in Nat, NEW f, RolledSolution(f, up, cost, groups, K)
    PROVE  \A k \in 0..K : \A x \in Nodes(up) : Rooted(up, x) => f[k][x] = SumOver(direct, Under(up, x, k))
<1> DEFINE Good(k) == \A x \in Nodes(up) : Rooted(up, x) => f[k][x] = SumOver(direct, Under(up, x, k))
           T == {k \in 0..K : ~Good(k)}
<1>1. \A k \in 0..K : f[k] = RolledRule(up, cost, groups, f, k)
  BY Zenon DEF RolledSolution
<1>2. ASSUME NEW x, NEW k \in Nat
      PROVE  /\ IsFiniteSet(Under(up, x, k)) /\ \A y \in Under(up, x, k) : direct[y] \in Int
             /\ SumOver(direct, Under(up, x, k)) \in Int
  <2>1. IsFiniteSet(Under(up, x, k)) /\ \A y \in Under(up, x, k) : direct[y] \in Int
    BY UnderFinite DEF Directly
  <2> QED BY <2>1, SumType
<1>3. T = {}
  <2> SUFFICES ASSUME T # {} PROVE FALSE
    OBVIOUS
  <2>1. PICK k \in T : \A j \in T : k <= j
    <3> T \in SUBSET Nat OBVIOUS
    <3> HIDE DEF T
    <3> QED BY LeastNumber
  <2>2. k \in 0..K /\ ~Good(k)
    OBVIOUS
  <2>3. PICK x \in Nodes(up) : Rooted(up, x) /\ f[k][x] # SumOver(direct, Under(up, x, k))
    BY <2>2
  <2>4. f[k][x] = direct[x] + IF k = 0 THEN 0 ELSE SumOver(f[k - 1], MembersOf(up, x))
    <3>1. f[k] = RolledRule(up, cost, groups, f, k)
      BY <1>1, <2>2
    <3>2. f[k][x] = Direct(up, cost, groups, x) + IF k = 0 THEN 0 ELSE CostsOf(f[k - 1], MembersOf(up, x))
      BY <3>1, Zenon DEF RolledRule, Nodes
    <3>3. CostsOf(f[k - 1], MembersOf(up, x)) = SumOver(f[k - 1], MembersOf(up, x))
      BY CostsOfIs
    <3>4. direct[x] = Direct(up, cost, groups, x)
      BY DEF Directly
    <3> QED BY <3>2, <3>3, <3>4
  <2>5. direct[x] \in Int
    BY DEF Directly
  <2>6. k # 0
    <3> SUFFICES ASSUME k = 0 PROVE FALSE OBVIOUS
    <3>1. f[k][x] = direct[x]
      BY <2>4, <2>5
    <3>2. Under(up, x, 0) = {x}
      BY <2>3, UnderSelf
    <3>3. SumOver(direct, {x}) = direct[x]
      BY <2>5, SumSingle
    <3> QED BY <2>3, <3>1, <3>2, <3>3
  <2>7. PICK j : j = k - 1
    OBVIOUS
  <2>8. j \in 0..K /\ j \in Nat /\ k = j + 1
    BY <2>2, <2>6, <2>7
  <2>9. Good(j)
    <3>1. j \notin T
      <4> HIDE DEF T
      <4> QED BY <2>1, <2>8
    <3> QED BY <2>8, <3>1
  <2>10. PICK key : key = [y \in Under(up, x, j + 1) \ {x} |-> Above(up, y, Height(up, x, y) - 1)]
    OBVIOUS
  <2>11. SplitBy(key, up, x, j)
    BY <2>3, <2>8, <2>10, UnderSplit
  <2>12. PICK g : g = [c \in MembersOf(up, x) |-> Under(up, c, j)]
    OBVIOUS
  <2>13. PICK rest : rest = Under(up, x, j + 1) \ {x}
    OBVIOUS
  <2>14. \A c \in MembersOf(up, x) : f[j][c] = SumOver(direct, g[c])
    BY <2>9, <2>11, <2>12 DEF SplitBy
  <2>15. SumOver(f[j], MembersOf(up, x)) = SumOver(direct, rest)
    <3>1. IsFiniteSet(MembersOf(up, x))
      <4>1. MembersOf(up, x) \in SUBSET DOMAIN up
        BY DEF MembersOf
      <4> QED BY <4>1, FS_Subset DEF Forest
    <3>2. j + 1 \in Nat
      BY <2>8
    <3>3. IsFiniteSet(rest) /\ \A y \in rest : direct[y] \in Int
      BY <1>2, <2>13, <3>2, FS_RemoveElement
    <3>4. \A y \in rest : key[y] \in MembersOf(up, x)
      BY <2>11, <2>13 DEF SplitBy
    <3>5. \A c \in MembersOf(up, x) : g[c] \subseteq rest /\ \A y \in rest : y \in g[c] <=> key[y] = c
      BY <2>11, <2>12, <2>13 DEF SplitBy
    <3> QED BY <2>14, <3>1, <3>3, <3>4, <3>5, SumGroups
  <2>16. SumOver(direct, Under(up, x, j + 1)) = direct[x] + SumOver(direct, rest)
    <3>1. j + 1 \in Nat
      BY <2>8
    <3>2. x \in Under(up, x, j + 1)
      BY <2>3, <3>1, UnderSelf
    <3> QED BY <1>2, <2>13, <3>1, <3>2, SumTake
  <2> QED BY <2>3, <2>4, <2>6, <2>7, <2>8, <2>15, <2>16
<1> QED BY <1>3

LEMMA RolledIs ==
    ASSUME NEW up, Forest(up), NEW cost, NEW groups, NEW direct, Directly(direct, up, cost, groups),
           NEW x \in Nodes(up), Rooted(up, x)
    PROVE  Rolled(up, cost, groups, x) = SumOver(direct, Under(up, x, Cardinality(DOMAIN up)))
<1>1. PICK K : K = Cardinality(DOMAIN up)
  OBVIOUS
<1>2. K \in Nat /\ K \in 0..K
  BY <1>1, FS_CardinalityType DEF Forest
<1>3. PICK f : f = CHOOSE g : RolledSolution(g, up, cost, groups, K)
  OBVIOUS
<1>4. RolledSolution(f, up, cost, groups, K)
  BY <1>2, <1>3, RolledSolvable, Zenon
<1>5. f[K][x] = SumOver(direct, Under(up, x, K))
  BY <1>2, <1>4, WalkIs
<1> QED BY <1>1, <1>3, <1>5, RolledUnfold

\* The total is the sum over all nodes that reach the root.
LEMMA RolledTotal ==
    ASSUME NEW up, Forest(up), NEW cost, NEW groups, NEW direct, Directly(direct, up, cost, groups)
    PROVE  Rolled(up, cost, groups, Root) = SumOver(direct, {n \in DOMAIN up : Reaches(up, n)})
<1>1. PICK A, P : A = {n \in Nodes(up) : Reaches(up, n)} /\ P = {n \in DOMAIN up : Reaches(up, n)}
  OBVIOUS
<1>2. Root \in Nodes(up) /\ Rooted(up, Root)
  BY DepthRoot DEF Nodes
<1>3. Rolled(up, cost, groups, Root) = SumOver(direct, A)
  BY <1>1, <1>2, RolledIs, UnderRoot
<1>4. IsFiniteSet(A) /\ P \in SUBSET A
  <2>1. IsFiniteSet(Nodes(up))
    BY FS_AddElement DEF Forest, Nodes
  <2>2. A \in SUBSET Nodes(up)
    BY <1>1
  <2> QED BY <1>1, <2>1, <2>2, FS_Subset DEF Nodes
<1>5. \A x \in A \ P : direct[x] = 0
  BY <1>1 DEF Nodes, Directly, Direct
<1>6. \A x \in A : direct[x] \in Int
  BY <1>1 DEF Directly
<1>7. SumOver(direct, A) = SumOver(direct, P)
  BY <1>4, <1>5, <1>6, SumOfPart
<1> QED BY <1>1, <1>3, <1>7

\* The parts of nodes none of which is above another are no more than the whole.
LEMMA RolledApart ==
    ASSUME NEW up, Forest(up), NEW cost, NEW groups, NEW direct, Directly(direct, up, cost, groups),
           \A x \in Nodes(up) : direct[x] \in Nat,
           NEW S \in SUBSET {n \in DOMAIN up : Reaches(up, n)},
           \A n, p \in S : n # p => \A k \in 1..Cardinality(DOMAIN up) : Above(up, n, k) # p,
           NEW r, \A n \in S : r[n] = Rolled(up, cost, groups, n)
    PROVE  /\ \A n \in S : r[n] \in Nat
           /\ SumOver(r, S) <= Rolled(up, cost, groups, Root)
           /\ Rolled(up, cost, groups, Root) \in Nat
<1>1. PICK K : K = Cardinality(DOMAIN up)
  OBVIOUS
<1>2. PICK g : g = [n \in S |-> Under(up, n, K)]
  OBVIOUS
<1>3. PICK A, U : A = {n \in Nodes(up) : Reaches(up, n)} /\ U = {y \in Nodes(up) : \E n \in S : y \in g[n]}
  OBVIOUS
<1>4. PICK key : key = [y \in U |-> CHOOSE n \in S : y \in g[n]]
  OBVIOUS
<1>5. \A n \in S : n \in Nodes(up) /\ Rooted(up, n)
  BY ReachesIs DEF Nodes
<1>6. \A n \in S : IsFiniteSet(g[n]) /\ g[n] \subseteq Nodes(up)
  BY <1>2, UnderFinite
<1>7. \A n \in S : g[n] \subseteq U
  BY <1>3, <1>6
<1>8. \A y \in U : key[y] \in S /\ y \in g[key[y]]
  BY <1>3, <1>4
<1>9. ASSUME NEW n \in S, NEW y \in U PROVE y \in g[n] <=> key[y] = n
  <2>1. key[y] \in S /\ y \in g[key[y]]
    BY <1>8
  <2>2. ASSUME y \in g[n], key[y] # n PROVE FALSE
    <3>1. PICK p : p = key[y]
      OBVIOUS
    <3>2. p \in S /\ p # n /\ y \in Under(up, p, K) /\ y \in Under(up, n, K)
      BY <1>2, <2>1, <2>2, <3>1
    <3>3. n \in Nodes(up) /\ p \in Nodes(up) /\ Rooted(up, n) /\ Rooted(up, p)
      BY <1>5, <3>2
    <3>4. PICK j \in 1..Cardinality(DOMAIN up) : Above(up, n, j) = p \/ Above(up, p, j) = n
      BY <3>2, <3>3, UnderBoth
    <3> QED BY <3>2, <3>4
  <2> QED BY <2>1, <2>2
<1>10. IsFiniteSet(A) /\ U \in SUBSET A
  <2>1. IsFiniteSet(Nodes(up))
    BY FS_AddElement DEF Forest, Nodes
  <2>2. A \in SUBSET Nodes(up)
    BY <1>3
  <2>3. \A y \in U : y \in Nodes(up) /\ Rooted(up, y)
    <3> TAKE y \in U
    <3>1. y \in Under(up, key[y], K)
      BY <1>2, <1>8
    <3> QED BY <3>1 DEF Under
  <2> QED BY <1>3, <2>1, <2>2, <2>3, FS_Subset, ReachesIs
<1>11. IsFiniteSet(U) /\ IsFiniteSet(S)
  <2>1. S \in SUBSET DOMAIN up
    OBVIOUS
  <2> QED BY <1>10, <2>1, FS_Subset DEF Forest
<1>12. ASSUME NEW n \in S PROVE r[n] = SumOver(direct, g[n])
  <2>1. n \in Nodes(up) /\ Rooted(up, n)
    BY <1>5
  <2>2. Rolled(up, cost, groups, n) = SumOver(direct, Under(up, n, K))
    BY <1>1, <2>1, RolledIs
  <2> QED BY <1>2, <2>2
<1>13. \A y \in U : direct[y] \in Int /\ direct[y] \in Nat
  BY <1>3
<1>14. SumOver(r, S) = SumOver(direct, U)
  <2>1. \A n \in S : g[n] \subseteq U /\ \A y \in U : y \in g[n] <=> key[y] = n
    BY <1>7, <1>9
  <2>2. \A y \in U : key[y] \in S
    BY <1>8
  <2> QED BY <1>11, <1>12, <1>13, <2>1, <2>2, SumGroups
<1>15. Rolled(up, cost, groups, Root) = SumOver(direct, A)
  <2>1. Root \in Nodes(up) /\ Rooted(up, Root)
    BY DepthRoot DEF Nodes
  <2>2. Rolled(up, cost, groups, Root) = SumOver(direct, Under(up, Root, K))
    BY <1>1, <2>1, RolledIs
  <2>3. Under(up, Root, K) = A
    BY <1>1, <1>3, UnderRoot
  <2> QED BY <2>2, <2>3
<1>16. \A y \in A : direct[y] \in Nat
  BY <1>3
<1>17. SumOver(direct, U) <= SumOver(direct, A) /\ SumOver(direct, A) \in Nat
  BY <1>10, <1>16, SumPart, SumType
<1>18. ASSUME NEW n \in S PROVE r[n] \in Nat
  <2>1. \A y \in g[n] : direct[y] \in Nat
    BY <1>6
  <2> QED BY <1>6, <1>12, <2>1, SumType
<1> QED BY <1>14, <1>15, <1>17, <1>18

-----------------------------------------------------------------------------
(* What is always so.                                                      *)

EndedScan == [state : {"completed", "failed"}, started : Nat, cost : Int]

\* A link is to another account; links and reports agree where the last report
\* names a parent; what is measured is seen; rows and scans are well formed.
RollupInv ==
    /\ link \in [Account -> Account \cup {Nobody}] /\ \A n \in Account : link[n] # n
    /\ latest = <<>> \/ latest \in Reports
    /\ \A n \in DOMAIN latest : latest[n] # Nobody => link[n] = latest[n]
    /\ DOMAIN latest \subseteq measured /\ measured \subseteq seen /\ seen \subseteq Account
    /\ grouping \subseteq Account
    /\ lines \in Seq(Line) /\ Len(lines) <= MaxLines
    /\ scans \in Seq(EndedScan)

\* What a report makes of an account without a parent.
ReportUp(p) == [n \in Account |-> IF n \in DOMAIN p /\ p[n] # Nobody THEN p[n] ELSE Root]

LEMMA ReportIs ==
    ASSUME NEW p \in Reports
    PROVE  /\ DOMAIN p \subseteq Account /\ p \in [DOMAIN p -> Account \cup {Nobody}]
           /\ \A n \in DOMAIN p : p[n] # n /\ Reaches(ReportUp(p), n)
<1>1. PICK S \in SUBSET Account :
        p \in {q \in [S -> Account \cup {Nobody}] :
                LET up == [n \in Account |-> IF n \in S /\ q[n] # Nobody THEN q[n] ELSE Root] IN
                \A n \in S : q[n] # n /\ Reaches(up, n)}
  BY DEF Reports
<1>2. p \in [S -> Account \cup {Nobody}] /\ DOMAIN p = S
  BY <1>1
<1>3. \A n \in S : p[n] # n /\ Reaches([m \in Account |-> IF m \in S /\ p[m] # Nobody THEN p[m] ELSE Root], n)
  BY <1>1
<1> QED BY <1>2, <1>3 DEF ReportUp

LEMMA ReportForest ==
    ASSUME NEW p \in Reports
    PROVE  Forest(ReportUp(p))
<1>1. DOMAIN p \subseteq Account /\ p \in [DOMAIN p -> Account \cup {Nobody}]
  BY ReportIs
<1> QED BY <1>1, RollupBounds DEF Forest, ReportUp, Nodes

LEMMA RollupsInit == RollupInit => RollupInv
<1> SUFFICES ASSUME RollupInit PROVE RollupInv
  OBVIOUS
<1>1. link \in [Account -> Account \cup {Nobody}] /\ \A n \in Account : link[n] # n
  BY RollupBounds DEF RollupInit
<1>2. DOMAIN latest = {}
  BY DEF RollupInit
<1> QED BY <1>1, <1>2, RollupBounds DEF RollupInit, RollupInv

LEMMA ScanKeeps ==
    ASSUME RollupInv, NEW report \in Reports, ScanHierarchy(report)
    PROVE  RollupInv'
<1>1. /\ DOMAIN report \subseteq Account /\ report \in [DOMAIN report -> Account \cup {Nobody}]
      /\ \A n \in DOMAIN report : report[n] # n
  BY ReportIs
<1>2. link' = [n \in Account |-> Linked(report, n)] /\ latest' = report
      /\ UNCHANGED <<grouping, lines, scans>>
  BY DEF ScanHierarchy
<1>3. ASSUME NEW n \in Account PROVE Linked(report, n) \in Account \cup {Nobody} /\ Linked(report, n) # n
  BY <1>1 DEF Linked, RollupInv
<1>4. link' \in [Account -> Account \cup {Nobody}] /\ \A n \in Account : link'[n] # n
  BY <1>2, <1>3
<1>5. \A n \in DOMAIN report : report[n] # Nobody => link'[n] = report[n]
  BY <1>1, <1>2 DEF Linked
<1>6. DOMAIN report \subseteq measured' /\ measured' \subseteq seen' /\ seen' \subseteq Account
  <2>1. {report[n] : n \in {n \in DOMAIN report : report[n] # Nobody}} \subseteq Account
    BY <1>1
  <2> QED BY <1>1, <2>1 DEF ScanHierarchy, RollupInv
<1> QED BY <1>2, <1>4, <1>5, <1>6 DEF RollupInv

LEMMA RollupsStep ==
    ASSUME RollupInv, [RollupNext]_rollupVars
    PROVE  RollupInv'
<1>1. CASE Scanning
  BY <1>1, ScanKeeps DEF Scanning
<1>2. ASSUME NEW l \in Line, ImportLine(l) PROVE RollupInv'
  <2>1. lines \in Seq(Line) /\ Len(lines) < MaxLines /\ lines' = Append(lines, l)
    BY <1>2 DEF ImportLine, RollupInv
  <2>2. lines' \in Seq(Line) /\ Len(lines') <= MaxLines
    BY <2>1, AppendProperties, RollupBounds
  <2>3. UNCHANGED <<link, latest, seen, measured, grouping, scans>>
    BY <1>2 DEF ImportLine
  <2> QED BY <2>2, <2>3 DEF RollupInv
<1>3. CASE NoLines
  <2>1. lines' \in Seq(Line) /\ Len(lines') <= MaxLines
    BY <1>3, RollupBounds DEF NoLines
  <2>2. UNCHANGED <<link, latest, seen, measured, grouping, scans>>
    BY <1>3 DEF NoLines
  <2> QED BY <2>1, <2>2 DEF RollupInv
<1>4. CASE Ending
  <2>1. PICK state \in {"completed", "failed"}, started \in 1..MaxDiffs, cost \in 1..3 :
          EndScan(state, started, cost)
    BY <1>4 DEF Ending
  <2>2. [state |-> state, started |-> started, cost |-> cost] \in EndedScan
    BY RollupBounds DEF EndedScan
  <2>3. scans' \in Seq(EndedScan)
    BY <2>1, <2>2, AppendProperties DEF EndScan, RollupInv
  <2>4. UNCHANGED <<link, latest, seen, measured, grouping, lines>>
    BY <2>1 DEF EndScan
  <2> QED BY <2>3, <2>4 DEF RollupInv
<1>5. CASE UNCHANGED rollupVars
  BY <1>5 DEF RollupInv, rollupVars
<1> QED BY <1>1, <1>2, <1>3, <1>4, <1>5 DEF RollupNext, Importing

-----------------------------------------------------------------------------
(* Scans: what the roll-up of the latest one shows.                        *)

LEMMA DirectIs ==
    ASSUME NEW up, NEW cost, NEW groups, \A n \in DOMAIN up : cost[n] \in Int
    PROVE  \E direct : /\ Directly(direct, up, cost, groups)
                       /\ (\A n \in DOMAIN up : cost[n] \in Nat) => \A x \in Nodes(up) : direct[x] \in Nat
<1>1. PICK direct : direct = [x \in Nodes(up) |-> Direct(up, cost, groups, x)]
  OBVIOUS
<1>2. ASSUME NEW x \in Nodes(up)
      PROVE  Direct(up, cost, groups, x) \in Int
             /\ ((\A n \in DOMAIN up : cost[n] \in Nat) => Direct(up, cost, groups, x) \in Nat)
  BY DEF Direct, Nodes
<1>3. \A x \in Nodes(up) : direct[x] = Direct(up, cost, groups, x)
  BY <1>1
<1> QED BY <1>2, <1>3 DEF Directly

\* The nodes that count: they reach the root, and do not stand for their members.
Counted(up, groups) == {n \in DOMAIN up : Reaches(up, n) /\ ~(n \in groups /\ MembersOf(up, n) # {})}

LEMMA RolledCounts ==
    ASSUME NEW up, Forest(up), NEW cost, NEW groups, \A n \in DOMAIN up : cost[n] \in Int
    PROVE  Rolled(up, cost, groups, Root) = SumOver(cost, Counted(up, groups))
<1>1. PICK direct : Directly(direct, up, cost, groups)
  BY DirectIs
<1>2. PICK R, P : R = {n \in DOMAIN up : Reaches(up, n)} /\ P = Counted(up, groups)
  OBVIOUS
<1>3. IsFiniteSet(R) /\ P \in SUBSET R /\ IsFiniteSet(P)
  <2>1. R \in SUBSET DOMAIN up /\ P \in SUBSET R /\ P \in SUBSET DOMAIN up
    BY <1>2 DEF Counted
  <2> QED BY <2>1, FS_Subset DEF Forest
<1>4. \A n \in R : direct[n] \in Int
  BY <1>1, <1>2 DEF Directly, Nodes
<1>5. \A n \in R \ P : direct[n] = 0
  BY <1>1, <1>2 DEF Directly, Nodes, Counted, Direct
<1>6. \A n \in P : direct[n] = cost[n]
  BY <1>1, <1>2 DEF Directly, Nodes, Counted, Direct, Forest
<1>7. SumOver(direct, R) = SumOver(direct, P)
  BY <1>3, <1>4, <1>5, SumOfPart
<1>8. SumOver(direct, P) = SumOver(cost, P)
  BY <1>3, <1>6, SumAgree
<1>9. Rolled(up, cost, groups, Root) = SumOver(direct, R)
  BY <1>1, <1>2, RolledTotal
<1> QED BY <1>2, <1>7, <1>8, <1>9

LEMMA LatestIs ==
    ASSUME RollupInv
    PROVE  /\ DOMAIN latest \subseteq Account /\ IsFiniteSet(DOMAIN latest)
           /\ \A n \in DOMAIN latest : latest[n] \in Account \cup {Nobody}
<1>1. CASE latest = <<>>
  <2>1. DOMAIN latest = {}
    BY <1>1
  <2> QED BY <2>1, FS_EmptySet
<1>2. CASE latest \in Reports
  <2>1. DOMAIN latest \subseteq Account /\ latest \in [DOMAIN latest -> Account \cup {Nobody}]
    BY <1>2, ReportIs
  <2>2. DOMAIN latest \in SUBSET Account
    BY <2>1
  <2>3. \A n \in DOMAIN latest : latest[n] \in Account \cup {Nobody}
    BY <2>1
  <2> QED BY <2>2, <2>3, FS_Subset, RollupBounds
<1> QED BY <1>1, <1>2 DEF RollupInv

LEMMA ParentForest ==
    ASSUME RollupInv
    PROVE  /\ Forest(Parent) /\ DOMAIN Parent = DOMAIN latest
           /\ \A n \in DOMAIN Parent : Weight[n] \in Nat /\ Weight[n] \in Int
<1>1. DOMAIN latest \subseteq Account /\ IsFiniteSet(DOMAIN latest)
  BY LatestIs
<1>2. \A n \in DOMAIN latest : Parent[n] \in DOMAIN latest \cup {Root}
  BY DEF Parent
<1>3. DOMAIN Parent = DOMAIN latest /\ Parent = [n \in DOMAIN latest |-> Parent[n]]
  BY DEF Parent
<1>4. Root \notin DOMAIN latest
  BY <1>1, RollupBounds
<1>5. \A n \in DOMAIN latest : Weight[n] \in Nat /\ Weight[n] \in Int
  BY <1>1, RollupBounds
<1> QED BY <1>1, <1>2, <1>3, <1>4, <1>5 DEF Forest, Nodes

\* Without links of earlier scans, the parents are those of the report, up to the
\* provider.
LEMMA ConfirmedReach ==
    ASSUME RollupInv, Unconfirmed = {}
    PROVE  \A n \in DOMAIN latest : Reaches(Parent, n)
<1> SUFFICES ASSUME NEW m \in DOMAIN latest, ~Reaches(Parent, m) PROVE FALSE
  OBVIOUS
<1>1. latest \in Reports
  <2>1. latest # <<>>
    OBVIOUS
  <2> QED BY <2>1 DEF RollupInv
<1>2. PICK U : U = {n \in DOMAIN latest : ~Reaches(Parent, n)}
  OBVIOUS
<1>3. Forest(Parent) /\ DOMAIN Parent = DOMAIN latest
  BY ParentForest
<1>4. DOMAIN latest \subseteq Account /\ \A n \in DOMAIN latest : Reaches(ReportUp(latest), n)
  BY <1>1, ReportIs
<1>5. ASSUME NEW n \in U PROVE ReportUp(latest)[n] \in U
  <2>1. n \in DOMAIN latest /\ Parent[n] \in U
    BY <1>2, <1>3, CutOff
  <2>2. Parent[n] # Root
    BY <1>2, <1>3, <2>1 DEF Forest
  <2>3. Parent[n] = link[n] /\ link[n] \in DOMAIN latest
    BY <2>1, <2>2 DEF Parent
  <2>4. link[n] # Nobody
    BY <1>4, <2>3, RollupBounds
  <2>5. latest[n] # Nobody
    BY <2>1, <2>4 DEF Unconfirmed
  <2>6. latest[n] = link[n]
    BY <2>1, <2>5 DEF RollupInv
  <2>7. ReportUp(latest)[n] = latest[n]
    BY <1>4, <2>1, <2>5 DEF ReportUp
  <2> QED BY <2>1, <2>3, <2>6, <2>7
<1>6. U \in SUBSET DOMAIN ReportUp(latest) /\ m \in U
  BY <1>2, <1>4 DEF ReportUp
<1>7. ~Reaches(ReportUp(latest), m)
  BY <1>1, <1>5, <1>6, ReportForest, CutOff
<1> QED BY <1>4, <1>7

LEMMA NothingIsHidden ==
    ASSUME RollupInv
    PROVE  NothingHidden
<1>1. Forest(Parent) /\ DOMAIN Parent = DOMAIN latest /\ \A n \in DOMAIN Parent : Weight[n] \in Int
  BY ParentForest
<1>2. RolledUp = SumOver(Weight, Counted(Parent, grouping))
  BY <1>1, RolledCounts DEF RolledUp
<1>3. Counted(Parent, grouping) = {n \in DOMAIN latest :
          Reaches(Parent, n) /\ ~(n \in grouping /\ MembersOf(Parent, n) # {})}
  BY <1>1 DEF Counted
<1>4. RolledUp = CostsOf(Weight, {n \in DOMAIN latest :
          Reaches(Parent, n) /\ ~(n \in grouping /\ MembersOf(Parent, n) # {})})
  BY <1>2, <1>3, CostsOfIs
<1> QED BY <1>4, ConfirmedReach DEF NothingHidden

-----------------------------------------------------------------------------
(* Budgets.                                                                *)

LEMMA RoundedShare ==
    ASSUME NEW b \in Nat, NEW c \in Nat \ {0}, NEW r \in Nat
    PROVE  LET q == (2 * b * r + c) \div (2 * c) IN
           /\ q \in Nat
           /\ 2 * c * q <= 2 * b * r + c /\ 2 * b * r <= 2 * c * q + c
           /\ r = c => q = b
<1>1. PICK a, d, q : a = 2 * b * r + c /\ d = 2 * c /\ q = a \div d
  OBVIOUS
<1>2. b * r \in Nat
  OBVIOUS
<1>3. a \in Nat /\ d \in Nat \ {0}
  <2>1. 2 * b * r = 2 * (b * r)
    OBVIOUS
  <2> QED BY <1>1, <1>2, <2>1
<1>4. PICK p \in Nat, s \in Nat : p = a \div d /\ s = a % d /\ s < d /\ a = d * p + s
  BY <1>3, Quotient
<1>5. q \in Nat /\ s < 2 * c /\ a = 2 * c * q + s
  BY <1>1, <1>4
<1>6. 2 * c * q <= 2 * b * r + c
  BY <1>1, <1>2, <1>4, <1>5
<1>7. 2 * b * r <= 2 * c * q + c
  BY <1>1, <1>2, <1>4, <1>5
<1>8. ASSUME r = c PROVE q = b
  <2>1. 2 * b * c + c = 2 * c * q + s
    BY <1>1, <1>5, <1>8
  <2>2. c * q = q * c /\ 2 * c * q = 2 * (c * q) /\ 2 * b * c = 2 * (c * b) /\ c * q \in Nat /\ c * b \in Nat
    BY <1>5
  <2>3. c * (2 * b + 1) >= c * (2 * q) /\ c * (2 * b + 1) < c * (2 * q + 2)
    <3>1. c * (2 * b + 1) = 2 * (c * b) + c /\ c * (2 * q) = 2 * (c * q) /\ c * (2 * q + 2) = 2 * (c * q) + 2 * c
      BY <1>5
    <3> QED BY <1>4, <1>5, <2>1, <2>2, <3>1
  <2>4. ~(q > b)
    <3> SUFFICES ASSUME q > b PROVE FALSE
      OBVIOUS
    <3>1. 2 * q \in Int /\ 2 * b + 1 \in Int
      BY <1>5
    <3>2. 2 * q <= 2 * b + 1
      BY <2>3, <3>1, Cancelled
    <3> QED BY <1>5, <3>2
  <2>5. ~(q < b)
    <3> SUFFICES ASSUME q < b PROVE FALSE
      OBVIOUS
    <3>1. 2 * q + 2 \in Int /\ 2 * b + 1 \in Int /\ 2 * q + 2 <= 2 * b + 1
      BY <1>5
    <3>2. c * (2 * q + 2) <= c * (2 * b + 1)
      BY <3>1, Multiplied
    <3>3. c * (2 * q + 2) \in Int /\ c * (2 * b + 1) \in Int
      BY <3>1
    <3> QED BY <2>3, <3>2, <3>3
  <2> QED BY <1>5, <2>4, <2>5
<1> QED BY <1>1, <1>5, <1>6, <1>7, <1>8

LEMMA BudgetIsGivenOnce ==
    ASSUME RollupInv
    PROVE  BudgetGivenOnce
<1>1. Forest(Parent) /\ DOMAIN Parent = DOMAIN latest /\ DOMAIN latest \subseteq Account
  BY ParentForest, LatestIs
<1>2. PICK direct : /\ Directly(direct, Parent, Weight, grouping)
                    /\ \A x \in Nodes(Parent) : direct[x] \in Nat
  BY ParentForest, DirectIs
<1>3. PICK c : c = Baseline
  OBVIOUS
<1>4. Budget \in Nat
  BY RollupBounds
<1>5. c = Rolled(Parent, Weight, grouping, Root)
  BY <1>3 DEF Baseline, RolledUp
<1>6. ASSUME c > 0, c \in Nat PROVE Share(Root) = Budget
  <2>1. (2 * Budget * c + c) \div (2 * c) = Budget
    BY <1>4, <1>6, RoundedShare
  <2> QED BY <1>3, <1>5, <1>6, <2>1 DEF Share
<1>7. Cardinality(DOMAIN latest) \in Nat /\ Cardinality(Account) \in Nat
      /\ Cardinality(DOMAIN latest) <= Cardinality(Account)
  <2>1. DOMAIN latest \in SUBSET Account
    BY <1>1
  <2> QED BY <2>1, FS_Subset, FS_CardinalityType, RollupBounds
<1>8. ASSUME NEW S \in SUBSET {n \in DOMAIN latest : Reaches(Parent, n)},
             \A n, p \in S : n # p => \A k \in 1..Cardinality(Account) : Above(Parent, n, k) # p
      PROVE  c \in Nat /\ 2 * CostsOf([n \in S |-> Share(n)], S) <= 2 * Budget + Cardinality(S)
  <2>1. PICK r, h : /\ r = [n \in S |-> Rolled(Parent, Weight, grouping, n)]
                    /\ h = [n \in S |-> Share(n)]
    OBVIOUS
  <2>2. \A n, p \in S : n # p => \A k \in 1..Cardinality(DOMAIN Parent) : Above(Parent, n, k) # p
    BY <1>1, <1>7, <1>8
  <2>3. S \in SUBSET {n \in DOMAIN Parent : Reaches(Parent, n)}
    BY <1>1
  <2>4. \A n \in S : r[n] = Rolled(Parent, Weight, grouping, n)
    BY <2>1
  <2>5. (\A n \in S : r[n] \in Nat) /\ SumOver(r, S) <= c /\ c \in Nat
    BY <1>1, <1>2, <1>5, <2>2, <2>3, <2>4, RolledApart
  <2>6. IsFiniteSet(S) /\ Cardinality(S) \in Nat
    <3>1. S \in SUBSET DOMAIN Parent
      BY <2>3
    <3> QED BY <1>1, <3>1, FS_Subset, FS_CardinalityType DEF Forest
  <2>7. SumOver(r, S) \in Nat
    BY <2>5, <2>6, SumType
  <2>8. CASE c = 0
    <3>1. \A n \in S : h[n] = 0
      BY <1>3, <2>1, <2>8 DEF Share
    <3>2. SumOver(h, S) = 0
      BY <2>6, <3>1, SumZero
    <3>3. CostsOf([n \in S |-> Share(n)], S) = 0
      BY <2>1, <3>2, CostsOfIs
    <3> QED BY <1>4, <2>5, <2>6, <3>3
  <2>9. CASE c # 0
    <3>1. \A n \in S : h[n] = (2 * Budget * r[n] + c) \div (2 * c)
      BY <1>3, <2>1, <2>9 DEF Share
    <3>2. ASSUME NEW n \in S
          PROVE  /\ h[n] \in Int /\ r[n] \in Int
                 /\ 2 * c * h[n] <= 2 * Budget * r[n] + c /\ 2 * Budget * r[n] <= 2 * c * h[n] + c
      <4>1. r[n] \in Nat /\ c \in Nat \ {0}
        BY <2>5, <2>9
      <4>2. /\ (2 * Budget * r[n] + c) \div (2 * c) \in Nat
            /\ 2 * c * ((2 * Budget * r[n] + c) \div (2 * c)) <= 2 * Budget * r[n] + c
            /\ 2 * Budget * r[n] <= 2 * c * ((2 * Budget * r[n] + c) \div (2 * c)) + c
        BY <1>4, <4>1, RoundedShare
      <4> QED BY <3>1, <4>1, <4>2
    <3>3. 2 * c * SumOver(h, S) <= 2 * Budget * SumOver(r, S) + c * Cardinality(S)
      BY <1>4, <2>5, <2>6, <3>2, SumNearest
    <3>4. SumOver(h, S) \in Int
      BY <2>6, <3>2, SumType
    <3>5. PICK H, R, k : H = SumOver(h, S) /\ R = SumOver(r, S) /\ k = Cardinality(S)
      OBVIOUS
    <3>6. H \in Int /\ R \in Nat /\ k \in Nat /\ R <= c /\ c \in Nat \ {0}
          /\ 2 * c * H <= 2 * Budget * R + c * k
      BY <2>5, <2>6, <2>7, <2>9, <3>3, <3>4, <3>5
    <3>7. Budget * R <= Budget * c
      BY <1>4, <3>6, Multiplied
    <3>8. c * (2 * H) <= c * (2 * Budget + k)
      <4>1. c * (2 * H) = 2 * c * H /\ c * (2 * Budget + k) = 2 * (Budget * c) + c * k
            /\ 2 * Budget * R = 2 * (Budget * R)
        BY <1>4, <3>6
      <4>2. Budget * R \in Int /\ Budget * c \in Int /\ c * k \in Int
        BY <1>4, <3>6
      <4> QED BY <3>6, <3>7, <4>1, <4>2
    <3>9. 2 * H <= 2 * Budget + k
      <4>1. 2 * H \in Int /\ 2 * Budget + k \in Int
        BY <1>4, <3>6
      <4> QED BY <3>6, <3>8, <4>1, Cancelled
    <3>10. CostsOf([n \in S |-> Share(n)], S) = H
      BY <2>1, <3>5, CostsOfIs
    <3> QED BY <2>5, <3>5, <3>9, <3>10
  <2> QED BY <2>8, <2>9
<1>9. c \in Nat
  <2>1. {} \in SUBSET {n \in DOMAIN latest : Reaches(Parent, n)}
    OBVIOUS
  <2> QED BY <1>8, <2>1
<1> QED BY <1>3, <1>6, <1>8, <1>9 DEF BudgetGivenOnce

-----------------------------------------------------------------------------
(* The comparison of scans.                                                *)

Done == {i \in DOMAIN scans : scans[i].state = "completed"}

LEMMA ScanRows ==
    ASSUME RollupInv
    PROVE  \A i \in DOMAIN scans : scans[i].started \in Nat /\ scans[i].cost \in Int
<1> TAKE i \in DOMAIN scans
<1>1. scans \in Seq(EndedScan) /\ i \in 1..Len(scans)
  BY LenProperties DEF RollupInv
<1>2. scans[i] \in EndedScan
  BY <1>1, ElementOfSeq
<1> QED BY <1>2 DEF EndedScan

\* prev takes each scan of E to its predecessor.
Predecessors(prev, E, last) ==
    /\ \A i \in E : prev[i] = CHOOSE j \in Previous(i) : TRUE
    /\ \A i \in E : prev[i] \in Done /\ scans[prev[i]].started < scans[i].started
    /\ \A i, j \in E : prev[i] = prev[j] => i = j
    /\ {prev[i] : i \in E} = Done \ {last}

\* Each completed scan but the last is the predecessor of one other.
LEMMA PreviousIs ==
    ASSUME RollupInv, \A i, j \in Done : i # j => scans[i].started # scans[j].started,
           NEW last \in Done, \A i \in Done : scans[i].started <= scans[last].started,
           NEW E, E = {i \in Done : Previous(i) # {}}
    PROVE  \E prev : Predecessors(prev, E, last)
<1>1. \A i \in DOMAIN scans : scans[i].started \in Nat
  BY ScanRows
<1>2. PICK prev : prev = [i \in E |-> CHOOSE j \in Previous(i) : TRUE]
  OBVIOUS
<1>3. \A i \in E : i \in Done /\ prev[i] \in Previous(i)
  BY <1>2
<1>4. \A i \in E : /\ prev[i] \in Done /\ scans[prev[i]].started < scans[i].started
                   /\ \A k \in Earlier(i) : scans[k].started <= scans[prev[i]].started
  BY <1>3 DEF Previous, Earlier, Done
<1>5. \A i \in Done : i \in DOMAIN scans /\ scans[i].state = "completed" /\ scans[i].started \in Nat
  BY <1>1 DEF Done
<1>6. ASSUME NEW i \in E, NEW j \in E, prev[i] = prev[j], i # j PROVE FALSE
  <2>1. scans[i].started # scans[j].started
    BY <1>3, <1>6
  <2>2. ASSUME NEW x \in E, NEW y \in E, prev[x] = prev[y], scans[x].started < scans[y].started
        PROVE  FALSE
    <3>1. x \in Earlier(y)
      BY <1>3, <1>5, <2>2 DEF Earlier
    <3>2. scans[x].started <= scans[prev[x]].started
      BY <1>4, <2>2, <3>1
    <3> QED BY <1>3, <1>4, <1>5, <3>2
  <2>3. scans[i].started < scans[j].started \/ scans[j].started < scans[i].started
    BY <1>3, <1>5, <2>1
  <2> QED BY <1>6, <2>2, <2>3
<1>7. ASSUME NEW i \in E PROVE prev[i] \in Done \ {last}
  <2>1. scans[prev[i]].started < scans[i].started /\ scans[i].started <= scans[last].started
    BY <1>3, <1>4
  <2>2. prev[i] # last
    BY <1>3, <1>4, <1>5, <2>1
  <2> QED BY <1>4, <2>2
<1>8. ASSUME NEW p \in Done \ {last} PROVE \E i \in E : prev[i] = p
  <2>1. PICK T : T = {s \in Nat : \E i \in Done : s = scans[i].started /\ scans[p].started < s}
    OBVIOUS
  <2>2. T \in SUBSET Nat /\ T # {}
    <3>1. scans[p].started # scans[last].started /\ scans[p].started <= scans[last].started
      OBVIOUS
    <3>2. scans[p].started \in Nat /\ scans[last].started \in Nat
      BY <1>5
    <3> QED BY <2>1, <3>1, <3>2
  <2>3. PICK s \in T : \A m \in T : s <= m
    BY <2>2, LeastNumber
  <2>4. PICK i \in Done : s = scans[i].started /\ scans[p].started < s
    BY <2>1
  <2>5. p \in Earlier(i)
    BY <1>5, <2>4 DEF Earlier
  <2>6. ASSUME NEW k \in Earlier(i) PROVE scans[k].started <= scans[p].started
    <3>1. k \in Done /\ scans[k].started < s
      BY <2>4 DEF Earlier, Done
    <3>2. scans[k].started \in Nat /\ s \in Nat /\ scans[p].started \in Nat
      BY <1>5, <2>4, <3>1
    <3>3. scans[k].started \notin T
      BY <2>3, <3>1, <3>2
    <3> QED BY <2>1, <3>1, <3>2, <3>3
  <2>7. p \in Previous(i)
    BY <2>5, <2>6 DEF Previous
  <2>8. i \in E
    BY <2>7
  <2>9. scans[prev[i]].started = scans[p].started
    <3>1. scans[p].started <= scans[prev[i]].started
      BY <1>4, <2>5, <2>8
    <3>2. prev[i] \in Earlier(i)
      BY <1>3, <2>8 DEF Previous
    <3>3. scans[prev[i]].started <= scans[p].started
      BY <2>6, <3>2
    <3> QED BY <1>4, <1>5, <2>8, <3>1, <3>3
  <2>10. prev[i] = p
    BY <1>4, <2>8, <2>9
  <2> QED BY <2>8, <2>10
<1>9. {prev[i] : i \in E} = Done \ {last}
  BY <1>7, <1>8
<1>10. \A i \in E : prev[i] = CHOOSE j \in Previous(i) : TRUE
  BY <1>2
<1> QED BY <1>4, <1>6, <1>9, <1>10 DEF Predecessors

LEMMA DiffsDoTelescope ==
    ASSUME RollupInv
    PROVE  DiffsTelescope
<1> SUFFICES ASSUME \A i, j \in Done : i # j => scans[i].started # scans[j].started,
                    NEW last \in Done, \A i \in Done : scans[i].started <= scans[last].started
             PROVE  CostsOf([i \in Done |-> Delta(i)], Done) = scans[last].cost
  BY DEF DiffsTelescope, Done
<1>1. \A i \in DOMAIN scans : scans[i].cost \in Int
  BY ScanRows
<1>2. PICK E : E = {i \in Done : Previous(i) # {}}
  OBVIOUS
<1>a. PICK prev : Predecessors(prev, E, last)
  BY <1>2, PreviousIs
<1>3. /\ \A i \in E : prev[i] = CHOOSE j \in Previous(i) : TRUE
      /\ \A i \in E : prev[i] \in Done /\ scans[prev[i]].started < scans[i].started
      /\ \A i, j \in E : prev[i] = prev[j] => i = j
      /\ {prev[i] : i \in E} = Done \ {last}
  BY <1>a DEF Predecessors
<1>4. PICK d, f, g, h :
        /\ d = [i \in Done |-> Delta(i)] /\ f = [i \in Done |-> scans[i].cost]
        /\ g = [i \in Done |-> IF i \in E THEN f[prev[i]] ELSE 0]
        /\ h = [i \in E |-> f[prev[i]]]
  OBVIOUS
<1>5. IsFiniteSet(Done) /\ E \in SUBSET Done /\ IsFiniteSet(E)
  <2>1. DOMAIN scans = 1..Len(scans) /\ Len(scans) \in Nat
    BY LenProperties DEF RollupInv
  <2>2. Done \in SUBSET (1..Len(scans)) /\ IsFiniteSet(1..Len(scans))
    BY <2>1, FS_Interval DEF Done
  <2>3. IsFiniteSet(Done) /\ E \in SUBSET Done
    BY <1>2, <2>2, FS_Subset
  <2> QED BY <2>3, FS_Subset
<1>6. \A i \in Done : f[i] = scans[i].cost /\ f[i] \in Int
  BY <1>1, <1>4 DEF Done
<1>7. \A i \in Done : g[i] = (IF i \in E THEN f[prev[i]] ELSE 0) /\ g[i] \in Int
  BY <1>3, <1>4, <1>6
<1>8. \A i \in E : h[i] = f[prev[i]] /\ h[i] \in Int /\ g[i] = h[i]
  BY <1>3, <1>4, <1>5, <1>6
<1>9. ASSUME NEW i \in Done PROVE d[i] = f[i] - g[i] /\ d[i] \in Int /\ f[i] = d[i] + g[i]
  <2>1. Delta(i) = f[i] - g[i]
    <3>1. CASE i \in E
      <4>1. Previous(i) # {} /\ prev[i] \in Done /\ prev[i] = CHOOSE j \in Previous(i) : TRUE
        BY <1>2, <1>3, <3>1
      <4>2. Delta(i) = scans[i].cost - scans[prev[i]].cost
        BY <4>1 DEF Delta
      <4> QED BY <1>6, <1>7, <3>1, <4>1, <4>2
    <3>2. CASE i \notin E
      <4>1. Previous(i) = {}
        BY <1>2, <3>2
      <4> QED BY <1>6, <1>7, <3>2, <4>1 DEF Delta
    <3> QED BY <3>1, <3>2
  <2>2. d[i] = Delta(i)
    BY <1>4
  <2> QED BY <1>6, <1>7, <2>1, <2>2
<1>10. SumOver(f, Done) = SumOver(d, Done) + SumOver(g, Done)
  BY <1>5, <1>6, <1>7, <1>9, SumPlus
<1>11. SumOver(g, Done) = SumOver(f, Done \ {last})
  <2>1. SumOver(g, Done) = SumOver(g, E)
    <3>1. \A i \in Done \ E : g[i] = 0
      BY <1>7
    <3> QED BY <1>5, <1>7, <3>1, SumOfPart
  <2>2. SumOver(g, E) = SumOver(h, E)
    BY <1>5, <1>8, SumAgree
  <2>3. SumOver(f, {prev[i] : i \in E}) = SumOver(h, E)
    <3>1. \A i, j \in E : prev[i] = prev[j] => i = j
      BY <1>3
    <3>2. \A i \in E : h[i] \in Int /\ f[prev[i]] = h[i]
      BY <1>8
    <3> QED BY <1>5, <3>1, <3>2, SumImage
  <2> QED BY <1>3, <2>1, <2>2, <2>3
<1>12. SumOver(f, Done) = f[last] + SumOver(f, Done \ {last})
  BY <1>5, <1>6, SumTake
<1>13. SumOver(d, Done) \in Int /\ SumOver(f, Done \ {last}) \in Int
  <2>1. IsFiniteSet(Done \ {last})
    BY <1>5, FS_RemoveElement
  <2>2. \A i \in Done \ {last} : f[i] \in Int
    BY <1>6
  <2>3. \A i \in Done : d[i] \in Int
    BY <1>9
  <2>4. SumOver(f, Done \ {last}) \in Int
    BY <2>1, <2>2, SumType
  <2> QED BY <1>5, <2>3, <2>4, SumType
<1>14. SumOver(d, Done) = scans[last].cost
  <2>1. PICK x, y, z : x = SumOver(d, Done) /\ y = SumOver(f, Done \ {last}) /\ z = f[last]
    OBVIOUS
  <2>2. x + y = z + y
    BY <1>10, <1>11, <1>12, <2>1
  <2>3. x \in Int /\ y \in Int /\ z \in Int
    BY <1>6, <1>13, <2>1
  <2>4. x = z
    BY <2>2, <2>3
  <2> QED BY <1>6, <2>1, <2>4
<1> QED BY <1>4, <1>14, CostsOfIs

-----------------------------------------------------------------------------
(* Imported files.                                                         *)

NodeKind == Kind \cup {"tenancy", "group"}

NodeRow == [kind : NodeKind, parent : Account \cup {Root}]

NodeMaps == UNION {[A -> NodeRow] : A \in SUBSET Account}

LEMMA NodeMapIs ==
    ASSUME NEW g
    PROVE  g \in NodeMaps <=>
             /\ DOMAIN g \subseteq Account /\ g = [m \in DOMAIN g |-> g[m]]
             /\ \A m \in DOMAIN g : g[m] \in NodeRow
<1>1. ASSUME g \in NodeMaps
      PROVE  /\ DOMAIN g \subseteq Account /\ g = [m \in DOMAIN g |-> g[m]]
             /\ \A m \in DOMAIN g : g[m] \in NodeRow
  <2>1. PICK A \in SUBSET Account : g \in [A -> NodeRow]
    BY <1>1 DEF NodeMaps
  <2> QED BY <2>1
<1>2. ASSUME DOMAIN g \subseteq Account, g = [m \in DOMAIN g |-> g[m]], \A m \in DOMAIN g : g[m] \in NodeRow
      PROVE  g \in NodeMaps
  <2>1. DOMAIN g \in SUBSET Account /\ g \in [DOMAIN g -> NodeRow]
    BY <1>2
  <2> QED BY <2>1 DEF NodeMaps
<1> QED BY <1>1, <1>2

LEMMA LineIs ==
    ASSUME RollupInv
    PROVE  /\ DOMAIN lines = 1..Len(lines) /\ Len(lines) \in Nat /\ IsFiniteSet(DOMAIN lines)
           /\ \A i \in DOMAIN lines : lines[i] \in Line /\ LineCost[i] \in Int
<1>1. lines \in Seq(Line) /\ Len(lines) <= MaxLines
  BY DEF RollupInv
<1>2. DOMAIN lines = 1..Len(lines) /\ Len(lines) \in Nat
  BY <1>1, LenProperties
<1>3. IsFiniteSet(DOMAIN lines)
  BY <1>2, FS_Interval
<1>4. \A i \in DOMAIN lines : lines[i] \in Line
  BY <1>1, <1>2, ElementOfSeq
<1>5. \A i \in DOMAIN lines : i \in 1..MaxLines
  BY <1>1, <1>2, RollupBounds
<1>6. \A i \in DOMAIN lines : LineCost[i] \in Int
  BY <1>5, RollupBounds
<1> QED BY <1>2, <1>3, <1>4, <1>6

MadeSure(g, nodes, n, parent) ==
    /\ DOMAIN g = DOMAIN nodes \cup {n}
    /\ \A m \in DOMAIN nodes \ {n} : g[m] = nodes[m]
    /\ n \notin DOMAIN nodes => g[n].parent = parent
    /\ n \in DOMAIN nodes => g[n].parent = nodes[n].parent \/ (parent # n /\ g[n].parent = parent)

\* A node that is made sure of is there; no other changes; its own parent is new
\* only where it had none.
LEMMA EnsuredIs ==
    ASSUME NEW nodes \in NodeMaps, NEW n \in Account, NEW kind \in NodeKind,
           NEW parent \in Account \cup {Root}, NEW g, g = Ensured(nodes, n, kind, parent)
    PROVE  g \in NodeMaps /\ MadeSure(g, nodes, n, parent)
<1>1. /\ DOMAIN nodes \subseteq Account /\ nodes = [m \in DOMAIN nodes |-> nodes[m]]
      /\ \A m \in DOMAIN nodes : nodes[m] \in NodeRow
  BY NodeMapIs
<1>2. CASE n \notin DOMAIN nodes
  <2>1. g = [x \in DOMAIN nodes \cup {n} |-> IF x = n THEN [kind |-> kind, parent |-> parent] ELSE nodes[x]]
    BY <1>2 DEF Ensured
  <2>2. [kind |-> kind, parent |-> parent] \in NodeRow
    BY DEF NodeRow
  <2>3. DOMAIN g = DOMAIN nodes \cup {n} /\ g[n] = [kind |-> kind, parent |-> parent]
        /\ \A m \in DOMAIN nodes \ {n} : g[m] = nodes[m]
    BY <2>1
  <2>4. g = [m \in DOMAIN g |-> g[m]]
    BY <2>1
  <2>5. \A m \in DOMAIN g : g[m] \in NodeRow
    BY <1>1, <2>2, <2>3
  <2>6. g \in NodeMaps
    BY <1>1, <2>3, <2>4, <2>5, NodeMapIs
  <2> QED BY <1>2, <2>3, <2>6 DEF MadeSure
<1>3. CASE n \in DOMAIN nodes
  <2>1. PICK k, p : /\ k = (IF nodes[n].kind \in Vague /\ kind \notin Vague THEN kind ELSE nodes[n].kind)
                    /\ p = (IF nodes[n].parent = Root /\ parent # n THEN parent ELSE nodes[n].parent)
    OBVIOUS
  <2>2. g = [nodes EXCEPT ![n].kind = IF @ \in Vague /\ kind \notin Vague THEN kind ELSE @,
                          ![n].parent = IF @ = Root /\ parent # n THEN parent ELSE @]
    BY <1>3 DEF Ensured
  <2>3. nodes[n] \in NodeRow
    BY <1>1, <1>3
  <2>4. nodes[n] = [kind |-> nodes[n].kind, parent |-> nodes[n].parent]
    BY <2>3 DEF NodeRow
  <2>5. g = [nodes EXCEPT ![n] = [kind |-> k, parent |-> p]]
    BY <1>1, <1>3, <2>1, <2>2, <2>4
  <2>6. [kind |-> k, parent |-> p] \in NodeRow
    BY <2>1, <2>3 DEF NodeRow
  <2>7. DOMAIN g = DOMAIN nodes /\ g[n] = [kind |-> k, parent |-> p] /\ \A m \in DOMAIN nodes \ {n} : g[m] = nodes[m]
    BY <1>1, <1>3, <2>5
  <2>8. g = [m \in DOMAIN g |-> g[m]]
    BY <2>5
  <2>9. \A m \in DOMAIN g : g[m] \in NodeRow
    BY <1>1, <2>6, <2>7
  <2>10. g \in NodeMaps
    BY <1>1, <2>7, <2>8, <2>9, NodeMapIs
  <2>11. g[n].parent = p
    BY <2>7
  <2> QED BY <1>3, <2>1, <2>7, <2>10, <2>11 DEF MadeSure
<1> QED BY <1>2, <1>3

\* Nodes as the first i rows make them.
NodesFit(g, i) ==
    /\ g \in NodeMaps
    /\ \A m \in DOMAIN g :
         g[m].parent = Root \/ (g[m].parent \in DOMAIN g \ {m} /\ <<m, g[m].parent>> \in Named)
    /\ \A j \in 1..i : lines[j].account \in DOMAIN g

LEMMA WithLineType ==
    ASSUME NEW nodes \in NodeMaps, NEW l \in Line
    PROVE  WithLine(nodes, l) \in NodeMaps
<1>1. l.account \in Account /\ l.parent \in Account \cup {Nobody} /\ l.kind \in Kind
  BY DEF Line
<1>2. PICK known : known = (IF l.parent = Nobody THEN nodes
                            ELSE Ensured(nodes, l.parent, InferredKind(l.kind), Root))
  OBVIOUS
<1>3. InferredKind(l.kind) \in NodeKind
  BY DEF InferredKind, NodeKind
<1>4. known \in NodeMaps
  BY <1>1, <1>2, <1>3, EnsuredIs
<1>5. (IF l.parent = Nobody THEN Root ELSE l.parent) \in Account \cup {Root}
  BY <1>1
<1>6. l.kind \in NodeKind
  BY <1>1 DEF NodeKind
<1>7. WithLine(nodes, l) = Ensured(known, l.account, l.kind, IF l.parent = Nobody THEN Root ELSE l.parent)
  BY <1>2 DEF WithLine
<1> QED BY <1>1, <1>4, <1>5, <1>6, <1>7, EnsuredIs

LEMMA WithLineFits ==
    ASSUME RollupInv, NEW i \in DOMAIN lines, NEW nodes, NodesFit(nodes, i - 1)
    PROVE  NodesFit(WithLine(nodes, lines[i]), i)
<1>1. PICK l : l = lines[i]
  OBVIOUS
<1>2. l \in Line /\ i \in Nat
  BY <1>1, LineIs
<1>3. l.account \in Account /\ l.parent \in Account \cup {Nobody} /\ l.kind \in Kind
  BY <1>2 DEF Line
<1>4. PICK known : known = (IF l.parent = Nobody THEN nodes
                            ELSE Ensured(nodes, l.parent, InferredKind(l.kind), Root))
  OBVIOUS
<1>5. PICK p : p = (IF l.parent = Nobody THEN Root ELSE l.parent)
  OBVIOUS
<1>6. InferredKind(l.kind) \in NodeKind /\ l.kind \in NodeKind
  BY <1>3 DEF InferredKind, NodeKind
<1>7. nodes \in NodeMaps
  BY DEF NodesFit
<1>8. /\ known \in NodeMaps /\ DOMAIN nodes \subseteq DOMAIN known
      /\ \A m \in DOMAIN known : known[m].parent = Root
            \/ (known[m].parent \in DOMAIN known \ {m} /\ <<m, known[m].parent>> \in Named)
      /\ p # Root => p \in DOMAIN known
  <2>1. CASE l.parent = Nobody
    BY <1>4, <1>5, <1>7, <2>1 DEF NodesFit
  <2>2. CASE l.parent # Nobody
    <3>1. known = Ensured(nodes, l.parent, InferredKind(l.kind), Root) /\ l.parent \in Account
      BY <1>3, <1>4, <2>2
    <3>2. Root \in Account \cup {Root}
      OBVIOUS
    <3>a. known \in NodeMaps /\ MadeSure(known, nodes, l.parent, Root)
      BY <1>6, <1>7, <3>1, <3>2, EnsuredIs
    <3>3. /\ known \in NodeMaps /\ DOMAIN known = DOMAIN nodes \cup {l.parent}
          /\ \A m \in DOMAIN nodes \ {l.parent} : known[m] = nodes[m]
          /\ l.parent \notin DOMAIN nodes => known[l.parent].parent = Root
          /\ l.parent \in DOMAIN nodes => known[l.parent].parent = nodes[l.parent].parent
                                          \/ known[l.parent].parent = Root
      BY <3>a DEF MadeSure
    <3>4. ASSUME NEW m \in DOMAIN known
          PROVE  known[m].parent = Root
                   \/ (known[m].parent \in DOMAIN known \ {m} /\ <<m, known[m].parent>> \in Named)
      <4>1. known[m].parent = Root \/ (m \in DOMAIN nodes /\ known[m].parent = nodes[m].parent)
        BY <3>3
      <4> QED BY <3>3, <4>1 DEF NodesFit
    <3> QED BY <1>5, <3>3, <3>4
  <2> QED BY <2>1, <2>2
<1>9. PICK g : g = Ensured(known, l.account, l.kind, p)
  OBVIOUS
<1>10. WithLine(nodes, l) = g
  BY <1>4, <1>5, <1>9 DEF WithLine
<1>11. p \in Account \cup {Root}
  BY <1>3, <1>5
<1>a. g \in NodeMaps /\ MadeSure(g, known, l.account, p)
  BY <1>3, <1>6, <1>8, <1>9, <1>11, EnsuredIs
<1>12. /\ g \in NodeMaps /\ DOMAIN g = DOMAIN known \cup {l.account}
       /\ \A m \in DOMAIN known \ {l.account} : g[m] = known[m]
       /\ l.account \notin DOMAIN known => g[l.account].parent = p
       /\ l.account \in DOMAIN known => g[l.account].parent = known[l.account].parent
                                        \/ (p # l.account /\ g[l.account].parent = p)
  BY <1>a DEF MadeSure
<1>13. p # Root => <<l.account, p>> \in Named
  BY <1>1, <1>5 DEF Named
<1>14. ASSUME NEW m \in DOMAIN g
       PROVE  g[m].parent = Root \/ (g[m].parent \in DOMAIN g \ {m} /\ <<m, g[m].parent>> \in Named)
  <2>1. CASE m # l.account
    BY <1>8, <1>12, <2>1
  <2>2. CASE m = l.account
    <3>1. \/ g[m].parent = p /\ (p = Root \/ p # m)
          \/ m \in DOMAIN known /\ g[m].parent = known[m].parent
      BY <1>8, <1>12, <2>2
    <3>2. CASE g[m].parent = p /\ (p = Root \/ p # m)
      BY <1>8, <1>12, <1>13, <2>2, <3>2
    <3>3. CASE m \in DOMAIN known /\ g[m].parent = known[m].parent
      BY <1>8, <1>12, <3>3
    <3> QED BY <3>1, <3>2, <3>3
  <2> QED BY <2>1, <2>2
<1>15. \A j \in 1..i : lines[j].account \in DOMAIN g
  <2> TAKE j \in 1..i
  <2>1. j = i \/ j \in 1..(i - 1)
    BY <1>2
  <2> QED BY <1>1, <1>8, <1>12, <2>1 DEF NodesFit
<1> QED BY <1>1, <1>10, <1>12, <1>14, <1>15 DEF NodesFit

NodesRule(g, i) == IF i = 0 THEN <<>> ELSE WithLine(g[i - 1], lines[i])

NodesSolution(g, L) == g = [i \in 0..L |-> NodesRule(g, i)]

LEMMA ImportUnfold == ImportNodes = (CHOOSE g : NodesSolution(g, Len(lines)))[Len(lines)]
BY Zenon DEF ImportNodes, NodesSolution, NodesRule

LEMMA NoNodes == <<>> \in NodeMaps /\ DOMAIN <<>> = {}
<1>1. DOMAIN <<>> = {} /\ <<>> = [m \in DOMAIN <<>> |-> <<>>[m]]
  OBVIOUS
<1> QED BY <1>1, NodeMapIs

LEMMA ImportSolvable ==
    ASSUME RollupInv
    PROVE  \E g : NodesSolution(g, Len(lines))
<1>1. PICK L : L = Len(lines)
  OBVIOUS
<1>2. L \in Nat /\ \A i \in 1..L : lines[i] \in Line
  BY <1>1, LineIs
<1>3. PICK step : step = [p \in (1..L) \X NodeMaps |-> WithLine(p[2], lines[p[1]])]
  OBVIOUS
<1>4. step \in [(1..L) \X NodeMaps -> NodeMaps]
  BY <1>2, <1>3, WithLineType
<1>5. PICK a : a = <<>>
  OBVIOUS
<1>6. PICK f : StepsFrom(f, a, step, L) /\ \A i \in 0..L : f[i] \in NodeMaps
  BY <1>2, <1>4, <1>5, NoNodes, StepsExist
<1>7. ASSUME NEW i \in 0..L
      PROVE  NodesRule(f, i) = (IF i = 0 THEN a ELSE step[<<i, f[i - 1]>>])
  <2>1. CASE i = 0
    BY <1>5, <2>1 DEF NodesRule
  <2>2. CASE i # 0
    <3>1. i \in 1..L /\ f[i - 1] \in NodeMaps
      <4>1. i \in 1..L /\ i - 1 \in 0..L
        BY <1>2, <2>2
      <4> QED BY <1>6, <4>1
    <3> QED BY <1>3, <2>2, <3>1 DEF NodesRule
  <2> QED BY <2>1, <2>2
<1>8. NodesSolution(f, L)
  BY <1>6, <1>7 DEF StepsFrom, NodesSolution
<1> QED BY <1>1, <1>8

LEMMA ImportFits ==
    ASSUME RollupInv
    PROVE  NodesFit(ImportNodes, Len(lines))
<1>1. PICK L : L = Len(lines)
  OBVIOUS
<1>2. L \in Nat /\ DOMAIN lines = 1..L
  BY <1>1, LineIs
<1>3. PICK f : f = CHOOSE g : NodesSolution(g, L)
  OBVIOUS
<1>4. NodesSolution(f, L)
  BY <1>1, <1>3, ImportSolvable, Zenon
<1>5. \A i \in 0..L : f[i] = NodesRule(f, i)
  BY <1>4, Zenon DEF NodesSolution
<1> DEFINE T == {m \in 0..L : ~NodesFit(f[m], m)}
<1>6. T = {}
  <2> SUFFICES ASSUME T # {} PROVE FALSE
    OBVIOUS
  <2>1. PICK m \in T : \A j \in T : m <= j
    <3> T \in SUBSET Nat OBVIOUS
    <3> HIDE DEF T
    <3> QED BY LeastNumber
  <2>2. m \in 0..L /\ ~NodesFit(f[m], m)
    OBVIOUS
  <2>3. m # 0
    <3>1. f[0] = <<>>
      <4>1. 0 \in 0..L
        BY <1>2
      <4> QED BY <1>5, <4>1 DEF NodesRule
    <3>2. NodesFit(<<>>, 0)
      BY NoNodes DEF NodesFit
    <3> QED BY <2>2, <3>1, <3>2
  <2>4. m - 1 \in 0..L /\ m \in 1..L
    BY <1>2, <2>2, <2>3
  <2>5. m - 1 \notin T
    <3>1. m \in Int
      BY <2>2
    <3> HIDE DEF T
    <3> QED BY <2>1, <3>1
  <2>6. NodesFit(f[m - 1], m - 1)
    BY <2>4, <2>5
  <2>7. f[m] = WithLine(f[m - 1], lines[m])
    BY <1>5, <2>2, <2>3 DEF NodesRule
  <2>8. NodesFit(WithLine(f[m - 1], lines[m]), m)
    BY <1>2, <2>4, <2>6, WithLineFits
  <2> QED BY <2>2, <2>7, <2>8
<1>7. NodesFit(f[L], L)
  <2>1. L \in 0..L
    BY <1>2
  <2> QED BY <1>6, <2>1
<1> QED BY <1>1, <1>3, <1>7, ImportUnfold

\* The costs of the nodes of D are those of their rows.
LEMMA RowsOfNodes ==
    ASSUME RollupInv, NEW D, IsFiniteSet(D), NEW I \in SUBSET DOMAIN lines, \A i \in I : lines[i].account \in D,
           NEW c, \A n \in D : c[n] = CostsOf(LineCost, {i \in I : lines[i].account = n})
    PROVE  (\A n \in D : c[n] \in Int) /\ SumOver(c, D) = SumOver(LineCost, I)
<1>1. PICK key, g : /\ key = [i \in I |-> lines[i].account]
                    /\ g = [n \in D |-> {i \in I : lines[i].account = n}]
  OBVIOUS
<1>2. IsFiniteSet(I) /\ \A i \in I : LineCost[i] \in Int
  BY LineIs, FS_Subset
<1>3. \A i \in I : key[i] \in D
  BY <1>1
<1>4. \A n \in D : g[n] \subseteq I /\ \A i \in I : i \in g[n] <=> key[i] = n
  BY <1>1
<1>5. ASSUME NEW n \in D PROVE c[n] = SumOver(LineCost, g[n]) /\ c[n] \in Int
  <2>1. g[n] = {i \in I : lines[i].account = n}
    BY <1>1
  <2>2. c[n] = SumOver(LineCost, g[n])
    BY <2>1, CostsOfIs
  <2>3. IsFiniteSet(g[n]) /\ \A i \in g[n] : LineCost[i] \in Int
    <3>1. g[n] \in SUBSET I
      BY <1>4
    <3> QED BY <1>2, <3>1, FS_Subset
  <2> QED BY <2>2, <2>3, SumType
<1>6. SumOver(c, D) = SumOver(LineCost, I)
  BY <1>2, <1>3, <1>4, <1>5, SumGroups
<1> QED BY <1>5, <1>6

LEMMA ImportForest ==
    ASSUME RollupInv
    PROVE  /\ Forest(ImportUp) /\ DOMAIN ImportUp = DOMAIN ImportNodes
           /\ \A n \in DOMAIN ImportNodes : ImportUp[n] = ImportNodes[n].parent
           /\ DOMAIN ImportNodes \subseteq Account
<1>1. PICK g : g = ImportNodes
  OBVIOUS
<1>2. NodesFit(g, Len(lines))
  BY <1>1, ImportFits
<1>3. DOMAIN g \subseteq Account
  BY <1>2, NodeMapIs DEF NodesFit
<1>4. IsFiniteSet(DOMAIN g) /\ Root \notin DOMAIN g
  <2>1. DOMAIN g \in SUBSET Account
    BY <1>3
  <2> QED BY <2>1, FS_Subset, RollupBounds
<1>5. ImportUp = [n \in DOMAIN g |-> g[n].parent]
  BY <1>1 DEF ImportUp
<1>6. \A n \in DOMAIN g : g[n].parent \in DOMAIN g \cup {Root}
  BY <1>2 DEF NodesFit
<1> QED BY <1>1, <1>3, <1>4, <1>5, <1>6 DEF Forest, Nodes

LEMMA ImportDoesAddUp ==
    ASSUME RollupInv
    PROVE  ImportAddsUp
<1> SUFFICES ASSUME ~Circular
             PROVE  ImportTotal = CostsOf(LineCost, {i \in DOMAIN lines :
                      ~(lines[i].account \in ImportGroups /\ MembersOf(ImportUp, lines[i].account) # {})})
  BY DEF ImportAddsUp
<1>1. PICK D : D = DOMAIN ImportNodes
  OBVIOUS
<1>2. /\ Forest(ImportUp) /\ DOMAIN ImportUp = D /\ D \subseteq Account
      /\ \A n \in D : ImportUp[n] = ImportNodes[n].parent
  BY <1>1, ImportForest
<1>3. /\ \A n \in D : ImportNodes[n].parent = Root
           \/ (ImportNodes[n].parent \in D \ {n} /\ <<n, ImportNodes[n].parent>> \in Named)
      /\ \A i \in 1..Len(lines) : lines[i].account \in D
  BY <1>1, ImportFits DEF NodesFit
<1>4. \A n \in D : Reaches(ImportUp, n)
  <2> SUFFICES ASSUME NEW m \in D, ~Reaches(ImportUp, m) PROVE FALSE
    OBVIOUS
  <2>1. PICK U : U = {n \in D : ~Reaches(ImportUp, n)}
    OBVIOUS
  <2>2. ASSUME NEW n \in U PROVE \E p \in U \ {n} : <<n, p>> \in Named
    <3>1. n \in D /\ ImportUp[n] \in U
      BY <1>2, <2>1, CutOff
    <3>2. ImportUp[n] # Root
      BY <1>2, <2>1, <3>1 DEF Forest
    <3> QED BY <1>2, <1>3, <3>1, <3>2
  <2>3. U \in (SUBSET Account) \ {{}}
    BY <1>2, <2>1
  <2> QED BY <2>2, <2>3 DEF Circular
<1>5. PICK P : P = Counted(ImportUp, ImportGroups)
  OBVIOUS
<1>6. P = {n \in D : ~(n \in ImportGroups /\ MembersOf(ImportUp, n) # {})}
  BY <1>2, <1>4, <1>5 DEF Counted
<1>7. PICK I : I = {i \in DOMAIN lines :
                      ~(lines[i].account \in ImportGroups /\ MembersOf(ImportUp, lines[i].account) # {})}
  OBVIOUS
<1>8. I \in SUBSET DOMAIN lines /\ \A i \in DOMAIN lines : i \in I <=> lines[i].account \in P
  BY <1>3, <1>6, <1>7, LineIs
<1>9. IsFiniteSet(D) /\ IsFiniteSet(P)
  <2>1. P \in SUBSET D
    BY <1>6
  <2> QED BY <1>2, <2>1, FS_Subset DEF Forest
<1>10. \A n \in D : ImportCost[n] = CostsOf(LineCost, {i \in DOMAIN lines : lines[i].account = n})
  BY <1>1 DEF ImportCost
<1>11. \A n \in D : ImportCost[n] \in Int
  <2>1. DOMAIN lines \in SUBSET DOMAIN lines /\ \A i \in DOMAIN lines : lines[i].account \in D
    BY <1>3, LineIs
  <2> QED BY <1>9, <1>10, <2>1, RowsOfNodes
<1>12. \A n \in P : ImportCost[n] = CostsOf(LineCost, {i \in I : lines[i].account = n})
  <2> TAKE n \in P
  <2>1. {i \in I : lines[i].account = n} = {i \in DOMAIN lines : lines[i].account = n}
    BY <1>8
  <2> QED BY <1>6, <1>10, <2>1
<1>13. SumOver(ImportCost, P) = SumOver(LineCost, I)
  <2>1. \A i \in I : lines[i].account \in P
    BY <1>8
  <2> QED BY <1>8, <1>9, <1>12, <2>1, RowsOfNodes
<1>14. ImportTotal = SumOver(ImportCost, P)
  BY <1>2, <1>5, <1>11, RolledCounts DEF ImportTotal
<1> QED BY <1>7, <1>13, <1>14, CostsOfIs

-----------------------------------------------------------------------------
(* The federated view.                                                     *)

LEMMA MinIs ==
    ASSUME NEW S \in SUBSET Nat, S # {}
    PROVE  Min(S) \in S /\ \A y \in S : Min(S) <= y
<1>1. \E x \in S : \A y \in S : x <= y
  BY LeastNumber
<1> QED BY <1>1 DEF Min

\* Nodes that were put one after the other below those that were there.
Grown(g) ==
    /\ g \in NodeMaps /\ DOMAIN g \cap seen = {}
    /\ \A m \in DOMAIN g : g[m].parent \in DOMAIN g \cup seen \cup {Root}
    /\ \A S \in SUBSET DOMAIN g : S # {} => \E n \in S : g[n].parent \notin S

JoinedTo(g, nodes, n, parent) ==
    IF n \in seen THEN g = nodes
    ELSE /\ DOMAIN g = DOMAIN nodes \cup {n}
         /\ \A m \in DOMAIN nodes : g[m].parent = nodes[m].parent
         /\ n \notin DOMAIN nodes => g[n].parent = parent

LEMMA JoinedIs ==
    ASSUME NEW nodes \in NodeMaps, NEW n \in Account, NEW kind \in NodeKind,
           NEW parent \in Account \cup {Root}, NEW g, g = Joined(nodes, n, kind, parent)
    PROVE  g \in NodeMaps /\ JoinedTo(g, nodes, n, parent)
<1>1. /\ DOMAIN nodes \subseteq Account /\ nodes = [m \in DOMAIN nodes |-> nodes[m]]
      /\ \A m \in DOMAIN nodes : nodes[m] \in NodeRow
  BY NodeMapIs
<1>2. CASE n \in seen
  BY <1>2 DEF Joined, JoinedTo
<1>3. CASE n \notin seen /\ n \notin DOMAIN nodes
  <2>1. g = [x \in DOMAIN nodes \cup {n} |-> IF x = n THEN [kind |-> kind, parent |-> parent] ELSE nodes[x]]
    BY <1>3 DEF Joined
  <2>2. [kind |-> kind, parent |-> parent] \in NodeRow
    BY DEF NodeRow
  <2>3. DOMAIN g = DOMAIN nodes \cup {n} /\ g[n] = [kind |-> kind, parent |-> parent]
        /\ \A m \in DOMAIN nodes : g[m] = nodes[m]
    BY <1>3, <2>1
  <2>4. g = [m \in DOMAIN g |-> g[m]]
    BY <2>1
  <2>5. \A m \in DOMAIN g : g[m] \in NodeRow
    BY <1>1, <2>2, <2>3
  <2>6. g \in NodeMaps
    BY <1>1, <2>3, <2>4, <2>5, NodeMapIs
  <2> QED BY <1>3, <2>3, <2>6 DEF JoinedTo
<1>4. CASE n \notin seen /\ n \in DOMAIN nodes
  <2>1. PICK k : k = (IF nodes[n].kind = "group" THEN kind ELSE nodes[n].kind)
    OBVIOUS
  <2>2. g = [nodes EXCEPT ![n].kind = IF @ = "group" THEN kind ELSE @]
    BY <1>4 DEF Joined
  <2>3. nodes[n] \in NodeRow
    BY <1>1, <1>4
  <2>4. nodes[n] = [kind |-> nodes[n].kind, parent |-> nodes[n].parent]
    BY <2>3 DEF NodeRow
  <2>5. g = [nodes EXCEPT ![n] = [kind |-> k, parent |-> nodes[n].parent]]
    BY <1>1, <1>4, <2>1, <2>2, <2>4
  <2>6. [kind |-> k, parent |-> nodes[n].parent] \in NodeRow
    BY <2>1, <2>3 DEF NodeRow
  <2>7. DOMAIN g = DOMAIN nodes /\ g[n] = [kind |-> k, parent |-> nodes[n].parent]
        /\ \A m \in DOMAIN nodes \ {n} : g[m] = nodes[m]
    BY <1>1, <1>4, <2>5
  <2>8. g = [m \in DOMAIN g |-> g[m]]
    BY <2>5
  <2>9. \A m \in DOMAIN g : g[m] \in NodeRow
    BY <1>1, <2>6, <2>7
  <2>10. g \in NodeMaps
    BY <1>1, <2>7, <2>8, <2>9, NodeMapIs
  <2> QED BY <1>4, <2>7, <2>10 DEF JoinedTo
<1> QED BY <1>2, <1>3, <1>4

LEMMA JoinedGrows ==
    ASSUME RollupInv, NEW nodes, Grown(nodes), NEW n \in Account, NEW kind \in NodeKind,
           NEW parent \in DOMAIN nodes \cup seen \cup {Root}, NEW g, g = Joined(nodes, n, kind, parent)
    PROVE  Grown(g) /\ DOMAIN nodes \subseteq DOMAIN g /\ n \in DOMAIN g \cup seen
<1>1. nodes \in NodeMaps /\ DOMAIN nodes \subseteq Account
  BY NodeMapIs DEF Grown
<1>2. parent \in Account \cup {Root}
  BY <1>1 DEF RollupInv
<1>3. g \in NodeMaps /\ JoinedTo(g, nodes, n, parent)
  BY <1>1, <1>2, JoinedIs
<1>4. CASE n \in seen
  BY <1>3, <1>4 DEF JoinedTo
<1>5. CASE n \notin seen
  <2>1. /\ DOMAIN g = DOMAIN nodes \cup {n}
        /\ \A m \in DOMAIN nodes : g[m].parent = nodes[m].parent
        /\ n \notin DOMAIN nodes => g[n].parent = parent
    BY <1>3, <1>5 DEF JoinedTo
  <2>2. \A m \in DOMAIN nodes : nodes[m].parent \in DOMAIN nodes \cup seen \cup {Root}
    BY DEF Grown
  <2>3. \A m \in DOMAIN g : g[m].parent \in DOMAIN nodes \cup seen \cup {Root}
    BY <2>1, <2>2
  <2>4. DOMAIN g \cap seen = {}
    BY <1>5, <2>1 DEF Grown
  <2>5. ASSUME NEW S \in SUBSET DOMAIN g, S # {} PROVE \E m \in S : g[m].parent \notin S
    <3>1. CASE S \subseteq DOMAIN nodes
      <4>1. PICK m \in S : nodes[m].parent \notin S
        BY <2>5, <3>1 DEF Grown
      <4> QED BY <2>1, <3>1, <4>1
    <3>2. CASE ~(S \subseteq DOMAIN nodes)
      <4>1. n \in S /\ n \notin DOMAIN nodes /\ n # Root
        BY <2>1, <3>2, RollupBounds
      <4>2. \A m \in DOMAIN g : g[m].parent # n
        BY <1>5, <2>3, <4>1
      <4>3. PICK R : R = S \ {n}
        OBVIOUS
      <4>4. CASE R = {}
        BY <2>1, <4>1, <4>2, <4>3, <4>4
      <4>5. CASE R # {}
        <5>1. R \in SUBSET DOMAIN nodes
          BY <2>1, <4>3
        <5>2. PICK m \in R : nodes[m].parent \notin R
          BY <4>5, <5>1 DEF Grown
        <5>3. m \in S /\ m \in DOMAIN nodes /\ g[m].parent = nodes[m].parent
          BY <2>1, <4>3, <5>1
        <5>4. g[m].parent # n
          BY <2>1, <4>2, <5>3
        <5> QED BY <4>3, <5>2, <5>3, <5>4
      <4> QED BY <4>4, <4>5
    <3> QED BY <3>1, <3>2
  <2> QED BY <1>3, <2>1, <2>3, <2>4, <2>5 DEF Grown
<1> QED BY <1>4, <1>5

\* The rows of the account of row i, and the first of them that name a parent.
Own(i) == {j \in FedLines : lines[j].account = lines[i].account}

Naming(i) == {j \in Own(i) : lines[j].parent # Nobody}

FirstParent(i) == lines[Min(Naming(i))].parent

LEMMA WithAccountIs ==
    ASSUME NEW nodes, NEW i
    PROVE  WithAccount(nodes, i) =
             IF i # Min(Own(i)) THEN nodes
             ELSE IF Naming(i) = {} THEN Joined(nodes, lines[i].account, lines[i].kind, Root)
             ELSE Joined(Joined(nodes, FirstParent(i), InferredKind(lines[Min(Naming(i))].kind), Root),
                         lines[i].account, lines[i].kind, FirstParent(i))
BY Zenon DEF WithAccount, Own, Naming, FirstParent

LEMMA OwnRows ==
    ASSUME RollupInv, NEW i \in FedLines
    PROVE  /\ i \in Own(i) /\ Own(i) \in SUBSET Nat /\ i \in DOMAIN lines
           /\ Min(Own(i)) \in Own(i) /\ Min(Own(i)) <= i
           /\ lines[i].account \in Account \ seen /\ lines[i].kind \in NodeKind
           /\ Naming(i) # {} =>
                FirstParent(i) \in Account /\ InferredKind(lines[Min(Naming(i))].kind) \in NodeKind
<1>1. FedLines \in SUBSET Nat /\ FedLines \subseteq DOMAIN lines
  BY LineIs DEF FedLines
<1>2. i \in Own(i) /\ Own(i) \in SUBSET Nat /\ i \in DOMAIN lines
  BY <1>1 DEF Own
<1>3. Min(Own(i)) \in Own(i) /\ Min(Own(i)) <= i
  BY <1>2, MinIs
<1>4. lines[i] \in Line
  BY <1>2, LineIs
<1>5. lines[i].account \in Account \ seen /\ lines[i].kind \in NodeKind
  BY <1>4 DEF Line, NodeKind, FedLines
<1>6. ASSUME Naming(i) # {}
      PROVE  FirstParent(i) \in Account /\ InferredKind(lines[Min(Naming(i))].kind) \in NodeKind
  <2>1. Naming(i) \in SUBSET Nat /\ Naming(i) \subseteq Own(i)
    BY <1>2 DEF Naming
  <2>2. PICK j : j = Min(Naming(i))
    OBVIOUS
  <2>3. j \in Naming(i)
    BY <1>6, <2>1, <2>2, MinIs
  <2>4. j \in DOMAIN lines /\ lines[j].parent # Nobody
    BY <1>1, <2>3 DEF Naming, Own
  <2>5. lines[j] \in Line
    BY <2>4, LineIs
  <2> QED BY <2>2, <2>4, <2>5 DEF FirstParent, Line, NodeKind, InferredKind
<1> QED BY <1>2, <1>3, <1>5, <1>6

LEMMA WithAccountType ==
    ASSUME RollupInv, NEW nodes \in NodeMaps, NEW i \in FedLines
    PROVE  WithAccount(nodes, i) \in NodeMaps
<1>1. lines[i].account \in Account /\ lines[i].kind \in NodeKind /\ Root \in Account \cup {Root}
  BY OwnRows
<1>2. CASE i # Min(Own(i))
  BY <1>2, WithAccountIs
<1>3. CASE i = Min(Own(i)) /\ Naming(i) = {}
  <2>1. WithAccount(nodes, i) = Joined(nodes, lines[i].account, lines[i].kind, Root)
    BY <1>3, WithAccountIs
  <2> QED BY <1>1, <2>1, JoinedIs
<1>4. CASE i = Min(Own(i)) /\ Naming(i) # {}
  <2>1. PICK p, k : p = FirstParent(i) /\ k = InferredKind(lines[Min(Naming(i))].kind)
    OBVIOUS
  <2>2. p \in Account /\ k \in NodeKind /\ p \in Account \cup {Root}
    BY <1>4, <2>1, OwnRows
  <2>3. PICK h : h = Joined(nodes, p, k, Root)
    OBVIOUS
  <2>4. h \in NodeMaps
    BY <1>1, <2>2, <2>3, JoinedIs
  <2>5. WithAccount(nodes, i) = Joined(h, lines[i].account, lines[i].kind, p)
    BY <1>4, <2>1, <2>3, WithAccountIs
  <2> QED BY <1>1, <2>2, <2>4, <2>5, JoinedIs
<1> QED BY <1>2, <1>3, <1>4

LEMMA WithAccountGrows ==
    ASSUME RollupInv, NEW nodes, Grown(nodes), NEW i \in FedLines, NEW g, g = WithAccount(nodes, i)
    PROVE  /\ Grown(g) /\ DOMAIN nodes \subseteq DOMAIN g
           /\ i = Min(Own(i)) => lines[i].account \in DOMAIN g
<1>1. lines[i].account \in Account /\ lines[i].account \notin seen /\ lines[i].kind \in NodeKind
  BY OwnRows
<1>2. CASE i # Min(Own(i))
  BY <1>2, WithAccountIs
<1>3. CASE i = Min(Own(i)) /\ Naming(i) = {}
  <2>1. g = Joined(nodes, lines[i].account, lines[i].kind, Root)
    BY <1>3, WithAccountIs
  <2>2. Root \in DOMAIN nodes \cup seen \cup {Root}
    OBVIOUS
  <2> QED BY <1>1, <2>1, <2>2, JoinedGrows
<1>4. CASE i = Min(Own(i)) /\ Naming(i) # {}
  <2>1. PICK p, k : p = FirstParent(i) /\ k = InferredKind(lines[Min(Naming(i))].kind)
    OBVIOUS
  <2>2. p \in Account /\ k \in NodeKind
    BY <1>4, <2>1, OwnRows
  <2>3. PICK h : h = Joined(nodes, p, k, Root)
    OBVIOUS
  <2>4. Root \in DOMAIN nodes \cup seen \cup {Root}
    OBVIOUS
  <2>5. Grown(h) /\ DOMAIN nodes \subseteq DOMAIN h /\ p \in DOMAIN h \cup seen
    BY <2>2, <2>3, <2>4, JoinedGrows
  <2>6. g = Joined(h, lines[i].account, lines[i].kind, p)
    BY <1>4, <2>1, <2>3, WithAccountIs
  <2>7. p \in DOMAIN h \cup seen \cup {Root}
    BY <2>5
  <2>8. Grown(g) /\ DOMAIN h \subseteq DOMAIN g /\ lines[i].account \in DOMAIN g \cup seen
    BY <1>1, <2>5, <2>6, <2>7, JoinedGrows
  <2> QED BY <1>1, <2>5, <2>8
<1> QED BY <1>2, <1>3, <1>4

FedRule(g, i) == IF i = 0 THEN <<>> ELSE IF i \in FedLines THEN WithAccount(g[i - 1], i) ELSE g[i - 1]

FedSolution(g, L) == g = [i \in 0..L |-> FedRule(g, i)]

LEMMA FedUnfold == FedNodes = (CHOOSE g : FedSolution(g, Len(lines)))[Len(lines)]
BY Zenon DEF FedNodes, FedSolution, FedRule

LEMMA FedSolvable ==
    ASSUME RollupInv
    PROVE  \E g : FedSolution(g, Len(lines))
<1>1. PICK L : L = Len(lines)
  OBVIOUS
<1>2. L \in Nat
  BY <1>1, LineIs
<1>3. PICK stepUp : stepUp = [p \in (1..L) \X NodeMaps |->
                                IF p[1] \in FedLines THEN WithAccount(p[2], p[1]) ELSE p[2]]
  OBVIOUS
<1>4. stepUp \in [(1..L) \X NodeMaps -> NodeMaps]
  BY <1>3, WithAccountType
<1>5. PICK a : a = <<>>
  OBVIOUS
<1>6. PICK f : StepsFrom(f, a, stepUp, L) /\ \A i \in 0..L : f[i] \in NodeMaps
  BY <1>2, <1>4, <1>5, NoNodes, StepsExist
<1>7. ASSUME NEW i \in 0..L
      PROVE  FedRule(f, i) = (IF i = 0 THEN a ELSE stepUp[<<i, f[i - 1]>>])
  <2>1. CASE i = 0
    BY <1>5, <2>1 DEF FedRule
  <2>2. CASE i # 0
    <3>1. i \in 1..L /\ f[i - 1] \in NodeMaps
      <4>1. i \in 1..L /\ i - 1 \in 0..L
        BY <1>2, <2>2
      <4> QED BY <1>6, <4>1
    <3> QED BY <1>3, <2>2, <3>1 DEF FedRule
  <2> QED BY <2>1, <2>2
<1>8. FedSolution(f, L)
  BY <1>6, <1>7 DEF StepsFrom, FedSolution
<1> QED BY <1>1, <1>8

\* Nodes as the first i rows of accounts that no scan has found make them.
FedFit(g, i) ==
    /\ Grown(g)
    /\ \A j \in 1..i : j \in FedLines => lines[j].account \in DOMAIN g

LEMMA FedFitStep ==
    ASSUME RollupInv, NEW i \in DOMAIN lines, NEW nodes, FedFit(nodes, i - 1),
           NEW g, g = (IF i \in FedLines THEN WithAccount(nodes, i) ELSE nodes)
    PROVE  FedFit(g, i)
<1>1. i \in Nat /\ i >= 1
  BY LineIs
<1>2. CASE i \notin FedLines
  <2>1. \A j \in 1..i : j \in FedLines => j \in 1..(i - 1)
    BY <1>1, <1>2
  <2> QED BY <1>2, <2>1 DEF FedFit
<1>3. CASE i \in FedLines
  <2>1. /\ Grown(g) /\ DOMAIN nodes \subseteq DOMAIN g
        /\ i = Min(Own(i)) => lines[i].account \in DOMAIN g
    <3>1. Grown(nodes) /\ g = WithAccount(nodes, i)
      BY <1>3 DEF FedFit
    <3> QED BY <1>3, <3>1, WithAccountGrows
  <2>2. lines[i].account \in DOMAIN g
    <3>1. CASE i = Min(Own(i))
      BY <2>1, <3>1
    <3>2. CASE i # Min(Own(i))
      <4>1. PICK j : j = Min(Own(i))
        OBVIOUS
      <4>2. j \in Own(i) /\ j <= i /\ j \in Nat /\ Own(i) \in SUBSET Nat
        BY <1>3, <4>1, OwnRows
      <4>3. j \in FedLines /\ lines[j].account = lines[i].account /\ j \in DOMAIN lines
        BY <4>2 DEF Own, FedLines
      <4>4. j \in 1..(i - 1)
        <5>1. j >= 1
          BY <4>3, LineIs
        <5> QED BY <1>1, <3>2, <4>1, <4>2, <5>1
      <4>5. lines[j].account \in DOMAIN nodes
        BY <4>3, <4>4 DEF FedFit
      <4> QED BY <2>1, <4>3, <4>5
    <3> QED BY <3>1, <3>2
  <2>3. ASSUME NEW j \in 1..i, j \in FedLines PROVE lines[j].account \in DOMAIN g
    <3>1. j = i \/ j \in 1..(i - 1)
      BY <1>1
    <3> QED BY <2>1, <2>2, <2>3, <3>1 DEF FedFit
  <2> QED BY <2>1, <2>3 DEF FedFit
<1> QED BY <1>2, <1>3

LEMMA FedFits ==
    ASSUME RollupInv
    PROVE  FedFit(FedNodes, Len(lines))
<1>1. PICK L : L = Len(lines)
  OBVIOUS
<1>2. L \in Nat /\ DOMAIN lines = 1..L
  BY <1>1, LineIs
<1>3. PICK f : f = CHOOSE g : FedSolution(g, L)
  OBVIOUS
<1>4. FedSolution(f, L)
  BY <1>1, <1>3, FedSolvable, Zenon
<1>5. \A i \in 0..L : f[i] = FedRule(f, i)
  BY <1>4, Zenon DEF FedSolution
<1> DEFINE T == {m \in 0..L : ~FedFit(f[m], m)}
<1>6. T = {}
  <2> SUFFICES ASSUME T # {} PROVE FALSE
    OBVIOUS
  <2>1. PICK m \in T : \A j \in T : m <= j
    <3> T \in SUBSET Nat OBVIOUS
    <3> HIDE DEF T
    <3> QED BY LeastNumber
  <2>2. m \in 0..L /\ ~FedFit(f[m], m)
    OBVIOUS
  <2>3. m # 0
    <3>1. f[0] = <<>>
      <4>1. 0 \in 0..L
        BY <1>2
      <4> QED BY <1>5, <4>1 DEF FedRule
    <3>2. FedFit(<<>>, 0)
      BY NoNodes DEF FedFit, Grown
    <3> QED BY <2>2, <3>1, <3>2
  <2>4. m - 1 \in 0..L /\ m \in 1..L
    BY <1>2, <2>2, <2>3
  <2>5. m - 1 \notin T
    <3>1. m \in Int
      BY <2>2
    <3> HIDE DEF T
    <3> QED BY <2>1, <3>1
  <2>6. FedFit(f[m - 1], m - 1)
    BY <2>4, <2>5
  <2>7. f[m] = (IF m \in FedLines THEN WithAccount(f[m - 1], m) ELSE f[m - 1])
    BY <1>5, <2>2, <2>3 DEF FedRule
  <2>8. FedFit(f[m], m)
    BY <1>2, <2>4, <2>6, <2>7, FedFitStep
  <2> QED BY <2>2, <2>8
<1>7. FedFit(f[L], L)
  <2>1. L \in 0..L
    BY <1>2
  <2> QED BY <1>6, <2>1
<1> QED BY <1>1, <1>3, <1>7, FedUnfold

LEMMA FedForest ==
    ASSUME RollupInv
    PROVE  /\ Forest(FedUp) /\ DOMAIN FedUp = seen \cup DOMAIN FedNodes
           /\ \A n \in DOMAIN FedNodes : n \notin seen /\ FedUp[n] = FedNodes[n].parent
           /\ \A n \in seen : FedUp[n] = IF link[n] \in seen \ {n} THEN link[n] ELSE Root
<1>1. PICK g : g = FedNodes
  OBVIOUS
<1>2. Grown(g)
  BY <1>1, FedFits DEF FedFit
<1>3. DOMAIN g \subseteq Account /\ seen \subseteq Account /\ DOMAIN g \cap seen = {}
  BY <1>2, NodeMapIs DEF Grown, RollupInv
<1>4. FedUp = [n \in seen \cup DOMAIN g |-> FedParent(n)]
  BY <1>1 DEF FedUp
<1>5. \A n \in DOMAIN g : FedParent(n) = g[n].parent
  BY <1>1, <1>3 DEF FedParent
<1>6. \A n \in seen : FedParent(n) = IF link[n] \in seen \ {n} THEN link[n] ELSE Root
  BY DEF FedParent
<1>7. \A n \in DOMAIN g : g[n].parent \in DOMAIN g \cup seen \cup {Root}
  BY <1>2 DEF Grown
<1>8. IsFiniteSet(seen \cup DOMAIN g) /\ Root \notin seen \cup DOMAIN g
  <2>1. seen \cup DOMAIN g \in SUBSET Account
    BY <1>3
  <2> QED BY <2>1, FS_Subset, RollupBounds
<1>9. DOMAIN FedUp = seen \cup DOMAIN g /\ FedUp = [n \in DOMAIN FedUp |-> FedUp[n]]
      /\ \A n \in seen \cup DOMAIN g : FedUp[n] = FedParent(n)
  BY <1>4
<1>10. \A n \in DOMAIN FedUp : FedUp[n] \in DOMAIN FedUp \cup {Root}
  BY <1>5, <1>6, <1>7, <1>9
<1> QED BY <1>1, <1>3, <1>5, <1>6, <1>8, <1>9, <1>10 DEF Forest, Nodes

\* Parents of imported accounts close no circle.
LEMMA FedReach ==
    ASSUME RollupInv, \A n \in seen : Reaches(FedUp, n)
    PROVE  \A n \in DOMAIN FedUp : Reaches(FedUp, n)
<1>1. PICK g : g = FedNodes
  OBVIOUS
<1>2. /\ Forest(FedUp) /\ DOMAIN FedUp = seen \cup DOMAIN g
      /\ \A n \in DOMAIN g : n \notin seen /\ FedUp[n] = g[n].parent
  BY <1>1, FedForest
<1>3. PICK U : U = {n \in DOMAIN FedUp : ~Reaches(FedUp, n)}
  OBVIOUS
<1>4. U \in SUBSET DOMAIN g
  BY <1>2, <1>3
<1>5. \A n \in U : FedUp[n] \in U
  BY <1>2, <1>3, CutOff
<1>6. \A n \in U : g[n].parent \in U
  BY <1>2, <1>4, <1>5
<1>7. Grown(g)
  BY <1>1, FedFits DEF FedFit
<1>8. U = {}
  BY <1>4, <1>6, <1>7 DEF Grown
<1> QED BY <1>3, <1>8

\* Rows of accounts that no scan has found.
LEMMA FedRows ==
    ASSUME RollupInv
    PROVE  \A i \in FedLines : i \in DOMAIN lines /\ lines[i].account \in DOMAIN FedNodes
<1> TAKE i \in FedLines
<1>1. i \in DOMAIN lines
  BY DEF FedLines
<1>2. i \in 1..Len(lines)
  BY <1>1, LineIs
<1> QED BY <1>1, <1>2, FedFits DEF FedFit

LEMMA FedCostIs ==
    ASSUME RollupInv, NEW n \in DOMAIN FedUp
    PROVE  /\ FedCost[n] = (IF n \in measured THEN Weight[n] ELSE 0)
                             + CostsOf(LineCost, {i \in FedLines : lines[i].account = n})
           /\ CostsOf(LineCost, {i \in FedLines : lines[i].account = n}) \in Int
           /\ n \in measured => Weight[n] \in Int
<1>1. PICK S : S = {i \in FedLines : lines[i].account = n}
  OBVIOUS
<1>2. S \in SUBSET DOMAIN lines
  BY <1>1 DEF FedLines
<1>3. IsFiniteSet(S) /\ \A i \in S : LineCost[i] \in Int
  BY <1>2, LineIs, FS_Subset
<1>4. CostsOf(LineCost, S) \in Int
  BY <1>3, CostsOfIs, SumType
<1>5. n \in measured => Weight[n] \in Int
  BY RollupBounds DEF RollupInv
<1>6. FedCost[n] = (IF n \in measured THEN Weight[n] ELSE 0) + CostsOf(LineCost, S)
  BY <1>1 DEF FedCost
<1> QED BY <1>1, <1>4, <1>5, <1>6

LEMMA FederationDoesAddUp ==
    ASSUME RollupInv
    PROVE  FederationAddsUp
<1> SUFFICES ASSUME \A n \in seen : Reaches(FedUp, n)
             PROVE  FederatedTotal =
                      CostsOf(Weight, measured \ FedReplaced)
                        + CostsOf(LineCost, {i \in DOMAIN lines : lines[i].account \notin seen \cup FedReplaced})
  BY DEF FederationAddsUp
<1>1. PICK D : D = DOMAIN FedUp
  OBVIOUS
<1>2. Forest(FedUp) /\ D = seen \cup DOMAIN FedNodes /\ \A n \in DOMAIN FedNodes : n \notin seen
  BY <1>1, FedForest
<1>3. \A n \in D : Reaches(FedUp, n)
  BY <1>1, FedReach
<1>4. PICK P : P = Counted(FedUp, FedGroups)
  OBVIOUS
<1>5. P = D \ FedReplaced
  BY <1>1, <1>3, <1>4 DEF Counted, FedReplaced
<1>6. IsFiniteSet(P)
  <2>1. P \in SUBSET D
    BY <1>5
  <2> QED BY <1>1, <1>2, <2>1, FS_Subset DEF Forest
<1>7. PICK w, c : /\ w = [n \in P |-> IF n \in measured THEN Weight[n] ELSE 0]
                  /\ c = [n \in P |-> CostsOf(LineCost, {i \in FedLines : lines[i].account = n})]
  OBVIOUS
<1>8. \A n \in P : /\ FedCost[n] = w[n] + c[n] /\ w[n] \in Int /\ c[n] \in Int
                   /\ w[n] = (IF n \in measured THEN Weight[n] ELSE 0)
  BY <1>1, <1>5, <1>7, FedCostIs
<1>9. FederatedTotal = SumOver(w, P) + SumOver(c, P)
  <2>1. ASSUME NEW n \in D PROVE FedCost[n] \in Int
    <3>1. PICK r : r = CostsOf(LineCost, {i \in FedLines : lines[i].account = n})
      OBVIOUS
    <3>2. r \in Int /\ FedCost[n] = (IF n \in measured THEN Weight[n] ELSE 0) + r
          /\ (n \in measured => Weight[n] \in Int)
      BY <1>1, <3>1, FedCostIs
    <3> QED BY <3>2
  <2>2. FederatedTotal = SumOver(FedCost, P)
    BY <1>1, <1>2, <1>4, <2>1, RolledCounts DEF FederatedTotal
  <2>3. SumOver(FedCost, P) = SumOver(w, P) + SumOver(c, P)
    BY <1>6, <1>8, SumPlus
  <2> QED BY <2>2, <2>3
<1>10. SumOver(w, P) = CostsOf(Weight, measured \ FedReplaced)
  <2>1. PICK M : M = measured \ FedReplaced
    OBVIOUS
  <2>2. M \in SUBSET P /\ \A n \in P : n \in M <=> n \in measured
    BY <1>2, <1>5, <2>1 DEF RollupInv
  <2>3. \A n \in P \ M : w[n] = 0
    BY <1>8, <2>2
  <2>4. SumOver(w, P) = SumOver(w, M)
    BY <1>6, <1>8, <2>2, <2>3, SumOfPart
  <2>5. IsFiniteSet(M) /\ \A n \in M : w[n] = Weight[n]
    BY <1>6, <1>8, <2>2, FS_Subset
  <2>6. SumOver(w, M) = SumOver(Weight, M)
    BY <2>5, SumAgree
  <2> QED BY <2>1, <2>4, <2>6, CostsOfIs
<1>11. SumOver(c, P) =
         CostsOf(LineCost, {i \in DOMAIN lines : lines[i].account \notin seen \cup FedReplaced})
  <2>1. PICK I : I = {i \in DOMAIN lines : lines[i].account \notin seen \cup FedReplaced}
    OBVIOUS
  <2>2. I \in SUBSET DOMAIN lines /\ \A i \in FedLines : i \in I <=> lines[i].account \notin FedReplaced
    BY <2>1 DEF FedLines
  <2>3. I \subseteq FedLines
    BY <2>1 DEF FedLines
  <2>4. \A i \in FedLines : lines[i].account \in D
    BY <1>2, FedRows
  <2>5. \A i \in I : lines[i].account \in P
    BY <1>5, <2>2, <2>3, <2>4
  <2>6. \A n \in P : c[n] = CostsOf(LineCost, {i \in I : lines[i].account = n})
    <3> TAKE n \in P
    <3>1. {i \in I : lines[i].account = n} = {i \in FedLines : lines[i].account = n}
      BY <1>5, <2>2, <2>3
    <3>2. c[n] = CostsOf(LineCost, {i \in FedLines : lines[i].account = n})
      BY <1>7
    <3> QED BY <3>1, <3>2
  <2>7. SumOver(c, P) = SumOver(LineCost, I)
    BY <1>6, <2>2, <2>5, <2>6, RowsOfNodes
  <2> QED BY <2>1, <2>7, CostsOfIs
<1> QED BY <1>9, <1>10, <1>11

LEMMA FederationDoesAgree ==
    ASSUME RollupInv
    PROVE  FederationAgrees
<1> SUFFICES ASSUME lines = <<>>, seen = DOMAIN latest
             PROVE  FederatedTotal = RolledUp
  BY DEF FederationAgrees
<1>1. DOMAIN FedNodes = {} /\ FedLines = {}
  <2>1. Len(lines) = 0 /\ FedLines = {}
    BY LineIs DEF FedLines
  <2>2. PICK f : f = CHOOSE g : FedSolution(g, 0)
    OBVIOUS
  <2>3. FedSolution(f, 0)
    BY <2>1, <2>2, FedSolvable, Zenon
  <2>4. f[0] = <<>>
    BY <2>3 DEF FedSolution, FedRule
  <2>5. FedNodes = f[0]
    BY <2>1, <2>2, FedUnfold
  <2> QED BY <2>1, <2>4, <2>5, NoNodes
<1>2. /\ Forest(Parent) /\ DOMAIN Parent = seen
      /\ \A n \in DOMAIN Parent : Weight[n] \in Int
  BY ParentForest
<1>3. /\ Forest(FedUp) /\ DOMAIN FedUp = seen
      /\ \A n \in seen : FedUp[n] = IF link[n] \in seen \ {n} THEN link[n] ELSE Root
  BY <1>1, FedForest
<1>4. FedUp = Parent
  <2>1. \A n \in seen : link[n] # n
    BY DEF RollupInv
  <2>2. \A n \in seen : Parent[n] = IF link[n] \in seen THEN link[n] ELSE Root
    BY DEF Parent
  <2>3. \A n \in seen : FedUp[n] = Parent[n]
    BY <1>3, <2>1, <2>2
  <2> QED BY <1>2, <1>3, <2>3 DEF Forest
<1>5. PICK P : P = Counted(Parent, grouping)
  OBVIOUS
<1>6. Counted(FedUp, FedGroups) = P
  <2>1. \A n \in seen : n \in FedGroups <=> n \in grouping
    BY <1>1 DEF FedGroups
  <2> QED BY <1>2, <1>4, <1>5, <2>1 DEF Counted
<1>7. \A n \in seen : FedCost[n] = Weight[n] /\ FedCost[n] \in Int
  <2> TAKE n \in seen
  <2>1. n \in measured /\ n \in DOMAIN FedUp
    BY <1>3 DEF RollupInv
  <2>2. {i \in FedLines : lines[i].account = n} = {}
    BY <1>1
  <2>3. CostsOf(LineCost, {}) = 0
    BY CostsOfIs, SumEmpty
  <2>4. FedCost[n] = Weight[n] + 0 /\ Weight[n] \in Int
    BY <2>1, <2>2, <2>3, FedCostIs
  <2> QED BY <2>4
<1>8. IsFiniteSet(P) /\ P \subseteq seen
  <2>1. P \in SUBSET seen
    BY <1>2, <1>5 DEF Counted
  <2> QED BY <1>2, <2>1, FS_Subset DEF Forest
<1>9. RolledUp = SumOver(Weight, P)
  BY <1>2, <1>5, RolledCounts DEF RolledUp
<1>10. FederatedTotal = SumOver(FedCost, P)
  BY <1>3, <1>6, <1>7, RolledCounts DEF FederatedTotal
<1>11. SumOver(FedCost, P) = SumOver(Weight, P)
  BY <1>7, <1>8, SumAgree
<1> QED BY <1>9, <1>10, <1>11

-----------------------------------------------------------------------------
\* Whatever the scans report and the files import, along the hierarchy no cost
\* and no budget is counted twice or lost, but for links that close a circle:
\* roll-ups (_materialize_rollup_items, _apply_rollup_budget_metrics), imported
\* files, federated costs and scan differences (get_scan_diff) add up.
THEOREM HierarchyAddsUpHolds == RollupSpec => []HierarchyAddsUp
<1>1. RollupInit => RollupInv
  BY RollupsInit
<1>2. RollupInv /\ [RollupNext]_rollupVars => RollupInv'
  BY RollupsStep
<1>3. RollupInv => HierarchyAddsUp
  BY NothingIsHidden, ImportDoesAddUp, BudgetIsGivenOnce, FederationDoesAddUp,
     FederationDoesAgree, DiffsDoTelescope DEF HierarchyAddsUp
<1> QED BY <1>1, <1>2, <1>3, PTL DEF RollupSpec
=============================================================================
