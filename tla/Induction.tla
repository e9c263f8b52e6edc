------------------------------ MODULE Induction ------------------------------
(***************************************************************************)
(* Induction over numbers and recursion along them, as the other proofs    *)
(* use them: for sets of numbers and for functions, not for operators.     *)
(***************************************************************************)
EXTENDS Integers, WellFoundedInduction, NaturalsInduction, TLAPS

\* A set of natural numbers that is not empty has a least one.
LEMMA LeastOf ==
    ASSUME NEW T, T \subseteq Nat, T # {}
    PROVE  \E x \in T : \A y \in T : x <= y
<1> DEFINE R == {ss \in Nat \X Nat : ss[1] < ss[2]}
<1>1. R = OpToRel(<, Nat)
  BY Zenon DEF OpToRel
<1>2. IsWellFoundedOn(R, Nat)
  BY <1>1, NatLessThanWellFounded, Zenon
<1> HIDE DEF R
<1>3. PICK x \in T : \A y \in T : ~(<<y, x>> \in R)
  BY <1>2, WFMin
<1>4. \A y \in T : ~(y < x)
  BY <1>3 DEF R
<1> QED
  BY <1>4

\* Induction up to n, over a set of numbers.
LEMMA UpTo ==
    ASSUME NEW n \in Nat, NEW P, 0 \in P, \A i \in 1 .. n : i - 1 \in P => i \in P
    PROVE  \A i \in 0 .. n : i \in P
<1> DEFINE T == {i \in 0 .. n : i \notin P}
<1> SUFFICES ASSUME T # {} PROVE FALSE
  OBVIOUS
<1>0. T \subseteq Nat
  OBVIOUS
<1>1. PICK x \in T : \A y \in T : x <= y
  <2> HIDE DEF T
  <2> QED
    BY <1>0, LeastOf
<1>2. x # 0 /\ x \in 1 .. n
  BY <1>1
<1>3. x - 1 \notin T
  BY <1>1, <1>2
<1> QED
  BY <1>1, <1>2, <1>3

\* The recursion that starts with m and takes the steps of g has a solution in S.
Solvable(n, S, m, g) ==
    \E f \in [0 .. n -> S] : f[0] = m /\ \A i \in 1 .. n : f[i] = g[i][f[i - 1]]

\* It has one if the steps stay in S.
LEMMA Recursion ==
    ASSUME NEW n \in Nat, NEW S, NEW m \in S, NEW g \in [1 .. n -> [S -> S]]
    PROVE  Solvable(n, S, m, g)
<1> DEFINE Solves(f, k) == f[0] = m /\ \A i \in 1 .. k : f[i] = g[i][f[i - 1]]
           P == {k \in 0 .. n : \E f \in [0 .. n -> S] : Solves(f, k)}
<1>1. 0 \in P
  <2> DEFINE z == [i \in 0 .. n |-> m]
  <2>1. z \in [0 .. n -> S] /\ z[0] = m
    OBVIOUS
  <2> HIDE DEF z
  <2> QED
    BY <2>1
<1>2. ASSUME NEW k \in 1 .. n, k - 1 \in P PROVE k \in P
  <2>1. PICK f \in [0 .. n -> S] : Solves(f, k - 1)
    BY <1>2
  <2> DEFINE h == [f EXCEPT ![k] = g[k][f[k - 1]]]
  <2>2. g[k][f[k - 1]] \in S
    OBVIOUS
  <2>3. h \in [0 .. n -> S] /\ h[k] = g[k][f[k - 1]]
    BY <2>2
  <2>4. h[0] = m
    BY <2>1
  <2>5. ASSUME NEW i \in 1 .. k PROVE h[i] = g[i][h[i - 1]]
    <3>1. h[i - 1] = f[i - 1]
      OBVIOUS
    <3>2. CASE i = k
      BY <2>3, <3>1, <3>2, Zenon
    <3>3. CASE i # k
      <4>1. i \in 1 .. k - 1 /\ h[i] = f[i]
        BY <3>3
      <4> QED
        BY <2>1, <3>1, <4>1
    <3> QED
      BY <3>2, <3>3
  <2> HIDE DEF h
  <2>6. Solves(h, k)
    BY <2>4, <2>5
  <2> QED
    BY <2>3, <2>6
<1> HIDE DEF P, Solves
<1>3. \A k \in 0 .. n : k \in P
  BY <1>1, <1>2, UpTo
<1>4. \E f \in [0 .. n -> S] : Solves(f, n)
  BY <1>3 DEF P
<1> QED
  BY <1>4 DEF Solves, Solvable

\* And every solution stays in S.
LEMMA StaysIn ==
    ASSUME NEW n \in Nat, NEW S, NEW f, f[0] \in S, \A i \in 1 .. n : f[i - 1] \in S => f[i] \in S
    PROVE  \A i \in 0 .. n : f[i] \in S
<1> DEFINE P == {i \in 0 .. n : f[i] \in S}
<1>1. 0 \in P
  OBVIOUS
<1>2. \A i \in 1 .. n : i - 1 \in P => i \in P
  OBVIOUS
<1> HIDE DEF P
<1>3. \A i \in 0 .. n : i \in P
  BY <1>1, <1>2, UpTo
<1> QED
  BY <1>3 DEF P

\* A recursion in which i refers to h[i], of smaller measure, has a solution.
HasSolution(D, S, R, h, g, b) ==
    \E f \in [D -> S] : \A i \in D : f[i] = IF i \in R THEN g[i][f[h[i]]] ELSE b[i]

\* It has one if the measures are bounded and the steps stay in S.
LEMMA Descent ==
    ASSUME NEW n \in Nat, NEW D, NEW S, NEW mu \in [D -> 0 .. n], NEW R, R \subseteq D,
           NEW h \in [R -> D], \A i \in R : mu[h[i]] < mu[i],
           NEW g \in [R -> [S -> S]], NEW b \in [D -> S]
    PROVE  HasSolution(D, S, R, h, g, b)
<1> DEFINE Solves(f, k) == \A i \in D : mu[i] <= k => f[i] = IF i \in R THEN g[i][f[h[i]]] ELSE b[i]
           P == {k \in 0 .. n : \E f \in [D -> S] : Solves(f, k)}
<1>1. 0 \in P
  <2>1. \A i \in D : mu[i] <= 0 => i \notin R
    OBVIOUS
  <2>2. Solves(b, 0)
    BY <2>1
  <2> QED
    BY <2>2
<1>2. ASSUME NEW k \in 1 .. n, k - 1 \in P PROVE k \in P
  <2>1. PICK f \in [D -> S] : Solves(f, k - 1)
    BY <1>2
  <2> DEFINE new == [i \in D |-> IF mu[i] = k THEN (IF i \in R THEN g[i][f[h[i]]] ELSE b[i]) ELSE f[i]]
  <2>2. new \in [D -> S]
    <3>1. \A i \in R : g[i][f[h[i]]] \in S
      OBVIOUS
    <3> QED
      BY <3>1
  <2>3. \A i \in D : mu[i] # k => new[i] = f[i]
    OBVIOUS
  <2>4. \A i \in D : mu[i] = k => new[i] = IF i \in R THEN g[i][f[h[i]]] ELSE b[i]
    OBVIOUS
  <2> HIDE DEF new
  <2>5. \A i \in R : mu[i] <= k => new[h[i]] = f[h[i]]
    BY <2>3
  <2>6. ASSUME NEW i \in D, mu[i] <= k PROVE new[i] = IF i \in R THEN g[i][new[h[i]]] ELSE b[i]
    <3>1. CASE mu[i] = k
      BY <2>4, <2>5, <3>1
    <3>2. CASE mu[i] # k
      <4>1. mu[i] <= k - 1
        BY <2>6, <3>2
      <4>2. f[i] = IF i \in R THEN g[i][f[h[i]]] ELSE b[i]
        BY <2>1, <4>1
      <4> QED
        BY <2>3, <2>5, <2>6, <3>2, <4>2
    <3> QED
      BY <3>1, <3>2
  <2>7. Solves(new, k)
    BY <2>6
  <2> QED
    BY <2>2, <2>7
<1> HIDE DEF P, Solves
<1>3. \A k \in 0 .. n : k \in P
  BY <1>1, <1>2, UpTo
<1>4. PICK f \in [D -> S] : Solves(f, n)
  BY <1>3 DEF P
<1>5. \A i \in D : f[i] = IF i \in R THEN g[i][f[h[i]]] ELSE b[i]
  BY <1>4 DEF Solves
<1> QED
  BY <1>5 DEF HasSolution

\* Induction up to n, each number from all before it.
LEMMA FromBelow ==
    ASSUME NEW n \in Nat, NEW P, \A i \in 0 .. n : (\A j \in 0 .. i - 1 : j \in P) => i \in P
    PROVE  \A i \in 0 .. n : i \in P
<1> DEFINE T == {i \in 0 .. n : i \notin P}
<1> SUFFICES ASSUME T # {} PROVE FALSE
  OBVIOUS
<1>0. T \subseteq Nat
  OBVIOUS
<1>1. PICK x \in T : \A y \in T : x <= y
  <2> HIDE DEF T
  <2> QED
    BY <1>0, LeastOf
<1>2. \A j \in 0 .. x - 1 : j \in P
  BY <1>1
<1> QED
  BY <1>1, <1>2
=============================================================================
