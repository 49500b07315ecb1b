------------------------------ MODULE Induction ------------------------------
(***************************************************************************)
(* Induction over the natural numbers as a fact about sets, for the proofs  *)
(* that need it.  The induction theorems of the library take an operator;   *)
(* here what is shown of a number is membership in a set.  It follows from  *)
(* strict inclusion being well-founded on finite sets, for the numbers      *)
(* below n are a finite set that grows with n.                             *)
(***************************************************************************)
EXTENDS Integers, FiniteSetTheorems, TLAPS

\* A set of natural numbers has a least element, unless it is empty.
LEMMA LeastElement ==
  ASSUME NEW T \in SUBSET Nat, T # {}
  PROVE  \E m \in T : \A k \in T : m <= k
<1> DEFINE Below(n) == 0 .. n - 1
           R == StrictSubsetOrdering(Nat)
           U == {Below(n) : n \in T}
<1>1. \A n \in T : IsFiniteSet(Below(n)) /\ Below(n) \in SUBSET Nat
  BY FS_Interval
<1>2. U \subseteq FiniteSubsetsOf(Nat) /\ U # {}
  BY <1>1 DEF FiniteSubsetsOf
<1>3. IsWellFoundedOn(R, FiniteSubsetsOf(Nat))
  BY FS_StrictSubsetOrderingWellFounded
<1> HIDE DEF R, U
<1>4. PICK A \in U : \A B \in U : <<B, A>> \notin R
  BY <1>2, <1>3, WFMin
<1>5. PICK m \in T : A = Below(m)
  BY <1>4 DEF U
<1>6. ASSUME NEW k \in T, k < m PROVE FALSE
  <2>1. Below(k) \in U /\ <<Below(k), A>> \notin R
    BY <1>4 DEF U
  <2>2. Below(k) \subseteq Below(m) /\ k \in Below(m) \ Below(k)
    BY <1>6
  <2>3. <<Below(k), A>> \in R
    BY <1>5, <2>2 DEF R, StrictSubsetOrdering
  <2>4. QED
    BY <2>1, <2>3
<1>7. QED
  BY <1>6

\* A set with 0 in it, and with every number the next one, holds all of them.
LEMMA SetInduction ==
  ASSUME NEW T, 0 \in T, \A n \in Nat : n \in T => n + 1 \in T
  PROVE  Nat \subseteq T
<1> SUFFICES ASSUME Nat \ T # {} PROVE FALSE
  OBVIOUS
<1>1. PICK m \in Nat \ T : \A k \in Nat \ T : m <= k
  BY LeastElement
<1>2. m # 0 /\ m - 1 \in Nat /\ m - 1 \in T
  BY <1>1
<1>3. QED
  BY <1>1, <1>2

\* A function on the first numbers can be defined by what each step makes of the value
\* before.
GoesBy(f, next, start) ==
  \A i \in DOMAIN f : f[i] = next[i][IF i = 0 THEN start ELSE f[i - 1]]

LEMMA RecursionExists ==
  ASSUME NEW X, NEW start \in X, NEW next, \A n \in Nat : \A x \in X : next[n][x] \in X,
         NEW top \in Nat
  PROVE  \E f \in [0 .. top -> X] : GoesBy(f, next, start)
<1> DEFINE Upto(n, f) == /\ f \in [0 .. n -> X]
                         /\ \A i \in 0 .. n : f[i] = next[i][IF i = 0 THEN start ELSE f[i - 1]]
           T == {n \in Nat : \E f : Upto(n, f)}
<1>0. \A n \in Nat : n \in T <=> \E f : Upto(n, f)
  OBVIOUS
<1> HIDE DEF T
<1>1. 0 \in T
  <2> DEFINE f == [i \in 0 .. 0 |-> next[0][start]]
  <2>1. f \in [0 .. 0 -> X] /\ f[0] = next[0][start]
    OBVIOUS
  <2> HIDE DEF f
  <2>2. Upto(0, f)
    BY <2>1
  <2> HIDE DEF Upto
  <2>3. QED
    BY <1>0, <2>2
<1>2. ASSUME NEW n \in Nat, n \in T PROVE n + 1 \in T
  <2> HIDE DEF Upto
  <2>1. PICK f : Upto(n, f)
    BY <1>0, <1>2
  <2> USE DEF Upto
  <2> DEFINE g == [i \in 0 .. n + 1 |-> IF i <= n THEN f[i] ELSE next[n + 1][f[n]]]
  <2>2. f \in [0 .. n -> X] /\ next[n + 1][f[n]] \in X
    BY <2>1
  <2>3. g \in [0 .. n + 1 -> X]
    BY <2>2
  <2>4. \A i \in 0 .. n : g[i] = f[i] /\ g[n + 1] = next[n + 1][f[n]]
    OBVIOUS
  <2> HIDE DEF g
  <2>5. ASSUME NEW i \in 0 .. n + 1
        PROVE  g[i] = next[i][IF i = 0 THEN start ELSE g[i - 1]]
    <3>1. CASE i = 0
      BY <2>1, <2>4, <3>1
    <3>2. CASE i \in 1 .. n
      <4>1. i \in 0 .. n /\ i - 1 \in 0 .. n /\ i # 0
        BY <3>2
      <4>2. QED
        BY <2>1, <2>4, <4>1
    <3>3. CASE i = n + 1
      <4>1. i # 0 /\ i - 1 = n /\ n \in 0 .. n
        BY <3>3
      <4>2. QED
        BY <2>4, <3>3, <4>1
    <3>4. QED
      BY <3>1, <3>2, <3>3
  <2>6. Upto(n + 1, g)
    BY <2>3, <2>5
  <2> HIDE DEF Upto
  <2>7. QED
    BY <1>0, <2>6
<1>3. top \in T
  BY <1>1, <1>2, SetInduction
<1>4. PICK f : Upto(top, f)
  BY <1>0, <1>3, Zenon
<1>5. QED
  BY <1>4 DEF GoesBy
=============================================================================
