-------------------------------- MODULE Loops --------------------------------
(***************************************************************************)
(* What a loop computes.  The models write a loop as a recursive function   *)
(* on the number of rounds done; that such a function is what its equation    *)
(* says takes an induction, made here once for every loop.                     *)
(***************************************************************************)
EXTENDS Integers, WellFoundedInduction, TLAPS

CONSTANTS
    Start(_),       \* the state before the first round, of the loop's parameters
    Round(_, _, _)  \* what round i makes of a state

Computes(p, n, g) ==
    g = [i \in 0 .. n |-> IF i = 0 THEN Start(p) ELSE Round(p, g[i - 1], i)]

----------------------------------------------------------------------------
LessPairs == {p \in Nat \X Nat : p[1] < p[2]}

LEMMA LessPairsWellFounded == IsWellFoundedOn(LessPairs, Nat)
  <1>1. LessPairs = OpToRel(<, Nat)
    BY Zenon DEF LessPairs, OpToRel
  <1> QED
    BY <1>1, NatLessThanWellFounded, Zenon

LEMMA LeastNumber ==
    ASSUME NEW T, T \subseteq Nat, T # {}
    PROVE  \E x \in T : \A y \in T : x <= y
  <1>1. PICK x \in T : \A y \in T : ~(<<y, x>> \in LessPairs)
    BY LessPairsWellFounded, WFMin
  <1>2. ASSUME NEW y \in T PROVE x <= y
    <2>1. <<y, x>> \in Nat \X Nat /\ ~(<<y, x>> \in LessPairs)
      BY <1>1
    <2>2. ~(y < x)
      BY <2>1 DEF LessPairs
    <2> QED
      BY <2>2
  <1> QED
    BY <1>2

\* Induction, as a fact about sets: the library's own takes an operator, which
\* no prover here can instantiate.
THEOREM Induction ==
    ASSUME NEW T, 0 \in T, \A n \in Nat : n \in T => n + 1 \in T
    PROVE  Nat \subseteq T
  <1> SUFFICES ASSUME Nat \ T # {} PROVE FALSE
    OBVIOUS
  <1>1. PICK x \in Nat \ T : \A y \in Nat \ T : x <= y
    BY LeastNumber
  <1>2. x # 0 /\ x - 1 \in Nat /\ x - 1 \in T
    BY <1>1
  <1> QED
    BY <1>1, <1>2

\* The recursive function of a loop exists, so that the one a model chooses
\* obeys its equation.
THEOREM LoopComputes ==
    ASSUME NEW p, NEW n \in Nat PROVE \E g : Computes(p, n, g)
  <1> DEFINE T == {m \in Nat : \E g : Computes(p, m, g)}
  <1>1. 0 \in T
    <2>1. Computes(p, 0, [i \in 0 .. 0 |-> Start(p)])
      BY DEF Computes
    <2> QED
      BY <2>1
  <1>2. ASSUME NEW m \in Nat, m \in T PROVE m + 1 \in T
    <2>1. PICK g : Computes(p, m, g)
      BY <1>2
    <2> DEFINE h == [i \in 0 .. m + 1 |-> IF i = m + 1 THEN Round(p, g[m], m + 1) ELSE g[i]]
    <2>2. \A i \in 0 .. m : h[i] = g[i]
      OBVIOUS
    <2>3. Computes(p, m + 1, h)
      BY <2>1, <2>2 DEF Computes
    <2> HIDE DEF h
    <2> QED
      BY <2>3
  <1> HIDE DEF T
  <1>3. n \in T
    BY <1>1, <1>2, Induction
  <1> QED
    BY <1>3 DEF T

\* There is one such function only.
THEOREM LoopIsUnique ==
    ASSUME NEW p, NEW n \in Nat, NEW g, NEW h, Computes(p, n, g), Computes(p, n, h)
    PROVE  g = h
  <1> DEFINE T == {m \in Nat : m <= n => g[m] = h[m]}
  <1>1. 0 \in T
    BY DEF Computes
  <1>2. ASSUME NEW m \in Nat, m \in T PROVE m + 1 \in T
    BY <1>2 DEF Computes
  <1> HIDE DEF T
  <1>3. Nat \subseteq T
    BY <1>1, <1>2, Induction
  <1>4. \A m \in 0 .. n : g[m] = h[m]
    BY <1>3 DEF T
  <1> QED
    BY <1>4 DEF Computes
=============================================================================
