--------------------------- MODULE NumberInduction ---------------------------
(***************************************************************************)
(* Induction over the natural numbers, stated of a set of numbers and not  *)
(* of a predicate.                                                         *)
(***************************************************************************)
EXTENDS Integers, WellFoundedInduction, TLAPS

\* The pairs of numbers of which the first is smaller.
Smaller == {pair \in Nat \X Nat : pair[1] < pair[2]}

\* Every set of numbers has a least one.
LEMMA LeastNumber ==
  ASSUME NEW A, A \subseteq Nat, A # {}
  PROVE  \E m \in A : \A k \in A : m <= k
<1>1. IsWellFoundedOn(Smaller, Nat)
  BY NatLessThanWellFounded DEF Smaller, OpToRel
<1>2. PICK m \in A : \A k \in A : <<k, m>> \notin Smaller
  BY <1>1, WFMin
<1>3. \A k \in A : ~ (k < m)
  BY <1>2 DEF Smaller
<1> QED
  BY <1>3

\* A set that 0 is in, and with every number the next one, has all of them.
LEMMA SetInduction ==
  ASSUME NEW A, 0 \in A, \A n \in Nat : n \in A => n + 1 \in A
  PROVE  Nat \subseteq A
<1> SUFFICES ASSUME Nat \ A # {} PROVE FALSE
  OBVIOUS
<1>1. PICK m \in Nat \ A : \A k \in Nat \ A : m <= k
  BY LeastNumber
<1>2. m # 0 /\ m - 1 \in Nat /\ m - 1 \notin Nat \ A
  BY <1>1
<1> QED
  BY <1>2

\* f[d] is what d applications of g make of first, for d up to k.
Iterates(f, first, g, k) ==
  f = [d \in 0 .. k |-> IF d = 0 THEN first ELSE g[f[d - 1]]]

\* A function can be applied as often as one likes.
LEMMA IterationExists ==
  ASSUME NEW first, NEW g, NEW k \in Nat
  PROVE  \E f : Iterates(f, first, g, k)
<1> DEFINE A == {j \in Nat : \E f : Iterates(f, first, g, j)}
<1>1. 0 \in A
  <2>1. Iterates([d \in 0 .. 0 |-> first], first, g, 0)
    BY DEF Iterates
  <2> QED
    BY <2>1
<1>2. ASSUME NEW j \in Nat, j \in A
      PROVE  j + 1 \in A
  <2>1. PICK f : Iterates(f, first, g, j)
    BY <1>2
  <2> DEFINE next   == g[f[j]]
             longer == [d \in 0 .. (j + 1) |-> IF d = j + 1 THEN next ELSE f[d]]
             again  == [d \in 0 .. (j + 1) |->
                          IF d = 0 THEN first ELSE g[longer[d - 1]]]
  <2>2. \A d \in 0 .. j : f[d] = IF d = 0 THEN first ELSE g[f[d - 1]]
    BY <2>1 DEF Iterates
  <2>3. \A d \in 0 .. j : longer[d] = f[d]
    OBVIOUS
  <2>4. ASSUME NEW d \in 0 .. (j + 1)
        PROVE  longer[d] = again[d]
    <3>1. CASE d = 0
      BY <2>2, <3>1
    <3>2. CASE d # 0
      <4>1. d - 1 \in 0 .. j
        BY <3>2
      <4>2. again[d] = g[f[d - 1]]
        BY <2>3, <3>2, <4>1
      <4>3. CASE d = j + 1
        BY <4>2, <4>3
      <4>4. CASE d # j + 1
        BY <2>2, <3>2, <4>2, <4>4
      <4> QED
        BY <4>3, <4>4
    <3> QED
      BY <3>1, <3>2
  <2>5. longer = again
    BY <2>4
  <2>6. Iterates(longer, first, g, j + 1)
    BY <2>5 DEF Iterates
  <2> QED
    BY <2>6
<1>3. Nat \subseteq A
  BY <1>1, <1>2, SetInduction
<1> QED
  BY <1>3

=============================================================================
