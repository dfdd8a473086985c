----------------------------- MODULE NumberLemmas -----------------------------
(***************************************************************************)
(* Facts about sets of numbers that the proofs need: least and greatest    *)
(* elements, and induction and recursion along a function that takes every *)
(* number below n to a smaller one, its parent, or to None.                *)
(***************************************************************************)
EXTENDS Integers, WellFoundedInduction, TLAPS

\* A set of numbers that has an element has a least one.
LEMMA LeastNumber ==
    ASSUME NEW S \in SUBSET Nat, S # {}
    PROVE  \E x \in S : \A y \in S : x <= y
<1>1. PICK x \in S : \A y \in S : <<y, x>> \notin OpToRel(<, Nat)
  BY NatLessThanWellFounded, WFMin
<1>2. \A y \in S : ~(y < x)
  BY <1>1 DEF OpToRel
<1>3. QED
  BY <1>2

\* A set of numbers that has an element and a bound has a greatest one.
LEMMA GreatestNumber ==
    ASSUME NEW m \in Nat, NEW S \in SUBSET (0..m), S # {}
    PROVE  \E x \in S : \A y \in S : y <= x
<1> DEFINE Bounds == {n \in Nat : \A y \in S : y <= n}
<1>1. m \in Bounds
  OBVIOUS
<1>2. PICK x \in Bounds : \A n \in Bounds : x <= n
  BY <1>1, LeastNumber
<1>3. x \in S
  <2> SUFFICES ASSUME x \notin S
               PROVE  FALSE
    OBVIOUS
  <2>1. PICK y \in S : y <= x
    BY <1>2
  <2>2. x - 1 \in Nat /\ \A z \in S : z <= x - 1
    BY <1>2, <2>1
  <2>3. QED
    BY <1>2, <2>2
<1>4. QED
  BY <1>2, <1>3

\* The ids are the numbers below some n, and a parent is the id of an earlier one, or None.
ParentsOf(Ids, parent, None) ==
    /\ \E n \in Nat : Ids = 0 .. n - 1
    /\ \A i \in Ids : parent[i] # None => parent[i] \in Ids /\ parent[i] < i

\* A value for the ids without a parent, and one for the others from that of the parent.
RecursionInto(V, Ids, base, step) == base \in [Ids -> V] /\ step \in [Ids \X V -> V]

\* Every number has a property that those without a parent have, and those whose parent has it.
LEMMA ParentInduction ==
    ASSUME NEW Ids, NEW parent, NEW None, ParentsOf(Ids, parent, None),
           NEW S,
           \A i \in Ids : (parent[i] # None => parent[i] \in S) => i \in S
    PROVE  \A i \in Ids : i \in S
<1> SUFFICES ASSUME NEW j \in Ids, j \notin S
             PROVE  FALSE
  OBVIOUS
<1> USE DEF ParentsOf
<1> DEFINE Rest == {i \in Ids : i \notin S}
<1>1. PICK i \in Rest : \A k \in Rest : i <= k
  <2>1. Rest \in SUBSET Nat /\ Rest # {}
    OBVIOUS
  <2>2. QED
    BY <2>1, LeastNumber
<1>2. parent[i] # None => parent[i] \in S
  BY <1>1
<1>3. QED
  BY <1>1, <1>2

\* A function can be defined by recursion on the parent.
LEMMA ParentRecursion ==
    ASSUME NEW Ids, NEW parent, NEW None, ParentsOf(Ids, parent, None),
           NEW V, NEW base, NEW step, RecursionInto(V, Ids, base, step)
    PROVE  \E f : f \in [Ids -> V] /\ \A i \in Ids :
              f[i] = IF parent[i] = None THEN base[i] ELSE step[<<i, f[parent[i]]>>]
<1> PICK n \in Nat : Ids = 0 .. n - 1
  BY DEF ParentsOf
<1> USE DEF ParentsOf, RecursionInto
<1> DEFINE Solves(f, m) == \A i \in 0 .. m - 1 :
              f[i] = IF parent[i] = None THEN base[i] ELSE step[<<i, f[parent[i]]>>]
           Solved(m) == \E f : f \in [0 .. m - 1 -> V] /\ Solves(f, m)
           Unsolved == {m \in 0 .. n : ~Solved(m)}
<1>1. Solved(0)
  <2>1. PICK f : f = [i \in 0 .. 0 - 1 |-> base[i]]
    OBVIOUS
  <2>2. f \in [0 .. 0 - 1 -> V]
    BY <2>1
  <2>3. Solves(f, 0)
    <3>1. \A i \in 0 .. 0 - 1 : FALSE
      OBVIOUS
    <3>2. QED
      BY <3>1
  <2>4. QED
    BY <2>2, <2>3
<1>2. ASSUME NEW m \in 0 .. n - 1, Solved(m)
      PROVE  Solved(m + 1)
  <2>1. PICK f \in [0 .. m - 1 -> V] : Solves(f, m)
    BY <1>2
  <2>2. \A i \in 0 .. m : parent[i] # None => parent[i] \in 0 .. m - 1 /\ parent[i] < i
    OBVIOUS
  <2>3. PICK v \in V : v = IF parent[m] = None THEN base[m] ELSE step[<<m, f[parent[m]]>>]
    <3>1. parent[m] # None => f[parent[m]] \in V
      BY <2>2
    <3>2. QED
      BY <3>1
  <2>4. PICK g : g = [i \in 0 .. m |-> IF i = m THEN v ELSE f[i]]
    OBVIOUS
  <2>5. g[m] = v /\ \A i \in 0 .. m - 1 : g[i] = f[i]
    BY <2>4
  <2>6. g \in [0 .. m -> V]
    <3>1. \A i \in 0 .. m : g[i] \in V
      <4>1. \A i \in 0 .. m : i = m \/ i \in 0 .. m - 1
        OBVIOUS
      <4>2. QED
        BY <2>5, <4>1
    <3>2. QED
      BY <2>4, <3>1
  <2>7. ASSUME NEW i \in 0 .. m
        PROVE  g[i] = IF parent[i] = None THEN base[i] ELSE step[<<i, g[parent[i]]>>]
    <3>1. parent[i] # None => g[parent[i]] = f[parent[i]]
      BY <2>2, <2>5
    <3>2. CASE i = m
      BY <2>3, <2>5, <3>1, <3>2
    <3>3. CASE i # m
      <4>1. i \in 0 .. m - 1
        BY <3>3
      <4>2. f[i] = IF parent[i] = None THEN base[i] ELSE step[<<i, f[parent[i]]>>]
        BY <2>1, <4>1
      <4>3. QED
        BY <2>5, <3>1, <4>1, <4>2
    <3>4. QED
      BY <3>2, <3>3
  <2>8. 0 .. (m + 1) - 1 = 0 .. m
    OBVIOUS
  <2>9. QED
    BY <2>6, <2>7, <2>8
<1> HIDE DEF Solved
<1>3. Solved(n)
  <2> SUFFICES ASSUME ~Solved(n)
               PROVE  FALSE
    OBVIOUS
  <2>1. PICK m \in Unsolved : \A k \in Unsolved : m <= k
    <3>1. Unsolved \in SUBSET Nat /\ Unsolved # {}
      OBVIOUS
    <3>2. QED
      BY <3>1, LeastNumber
  <2>2. m # 0
    BY <1>1, <2>1
  <2>3. m - 1 \in 0 .. n - 1 /\ (m - 1) + 1 = m /\ m - 1 \notin Unsolved
    BY <2>1, <2>2
  <2>4. Solved(m - 1)
    BY <2>3
  <2>5. Solved(m)
    BY <1>2, <2>3, <2>4
  <2>6. QED
    BY <2>1, <2>5
<1>4. QED
  BY <1>3 DEF Solved
=============================================================================
