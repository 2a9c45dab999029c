------------------------------- MODULE NatSets -------------------------------
(***************************************************************************)
(* Facts about natural numbers that several proofs need: the least member  *)
(* of a set, induction, and the running sums of a sequence.  Induction is  *)
(* stated for a set of numbers: a theorem about an operator could not be   *)
(* applied by the provers, one about a set can.                            *)
(***************************************************************************)
EXTENDS Integers, Sequences, FiniteSetTheorems, WellFoundedInduction, TLAPS

Below == {p \in Nat \X Nat : p[1] < p[2]}

LEMMA BelowWellFounded == IsWellFoundedOn(Below, Nat)
BY NatLessThanWellFounded DEF OpToRel, Below

\* Every set of numbers that is not empty has a least one.
LEMMA Smallest ==
  ASSUME NEW S \in SUBSET Nat, S # {}
  PROVE  \E m \in S : \A n \in S : m <= n
<1>1. PICK m \in S : \A n \in S : <<n, m>> \notin Below
  BY BelowWellFounded, WFMin
<1>2. ASSUME NEW n \in S PROVE m <= n
  <2>1. m \in Nat /\ n \in Nat /\ <<n, m>> \notin Below
    BY <1>1
  <2> QED BY <2>1 DEF Below
<1> QED BY <1>2

\* A set that holds 0, and n + 1 whenever it holds n, holds every number.
LEMMA SetInduction ==
  ASSUME NEW S, 0 \in S, \A n \in Nat : n \in S => n + 1 \in S
  PROVE  \A n \in Nat : n \in S
<1> SUFFICES ASSUME Nat \ S # {} PROVE FALSE
  OBVIOUS
<1>1. PICK m \in Nat \ S : \A n \in Nat \ S : m <= n
  <2> DEFINE T == Nat \ S
  <2>1. T \in SUBSET Nat /\ T # {}
    OBVIOUS
  <2> HIDE DEF T
  <2>2. \E m \in T : \A n \in T : m <= n
    BY <2>1, Smallest
  <2> QED BY <2>2 DEF T
<1>2. m # 0 /\ m - 1 \in Nat /\ m - 1 \in S
  BY <1>1
<1> QED BY <1>1, <1>2

\* The union of n finite sets is finite.
LEMMA FiniteUnion ==
  ASSUME NEW n \in Nat, NEW v, \A i \in 1 .. n : IsFiniteSet(v[i])
  PROVE  IsFiniteSet(UNION {v[i] : i \in 1 .. n})
<1> DEFINE U(k) == UNION {v[i] : i \in 1 .. k}
           S == {k \in Nat : k <= n => IsFiniteSet(U(k))}
<1>1. 0 \in S
  <2>1. U(0) = {}
    OBVIOUS
  <2> QED BY <2>1, FS_EmptySet
<1>2. ASSUME NEW k \in Nat, k \in S PROVE k + 1 \in S
  <2> SUFFICES ASSUME k + 1 <= n PROVE IsFiniteSet(U(k + 1))
    OBVIOUS
  <2>1. \A i : i \in 1 .. k + 1 <=> i \in 1 .. k \/ i = k + 1
    OBVIOUS
  <2>2. U(k + 1) = U(k) \cup v[k + 1]
    BY <2>1
  <2>3. IsFiniteSet(U(k)) /\ IsFiniteSet(v[k + 1])
    BY <1>2
  <2> HIDE DEF U
  <2> QED BY <2>2, <2>3, FS_Union, ZenonT(60)
<1> HIDE DEF S
<1>3. n \in S
  BY <1>1, <1>2, SetInduction
<1> QED BY <1>3 DEF S
-----------------------------------------------------------------------------
(* Running sums.                                                           *)

\* g[n] is the sum of the first n values.
IsSum(g, v, n) ==
  /\ g \in [0 .. n -> Nat] /\ g[0] = 0
  /\ \A i \in 1 .. n : g[i] = g[i - 1] + v[i]

LEMMA SumExists ==
  ASSUME NEW n \in Nat, NEW v, \A i \in 1 .. n : v[i] \in Nat
  PROVE  \E g : IsSum(g, v, n)
<1> DEFINE S == {k \in Nat : k <= n => \E g : IsSum(g, v, k)}
<1>1. 0 \in S
  <2>1. IsSum([i \in 0 .. 0 |-> 0], v, 0)
    BY DEF IsSum
  <2> QED BY <2>1
<1>2. ASSUME NEW k \in Nat, k \in S PROVE k + 1 \in S
  <2> SUFFICES ASSUME k + 1 <= n PROVE \E g : IsSum(g, v, k + 1)
    OBVIOUS
  <2>1. PICK g : IsSum(g, v, k)
    BY <1>2
  <2> DEFINE h == [i \in 0 .. k + 1 |-> IF i = k + 1 THEN g[k] + v[k + 1] ELSE g[i]]
  <2>2. v[k + 1] \in Nat /\ g[k] \in Nat
    BY <2>1 DEF IsSum
  <2>3. h \in [0 .. k + 1 -> Nat] /\ h[0] = 0
    BY <2>1, <2>2 DEF IsSum
  <2>4. ASSUME NEW i \in 1 .. k + 1 PROVE h[i] = h[i - 1] + v[i]
    <3>1. CASE i = k + 1
      BY <3>1
    <3>2. CASE i \in 1 .. k
      BY <2>1, <3>2 DEF IsSum
    <3> QED BY <3>1, <3>2
  <2> HIDE DEF h
  <2>5. IsSum(h, v, k + 1)
    BY <2>3, <2>4 DEF IsSum
  <2> QED BY <2>5
<1> HIDE DEF S
<1>3. n \in S
  BY <1>1, <1>2, SetInduction
<1> QED BY <1>3 DEF S

\* Sums of the same values are the same.
LEMMA SumsAgree ==
  ASSUME NEW n \in Nat, NEW m \in Nat, NEW v, NEW w, NEW g, NEW h, IsSum(g, v, n), IsSum(h, w, m),
         n <= m, \A i \in 1 .. n : v[i] = w[i]
  PROVE  \A i \in 0 .. n : g[i] = h[i]
<1> DEFINE S == {k \in Nat : k <= n => g[k] = h[k]}
<1>1. 0 \in S
  BY DEF IsSum
<1>2. ASSUME NEW k \in Nat, k \in S PROVE k + 1 \in S
  <2> SUFFICES ASSUME k + 1 <= n PROVE g[k + 1] = h[k + 1]
    OBVIOUS
  <2>1. k + 1 \in 1 .. n /\ k + 1 \in 1 .. m /\ (k + 1) - 1 = k /\ g[k] = h[k]
    BY <1>2
  <2>2. g[k + 1] = g[k] + v[k + 1] /\ h[k + 1] = h[k] + w[k + 1]
    BY <2>1 DEF IsSum
  <2> QED BY <2>1, <2>2
<1> HIDE DEF S
<1>3. \A k \in Nat : k \in S
  BY <1>1, <1>2, SetInduction
<1> QED BY <1>3 DEF S
=============================================================================
