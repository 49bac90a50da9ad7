------------------------------ MODULE Induction ------------------------------
(***************************************************************************)
(* Induction over the natural numbers, in a form the provers can use: the  *)
(* property of n is a set of numbers, not an operator.  And what folding   *)
(* over a sequence rests on: FoldExists gives the function that FoldLeft   *)
(* chooses, so that a proof can follow the fold from position to position. *)
(***************************************************************************)
EXTENDS Integers, SequencesExt, FiniteSetTheorems, WellFoundedInduction, TLAPS

(* A set of natural numbers has a least element: the intervals 0..n are     *)
(* finite sets, which the strict subset relation orders well-foundedly.     *)
LEMMA LeastElement ==
  ASSUME NEW S \in SUBSET Nat, S # {}
  PROVE  \E m \in S : \A n \in S : m <= n
<1> DEFINE T == {0..n : n \in S}
<1>1. T \subseteq FiniteSubsetsOf(Nat) /\ T # {}
  <2> SUFFICES ASSUME NEW n \in S PROVE 0..n \in FiniteSubsetsOf(Nat)
    OBVIOUS
  <2>1. IsFiniteSet(0..n)
    BY FS_Interval
  <2> QED
    BY <2>1 DEF FiniteSubsetsOf
<1>2. IsWellFoundedOn(StrictSubsetOrdering(Nat), FiniteSubsetsOf(Nat))
  BY FS_StrictSubsetOrderingWellFounded
<1>3. PICK x \in T : \A y \in T : ~(<<y, x>> \in StrictSubsetOrdering(Nat))
  <2> HIDE DEF T
  <2> QED
    BY <1>1, <1>2, WFMin
<1>4. PICK m \in S : x = 0..m
  OBVIOUS
<1>5. ASSUME NEW n \in S, n < m PROVE FALSE
  <2>1. 0..n \subseteq 0..m /\ m \in 0..m /\ m \notin 0..n
    BY <1>5
  <2>2. <<0..n, 0..m>> \in StrictSubsetOrdering(Nat)
    BY <2>1 DEF StrictSubsetOrdering
  <2> QED
    BY <1>3, <1>4, <2>2
<1> QED
  BY <1>5

(* A set with 0 and the successors of its numbers has them all.             *)
LEMMA SetInduction ==
  ASSUME NEW S, 0 \in S, \A n \in S \cap Nat : n + 1 \in S
  PROVE  Nat \subseteq S
<1> SUFFICES ASSUME Nat \ S # {} PROVE FALSE
  OBVIOUS
<1>1. PICK m \in Nat \ S : \A n \in Nat \ S : m <= n
  <2>1. (Nat \ S) \in SUBSET Nat
    OBVIOUS
  <2> QED
    BY <2>1, LeastElement
<1>2. m \in Nat /\ m # 0 /\ m - 1 \in Nat
  BY <1>1
<1>3. m - 1 \in S
  <2>1. ~(m <= m - 1)
    BY <1>2
  <2> QED
    BY <1>1, <1>2, <2>1
<1>4. (m - 1) + 1 = m /\ m \notin S
  BY <1>1, <1>2
<1>5. (m - 1) + 1 \in S
  BY <1>2, <1>3
<1> QED
  BY <1>4, <1>5

(***************************************************************************)
(* Folds over the positions 1..n of a sequence.                            *)
(***************************************************************************)

(* A non-empty set of positions has a greatest one: the least distance from *)
(* the end of the range.                                                    *)
LEMMA MaxOfRange ==
  ASSUME NEW n \in Nat, NEW s \in SUBSET (1..n), s # {}
  PROVE  Max(s) \in s /\ \A i \in s : i <= Max(s)
<1> DEFINE D == {d \in Nat : \E i \in s : d = n - i}
<1>1. D \in SUBSET Nat /\ D # {}
  <2>1. PICK i \in s : TRUE
    OBVIOUS
  <2>2. n - i \in D
    OBVIOUS
  <2> QED
    BY <2>2
<1>2. PICK d \in D : \A e \in D : d <= e
  <2> HIDE DEF D
  <2> QED
    BY <1>1, LeastElement
<1>3. PICK m \in s : d = n - m
  BY <1>2
<1>4. ASSUME NEW i \in s PROVE m >= i
  <2>1. n - i \in D
    OBVIOUS
  <2>2. d <= n - i
    BY <1>2, <2>1
  <2> QED
    BY <1>3, <2>2
<1>5. \E x \in s : \A y \in s : x >= y
  BY <1>4
<1>6. Max(s) \in s /\ \A y \in s : Max(s) >= y
  BY <1>5 DEF Max
<1> QED
  BY <1>6

(* The first i positions: the last of them is i.                            *)
LEMMA FirstPositions ==
  ASSUME NEW n \in Nat, NEW i \in 1..n
  PROVE  /\ (1..i) \in SUBSET (1..n) /\ (1..i) # {}
         /\ Max(1..i) = i
         /\ (1..i) \ {i} = 1..(i - 1)
<1>1. i \in Nat /\ 1 \in 1..i /\ i \in 1..i
  OBVIOUS
<1>2. (1..i) \in SUBSET (1..i) /\ (1..i) # {}
  BY <1>1
<1>3. Max(1..i) \in 1..i /\ \A j \in 1..i : j <= Max(1..i)
  BY <1>1, <1>2, MaxOfRange
<1>4. Max(1..i) = i
  BY <1>1, <1>3
<1> QED
  BY <1>1, <1>2, <1>4

(* f takes a set of positions to what the steps give that take its positions *)
(* one by one, from the least to the greatest, starting from base.          *)
IsFold(n, T, base, step, f) ==
  /\ f \in [SUBSET (1..n) -> T]
  /\ \A s \in SUBSET (1..n) :
       f[s] = IF s = {} THEN base ELSE step[<<f[s \ {Max(s)}], Max(s)>>]

(* A fold over positions is well defined: there is such a function.         *)
LEMMA FoldExists ==
  ASSUME NEW n \in Nat, NEW T, NEW base \in T, NEW step \in [T \X (1..n) -> T]
  PROVE  \E f : IsFold(n, T, base, step, f)
<1> DEFINE S == {k \in Nat : k <= n => \E f : IsFold(k, T, base, step, f)}
<1>1. 0 \in S
  <2>1. SUBSET (1..0) = {{}}
    OBVIOUS
  <2>2. IsFold(0, T, base, step, [s \in SUBSET (1..0) |-> base])
    BY <2>1 DEF IsFold
  <2> QED
    BY <2>2
<1>2. ASSUME NEW k \in S \cap Nat PROVE k + 1 \in S
  <2> SUFFICES ASSUME k + 1 <= n PROVE \E f : IsFold(k + 1, T, base, step, f)
    BY <1>2
  <2>0. k \in Nat /\ k <= n
    BY <1>2
  <2>1. PICK f : IsFold(k, T, base, step, f)
    BY <1>2, <2>0
  <2> DEFINE g == [s \in SUBSET (1..(k + 1)) |->
                     IF k + 1 \in s THEN step[<<f[s \ {k + 1}], k + 1>>] ELSE f[s]]
  <2>2. ASSUME NEW s \in SUBSET (1..(k + 1)), k + 1 \in s
        PROVE  /\ s \ {k + 1} \in SUBSET (1..k) /\ s # {}
               /\ Max(s) = k + 1
    <3>1. k + 1 \in Nat /\ s # {}
      BY <2>2
    <3>2. Max(s) \in s /\ \A i \in s : i <= Max(s)
      BY <3>1, MaxOfRange
    <3>3. Max(s) \in 1..(k + 1) /\ k + 1 <= Max(s)
      BY <2>2, <3>2
    <3>4. Max(s) = k + 1
      BY <3>3
    <3>5. s \ {k + 1} \in SUBSET (1..k)
      OBVIOUS
    <3> QED
      BY <3>1, <3>4, <3>5
  <2>3. ASSUME NEW s \in SUBSET (1..(k + 1)), k + 1 \notin s
        PROVE  /\ s \in SUBSET (1..k)
               /\ s # {} => Max(s) \in s
    <3>1. s \in SUBSET (1..k)
      BY <2>3
    <3> QED
      BY <3>1, MaxOfRange
  <2>4. g \in [SUBSET (1..(k + 1)) -> T]
    <3> SUFFICES ASSUME NEW s \in SUBSET (1..(k + 1)) PROVE g[s] \in T
      OBVIOUS
    <3>1. CASE k + 1 \in s
      <4>1. f[s \ {k + 1}] \in T /\ k + 1 \in 1..n
        BY <2>0, <2>1, <2>2, <3>1 DEF IsFold
      <4>2. <<f[s \ {k + 1}], k + 1>> \in T \X (1..n)
        BY <4>1
      <4> QED
        BY <3>1, <4>2
    <3>2. CASE k + 1 \notin s
      BY <2>1, <2>3, <3>2 DEF IsFold
    <3> QED
      BY <3>1, <3>2
  <2>5. ASSUME NEW s \in SUBSET (1..(k + 1))
        PROVE  g[s] = IF s = {} THEN base ELSE step[<<g[s \ {Max(s)}], Max(s)>>]
    <3>1. CASE k + 1 \in s
      <4>1. s \ {k + 1} \in SUBSET (1..(k + 1)) /\ k + 1 \notin s \ {k + 1}
        OBVIOUS
      <4>2. g[s \ {k + 1}] = f[s \ {k + 1}]
        BY <4>1
      <4> QED
        BY <2>2, <3>1, <4>2
    <3>2. CASE k + 1 \notin s
      <4>1. g[s] = f[s] /\ s \in SUBSET (1..k)
        BY <2>3, <3>2
      <4>2. g[s \ {Max(s)}] = f[s \ {Max(s)}]
        BY <3>2
      <4> HIDE DEF g
      <4> QED
        BY <2>1, <4>1, <4>2 DEF IsFold
    <3> QED
      BY <3>1, <3>2
  <2> QED
    <3> HIDE DEF g
    <3>1. IsFold(k + 1, T, base, step, g)
      BY <2>4, <2>5 DEF IsFold
    <3> QED
      BY <3>1
<1>3. n \in S
  <2> HIDE DEF S
  <2> QED
    BY <1>1, <1>2, SetInduction
<1>4. \E f : IsFold(n, T, base, step, f)
  BY <1>3
<1> QED
  BY <1>4

(* A function is given by its value at 0 and by how each value follows from *)
(* the one before: so are the recursive functions of the models.            *)
IsIteration(n, T, base, step, f) ==
  /\ f \in [0..n -> T]
  /\ f[0] = base
  /\ \A i \in 1..n : f[i] = step[<<f[i - 1], i>>]

LEMMA IterationExists ==
  ASSUME NEW n \in Nat, NEW T, NEW base \in T, NEW step \in [T \X (1..n) -> T]
  PROVE  \E f : IsIteration(n, T, base, step, f)
<1>1. PICK fold : IsFold(n, T, base, step, fold)
  BY FoldExists
<1> DEFINE f == [i \in 0..n |-> fold[1..i]]
<1>2. \A i \in 0..n : (1..i) \in SUBSET (1..n)
  OBVIOUS
<1>3. f \in [0..n -> T]
  BY <1>1, <1>2 DEF IsFold
<1>4. f[0] = base
  <2>1. 1..0 = {} /\ 0 \in 0..n
    OBVIOUS
  <2>2. fold[{}] = base
    BY <1>1 DEF IsFold
  <2> QED
    BY <2>1, <2>2
<1>5. ASSUME NEW i \in 1..n PROVE f[i] = step[<<f[i - 1], i>>]
  <2>1. /\ (1..i) \in SUBSET (1..n) /\ (1..i) # {}
        /\ Max(1..i) = i /\ (1..i) \ {i} = 1..(i - 1)
    BY FirstPositions
  <2>2. fold[1..i] = step[<<fold[1..(i - 1)], i>>]
    BY <1>1, <2>1 DEF IsFold
  <2>3. i \in 0..n /\ i - 1 \in 0..n
    OBVIOUS
  <2> QED
    BY <2>2, <2>3
<1> QED
  BY <1>3, <1>4, <1>5 DEF IsIteration

=============================================================================
