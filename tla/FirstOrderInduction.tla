------------------------ MODULE FirstOrderInduction ------------------------
(* Induction and recursion over the natural numbers, stated of sets and    *)
(* functions instead of operators.                                         *)
EXTENDS Naturals, WellFoundedInduction, TLAPS

\* A set of natural numbers has a least element.
LEMMA LeastExists ==
  ASSUME NEW D \in SUBSET Nat, D # {}
  PROVE  \E i \in D : \A j \in D : i <= j
<1>1. PICK i \in D : \A j \in D : <<j, i>> \notin OpToRel(<, Nat)
  BY NatLessThanWellFounded, WFMin, Zenon
<1>2. \A j \in D : ~(j < i)
  BY <1>1 DEF OpToRel
<1>3. QED
  BY <1>2

\* And the largest, if it is bounded.
LEMMA LargestExists ==
  ASSUME NEW n \in Nat, NEW S \in SUBSET (0..n), S # {}
  PROVE  \E i \in S : \A j \in S : j <= i
<1> DEFINE D == {n - j : j \in S}
<1>1. \A j \in S : j \in 0..n /\ n - j \in Nat /\ n - j \in D
  OBVIOUS
<1>2. D \in SUBSET Nat /\ D # {}
  BY <1>1
<1>3. \A x \in D : \E i \in S : x = n - i
  OBVIOUS
<1> HIDE DEF D
<1>4. PICK x \in D : \A y \in D : x <= y
  BY <1>2, LeastExists
<1>5. PICK i \in S : x = n - i
  BY <1>3
<1>6. QED
  BY <1>1, <1>4, <1>5

\* Whatever 0 has, and is handed on from each number to the next, all have.
LEMMA Induction ==
  ASSUME NEW N \in Nat, NEW P, 0 \in P, \A i \in 1..N : i - 1 \in P => i \in P
  PROVE  \A i \in 0..N : i \in P
<1> DEFINE D == {i \in 0..N : i \notin P}
<1>1. SUFFICES ASSUME D # {} PROVE FALSE
  OBVIOUS
<1>2. PICK i \in D : \A j \in D : i <= j
  <2>1. D \in SUBSET Nat
    OBVIOUS
  <2> HIDE DEF D
  <2>2. QED
    BY <1>1, <2>1, LeastExists
<1>3. i # 0 /\ i - 1 \in 0..N /\ i \in 1..N
  OBVIOUS
<1>4. i - 1 \in P
  BY <1>2, <1>3
<1>5. QED
  BY <1>3, <1>4

\* A function of the numbers up to N may be defined by its first value and by
\* the step from each value to the next.
IsRun(f, N, S, base, step) ==
  f \in [0..N -> S] /\ f[0] = base /\ \A i \in 1..N : f[i] = step[i][f[i - 1]]

LEMMA Recursion ==
  ASSUME NEW N \in Nat, NEW S, NEW base \in S, NEW step \in [1..N -> [S -> S]]
  PROVE  \E f : IsRun(f, N, S, base, step)
<1> DEFINE Upto(n) == {f \in [0..n -> S] : f[0] = base /\ \A i \in 1..n : f[i] = step[i][f[i - 1]]}
           P == {n \in 0..N : Upto(n) # {}}
<1>1. 0 \in P
  <2>1. [i \in 0..0 |-> base] \in Upto(0)
    OBVIOUS
  <2>2. QED
    BY <2>1
<1>2. ASSUME NEW n \in 1..N, n - 1 \in P PROVE n \in P
  <2>1. PICK f \in Upto(n - 1) : TRUE
    BY <1>2
  <2> DEFINE g == [i \in 0..n |-> IF i = n THEN step[n][f[n - 1]] ELSE f[i]]
  <2>2. f \in [0..(n - 1) -> S] /\ f[0] = base /\ \A i \in 1..(n - 1) : f[i] = step[i][f[i - 1]]
    BY <2>1
  <2>3. n - 1 \in 0..(n - 1) /\ f[n - 1] \in S /\ step[n][f[n - 1]] \in S
    BY <2>2
  <2>4. g \in [0..n -> S] /\ g[0] = base
    BY <2>2, <2>3
  <2>5. ASSUME NEW i \in 1..n PROVE g[i] = step[i][g[i - 1]]
    <3>1. i - 1 \in 0..(n - 1) /\ g[i - 1] = f[i - 1]
      OBVIOUS
    <3>2. QED
      BY <2>2, <3>1
  <2>6. g \in Upto(n)
    BY <2>4, <2>5
  <2> HIDE DEF Upto, g
  <2>7. Upto(n) # {}
    BY <2>6
  <2>8. QED
    BY <2>7
<1>3. N \in P
  <2> HIDE DEF P
  <2>1. \A i \in 1..N : i - 1 \in P => i \in P
    BY <1>2
  <2>2. \A i \in 0..N : i \in P
    BY <1>1, <2>1, Induction
  <2>3. QED
    BY <2>2
<1>4. QED
  BY <1>3 DEF IsRun
=============================================================================
