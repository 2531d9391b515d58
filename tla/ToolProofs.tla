---------------------------- MODULE ToolProofs ------------------------------
(***************************************************************************)
(* What holds of two of the tools that Toolbox composes.  First the        *)
(* segment tree: it answers right for every size, every lawful controller  *)
(* and every sequence of calls, as far as the code does.  Then solve, on   *)
(* strings of every length.                                                *)
(***************************************************************************)
EXTENDS SegmentTree, Solve, SequenceTheorems, WellFoundedInduction, TLAPS

(***************************************************************************)
(* THE SEGMENT TREE                                                        *)
(***************************************************************************)

-----------------------------------------------------------------------------
(* Numbers                                                                 *)

LEMMA StepsTo ==
  ASSUME NEW m \in Nat, NEW S, 0 \in S, \A k \in 0..m - 1 : k \in S => k + 1 \in S
  PROVE  \A k \in 0..m : k \in S
<1> DEFINE T == {k \in 0..m : k \notin S}
<1> SUFFICES ASSUME T # {} PROVE FALSE
  OBVIOUS
<1>1. T \in SUBSET Nat
  OBVIOUS
<1>2. PICK k \in T : \A j \in T : ~ (<<j, k>> \in OpToRel(<, Nat))
  <2> HIDE DEF T
  <2> QED BY <1>1, NatLessThanWellFounded, WFMin
<1>3. k \in 0..m /\ k \notin S /\ k # 0
  OBVIOUS
<1>4. k - 1 \in 0..m - 1 /\ k - 1 \in Nat /\ k \in Nat /\ k - 1 < k /\ (k - 1) + 1 = k
  BY <1>3
<1>5. k - 1 \in S
  <2>1. <<k - 1, k>> \in OpToRel(<, Nat)
    BY <1>4 DEF OpToRel
  <2>2. k - 1 \notin T
    BY <1>2, <2>1
  <2> QED BY <1>4, <2>2
<1> QED BY <1>3, <1>4, <1>5

\* A function on 0..m that is defined by recursion exists.
Recursive(f, m, base, next) == f = [k \in 0..m |-> IF k = 0 THEN base ELSE next[k, f[k - 1]]]

LEMMA RecursionExists ==
  ASSUME NEW m \in Nat, NEW base, NEW next
  PROVE  \E f : Recursive(f, m, base, next)
<1> DEFINE S == {k \in 0..m : \E f : Recursive(f, k, base, next)}
<1>1. 0 \in S
  <2> DEFINE f == [k \in 0..0 |-> base]
  <2>1. f = [k \in 0..0 |-> IF k = 0 THEN base ELSE next[k, f[k - 1]]]
    OBVIOUS
  <2>2. Recursive(f, 0, base, next)
    BY <2>1 DEF Recursive
  <2> QED BY <2>2
<1>2. ASSUME NEW k \in 0..m - 1, k \in S PROVE k + 1 \in S
  <2>1. PICK f : Recursive(f, k, base, next)
    BY <1>2
  <2>2. f = [i \in 0..k |-> IF i = 0 THEN base ELSE next[i, f[i - 1]]]
    BY <2>1 DEF Recursive
  <2> DEFINE g == [i \in 0..k + 1 |-> IF i = k + 1 THEN next[i, f[k]] ELSE f[i]]
             turn(h, i) == IF i = 0 THEN base ELSE next[i, h[i - 1]]
  <2>3. \A i \in 0..k : f[i] = turn(f, i)
    BY <2>2
  <2>4. ASSUME NEW i \in 0..k + 1 PROVE g[i] = turn(g, i)
    <3>1. CASE i = k + 1
      <4>1. i # 0 /\ i - 1 = k /\ k \in 0..k + 1 /\ k # k + 1
        BY <3>1
      <4>2. g[k] = f[k]
        BY <4>1
      <4> QED BY <3>1, <4>1, <4>2
    <3>2. CASE i # k + 1 /\ i = 0
      <4>1. g[i] = f[i] /\ i \in 0..k
        BY <3>2
      <4> QED BY <2>3, <3>2, <4>1
    <3>3. CASE i # k + 1 /\ i # 0
      <4>1. i \in 0..k /\ i - 1 \in 0..k + 1 /\ i - 1 # k + 1
        BY <3>3
      <4>2. g[i] = f[i] /\ g[i - 1] = f[i - 1]
        BY <3>3, <4>1
      <4> QED BY <2>3, <3>3, <4>1, <4>2
    <3> QED BY <3>1, <3>2, <3>3
  <2>5. g = [i \in 0..k + 1 |-> turn(g, i)]
    BY <2>4
  <2>6. Recursive(g, k + 1, base, next)
    BY <2>5 DEF Recursive
  <2> HIDE DEF g
  <2>7. k + 1 \in 0..m /\ \E h : Recursive(h, k + 1, base, next)
    BY <2>6
  <2> QED BY <2>7
<1> HIDE DEF S
<1>3. m \in 0..m /\ \A k \in 0..m : k \in S
  BY <1>1, <1>2, StepsTo
<1> QED BY <1>3 DEF S

\* The powers of two.
LEMMA Log2nNat == Log2n \in Nat
BY SegmentTreeAssumption

LEMMA Powers ==
  /\ PowerOf2[0] = 1
  /\ \A k \in 0..Log2n : PowerOf2[k + 1] = 2 * PowerOf2[k]
<1> DEFINE m == Log2n + 1
           twice == [p \in (1..m) \X Nat |-> 2 * p[2]]
           Right(f) == f = [k \in 0..m |-> IF k = 0 THEN 1 ELSE 2 * f[k - 1]]
<1>1. m \in Nat /\ Log2n \in Nat
  BY Log2nNat
<1>2. PICK f : Recursive(f, m, 1, twice)
  <2> HIDE DEF m, twice
  <2> QED BY <1>1, RecursionExists
<1>3. \A k \in 0..m : f[k] = IF k = 0 THEN 1 ELSE twice[k, f[k - 1]]
  <2> HIDE DEF m, twice
  <2> QED BY <1>1, <1>2 DEF Recursive
<1>4. \A k \in 0..m : f[k] \in Nat
  <2> DEFINE S == {k \in 0..m : f[k] \in Nat}
  <2>1. 0 \in S
    <3>1. 0 \in 0..m
      BY <1>1
    <3>2. f[0] = 1
      BY <1>3, <3>1
    <3> QED BY <3>1, <3>2
  <2>2. ASSUME NEW k \in 0..m - 1, k \in S PROVE k + 1 \in S
    <3>1. k + 1 \in 1..m /\ k + 1 \in 0..m /\ k + 1 # 0 /\ (k + 1) - 1 = k /\ f[k] \in Nat
      BY <1>1, <2>2
    <3>2. f[k + 1] = twice[k + 1, f[k]]
      BY <1>3, <3>1
    <3>3. f[k + 1] = 2 * f[k]
      BY <3>1, <3>2
    <3> QED BY <3>1, <3>3
  <2> HIDE DEF S, m
  <2>3. \A k \in 0..m : k \in S
    BY <1>1, <2>1, <2>2, StepsTo
  <2> QED BY <2>3 DEF S
<1>5. ASSUME NEW k \in 0..m, k # 0 PROVE twice[k, f[k - 1]] = 2 * f[k - 1]
  <2>1. k - 1 \in 0..m /\ k \in 1..m
    BY <1>1, <1>5
  <2>2. f[k - 1] \in Nat
    BY <1>4, <2>1
  <2> QED BY <2>1, <2>2
<1>6. Right(f)
  <2>1. \A k \in 0..m : f[k] = IF k = 0 THEN 1 ELSE 2 * f[k - 1]
    BY <1>3, <1>5
  <2>2. f = [k \in 0..m |-> f[k]]
    BY <1>2 DEF Recursive
  <2> QED BY <2>1, <2>2
<1>7. PowerOf2 = CHOOSE g : Right(g)
  BY DEF PowerOf2
<1>8. Right(PowerOf2)
  <2> HIDE DEF Right
  <2> QED BY <1>6, <1>7
<1>9. \A k \in 0..m : PowerOf2[k] = IF k = 0 THEN 1 ELSE 2 * PowerOf2[k - 1]
  <2> DEFINE P == PowerOf2
  <2> HIDE DEF P
  <2>1. P = [k \in 0..m |-> IF k = 0 THEN 1 ELSE 2 * P[k - 1]]
    BY <1>8 DEF P
  <2>2. \A k \in 0..m : P[k] = IF k = 0 THEN 1 ELSE 2 * P[k - 1]
    BY <2>1
  <2> QED BY <2>2 DEF P
<1> QED
  <2>1. ASSUME NEW k \in 0..Log2n PROVE PowerOf2[k + 1] = 2 * PowerOf2[k]
    <3>1. k + 1 \in 0..m /\ k + 1 # 0 /\ (k + 1) - 1 = k
      BY <1>1
    <3> QED BY <1>9, <3>1
  <2>2. PowerOf2[0] = 1
    BY <1>1, <1>9
  <2> QED BY <2>1, <2>2

LEMMA PowersNat == \A k \in 0..Log2n + 1 : PowerOf2[k] \in Nat /\ PowerOf2[k] >= 1
<1> DEFINE m == Log2n + 1
           S == {k \in 0..m : PowerOf2[k] \in Nat /\ PowerOf2[k] >= 1}
<1>1. Log2n \in Nat /\ m \in Nat
  BY Log2nNat
<1>2. 0 \in S
  BY <1>1, Powers
<1>3. ASSUME NEW k \in 0..m - 1, k \in S PROVE k + 1 \in S
  <2>1. k \in 0..Log2n /\ k + 1 \in 0..m
    BY <1>1
  <2>2. PowerOf2[k + 1] = 2 * PowerOf2[k] /\ PowerOf2[k] \in Nat /\ PowerOf2[k] >= 1
    BY <1>3, <2>1, Powers
  <2> QED BY <2>1, <2>2
<1> HIDE DEF S
<1>4. \A k \in 0..m : k \in S
  <2> HIDE DEF m
  <2> QED BY <1>1, <1>2, <1>3, StepsTo
<1> QED BY <1>4 DEF S

LEMMA nNat == n \in Nat /\ n >= 1
BY Log2nNat, PowersNat DEF n

LEMMA PowersGrow ==
  ASSUME NEW j \in 0..Log2n, NEW k \in j + 1..Log2n + 1
  PROVE  2 * PowerOf2[j] <= PowerOf2[k]
<1> DEFINE m == Log2n - j
           S == {i \in 0..m : 2 * PowerOf2[j] <= PowerOf2[j + 1 + i]}
<1>1. Log2n \in Nat /\ m \in Nat
  BY Log2nNat
<1>2. 0 \in S
  <2>1. PowerOf2[j + 1] = 2 * PowerOf2[j] /\ PowerOf2[j] \in Nat /\ j + 1 + 0 = j + 1
    BY <1>1, Powers, PowersNat
  <2> QED BY <1>1, <2>1
<1>3. ASSUME NEW i \in 0..m - 1, i \in S PROVE i + 1 \in S
  <2> DEFINE q == j + 1 + i
  <2>1. q \in 0..Log2n /\ q \in 0..Log2n + 1 /\ j + 1 + (i + 1) = q + 1 /\ i + 1 \in 0..m
        /\ j \in 0..Log2n + 1
    BY <1>1
  <2> HIDE DEF q
  <2>2. PowerOf2[q + 1] = 2 * PowerOf2[q] /\ PowerOf2[q] \in Nat /\ PowerOf2[j] \in Nat
    BY <2>1, Powers, PowersNat
  <2>3. 2 * PowerOf2[j] <= PowerOf2[q]
    BY <1>3 DEF q
  <2> QED BY <2>1, <2>2, <2>3
<1> HIDE DEF S
<1>4. \A i \in 0..m : i \in S
  <2> HIDE DEF m
  <2> QED BY <1>1, <1>2, <1>3, StepsTo
<1>5. k - (j + 1) \in 0..m /\ j + 1 + (k - (j + 1)) = k
  BY <1>1
<1>6. k - (j + 1) \in S
  BY <1>4, <1>5
<1> QED BY <1>5, <1>6 DEF S

-----------------------------------------------------------------------------
(* Levels                                                                  *)

\* The nodes that lie t levels above the leaves.
Level(t) == PowerOf2[Log2n - t]..2 * PowerOf2[Log2n - t] - 1

Levels == 0..Log2n

LEMMA PowersDown ==
  ASSUME NEW t \in Levels, t # Log2n
  PROVE  /\ t + 1 \in Levels
         /\ PowerOf2[Log2n - t] = 2 * PowerOf2[Log2n - (t + 1)]
         /\ PowerOf2[Log2n - t] \in Nat /\ PowerOf2[Log2n - (t + 1)] \in Nat
         /\ PowerOf2[Log2n - (t + 1)] >= 1
<1> DEFINE k == Log2n - (t + 1)
<1>1. k \in 0..Log2n /\ k + 1 = Log2n - t /\ k \in 0..Log2n + 1 /\ k + 1 \in 0..Log2n + 1
      /\ t + 1 \in Levels
  BY Log2nNat DEF Levels
<1> HIDE DEF k
<1>2. PowerOf2[k + 1] = 2 * PowerOf2[k] /\ PowerOf2[k] \in Nat /\ PowerOf2[k] >= 1
      /\ PowerOf2[k + 1] \in Nat
  BY <1>1, Powers, PowersNat
<1>3. PowerOf2[Log2n - t] = 2 * PowerOf2[k] /\ PowerOf2[Log2n - t] \in Nat
  BY <1>1, <1>2
<1> QED BY <1>1, <1>2, <1>3 DEF k

LEMMA LevelRange ==
  ASSUME NEW t \in Levels, NEW y \in Level(t)
  PROVE  /\ y \in Nodes /\ y \in Nat
         /\ t = 0 => y \in n..2 * n - 1
         /\ t # 0 => y \in 1..n - 1
<1> DEFINE k == Log2n - t
<1>1. k \in 0..Log2n /\ k \in 0..Log2n + 1 /\ t \in Int /\ Log2n \in Nat
  BY Log2nNat DEF Levels
<1>2. PowerOf2[k] \in Nat /\ PowerOf2[k] >= 1 /\ n \in Nat
  BY <1>1, PowersNat, nNat
<1>3. y \in PowerOf2[k]..2 * PowerOf2[k] - 1
  BY DEF Level
<1>4. CASE t = 0
  <2>1. k = Log2n /\ PowerOf2[k] = n
    BY <1>1, <1>4 DEF n
  <2> HIDE DEF k
  <2> QED BY <1>2, <1>3, <1>4, <2>1 DEF Nodes
<1>5. CASE t # 0
  <2>1. Log2n \in k + 1..Log2n + 1
    BY <1>1, <1>5 DEF Levels
  <2>2. 2 * PowerOf2[k] <= n
    <3> HIDE DEF k
    <3> QED BY <1>1, <2>1, PowersGrow DEF n
  <2> HIDE DEF k
  <2> QED BY <1>2, <1>3, <1>5, <2>2 DEF Nodes
<1> QED BY <1>4, <1>5

LEMMA LevelDown ==
  ASSUME NEW t \in Levels, t # Log2n, NEW y \in Level(t + 1)
  PROVE  2 * y \in Level(t) /\ 2 * y + 1 \in Level(t)
<1> DEFINE p == PowerOf2[Log2n - (t + 1)]
           q == PowerOf2[Log2n - t]
<1>1. q = 2 * p /\ p \in Nat /\ q \in Nat
  BY PowersDown
<1>2. y \in p..2 * p - 1
  BY DEF Level
<1> HIDE DEF p, q
<1>3. 2 * y \in q..2 * q - 1 /\ 2 * y + 1 \in q..2 * q - 1
  BY <1>1, <1>2
<1> QED BY <1>3 DEF Level, q

LEMMA LevelUp ==
  ASSUME NEW t \in Levels, t # Log2n, NEW y \in Level(t)
  PROVE  y \div 2 \in Level(t + 1)
<1> DEFINE p == PowerOf2[Log2n - (t + 1)]
           q == PowerOf2[Log2n - t]
<1>1. q = 2 * p /\ p \in Nat /\ q \in Nat
  BY PowersDown
<1>2. y \in q..2 * q - 1
  BY DEF Level
<1> HIDE DEF p, q
<1>3. y \div 2 \in p..2 * p - 1
  BY <1>1, <1>2
<1> QED BY <1>3 DEF Level, p

LEMMA LevelTop == \A y \in Level(Log2n) : y = 1
<1>1. Log2n - Log2n = 0 /\ PowerOf2[0] = 1
  BY Log2nNat, Powers
<1> QED BY <1>1 DEF Level

LEMMA LevelsApart ==
  ASSUME NEW t \in Levels, NEW s \in Levels, t < s, NEW x \in Level(t), NEW y \in Level(s)
  PROVE  y < x
<1> DEFINE j == Log2n - s
           k == Log2n - t
<1>1. j \in 0..Log2n /\ k \in j + 1..Log2n + 1 /\ j \in 0..Log2n + 1 /\ k \in 0..Log2n + 1
  BY Log2nNat DEF Levels
<1>2. x \in PowerOf2[k]..2 * PowerOf2[k] - 1 /\ y \in PowerOf2[j]..2 * PowerOf2[j] - 1
  BY DEF Level
<1> HIDE DEF j, k
<1>3. 2 * PowerOf2[j] <= PowerOf2[k] /\ PowerOf2[j] \in Nat /\ PowerOf2[k] \in Nat
  BY <1>1, PowersGrow, PowersNat
<1> QED BY <1>2, <1>3

\* Two nodes of a level are less than a level apart.
LEMMA LevelNarrow ==
  ASSUME NEW t \in Levels, NEW x \in Level(t), NEW y \in Level(t)
  PROVE  y < 2 * x
<1> DEFINE k == Log2n - t
<1>1. k \in 0..Log2n + 1
  BY Log2nNat DEF Levels
<1>2. x \in PowerOf2[k]..2 * PowerOf2[k] - 1 /\ y \in PowerOf2[k]..2 * PowerOf2[k] - 1
  BY DEF Level
<1> HIDE DEF k
<1>3. PowerOf2[k] \in Nat
  BY <1>1, PowersNat
<1> QED BY <1>2, <1>3

LEMMA AboveIs ==
  ASSUME NEW i \in Leaves
  PROVE  /\ Above(i)[0] = i + n
         /\ \A s \in 0..Log2n : Above(i)[s + 1] = Above(i)[s] \div 2
<1> DEFINE m == Log2n + 1
           halves == [p \in (1..m) \X Nat |-> p[2] \div 2]
           base == i + n
           Right(f) == f = [k \in 0..m |-> IF k = 0 THEN base ELSE f[k - 1] \div 2]
<1>1. m \in Nat /\ Log2n \in Nat /\ base \in Nat /\ 0 \in 0..m
  BY Log2nNat, nNat DEF Leaves
<1> HIDE DEF base
<1>2. PICK f : Recursive(f, m, base, halves)
  <2> HIDE DEF m, halves
  <2> QED BY <1>1, RecursionExists
<1>3. \A k \in 0..m : f[k] = IF k = 0 THEN base ELSE halves[k, f[k - 1]]
  <2> HIDE DEF m, halves
  <2> QED BY <1>1, <1>2 DEF Recursive
<1>4. \A k \in 0..m : f[k] \in Nat
  <2> DEFINE S == {k \in 0..m : f[k] \in Nat}
  <2>1. 0 \in S
    <3>1. f[0] = base
      BY <1>1, <1>3
    <3> QED BY <1>1, <3>1
  <2>2. ASSUME NEW k \in 0..m - 1, k \in S PROVE k + 1 \in S
    <3>1. k + 1 \in 1..m /\ k + 1 \in 0..m /\ k + 1 # 0 /\ (k + 1) - 1 = k /\ f[k] \in Nat
      BY <1>1, <2>2
    <3>2. f[k + 1] = halves[k + 1, f[k]]
      BY <1>3, <3>1
    <3>3. f[k + 1] = f[k] \div 2
      BY <3>1, <3>2
    <3> QED BY <3>1, <3>3
  <2> HIDE DEF S, m
  <2>3. \A k \in 0..m : k \in S
    BY <1>1, <2>1, <2>2, StepsTo
  <2> QED BY <2>3 DEF S
<1>5. ASSUME NEW k \in 0..m, k # 0 PROVE halves[k, f[k - 1]] = f[k - 1] \div 2
  <2>1. k - 1 \in 0..m /\ k \in 1..m
    BY <1>1, <1>5
  <2>2. f[k - 1] \in Nat
    BY <1>4, <2>1
  <2> QED BY <2>1, <2>2
<1>6. Right(f)
  <2>1. \A k \in 0..m : f[k] = IF k = 0 THEN base ELSE f[k - 1] \div 2
    BY <1>3, <1>5
  <2>2. f = [k \in 0..m |-> f[k]]
    BY <1>2 DEF Recursive
  <2> QED BY <2>1, <2>2
<1>7. Above(i) = CHOOSE g : Right(g)
  BY DEF Above, base
<1> DEFINE P == Above(i)
<1>8. Right(P)
  <2> HIDE DEF Right
  <2> QED BY <1>6, <1>7
<1> HIDE DEF P
<1>9. \A k \in 0..m : P[k] = IF k = 0 THEN base ELSE P[k - 1] \div 2
  <2>1. P = [k \in 0..m |-> IF k = 0 THEN base ELSE P[k - 1] \div 2]
    BY <1>8
  <2> QED BY <2>1
<1>10. ASSUME NEW k \in 0..Log2n PROVE P[k + 1] = P[k] \div 2
  <2>1. k + 1 \in 0..m /\ k + 1 # 0 /\ (k + 1) - 1 = k
    BY <1>1
  <2> QED BY <1>9, <2>1
<1>11. P[0] = base
  BY <1>1, <1>9
<1> QED BY <1>10, <1>11 DEF P, base

LEMMA AboveLevel ==
  ASSUME NEW i \in Leaves
  PROVE  \A t \in Levels : Above(i)[t] \in Level(t)
<1> DEFINE S == {t \in 0..Log2n : Above(i)[t] \in Level(t)}
<1>1. Log2n \in Nat /\ n \in Nat
  BY Log2nNat, nNat
<1>2. 0 \in S
  <2>1. Log2n - 0 = Log2n /\ Above(i)[0] = i + n
    BY <1>1, AboveIs
  <2> QED BY <1>1, <2>1 DEF Level, Leaves, n
<1>3. ASSUME NEW t \in 0..Log2n - 1, t \in S PROVE t + 1 \in S
  <2>1. t \in Levels /\ t # Log2n /\ t + 1 \in 0..Log2n /\ t \in 0..Log2n
    BY <1>1 DEF Levels
  <2>2. Above(i)[t] \div 2 \in Level(t + 1)
    BY <1>3, <2>1, LevelUp
  <2>3. Above(i)[t + 1] = Above(i)[t] \div 2
    BY <2>1, AboveIs
  <2> QED BY <2>1, <2>2, <2>3
<1> HIDE DEF S
<1>4. \A t \in 0..Log2n : t \in S
  BY <1>1, <1>2, <1>3, StepsTo
<1> QED BY <1>4 DEF S, Levels

LEMMA AboveTop ==
  ASSUME NEW i \in Leaves
  PROVE  Above(i)[Log2n] = 1 /\ Above(i)[Log2n + 1] = 0
<1>1. Log2n \in Levels /\ Log2n \in 0..Log2n
  BY Log2nNat DEF Levels
<1>2. Above(i)[Log2n] = 1
  BY <1>1, AboveLevel, LevelTop
<1>3. Above(i)[Log2n + 1] = Above(i)[Log2n] \div 2
  BY <1>1, AboveIs
<1> QED BY <1>2, <1>3

-----------------------------------------------------------------------------
(* The leaves below a node: those from First(t, y) to First(t, y + 1) - 1  *)
(* for y t levels above the leaves.                                        *)

First(t, y) == y * PowerOf2[t] - n

LEMMA FirstAtLeaf == \A y \in Int : First(0, y) = y - n
BY Powers, nNat DEF First

LEMMA FirstInt == \A t \in 0..Log2n + 1, y \in Int : First(t, y) \in Int
BY PowersNat, nNat DEF First

LEMMA FirstUp ==
  ASSUME NEW t \in Levels, NEW y \in Int
  PROVE  First(t + 1, y) = First(t, 2 * y)
<1> DEFINE p == PowerOf2[t]
           q == PowerOf2[t + 1]
<1>1. q = 2 * p /\ p \in Nat /\ n \in Nat
  BY Powers, PowersNat, nNat, Log2nNat DEF Levels
<1> HIDE DEF p, q
<1>2. y * q - n = (2 * y) * p - n
  BY <1>1
<1> QED BY <1>2 DEF First, p, q

LEMMA FirstNext ==
  ASSUME NEW t \in 0..Log2n + 1, NEW y \in Int
  PROVE  First(t, y) < First(t, y + 1)
<1> DEFINE p == PowerOf2[t]
<1>1. p \in Nat /\ p >= 1 /\ n \in Nat
  BY PowersNat, nNat
<1> HIDE DEF p
<1>2. (y + 1) * p = y * p + p /\ y * p \in Int
  BY <1>1
<1> DEFINE x == y * p
<1>3. (y + 1) * p = x + p /\ x \in Int
  BY <1>2
<1> HIDE DEF x
<1>4. x - n < (y + 1) * p - n
  BY <1>1, <1>3
<1> QED BY <1>4 DEF First, p, x

LEMMA FirstRange ==
  \A t \in Levels : \A y \in Level(t) : First(t, y) >= 0 /\ First(t, y + 1) <= n
<1> DEFINE S == {t \in 0..Log2n : \A y \in Level(t) : First(t, y) >= 0 /\ First(t, y + 1) <= n}
<1>1. Log2n \in Nat /\ n \in Nat
  BY Log2nNat, nNat
<1>2. 0 \in S
  <2>1. \A y \in Level(0) : y \in n..2 * n - 1
    <3>1. Log2n - 0 = Log2n
      BY <1>1
    <3> QED BY <3>1 DEF Level, n
  <2>2. ASSUME NEW y \in Level(0) PROVE First(0, y) >= 0 /\ First(0, y + 1) <= n
    <3>1. y \in n..2 * n - 1 /\ y \in Int /\ y + 1 \in Int
      BY <1>1, <2>1
    <3>2. First(0, y) = y - n /\ First(0, y + 1) = (y + 1) - n
      BY <3>1, FirstAtLeaf
    <3> QED BY <1>1, <3>1, <3>2
  <2>3. 0 \in 0..Log2n
    BY <1>1
  <2> QED BY <2>2, <2>3
<1>3. ASSUME NEW t \in 0..Log2n - 1, t \in S PROVE t + 1 \in S
  <2>1. t \in Levels /\ t # Log2n /\ t + 1 \in 0..Log2n /\ t \in 0..Log2n /\ t + 1 \in Levels
    BY <1>1 DEF Levels
  <2>2. ASSUME NEW y \in Level(t + 1) PROVE First(t + 1, y) >= 0 /\ First(t + 1, y + 1) <= n
    <3>1. 2 * y \in Level(t) /\ 2 * y + 1 \in Level(t) /\ y \in Nat
      BY <2>1, LevelDown, LevelRange
    <3>2. First(t, 2 * y) >= 0 /\ First(t, (2 * y + 1) + 1) <= n
      BY <1>3, <3>1
    <3>3. y \in Int /\ y + 1 \in Int /\ (2 * y + 1) + 1 = 2 * (y + 1)
      BY <3>1
    <3>4. First(t + 1, y) = First(t, 2 * y) /\ First(t + 1, y + 1) = First(t, 2 * (y + 1))
      BY <2>1, <3>3, FirstUp
    <3> QED BY <3>2, <3>3, <3>4
  <2> QED BY <2>1, <2>2
<1> HIDE DEF S
<1>4. \A t \in 0..Log2n : t \in S
  BY <1>1, <1>2, <1>3, StepsTo
<1> QED BY <1>4 DEF S, Levels

LEMMA FirstOfPower == \A t \in Levels : First(t, PowerOf2[Log2n - t]) = 0
<1> DEFINE S == {t \in 0..Log2n : First(t, PowerOf2[Log2n - t]) = 0}
<1>1. Log2n \in Nat /\ n \in Nat
  BY Log2nNat, nNat
<1>2. 0 \in S
  <2>1. Log2n - 0 = Log2n /\ PowerOf2[Log2n] = n /\ 0 \in 0..Log2n /\ n \in Int
    BY <1>1 DEF n
  <2>2. First(0, n) = n - n
    BY <2>1, FirstAtLeaf
  <2> QED BY <2>1, <2>2
<1>3. ASSUME NEW t \in 0..Log2n - 1, t \in S PROVE t + 1 \in S
  <2> DEFINE p == PowerOf2[Log2n - (t + 1)]
  <2>1. t \in Levels /\ t # Log2n /\ t + 1 \in 0..Log2n
    BY <1>1 DEF Levels
  <2>2. PowerOf2[Log2n - t] = 2 * p /\ p \in Int
    BY <2>1, PowersDown
  <2> HIDE DEF p
  <2>3. First(t, 2 * p) = 0
    BY <1>3, <2>2
  <2>4. First(t + 1, p) = First(t, 2 * p)
    BY <2>1, <2>2, FirstUp
  <2> QED BY <2>1, <2>3, <2>4 DEF p
<1> HIDE DEF S
<1>4. \A t \in 0..Log2n : t \in S
  BY <1>1, <1>2, <1>3, StepsTo
<1> QED BY <1>4 DEF S, Levels

\* The first node of its level is the only one whose number is a power of
\* two.
LEMMA PowerAtLevel ==
  ASSUME NEW t \in Levels, NEW y \in Level(t), IsPowerOf2(y)
  PROVE  First(t, y) = 0
<1>1. PICK k \in 0..Log2n : y = PowerOf2[k]
  BY DEF IsPowerOf2
<1> DEFINE j == Log2n - t
<1>2. j \in 0..Log2n /\ Log2n \in Nat /\ j \in 0..Log2n + 1 /\ k \in 0..Log2n + 1
  BY Log2nNat DEF Levels
<1>3. y \in PowerOf2[j]..2 * PowerOf2[j] - 1
  BY DEF Level
<1>4. First(t, PowerOf2[j]) = 0
  BY FirstOfPower
<1> HIDE DEF j
<1>5. PowerOf2[j] \in Nat /\ PowerOf2[j] >= 1 /\ PowerOf2[k] \in Nat /\ PowerOf2[k] >= 1
  BY <1>2, PowersNat
<1>6. ~ (k > j)
  <2> SUFFICES ASSUME k > j PROVE FALSE
    OBVIOUS
  <2>1. k \in j + 1..Log2n + 1
    BY <1>2
  <2>2. 2 * PowerOf2[j] <= PowerOf2[k]
    BY <1>2, <2>1, PowersGrow
  <2> QED BY <1>1, <1>3, <1>5, <2>2
<1>7. ~ (k < j)
  <2> SUFFICES ASSUME k < j PROVE FALSE
    OBVIOUS
  <2>1. j \in k + 1..Log2n + 1
    BY <1>2
  <2>2. 2 * PowerOf2[k] <= PowerOf2[j]
    BY <1>2, <2>1, PowersGrow
  <2> QED BY <1>1, <1>3, <1>5, <2>2
<1>8. k = j
  BY <1>2, <1>6, <1>7
<1> QED BY <1>1, <1>4, <1>8

-----------------------------------------------------------------------------
(* Values and updates                                                      *)

Updates == Seq(Marks)

\* What the operators of the controller do.
LEMMA ApplyIs ==
  ASSUME NEW u \in Updates, NEW v \in Values
  PROVE  /\ ApplyUpdate(u, v) \in Values
         /\ Len(ApplyUpdate(u, v)) = Len(v)
         /\ \A i \in 1..Len(v) : ApplyUpdate(u, v)[i] = v[i] \o u /\ v[i] \in Updates
<1> DEFINE m == Len(v)
           w == [i \in 1..m |-> v[i] \o u]
<1>1. m \in Nat /\ DOMAIN v = 1..m /\ \A i \in 1..m : v[i] \in Updates
  BY LenProperties DEF Values, Updates
<1>2. ApplyUpdate(u, v) = w
  BY <1>1 DEF ApplyUpdate
<1> HIDE DEF m
<1>3. \A i \in 1..m : v[i] \o u \in Updates
  <2> SUFFICES ASSUME NEW i \in 1..m PROVE v[i] \o u \in Updates
    OBVIOUS
  <2> QED BY <1>1, ConcatProperties DEF Updates
<1>4. w \in [1..m -> Updates]
  BY <1>3
<1>5. w \in Values
  BY <1>1, <1>4, SeqDef DEF Values, Updates
<1>6. DOMAIN w = 1..m
  OBVIOUS
<1>7. Len(w) = m
  <2> HIDE DEF w
  <2>1. Len(w) \in Nat /\ DOMAIN w = 1..Len(w)
    BY <1>5, LenProperties DEF Values
  <2> QED BY <1>1, <1>6, <2>1
<1>8. \A i \in 1..m : w[i] = v[i] \o u
  OBVIOUS
<1> HIDE DEF w
<1> QED BY <1>1, <1>2, <1>5, <1>7, <1>8 DEF m

LEMMA ConcatUpdates ==
  ASSUME NEW u \in Updates, NEW w \in Updates
  PROVE  u \o w \in Updates /\ Push(u, w) = w \o u /\ Push(u, w) \in Updates
BY ConcatProperties DEF Updates, Push

LEMMA ConcatValues ==
  ASSUME NEW v \in Values, NEW w \in Values
  PROVE  /\ v \o w \in Values /\ Merge(v, w) = v \o w
         /\ Len(v \o w) = Len(v) + Len(w) /\ Len(v) \in Nat /\ Len(w) \in Nat
         /\ \A i \in 1..Len(v) + Len(w) : (v \o w)[i] = IF i <= Len(v) THEN v[i] ELSE w[i - Len(v)]
<1>1. v \in Seq(Updates) /\ w \in Seq(Updates)
  BY DEF Values, Updates
<1>2. v \o w \in Seq(Updates)
  BY <1>1, ConcatProperties
<1>3. Len(v \o w) = Len(v) + Len(w)
  BY <1>1, ConcatProperties
<1>4. \A i \in 1..Len(v) + Len(w) : (v \o w)[i] = IF i <= Len(v) THEN v[i] ELSE w[i - Len(v)]
  BY <1>1, ConcatProperties
<1>5. Len(v) \in Nat /\ Len(w) \in Nat
  BY <1>1, LenProperties
<1> QED BY <1>2, <1>3, <1>4, <1>5 DEF Merge, Values, Updates

LEMMA EqualValues ==
  ASSUME NEW v \in Values, NEW w \in Values, Len(v) = Len(w), \A i \in 1..Len(v) : v[i] = w[i]
  PROVE  v = w
BY SeqEqual DEF Values

LEMMA EmptyUpdate == <<>> \in Updates /\ \A u \in Updates : u \o <<>> = u /\ <<>> \o u = u
BY EmptySeq, ConcatEmptySeq DEF Updates

LEMMA EmptyValue == <<>> \in Values /\ \A v \in Values : v \o <<>> = v /\ <<>> \o v = v
BY EmptySeq, ConcatEmptySeq DEF Values

LEMMA ApplyNothing ==
  ASSUME NEW v \in Values
  PROVE  ApplyUpdate(<<>>, v) = v
<1> DEFINE w == ApplyUpdate(<<>>, v)
<1>1. w \in Values /\ Len(w) = Len(v) /\ \A i \in 1..Len(v) : w[i] = v[i] \o <<>> /\ v[i] \in Updates
  BY EmptyUpdate, ApplyIs
<1>2. \A i \in 1..Len(v) : w[i] = v[i]
  BY <1>1, EmptyUpdate
<1> HIDE DEF w
<1>3. w = v
  BY <1>1, <1>2, EqualValues
<1> QED BY <1>3 DEF w

LEMMA JoinUpdates ==
  ASSUME NEW s \in Updates, NEW t \in Updates, NEW u \in Updates
  PROVE  (s \o t) \o u = s \o (t \o u)
BY ConcatAssociative DEF Updates

LEMMA ApplyTwo ==
  ASSUME NEW t \in Updates, NEW u \in Updates, NEW v \in Values
  PROVE  ApplyUpdate(u, ApplyUpdate(t, v)) = ApplyUpdate(t \o u, v)
<1> DEFINE w == ApplyUpdate(t, v)
           x == ApplyUpdate(u, w)
           y == ApplyUpdate(t \o u, v)
<1>1. t \o u \in Updates
  BY ConcatUpdates
<1>2. w \in Values /\ Len(w) = Len(v) /\ \A i \in 1..Len(v) : w[i] = v[i] \o t /\ v[i] \in Updates
  BY ApplyIs
<1>3. y \in Values /\ Len(y) = Len(v) /\ \A i \in 1..Len(v) : y[i] = v[i] \o (t \o u)
  BY <1>1, ApplyIs
<1>4. x \in Values /\ Len(x) = Len(w) /\ \A i \in 1..Len(w) : x[i] = w[i] \o u
  <2> HIDE DEF w
  <2> QED BY <1>2, ApplyIs
<1> HIDE DEF w, x, y
<1>5. \A i \in 1..Len(v) : x[i] = y[i]
  <2> SUFFICES ASSUME NEW i \in 1..Len(v) PROVE x[i] = y[i]
    OBVIOUS
  <2>1. x[i] = (v[i] \o t) \o u /\ y[i] = v[i] \o (t \o u) /\ v[i] \in Updates
    BY <1>2, <1>3, <1>4
  <2>2. (v[i] \o t) \o u = v[i] \o (t \o u)
    BY <2>1, JoinUpdates
  <2> QED BY <2>1, <2>2
<1>6. x = y
  BY <1>2, <1>3, <1>4, <1>5, EqualValues
<1> QED BY <1>6 DEF w, x, y

LEMMA ApplyToBoth ==
  ASSUME NEW u \in Updates, NEW v \in Values, NEW w \in Values
  PROVE  ApplyUpdate(u, v \o w) = ApplyUpdate(u, v) \o ApplyUpdate(u, w)
<1> DEFINE vw == v \o w
           av == ApplyUpdate(u, v)
           aw == ApplyUpdate(u, w)
           x == ApplyUpdate(u, vw)
           y == av \o aw
<1>1. vw \in Values /\ Len(vw) = Len(v) + Len(w) /\ Len(v) \in Nat /\ Len(w) \in Nat
      /\ \A i \in 1..Len(v) + Len(w) : vw[i] = IF i <= Len(v) THEN v[i] ELSE w[i - Len(v)]
  BY ConcatValues
<1>2. av \in Values /\ Len(av) = Len(v) /\ \A i \in 1..Len(v) : av[i] = v[i] \o u
  BY ApplyIs
<1>3. aw \in Values /\ Len(aw) = Len(w) /\ \A i \in 1..Len(w) : aw[i] = w[i] \o u
  BY ApplyIs
<1>4. x \in Values /\ Len(x) = Len(vw) /\ \A i \in 1..Len(vw) : x[i] = vw[i] \o u
  <2> HIDE DEF vw
  <2> QED BY <1>1, ApplyIs
<1>5. y \in Values /\ Len(y) = Len(av) + Len(aw)
      /\ \A i \in 1..Len(av) + Len(aw) : y[i] = IF i <= Len(av) THEN av[i] ELSE aw[i - Len(av)]
  <2> HIDE DEF av, aw
  <2> QED BY <1>2, <1>3, ConcatValues
<1> HIDE DEF vw, av, aw, x, y
<1>6. \A i \in 1..Len(x) : x[i] = y[i]
  <2> SUFFICES ASSUME NEW i \in 1..Len(x) PROVE x[i] = y[i]
    OBVIOUS
  <2>1. i \in 1..Len(v) + Len(w) /\ x[i] = vw[i] \o u
    BY <1>1, <1>4
  <2>2. CASE i <= Len(v)
    <3>1. i \in 1..Len(v) /\ vw[i] = v[i] /\ y[i] = av[i]
      BY <1>1, <1>2, <1>3, <1>5, <2>1, <2>2
    <3> QED BY <1>2, <2>1, <3>1
  <2>3. CASE ~ (i <= Len(v))
    <3>1. i - Len(v) \in 1..Len(w) /\ vw[i] = w[i - Len(v)] /\ y[i] = aw[i - Len(v)]
      BY <1>1, <1>2, <1>3, <1>5, <2>1, <2>3
    <3> QED BY <1>3, <2>1, <3>1
  <2> QED BY <2>2, <2>3
<1>7. x = y
  BY <1>1, <1>2, <1>3, <1>4, <1>5, <1>6, EqualValues
<1> QED BY <1>7 DEF vw, av, aw, x, y

\* A predicate on the elements of a value.
LEMMA PredicateOfBoth ==
  ASSUME NEW v \in Values, NEW w \in Values
  PROVE  Predicate(v \o w) <=> Predicate(v) /\ Predicate(w)
<1> DEFINE good(e) == e # <<>> => e[Len(e)] \notin Bad
           vw == v \o w
<1>1. vw \in Values /\ Len(vw) = Len(v) + Len(w) /\ Len(v) \in Nat /\ Len(w) \in Nat
      /\ \A i \in 1..Len(v) + Len(w) : vw[i] = IF i <= Len(v) THEN v[i] ELSE w[i - Len(v)]
  BY ConcatValues
<1>2. DOMAIN v = 1..Len(v) /\ DOMAIN w = 1..Len(w) /\ DOMAIN vw = 1..Len(v) + Len(w)
  <2> HIDE DEF vw
  <2> QED BY <1>1, LenProperties DEF Values
<1>3. /\ Predicate(v) <=> \A i \in 1..Len(v) : good(v[i])
      /\ Predicate(w) <=> \A i \in 1..Len(w) : good(w[i])
      /\ Predicate(vw) <=> \A i \in 1..Len(v) + Len(w) : good(vw[i])
  BY <1>2 DEF Predicate
<1> HIDE DEF good, vw
<1>4. ASSUME Predicate(vw) PROVE Predicate(v)
  <2>1. ASSUME NEW i \in 1..Len(v) PROVE good(v[i])
    <3>1. i \in 1..Len(v) + Len(w) /\ vw[i] = v[i]
      BY <1>1
    <3> QED BY <1>3, <1>4, <3>1
  <2> QED BY <1>3, <2>1
<1>5. ASSUME Predicate(vw) PROVE Predicate(w)
  <2>1. ASSUME NEW i \in 1..Len(w) PROVE good(w[i])
    <3>1. i + Len(v) \in 1..Len(v) + Len(w) /\ vw[i + Len(v)] = w[i]
      BY <1>1
    <3>2. good(vw[i + Len(v)])
      BY <1>3, <1>5, <3>1
    <3> QED BY <3>1, <3>2
  <2> QED BY <1>3, <2>1
<1>6. ASSUME Predicate(v), Predicate(w) PROVE Predicate(vw)
  <2>1. ASSUME NEW i \in 1..Len(v) + Len(w) PROVE good(vw[i])
    <3>1. CASE i <= Len(v)
      <4>1. i \in 1..Len(v) /\ vw[i] = v[i]
        BY <1>1, <3>1
      <4> QED BY <1>3, <1>6, <4>1
    <3>2. CASE ~ (i <= Len(v))
      <4>1. i - Len(v) \in 1..Len(w) /\ vw[i] = w[i - Len(v)]
        BY <1>1, <3>2
      <4> QED BY <1>3, <1>6, <4>1
    <3> QED BY <3>1, <3>2
  <2> QED BY <1>3, <2>1
<1>7. Predicate(vw) <=> Predicate(v) /\ Predicate(w)
  BY <1>4, <1>5, <1>6
<1> QED BY <1>7 DEF vw

LEMMA PredicateOfNothing == Predicate(<<>>)
BY DEF Predicate

-----------------------------------------------------------------------------
(* The elements of a range                                                 *)

Arrays == [Leaves -> Values]

TotalsFrom(f, e, l) ==
  /\ f[0] = <<>>
  /\ \A k \in 0..n - l - 1 : f[k + 1] = f[k] \o e[l + k]
  /\ \A r : Total(e, l, r) = f[r - l + 1]

LEMMA TotalIs ==
  ASSUME NEW e, NEW l \in 0..n
  PROVE  \E f : TotalsFrom(f, e, l)
<1> DEFINE m == n - l
           Right(f) == f = [k \in 0..m |-> IF k = 0 THEN <<>> ELSE f[k - 1] \o e[l + k - 1]]
           Grown(f, k) == f = [i \in 0..k |-> IF i = 0 THEN <<>> ELSE f[i - 1] \o e[l + i - 1]]
           S == {k \in 0..m : \E f : Grown(f, k)}
<1>1. m \in Nat /\ n \in Nat
  BY nNat
<1>2. 0 \in S
  <2> DEFINE f == [i \in 0..0 |-> <<>>]
  <2>1. f = [i \in 0..0 |-> IF i = 0 THEN <<>> ELSE f[i - 1] \o e[l + i - 1]]
    OBVIOUS
  <2>2. Grown(f, 0)
    BY <2>1
  <2> HIDE DEF f, Grown
  <2>3. 0 \in 0..m
    BY <1>1
  <2> QED BY <2>2, <2>3
<1>3. ASSUME NEW k \in 0..m - 1, k \in S PROVE k + 1 \in S
  <2> DEFINE turn(h, i) == IF i = 0 THEN <<>> ELSE h[i - 1] \o e[l + i - 1]
  <2>1. PICK f : f = [i \in 0..k |-> turn(f, i)]
    BY <1>3
  <2> DEFINE g == [i \in 0..k + 1 |-> IF i = k + 1 THEN f[k] \o e[l + k] ELSE f[i]]
  <2>2. \A i \in 0..k : f[i] = turn(f, i)
    <3> HIDE DEF turn
    <3> QED BY <2>1
  <2>3. ASSUME NEW i \in 0..k + 1 PROVE g[i] = turn(g, i)
    <3>1. CASE i = k + 1
      <4>1. i # 0 /\ i - 1 = k /\ k \in 0..k + 1 /\ k # k + 1 /\ l + i - 1 = l + k
        BY <1>1, <3>1
      <4>2. g[k] = f[k]
        BY <4>1
      <4> QED BY <3>1, <4>1, <4>2
    <3>2. CASE i # k + 1 /\ i = 0
      <4>1. g[i] = f[i] /\ i \in 0..k
        BY <3>2
      <4> QED BY <2>2, <3>2, <4>1
    <3>3. CASE i # k + 1 /\ i # 0
      <4>1. i \in 0..k /\ i - 1 \in 0..k + 1 /\ i - 1 # k + 1
        BY <3>3
      <4>2. g[i] = f[i] /\ g[i - 1] = f[i - 1]
        BY <3>3, <4>1
      <4> QED BY <2>2, <3>3, <4>1, <4>2
    <3> QED BY <3>1, <3>2, <3>3
  <2>4. g = [i \in 0..k + 1 |-> turn(g, i)]
    BY <2>3
  <2>5. Grown(g, k + 1)
    BY <2>4
  <2> HIDE DEF g, Grown
  <2>6. k + 1 \in 0..m
    BY <1>1
  <2> QED BY <2>5, <2>6
<1> HIDE DEF S
<1>4. m \in 0..m /\ \A k \in 0..m : k \in S
  <2> HIDE DEF m
  <2> QED BY <1>1, <1>2, <1>3, StepsTo
<1>5. PICK f : Right(f)
  BY <1>4 DEF S
<1> DEFINE F == CHOOSE g : Right(g)
<1>6. Right(F)
  <2> HIDE DEF Right
  <2> QED BY <1>5
<1>7. \A r : Total(e, l, r) = F[r - l + 1]
  BY DEF Total
<1> HIDE DEF F
<1>8. \A k \in 0..m : F[k] = IF k = 0 THEN <<>> ELSE F[k - 1] \o e[l + k - 1]
  <2>1. F = [k \in 0..m |-> IF k = 0 THEN <<>> ELSE F[k - 1] \o e[l + k - 1]]
    BY <1>6
  <2> QED BY <2>1
<1>9. ASSUME NEW k \in 0..n - l - 1 PROVE F[k + 1] = F[k] \o e[l + k]
  <2>1. k + 1 \in 0..m /\ k + 1 # 0 /\ (k + 1) - 1 = k /\ l + (k + 1) - 1 = l + k
    BY <1>1
  <2>2. F[k + 1] = F[(k + 1) - 1] \o e[l + (k + 1) - 1]
    BY <1>8, <2>1
  <2> QED BY <2>1, <2>2
<1>10. F[0] = <<>>
  <2>1. 0 \in 0..m
    BY <1>1
  <2> QED BY <1>8, <2>1
<1>11. TotalsFrom(F, e, l)
  BY <1>7, <1>9, <1>10 DEF TotalsFrom
<1> QED BY <1>11

LEMMA TotalNothing ==
  ASSUME NEW e, NEW l \in 0..n
  PROVE  Total(e, l, l - 1) = <<>>
<1>0. PICK f : TotalsFrom(f, e, l)
  BY TotalIs
<1>1. f[0] = <<>> /\ \A r : Total(e, l, r) = f[r - l + 1]
  BY <1>0 DEF TotalsFrom
<1>2. (l - 1) - l + 1 = 0
  BY nNat
<1>3. Total(e, l, l - 1) = f[(l - 1) - l + 1]
  BY <1>1
<1> QED BY <1>1, <1>2, <1>3

LEMMA TotalNext ==
  ASSUME NEW e, NEW l \in 0..n, NEW r \in l..n - 1
  PROVE  Total(e, l, r) = Total(e, l, r - 1) \o e[r]
<1>0. PICK f : TotalsFrom(f, e, l)
  BY TotalIs
<1>1. /\ \A k \in 0..n - l - 1 : f[k + 1] = f[k] \o e[l + k]
      /\ \A s : Total(e, l, s) = f[s - l + 1]
  BY <1>0 DEF TotalsFrom
<1> DEFINE k == r - l
<1>2. k \in 0..n - l - 1 /\ l + k = r /\ r - l + 1 = k + 1 /\ (r - 1) - l + 1 = k
  BY nNat
<1>3. Total(e, l, r) = f[r - l + 1] /\ Total(e, l, r - 1) = f[(r - 1) - l + 1]
  BY <1>1
<1>4. f[k + 1] = f[k] \o e[l + k]
  BY <1>1, <1>2
<1> HIDE DEF k
<1> QED BY <1>2, <1>3, <1>4

LEMMA TotalValue ==
  ASSUME NEW e \in Arrays, NEW l \in 0..n, NEW r \in l - 1..n - 1
  PROVE  Total(e, l, r) \in Values
<1> DEFINE m == n - l
           S == {k \in 0..m : Total(e, l, l - 1 + k) \in Values}
<1>1. m \in Nat /\ n \in Nat
  BY nNat
<1>2. 0 \in S
  <2>1. l - 1 + 0 = l - 1 /\ 0 \in 0..m
    BY <1>1
  <2>2. Total(e, l, l - 1) \in Values
    BY TotalNothing, EmptyValue
  <2> QED BY <2>1, <2>2
<1>3. ASSUME NEW k \in 0..m - 1, k \in S PROVE k + 1 \in S
  <2> DEFINE s == l - 1 + (k + 1)
  <2>1. s \in l..n - 1 /\ s - 1 = l - 1 + k /\ k + 1 \in 0..m /\ s \in Leaves
    BY <1>1 DEF Leaves
  <2>2. Total(e, l, s - 1) \in Values /\ e[s] \in Values
    BY <1>3, <2>1 DEF Arrays
  <2> HIDE DEF s
  <2>3. Total(e, l, s) = Total(e, l, s - 1) \o e[s]
    BY <2>1, TotalNext
  <2>4. Total(e, l, s) \in Values
    BY <2>2, <2>3, ConcatValues
  <2> QED BY <2>1, <2>4 DEF s
<1> HIDE DEF S
<1>4. \A k \in 0..m : k \in S
  <2> HIDE DEF m
  <2> QED BY <1>1, <1>2, <1>3, StepsTo
<1>5. r - (l - 1) \in 0..m /\ l - 1 + (r - (l - 1)) = r
  BY <1>1
<1>6. r - (l - 1) \in S
  BY <1>4, <1>5
<1> QED BY <1>5, <1>6 DEF S

LEMMA TotalOne ==
  ASSUME NEW e \in Arrays, NEW k \in Leaves
  PROVE  Total(e, k, k) = e[k]
<1>1. k \in 0..n /\ k \in k..n - 1 /\ e[k] \in Values
  BY nNat DEF Leaves, Arrays
<1>2. Total(e, k, k) = Total(e, k, k - 1) \o e[k]
  BY <1>1, TotalNext
<1>3. Total(e, k, k - 1) = <<>>
  BY <1>1, TotalNothing
<1> QED BY <1>1, <1>2, <1>3, EmptyValue

LEMMA JoinValues ==
  ASSUME NEW s \in Values, NEW t \in Values, NEW u \in Values
  PROVE  (s \o t) \o u = s \o (t \o u)
BY ConcatAssociative DEF Values

LEMMA TotalJoin ==
  ASSUME NEW e \in Arrays, NEW l \in 0..n, NEW m \in l..n, NEW r \in m - 1..n - 1
  PROVE  Total(e, l, m - 1) \o Total(e, m, r) = Total(e, l, r)
<1> DEFINE d == n - m
           S == {k \in 0..d : Total(e, l, m - 1) \o Total(e, m, m - 1 + k) = Total(e, l, m - 1 + k)}
<1>1. d \in Nat /\ n \in Nat /\ m \in 0..n /\ m - 1 \in l - 1..n - 1
  BY nNat
<1>2. Total(e, l, m - 1) \in Values
  BY <1>1, TotalValue
<1>3. 0 \in S
  <2>1. m - 1 + 0 = m - 1 /\ 0 \in 0..d
    BY <1>1
  <2>2. Total(e, m, m - 1) = <<>>
    BY <1>1, TotalNothing
  <2>3. Total(e, l, m - 1) \o Total(e, m, m - 1) = Total(e, l, m - 1)
    BY <1>2, <2>2, EmptyValue
  <2> QED BY <2>1, <2>3
<1>4. ASSUME NEW k \in 0..d - 1, k \in S PROVE k + 1 \in S
  <2> DEFINE s == m - 1 + (k + 1)
  <2>1. s \in l..n - 1 /\ s \in m..n - 1 /\ s - 1 = m - 1 + k /\ k + 1 \in 0..d /\ s \in Leaves
        /\ s - 1 \in m - 1..n - 1
    BY <1>1 DEF Leaves
  <2>2. Total(e, l, m - 1) \o Total(e, m, s - 1) = Total(e, l, s - 1) /\ e[s] \in Values
    BY <1>4, <2>1 DEF Arrays
  <2> HIDE DEF s
  <2>3. Total(e, l, s) = Total(e, l, s - 1) \o e[s]
    BY <2>1, TotalNext
  <2>4. Total(e, m, s) = Total(e, m, s - 1) \o e[s]
    BY <1>1, <2>1, TotalNext
  <2>5. Total(e, m, s - 1) \in Values
    BY <1>1, <2>1, TotalValue
  <2>6. (Total(e, l, m - 1) \o Total(e, m, s - 1)) \o e[s] = Total(e, l, m - 1) \o (Total(e, m, s - 1) \o e[s])
    BY <1>2, <2>2, <2>5, JoinValues
  <2>7. Total(e, l, m - 1) \o Total(e, m, s) = Total(e, l, s)
    BY <2>2, <2>3, <2>4, <2>6
  <2> QED BY <2>1, <2>7 DEF s
<1> HIDE DEF S
<1>5. \A k \in 0..d : k \in S
  <2> HIDE DEF d
  <2> QED BY <1>1, <1>3, <1>4, StepsTo
<1>6. r - (m - 1) \in 0..d /\ m - 1 + (r - (m - 1)) = r
  BY <1>1
<1>7. r - (m - 1) \in S
  BY <1>5, <1>6
<1> QED BY <1>6, <1>7 DEF S

-----------------------------------------------------------------------------
(* Arrays of nodes                                                         *)

Trees == [Nodes -> [value : Values, update : Updates]]

\* What is pending for a node, in it or above it.
IsOwed(a, owed) ==
  /\ owed \in [Nodes -> Updates]
  /\ owed[1] = a[1].update
  /\ \A y \in Nodes : y # 1 => owed[y] = a[y].update \o owed[y \div 2]

\* What is pending above node y.
Rest(owed, y) == IF y = 1 THEN <<>> ELSE owed[y \div 2]

Joined(a, y) == a[y].value = Merge(Seen(a, 2 * y), Seen(a, 2 * y + 1))

\* The tree stands for the array target; values are out of date only at the
\* nodes of stale.
StandsFor(a, owed, stale, target) ==
  /\ \A y \in 1..n - 1 : y \notin stale => Joined(a, y)
  /\ \A y \in n..2 * n - 1 : ApplyUpdate(owed[y], a[y].value) = target[y - n]

LEMMA NodeNumbers ==
  /\ \A y \in 1..n - 1 : y \in Nodes /\ 2 * y \in Nodes /\ 2 * y + 1 \in Nodes
  /\ \A y \in n..2 * n - 1 : y \in Nodes /\ y - n \in Leaves
  /\ \A y \in Nodes : /\ y \in Int /\ y >= 1
                      /\ y # 1 => y \div 2 \in Nodes /\ y \div 2 \in 1..n - 1 /\ y \div 2 < y
  /\ 1 \in Nodes
BY nNat DEF Nodes, Leaves

LEMMA NodeIs ==
  ASSUME NEW a \in Trees, NEW y \in Nodes
  PROVE  a[y].value \in Values /\ a[y].update \in Updates /\ Seen(a, y) \in Values
<1>1. a[y].value \in Values /\ a[y].update \in Updates
  BY DEF Trees
<1>2. ApplyUpdate(a[y].update, a[y].value) \in Values
  BY <1>1, ApplyIs
<1> QED BY <1>1, <1>2 DEF Seen

LEMMA OwedIsRest ==
  ASSUME NEW a \in Trees, NEW owed, IsOwed(a, owed), NEW y \in Nodes
  PROVE  /\ owed[y] = a[y].update \o Rest(owed, y)
         /\ owed[y] \in Updates /\ Rest(owed, y) \in Updates /\ a[y].update \in Updates
<1>1. owed \in [Nodes -> Updates] /\ a[y].update \in Updates
  BY NodeIs DEF IsOwed
<1>2. CASE y = 1
  <2>1. Rest(owed, y) = <<>> /\ owed[y] = a[y].update
    BY <1>2 DEF Rest, IsOwed
  <2> QED BY <1>1, <2>1, EmptyUpdate
<1>3. CASE y # 1
  <2>1. Rest(owed, y) = owed[y \div 2] /\ owed[y] = a[y].update \o owed[y \div 2]
    BY <1>3 DEF Rest, IsOwed
  <2>2. owed[y \div 2] \in Updates /\ owed[y] \in Updates
    BY <1>1, <1>3, NodeNumbers
  <2> QED BY <1>1, <2>1, <2>2
<1> QED BY <1>2, <1>3

\* The change that pushing down x makes to what is owed.
Cleared(owed, x) == [owed EXCEPT ![x] = Rest(owed, x)]

\* b is a after PushDown at x.
Pushed(a, b, x) ==
  /\ b[x].value = Seen(a, x) /\ b[x].update = <<>>
  /\ \A c \in {2 * x, 2 * x + 1} : b[c].value = a[c].value /\ b[c].update = a[c].update \o a[x].update
  /\ \A y \in Nodes : y \notin {x, 2 * x, 2 * x + 1} => b[y] = a[y]

LEMMA PushDownIs ==
  ASSUME NEW a \in Trees, NEW x \in 1..n - 1
  PROVE  PushDown(a, x) \in Trees /\ Pushed(a, PushDown(a, x), x)
<1> DEFINE u == a[x].update
           low == [value |-> Seen(a, x), update |-> <<>>]
           b1 == [a EXCEPT ![x] = low]
           b2 == [b1 EXCEPT ![2 * x].update = Push(u, a[2 * x].update)]
           b3 == [b2 EXCEPT ![2 * x + 1].update = Push(u, a[2 * x + 1].update)]
<1>1. PushDown(a, x) = b3
  BY DEF PushDown, ZeroUpdate
<1>2. x \in Nodes /\ 2 * x \in Nodes /\ 2 * x + 1 \in Nodes /\ x # 2 * x /\ x # 2 * x + 1 /\ 2 * x # 2 * x + 1
  BY nNat, NodeNumbers
<1>3. a \in [Nodes -> [value : Values, update : Updates]]
  BY DEF Trees
<1>4. u \in Updates /\ a[2 * x].update \in Updates /\ a[2 * x + 1].update \in Updates /\ Seen(a, x) \in Values
  BY <1>2, NodeIs
<1>5. \A w \in Updates : Push(u, w) = w \o u /\ w \o u \in Updates
  <2> HIDE DEF u
  <2> QED BY <1>4, ConcatUpdates
<1>6. low \in [value : Values, update : Updates] /\ low.value = Seen(a, x) /\ low.update = <<>>
  BY <1>4, EmptyUpdate
<1> HIDE DEF low, u
<1>7. b1 \in Trees /\ b1[x] = low /\ \A y \in Nodes : y # x => b1[y] = a[y]
  BY <1>2, <1>3, <1>6 DEF Trees
<1> HIDE DEF b1
<1>8. b2 \in Trees /\ b2[2 * x].value = a[2 * x].value /\ b2[2 * x].update = a[2 * x].update \o u
      /\ \A y \in Nodes : y # 2 * x => b2[y] = b1[y]
  BY <1>2, <1>4, <1>5, <1>7 DEF Trees
<1> HIDE DEF b2
<1>0. b2[2 * x + 1].value = a[2 * x + 1].value /\ Push(u, a[2 * x + 1].update) = a[2 * x + 1].update \o u
      /\ a[2 * x + 1].update \o u \in Updates
  BY <1>2, <1>4, <1>5, <1>7, <1>8
<1>9. b3 \in Trees /\ b3[2 * x + 1].value = a[2 * x + 1].value /\ b3[2 * x + 1].update = a[2 * x + 1].update \o u
      /\ \A y \in Nodes : y # 2 * x + 1 => b3[y] = b2[y]
  BY <1>0, <1>2, <1>8 DEF Trees
<1> HIDE DEF b3
<1>10. Pushed(a, b3, x)
  <2>1. b3[x] = low
    BY <1>2, <1>7, <1>8, <1>9
  <2>2. b3[2 * x].value = a[2 * x].value /\ b3[2 * x].update = a[2 * x].update \o u
    BY <1>2, <1>8, <1>9
  <2>3. \A y \in Nodes : y \notin {x, 2 * x, 2 * x + 1} => b3[y] = a[y]
    BY <1>7, <1>8, <1>9
  <2> QED BY <1>6, <1>9, <2>1, <2>2, <2>3 DEF Pushed, u
<1> QED BY <1>1, <1>9, <1>10

LEMMA PushDownSeen ==
  ASSUME NEW a \in Trees, NEW b \in Trees, NEW x \in 1..n - 1, Pushed(a, b, x)
  PROVE  \A y \in Nodes : Seen(b, y) = IF y \in {2 * x, 2 * x + 1} THEN ApplyUpdate(a[x].update, Seen(a, y))
                                       ELSE Seen(a, y)
<1>1. x \in Nodes /\ 2 * x \in Nodes /\ 2 * x + 1 \in Nodes /\ x # 2 * x /\ x # 2 * x + 1
  BY nNat, NodeNumbers
<1>2. ASSUME NEW y \in {2 * x, 2 * x + 1} PROVE Seen(b, y) = ApplyUpdate(a[x].update, Seen(a, y))
  <2>1. y \in Nodes /\ b[y].value = a[y].value /\ b[y].update = a[y].update \o a[x].update
    BY <1>1 DEF Pushed
  <2>2. a[x].update \in Updates /\ a[y].update \in Updates /\ a[y].value \in Values
    BY <1>1, <2>1, NodeIs
  <2>3. ApplyUpdate(a[x].update, ApplyUpdate(a[y].update, a[y].value)) = ApplyUpdate(a[y].update \o a[x].update, a[y].value)
    BY <2>2, ApplyTwo
  <2> QED BY <2>1, <2>3 DEF Seen
<1>3. Seen(b, x) = Seen(a, x)
  <2>1. b[x].value = Seen(a, x) /\ b[x].update = <<>> /\ Seen(a, x) \in Values
    BY <1>1, NodeIs DEF Pushed
  <2>2. ApplyUpdate(<<>>, Seen(a, x)) = Seen(a, x)
    BY <2>1, ApplyNothing
  <2> QED BY <2>1, <2>2 DEF Seen
<1>4. ASSUME NEW y \in Nodes, y \notin {x, 2 * x, 2 * x + 1} PROVE Seen(b, y) = Seen(a, y)
  <2>1. b[y] = a[y]
    BY <1>4 DEF Pushed
  <2> QED BY <2>1 DEF Seen
<1> QED BY <1>1, <1>2, <1>3, <1>4

LEMMA PushDownOwed ==
  ASSUME NEW a \in Trees, NEW b \in Trees, NEW x \in 1..n - 1, Pushed(a, b, x),
         NEW owed, IsOwed(a, owed)
  PROVE  IsOwed(b, Cleared(owed, x))
<1> DEFINE o == Cleared(owed, x)
<1>1. x \in Nodes /\ 1 \in Nodes /\ x \in Int /\ x >= 1 /\ 2 * x # 1 /\ 2 * x + 1 # 1
  BY nNat, NodeNumbers
<1>2. owed \in [Nodes -> Updates]
  BY DEF IsOwed
<1>3. Rest(owed, x) \in Updates /\ owed[x] = a[x].update \o Rest(owed, x) /\ a[x].update \in Updates
  BY <1>1, OwedIsRest
<1>4. o \in [Nodes -> Updates] /\ o[x] = Rest(owed, x) /\ \A y \in Nodes : y # x => o[y] = owed[y]
  BY <1>1, <1>2, <1>3 DEF Cleared
<1> HIDE DEF o
<1>5. o[1] = b[1].update
  <2>1. CASE x = 1
    BY <1>4, <2>1 DEF Rest, Pushed
  <2>2. CASE x # 1
    <3>1. o[1] = owed[1] /\ owed[1] = a[1].update /\ b[1] = a[1]
      BY <1>1, <1>4, <2>2 DEF IsOwed, Pushed
    <3> QED BY <3>1
  <2> QED BY <2>1, <2>2
<1>6. ASSUME NEW y \in Nodes, y # 1 PROVE o[y] = b[y].update \o o[y \div 2]
  <2>1. y \div 2 \in Nodes /\ y \div 2 < y /\ y \in Int
    BY <1>6, NodeNumbers
  <2>2. owed[y] = a[y].update \o owed[y \div 2] /\ a[y].update \in Updates
    BY <1>6, NodeIs DEF IsOwed
  <2>3. CASE y = x
    <3>1. o[y] = owed[y \div 2] /\ o[y \div 2] = owed[y \div 2] /\ b[y].update = <<>>
      BY <1>4, <1>6, <2>1, <2>3 DEF Rest, Pushed
    <3>2. owed[y \div 2] \in Updates
      BY <1>2, <2>1
    <3> QED BY <3>1, <3>2, EmptyUpdate
  <2>4. CASE y \in {2 * x, 2 * x + 1}
    <3>1. y \div 2 = x /\ y # x
      BY <1>1, <2>4
    <3>2. o[y] = owed[y] /\ o[y \div 2] = Rest(owed, x) /\ b[y].update = a[y].update \o a[x].update
      BY <1>4, <2>4, <3>1 DEF Pushed
    <3>3. owed[y] = a[y].update \o (a[x].update \o Rest(owed, x))
      BY <1>3, <2>2, <3>1
    <3>4. (a[y].update \o a[x].update) \o Rest(owed, x) = a[y].update \o (a[x].update \o Rest(owed, x))
      BY <1>3, <2>2, JoinUpdates
    <3> QED BY <3>2, <3>3, <3>4
  <2>5. CASE y \notin {x, 2 * x, 2 * x + 1}
    <3>1. y \div 2 # x
      BY <1>1, <2>1, <2>5
    <3>2. o[y] = owed[y] /\ o[y \div 2] = owed[y \div 2] /\ b[y] = a[y]
      BY <1>4, <2>1, <2>5, <3>1 DEF Pushed
    <3> QED BY <2>2, <3>2
  <2> QED BY <2>3, <2>4, <2>5
<1>7. IsOwed(b, o)
  BY <1>4, <1>5, <1>6 DEF IsOwed
<1> QED BY <1>7 DEF o

LEMMA PushDownStandsFor ==
  ASSUME NEW a \in Trees, NEW b \in Trees, NEW x \in 1..n - 1, Pushed(a, b, x),
         NEW owed, IsOwed(a, owed), NEW target, StandsFor(a, owed, {}, target)
  PROVE  StandsFor(b, Cleared(owed, x), {}, target)
<1>1. x \in Nodes /\ 2 * x \in Nodes /\ 2 * x + 1 \in Nodes /\ x \in Int /\ x >= 1
  BY nNat, NodeNumbers
<1>2. \A y \in Nodes : y # x => Cleared(owed, x)[y] = owed[y]
  BY DEF Cleared, IsOwed
<1>3. ASSUME NEW y \in 1..n - 1 PROVE Joined(b, y)
  <2>1. y \in Nodes /\ 2 * y \in Nodes /\ 2 * y + 1 \in Nodes /\ y \in Int /\ y >= 1
    BY nNat, NodeNumbers
  <2>2. a[y].value = Merge(Seen(a, 2 * y), Seen(a, 2 * y + 1))
    BY DEF StandsFor, Joined
  <2>3. CASE y = x
    <3> DEFINE u == a[x].update
               s == Seen(a, 2 * x)
               t == Seen(a, 2 * x + 1)
    <3>1. b[x].value = ApplyUpdate(u, a[x].value) /\ a[x].value = Merge(s, t)
      BY <2>2, <2>3 DEF Pushed, Seen
    <3>2. Seen(b, 2 * x) = ApplyUpdate(u, s) /\ Seen(b, 2 * x + 1) = ApplyUpdate(u, t)
      BY <1>1, PushDownSeen
    <3>3. u \in Updates /\ s \in Values /\ t \in Values
      BY <1>1, NodeIs
    <3> HIDE DEF u, s, t
    <3>4. ApplyUpdate(u, s) \in Values /\ ApplyUpdate(u, t) \in Values
      BY <3>3, ApplyIs
    <3>5. Merge(s, t) = s \o t /\ Merge(ApplyUpdate(u, s), ApplyUpdate(u, t)) = ApplyUpdate(u, s) \o ApplyUpdate(u, t)
      BY DEF Merge
    <3>6. ApplyUpdate(u, s \o t) = ApplyUpdate(u, s) \o ApplyUpdate(u, t)
      BY <3>3, ApplyToBoth
    <3>7. b[x].value = Merge(Seen(b, 2 * x), Seen(b, 2 * x + 1))
      BY <3>1, <3>2, <3>5, <3>6
    <3> QED BY <2>3, <3>7 DEF Joined
  <2>4. CASE y # x
    <3>1. b[y].value = a[y].value
      BY <2>1, <2>4 DEF Pushed
    <3>2. 2 * y \notin {2 * x, 2 * x + 1} /\ 2 * y + 1 \notin {2 * x, 2 * x + 1}
      BY <1>1, <2>1, <2>4
    <3>3. Seen(b, 2 * y) = Seen(a, 2 * y) /\ Seen(b, 2 * y + 1) = Seen(a, 2 * y + 1)
      BY <2>1, <3>2, PushDownSeen
    <3> QED BY <2>2, <3>1, <3>3 DEF Joined
  <2> QED BY <2>3, <2>4
<1>4. ASSUME NEW y \in n..2 * n - 1 PROVE ApplyUpdate(Cleared(owed, x)[y], b[y].value) = target[y - n]
  <2>1. y \in Nodes /\ y # x
    BY nNat, NodeNumbers
  <2>2. Cleared(owed, x)[y] = owed[y] /\ b[y].value = a[y].value
    BY <1>2, <2>1 DEF Pushed
  <2>3. ApplyUpdate(owed[y], a[y].value) = target[y - n]
    BY DEF StandsFor
  <2> QED BY <2>2, <2>3
<1> QED BY <1>3, <1>4 DEF StandsFor

\* b is a but for node x.
Replaced(a, b, x, value, update) ==
  /\ b[x].value = value /\ b[x].update = update
  /\ \A y \in Nodes : y # x => b[y] = a[y]

LEMMA ReplacedSeen ==
  ASSUME NEW a, NEW b, NEW x, NEW v, NEW u, Replaced(a, b, x, v, u)
  PROVE  \A y \in Nodes : y # x => Seen(b, y) = Seen(a, y)
BY DEF Replaced, Seen

LEMMA SettleIs ==
  ASSUME NEW a \in Trees, NEW x \in Nodes
  PROVE  Settle(a, x) \in Trees /\ Replaced(a, Settle(a, x), x, Seen(a, x), <<>>)
<1>1. Seen(a, x) \in Values /\ <<>> \in Updates
  BY NodeIs, EmptyUpdate
<1>2. a \in [Nodes -> [value : Values, update : Updates]]
  BY DEF Trees
<1> QED BY <1>1, <1>2 DEF Settle, ZeroUpdate, Replaced, Trees

LEMMA SettleOwed ==
  ASSUME NEW a \in Trees, NEW b \in Trees, NEW x \in n..2 * n - 1,
         Replaced(a, b, x, Seen(a, x), <<>>), NEW owed, IsOwed(a, owed)
  PROVE  IsOwed(b, Cleared(owed, x))
<1> DEFINE o == Cleared(owed, x)
<1>1. x \in Nodes /\ 1 \in Nodes
  BY NodeNumbers
<1>2. owed \in [Nodes -> Updates]
  BY DEF IsOwed
<1>3. Rest(owed, x) \in Updates
  BY <1>1, OwedIsRest
<1>4. o \in [Nodes -> Updates] /\ o[x] = Rest(owed, x) /\ \A y \in Nodes : y # x => o[y] = owed[y]
  BY <1>1, <1>2, <1>3 DEF Cleared
<1> HIDE DEF o
<1>5. o[1] = b[1].update
  <2>1. CASE x = 1
    BY <1>4, <2>1 DEF Rest, Replaced
  <2>2. CASE x # 1
    <3>1. o[1] = owed[1] /\ owed[1] = a[1].update /\ b[1] = a[1]
      BY <1>1, <1>4, <2>2 DEF IsOwed, Replaced
    <3> QED BY <3>1
  <2> QED BY <2>1, <2>2
<1>6. ASSUME NEW y \in Nodes, y # 1 PROVE o[y] = b[y].update \o o[y \div 2]
  <2>1. y \div 2 \in Nodes /\ y \div 2 # x
    BY <1>6, nNat, NodeNumbers
  <2>2. o[y \div 2] = owed[y \div 2] /\ owed[y \div 2] \in Updates
    BY <1>2, <1>4, <2>1
  <2>3. CASE y = x
    <3>1. o[y] = owed[y \div 2] /\ b[y].update = <<>>
      BY <1>4, <1>6, <2>3 DEF Rest, Replaced
    <3> QED BY <2>2, <3>1, EmptyUpdate
  <2>4. CASE y # x
    <3>1. o[y] = owed[y] /\ b[y] = a[y] /\ owed[y] = a[y].update \o owed[y \div 2]
      BY <1>4, <1>6, <2>4 DEF Replaced, IsOwed
    <3> QED BY <2>2, <3>1
  <2> QED BY <2>3, <2>4
<1>7. IsOwed(b, o)
  BY <1>4, <1>5, <1>6 DEF IsOwed
<1> QED BY <1>7 DEF o

LEMMA SettleStandsFor ==
  ASSUME NEW a \in Trees, NEW b \in Trees, NEW x \in n..2 * n - 1,
         Replaced(a, b, x, Seen(a, x), <<>>), NEW owed, IsOwed(a, owed),
         NEW target, StandsFor(a, owed, {}, target)
  PROVE  StandsFor(b, Cleared(owed, x), {}, target)
<1>1. x \in Nodes
  BY NodeNumbers
<1>2. Cleared(owed, x)[x] = Rest(owed, x) /\ \A y \in Nodes : y # x => Cleared(owed, x)[y] = owed[y]
  BY <1>1 DEF Cleared, IsOwed
<1>3. \A y \in Nodes : Seen(b, y) = Seen(a, y)
  <2>1. Seen(b, x) = Seen(a, x)
    <3>1. ApplyUpdate(<<>>, Seen(a, x)) = Seen(a, x)
      BY <1>1, NodeIs, ApplyNothing
    <3> QED BY <3>1 DEF Replaced, Seen
  <2> QED BY <2>1, ReplacedSeen
<1>4. ASSUME NEW y \in 1..n - 1 PROVE Joined(b, y)
  <2>1. y \in Nodes /\ 2 * y \in Nodes /\ 2 * y + 1 \in Nodes /\ y # x
    BY nNat, NodeNumbers
  <2>2. b[y] = a[y] /\ Joined(a, y)
    BY <2>1 DEF Replaced, StandsFor
  <2> QED BY <1>3, <2>1, <2>2 DEF Joined
<1>5. ASSUME NEW y \in n..2 * n - 1 PROVE ApplyUpdate(Cleared(owed, x)[y], b[y].value) = target[y - n]
  <2>1. y \in Nodes /\ ApplyUpdate(owed[y], a[y].value) = target[y - n]
    BY NodeNumbers DEF StandsFor
  <2>2. CASE y # x
    BY <1>2, <2>1, <2>2 DEF Replaced
  <2>3. CASE y = x
    <3>1. owed[x] = a[x].update \o Rest(owed, x) /\ Rest(owed, x) \in Updates /\ a[x].update \in Updates
          /\ a[x].value \in Values
      BY <1>1, OwedIsRest, NodeIs
    <3>2. ApplyUpdate(Rest(owed, x), ApplyUpdate(a[x].update, a[x].value)) = ApplyUpdate(owed[x], a[x].value)
      BY <3>1, ApplyTwo
    <3>3. b[x].value = ApplyUpdate(a[x].update, a[x].value)
      BY DEF Replaced, Seen
    <3> QED BY <1>2, <2>1, <2>3, <3>2, <3>3
  <2> QED BY <2>2, <2>3
<1> QED BY <1>4, <1>5 DEF StandsFor

LEMMA SameOwed ==
  ASSUME NEW a, NEW b, \A y \in Nodes : b[y].update = a[y].update, NEW owed, IsOwed(a, owed)
  PROVE  IsOwed(b, owed)
BY NodeNumbers DEF IsOwed

LEMMA RecomputeIs ==
  ASSUME NEW a \in Trees, NEW x \in 1..n - 1
  PROVE  /\ Recompute(a, x) \in Trees
         /\ Replaced(a, Recompute(a, x), x, Merge(Seen(a, 2 * x), Seen(a, 2 * x + 1)), a[x].update)
         /\ \A y \in Nodes : Recompute(a, x)[y].update = a[y].update
<1> DEFINE w == Merge(Seen(a, 2 * x), Seen(a, 2 * x + 1))
<1>1. x \in Nodes /\ 2 * x \in Nodes /\ 2 * x + 1 \in Nodes
  BY NodeNumbers
<1>2. Seen(a, 2 * x) \in Values /\ Seen(a, 2 * x + 1) \in Values
  BY <1>1, NodeIs
<1>3. w \in Values
  BY <1>2, ConcatValues
<1>4. Recompute(a, x) = [a EXCEPT ![x].value = w]
  BY DEF Recompute
<1>5. a \in [Nodes -> [value : Values, update : Updates]]
  BY DEF Trees
<1> HIDE DEF w
<1> DEFINE b == [a EXCEPT ![x].value = w]
<1>6. b \in Trees
  BY <1>1, <1>3, <1>5 DEF Trees
<1>7. Replaced(a, b, x, w, a[x].update)
  BY <1>1, <1>3, <1>5 DEF Replaced
<1>8. \A y \in Nodes : b[y].update = a[y].update
  BY <1>1, <1>3, <1>5
<1> QED BY <1>4, <1>6, <1>7, <1>8 DEF w

LEMMA RecomputeStandsFor ==
  ASSUME NEW a \in Trees, NEW b \in Trees, NEW x \in 1..n - 1,
         Replaced(a, b, x, Merge(Seen(a, 2 * x), Seen(a, 2 * x + 1)), a[x].update),
         NEW owed, NEW target, NEW stale, StandsFor(a, owed, stale, target),
         NEW later, \A y \in stale : y \in later \/ y = x, x # 1 => x \div 2 \in later
  PROVE  StandsFor(b, owed, later, target)
<1>1. x \in Nodes /\ x \in Int /\ x >= 1
  BY NodeNumbers
<1>2. \A y \in Nodes : y # x => Seen(b, y) = Seen(a, y)
  BY ReplacedSeen
<1>3. ASSUME NEW y \in 1..n - 1, y \notin later PROVE Joined(b, y)
  <2>1. y \in Nodes /\ 2 * y \in Nodes /\ 2 * y + 1 \in Nodes /\ y \in Int /\ y >= 1
    BY NodeNumbers
  <2>2. 2 * y # x /\ 2 * y + 1 # x
    <3> SUFFICES ASSUME 2 * y = x \/ 2 * y + 1 = x PROVE FALSE
      OBVIOUS
    <3>1. x # 1 /\ x \div 2 = y
      BY <2>1
    <3> QED BY <1>3, <3>1
  <2>3. Seen(b, 2 * y) = Seen(a, 2 * y) /\ Seen(b, 2 * y + 1) = Seen(a, 2 * y + 1)
    BY <1>2, <2>1, <2>2
  <2>4. CASE y = x
    BY <2>3, <2>4 DEF Joined, Replaced
  <2>5. CASE y # x
    <3>1. Joined(a, y) /\ b[y] = a[y]
      BY <1>3, <2>1, <2>5 DEF StandsFor, Replaced
    <3> QED BY <2>3, <3>1 DEF Joined
  <2> QED BY <2>4, <2>5
<1>4. ASSUME NEW y \in n..2 * n - 1 PROVE ApplyUpdate(owed[y], b[y].value) = target[y - n]
  <2>1. y \in Nodes /\ y # x
    BY nNat, NodeNumbers
  <2> QED BY <2>1 DEF StandsFor, Replaced
<1> QED BY <1>3, <1>4 DEF StandsFor

LEMMA FreshIs == Fresh \in Values /\ ApplyUpdate(<<>>, Fresh) = Fresh
<1>1. <<>> \in Updates
  BY EmptyUpdate
<1>2. Fresh \in Values
  BY <1>1 DEF Fresh, Values, Updates
<1> QED BY <1>2, ApplyNothing

LEMMA NothingOwed ==
  ASSUME NEW a \in Trees, NEW owed, IsOwed(a, owed), NEW x \in Nodes, owed[x] = <<>>
  PROVE  a[x].update = <<>> /\ Rest(owed, x) = <<>>
<1>1. a[x].update \in Updates /\ Rest(owed, x) \in Updates /\ a[x].update \o Rest(owed, x) = <<>>
  BY OwedIsRest
<1> QED BY <1>1, ConcatEqualIffEmpty DEF Updates

\* SetLeaf: what is pending for the leaf is nothing.
LEMMA SetLeafIs ==
  ASSUME NEW a \in Trees, NEW x \in n..2 * n - 1, NEW owed, IsOwed(a, owed), owed[x] = <<>>,
         NEW b, b = [a EXCEPT ![x] = [value |-> Fresh, update |-> ZeroUpdate]]
  PROVE  b \in Trees /\ IsOwed(b, owed) /\ Replaced(a, b, x, Fresh, <<>>)
<1>1. x \in Nodes /\ Fresh \in Values /\ <<>> \in Updates /\ a[x].update = <<>>
  BY NodeNumbers, FreshIs, EmptyUpdate, NothingOwed
<1>2. a \in [Nodes -> [value : Values, update : Updates]]
  BY DEF Trees
<1>3. b \in Trees /\ Replaced(a, b, x, Fresh, <<>>)
  BY <1>1, <1>2 DEF Trees, Replaced, ZeroUpdate
<1>4. \A y \in Nodes : b[y].update = a[y].update
  BY <1>1, <1>3 DEF Replaced
<1>5. IsOwed(b, owed)
  BY <1>4, SameOwed
<1> QED BY <1>3, <1>5

\* new is target with a fresh element at k.
Renewed(new, target, k) == new[k] = Fresh /\ \A q \in Leaves : q # k => new[q] = target[q]

LEMMA SetLeafStandsFor ==
  ASSUME NEW a \in Trees, NEW b \in Trees, NEW x \in n..2 * n - 1, Replaced(a, b, x, Fresh, <<>>),
         NEW owed, owed[x] = <<>>, NEW target, StandsFor(a, owed, {}, target),
         NEW stale, x # 1 => x \div 2 \in stale,
         NEW new, Renewed(new, target, x - n)
  PROVE  StandsFor(b, owed, stale, new)
<1>1. x \in Nodes /\ x \in Int /\ x >= 1 /\ n \in Nat
  BY nNat, NodeNumbers
<1>2. \A y \in Nodes : y # x => Seen(b, y) = Seen(a, y)
  BY ReplacedSeen
<1>3. ASSUME NEW y \in 1..n - 1, y \notin stale PROVE Joined(b, y)
  <2>1. y \in Nodes /\ 2 * y \in Nodes /\ 2 * y + 1 \in Nodes /\ y \in Int /\ y >= 1 /\ y # x
    BY nNat, NodeNumbers
  <2>2. 2 * y # x /\ 2 * y + 1 # x
    <3> SUFFICES ASSUME 2 * y = x \/ 2 * y + 1 = x PROVE FALSE
      OBVIOUS
    <3>1. x # 1 /\ x \div 2 = y
      BY <2>1
    <3> QED BY <1>3, <3>1
  <2>3. Seen(b, 2 * y) = Seen(a, 2 * y) /\ Seen(b, 2 * y + 1) = Seen(a, 2 * y + 1)
    BY <1>2, <2>1, <2>2
  <2>4. Joined(a, y) /\ b[y] = a[y]
    BY <1>3, <2>1 DEF StandsFor, Replaced
  <2> QED BY <2>3, <2>4 DEF Joined
<1>4. ASSUME NEW y \in n..2 * n - 1 PROVE ApplyUpdate(owed[y], b[y].value) = new[y - n]
  <2>1. y \in Nodes /\ y - n \in Leaves
    BY NodeNumbers
  <2>2. CASE y = x
    BY <2>2, FreshIs DEF Replaced, Renewed
  <2>3. CASE y # x
    <3>1. y - n # x - n /\ b[y] = a[y]
      BY <1>1, <2>1, <2>3 DEF Replaced
    <3> QED BY <2>1, <3>1 DEF StandsFor, Renewed
  <2> QED BY <2>2, <2>3
<1> QED BY <1>3, <1>4 DEF StandsFor

-----------------------------------------------------------------------------
(* Marking the nodes of a set: everything at or below them gets the update *)

\* low is the set of the nodes at or below those of s.
IsBelow(low, s) == low \in SUBSET Nodes /\ \A y \in Nodes : y \in low <=> (y \in s \/ (y # 1 /\ y \div 2 \in low))

LEMMA BelowExists ==
  ASSUME NEW s
  PROVE  \E low : IsBelow(low, s)
<1> DEFINE m == 2 * n - 1
           Good(low, k) == low \in SUBSET (1..k)
                           /\ \A y \in 1..k : y \in low <=> (y \in s \/ (y # 1 /\ y \div 2 \in low))
           S == {k \in 0..m : \E low : Good(low, k)}
<1>1. m \in Nat
  BY nNat
<1>2. 0 \in S
  <2>1. Good({}, 0)
    OBVIOUS
  <2>2. 0 \in 0..m
    BY <1>1
  <2> HIDE DEF Good
  <2> QED BY <2>1, <2>2
<1>3. ASSUME NEW k \in 0..m - 1, k \in S PROVE k + 1 \in S
  <2>1. PICK low : Good(low, k)
    BY <1>3
  <2> DEFINE x == k + 1
             new == IF x \in s \/ (x # 1 /\ x \div 2 \in low) THEN low \cup {x} ELSE low
  <2>2. x \in 0..m /\ x \in Nat /\ x >= 1
    BY <1>1
  <2>3. low \in SUBSET (1..k) /\ x \notin low
    BY <2>1
  <2>4. new \in SUBSET (1..x) /\ \A y \in 1..k : y \in new <=> y \in low
    BY <2>3
  <2>5. ASSUME NEW y \in 1..x PROVE y \in new <=> (y \in s \/ (y # 1 /\ y \div 2 \in new))
    <3>1. y # 1 => y \div 2 \in 1..k
      BY <2>2
    <3>2. y # 1 => (y \div 2 \in new <=> y \div 2 \in low)
      BY <2>4, <3>1
    <3>3. CASE y = x
      <4>1. x \in new <=> (x \in s \/ (x # 1 /\ x \div 2 \in low))
        BY <2>3
      <4> HIDE DEF new, x
      <4> QED BY <3>2, <3>3, <4>1
    <3>4. CASE y # x
      <4>1. y \in 1..k
        BY <3>4
      <4>2. y \in low <=> (y \in s \/ (y # 1 /\ y \div 2 \in low))
        BY <2>1, <4>1
      <4>3. y \in new <=> y \in low
        BY <2>4, <4>1
      <4> HIDE DEF new, x, Good
      <4> QED BY <3>2, <4>2, <4>3
    <3> QED BY <3>3, <3>4
  <2>6. Good(new, x)
    <3> HIDE DEF new, x
    <3> QED BY <2>4, <2>5
  <2> HIDE DEF new, Good
  <2> QED BY <2>2, <2>6
<1> HIDE DEF S, Good
<1>4. m \in 0..m /\ \A k \in 0..m : k \in S
  <2> HIDE DEF m
  <2> QED BY <1>1, <1>2, <1>3, StepsTo
<1>5. PICK low : Good(low, m)
  BY <1>4 DEF S
<1>6. IsBelow(low, s)
  BY <1>5 DEF IsBelow, Nodes, Good
<1> QED BY <1>6

\* Nothing before the first node of s is below one.
LEMMA NotBelow ==
  ASSUME NEW s, NEW low, IsBelow(low, s), NEW z \in Nodes, \A x \in s : ~ (x < z)
  PROVE  \A y \in Nodes : y < z => y \notin low
<1> DEFINE m == z - 1
           S == {k \in 0..m : \A y \in 1..k : y \notin low}
<1>1. m \in Nat /\ z \in Nat /\ \A y \in 1..m : y \in Nodes /\ y < z
  BY nNat DEF Nodes
<1>2. 0 \in S
  BY <1>1
<1>3. ASSUME NEW k \in 0..m - 1, k \in S PROVE k + 1 \in S
  <2>1. k + 1 \in 1..m /\ k + 1 \in 0..m
    BY <1>1
  <2>2. k + 1 \in Nodes /\ k + 1 < z /\ k + 1 \notin s
    BY <1>1, <2>1
  <2>3. k + 1 # 1 => (k + 1) \div 2 \in 1..k
    BY <1>1
  <2>4. \A y \in 1..k : y \notin low
    BY <1>3
  <2>5. k + 1 \notin low
    BY <2>2, <2>3, <2>4 DEF IsBelow
  <2>6. \A y \in 1..k + 1 : y \in 1..k \/ y = k + 1
    BY <1>1
  <2>7. \A y \in 1..k + 1 : y \notin low
    BY <2>4, <2>5, <2>6
  <2> QED BY <2>1, <2>7
<1> HIDE DEF S
<1>4. m \in 0..m /\ \A k \in 0..m : k \in S
  <2> HIDE DEF m
  <2> QED BY <1>1, <1>2, <1>3, StepsTo
<1>5. \A y \in 1..m : y \notin low
  BY <1>4 DEF S
<1>6. \A y \in Nodes : y < z => y \in 1..m
  BY <1>1 DEF Nodes
<1> QED BY <1>5, <1>6

\* A leaf is below one of the nodes of s, all of one level, if the node of
\* that level above it is.
LEMMA LeavesBelow ==
  ASSUME NEW t \in Levels, NEW s \in SUBSET Level(t), NEW low, IsBelow(low, s),
         NEW z \in Level(t), \A x \in s : ~ (x < z), NEW k \in Leaves
  PROVE  k + n \in low <=> Above(k)[t] \in s
<1> DEFINE S == {q \in 0..t : k + n \in low <=> Above(k)[q] \in low}
<1>1. t \in Nat /\ t <= Log2n /\ Log2n \in Nat
  BY Log2nNat DEF Levels
<1>2. 0 \in S
  BY <1>1, AboveIs
<1>3. ASSUME NEW q \in 0..t - 1, q \in S PROVE q + 1 \in S
  <2> DEFINE y == Above(k)[q]
  <2>1. q \in Levels /\ q + 1 \in 0..t /\ q < t /\ q \in 0..Log2n
    BY <1>1 DEF Levels
  <2>2. y \in Level(q) /\ Above(k)[q + 1] = y \div 2
    BY <2>1, AboveLevel, AboveIs
  <2> HIDE DEF y
  <2>3. y \notin s
    <3> SUFFICES ASSUME y \in s PROVE FALSE
      OBVIOUS
    <3>1. y \in Level(t)
      OBVIOUS
    <3>2. y < y
      BY <2>1, <2>2, <3>1, LevelsApart
    <3>3. y \in Int
      BY <2>1, <2>2, LevelRange
    <3> QED BY <3>2, <3>3
  <2>4. y \in Nodes
    BY <2>1, <2>2, LevelRange
  <2>5. y # 1
    <3>1. 1 \in Level(Log2n)
      <4>1. 0 \in Leaves /\ Log2n \in Levels
        BY <1>1, nNat DEF Leaves, Levels
      <4>2. Above(0)[Log2n] = 1 /\ Above(0)[Log2n] \in Level(Log2n)
        BY <4>1, AboveTop, AboveLevel
      <4> QED BY <4>2
    <3>2. Log2n \in Levels /\ q < Log2n
      BY <1>1, <2>1 DEF Levels
    <3>3. 1 < y
      BY <2>1, <2>2, <3>1, <3>2, LevelsApart
    <3> QED BY <3>3
  <2>6. y \in low <=> y \div 2 \in low
    BY <2>3, <2>4, <2>5 DEF IsBelow
  <2>7. k + n \in low <=> y \in low
    BY <1>3 DEF y
  <2> QED BY <2>1, <2>2, <2>6, <2>7
<1> HIDE DEF S
<1>4. t \in 0..t /\ \A q \in 0..t : q \in S
  BY <1>1, <1>2, <1>3, StepsTo
<1> DEFINE y == Above(k)[t]
<1>5. k + n \in low <=> y \in low
  BY <1>4 DEF S
<1>6. y \in Level(t) /\ y \in Nodes /\ z \in Nodes
  BY AboveLevel, LevelRange
<1> HIDE DEF y
<1>7. y < 2 * z
  BY <1>6, LevelNarrow
<1>8. y # 1 => y \div 2 \notin low
  <2> SUFFICES ASSUME y # 1 PROVE y \div 2 \notin low
    OBVIOUS
  <2>1. y \div 2 \in Nodes /\ y \in Int /\ z \in Int
    BY <1>6, NodeNumbers
  <2>2. y \div 2 < z
    BY <1>7, <2>1
  <2>3. z \in Nodes
    BY <1>6
  <2>4. \A w \in Nodes : w < z => w \notin low
    BY <2>3, NotBelow
  <2> QED BY <2>1, <2>2, <2>4
<1>9. y \in low <=> y \in s
  BY <1>6, <1>8 DEF IsBelow
<1> QED BY <1>5, <1>9 DEF y

\* b is a with update u on top of those of the nodes of s.
MarkedAll(a, b, s, u) ==
  \A y \in Nodes : /\ b[y].value = a[y].value
                   /\ b[y].update = IF y \in s THEN a[y].update \o u ELSE a[y].update

LEMMA MarkAllIs ==
  ASSUME NEW a \in Trees, NEW s, NEW u \in Updates
  PROVE  MarkAll(a, s, u) \in Trees /\ MarkedAll(a, MarkAll(a, s, u), s, u)
<1>1. ASSUME NEW y \in Nodes
      PROVE  /\ [a[y] EXCEPT !.update = Push(u, @)] \in [value : Values, update : Updates]
             /\ [a[y] EXCEPT !.update = Push(u, @)].value = a[y].value
             /\ [a[y] EXCEPT !.update = Push(u, @)].update = a[y].update \o u
             /\ a[y] \in [value : Values, update : Updates]
  <2>1. a[y] \in [value : Values, update : Updates] /\ a[y].update \in Updates /\ a[y].value \in Values
    BY DEF Trees
  <2>2. Push(u, a[y].update) = a[y].update \o u /\ a[y].update \o u \in Updates
    BY <2>1, ConcatUpdates
  <2> QED BY <2>1, <2>2
<1>2. MarkAll(a, s, u) \in Trees
  BY <1>1 DEF MarkAll, Trees
<1>3. MarkedAll(a, MarkAll(a, s, u), s, u)
  BY <1>1 DEF MarkAll, MarkedAll
<1> QED BY <1>2, <1>3

\* What is owed after that, with low the nodes at or below those of s.
Raised(owed, low, u) == [y \in Nodes |-> IF y \in low THEN owed[y] \o u ELSE owed[y]]

LEMMA MarkAllOwed ==
  ASSUME NEW a \in Trees, NEW b \in Trees, NEW s, NEW u \in Updates, MarkedAll(a, b, s, u),
         NEW owed, IsOwed(a, owed), \A x \in s : x \in Nodes /\ Rest(owed, x) = <<>>,
         NEW low, IsBelow(low, s), \A x \in s : x # 1 => x \div 2 \notin low
  PROVE  IsOwed(b, Raised(owed, low, u))
<1> DEFINE o == Raised(owed, low, u)
<1>1. owed \in [Nodes -> Updates] /\ 1 \in Nodes
  BY NodeNumbers DEF IsOwed
<1>2. \A w \in Updates : w \o u \in Updates
  BY ConcatUpdates
<1>3. o \in [Nodes -> Updates] /\ \A y \in Nodes : o[y] = IF y \in low THEN owed[y] \o u ELSE owed[y]
  BY <1>1, <1>2 DEF Raised
<1> HIDE DEF o
<1>4. o[1] = b[1].update
  <2>1. 1 \in low <=> 1 \in s
    BY <1>1 DEF IsBelow
  <2>2. owed[1] = a[1].update /\ b[1].update = IF 1 \in s THEN a[1].update \o u ELSE a[1].update
    BY <1>1 DEF IsOwed, MarkedAll
  <2> QED BY <1>1, <1>3, <2>1, <2>2
<1>5. ASSUME NEW y \in Nodes, y # 1 PROVE o[y] = b[y].update \o o[y \div 2]
  <2> DEFINE p == y \div 2
  <2>1. p \in Nodes
    BY <1>5, NodeNumbers
  <2>2. owed[y] = a[y].update \o owed[p] /\ a[y].update \in Updates /\ owed[p] \in Updates
    BY <1>1, <1>5, <2>1, NodeIs DEF IsOwed
  <2>3. y \in low <=> (y \in s \/ p \in low)
    BY <1>5 DEF IsBelow
  <2>4. b[y].update = IF y \in s THEN a[y].update \o u ELSE a[y].update
    BY DEF MarkedAll
  <2>5. y \in s => owed[p] = <<>> /\ p \notin low
    BY <1>5 DEF Rest
  <2>6. o[y] = IF y \in low THEN owed[y] \o u ELSE owed[y]
    BY <1>3
  <2>7. o[p] = IF p \in low THEN owed[p] \o u ELSE owed[p]
    BY <1>3, <2>1
  <2> HIDE DEF p
  <2>8. CASE y \in s
    <3>1. o[y] = owed[y] \o u /\ o[p] = <<>> /\ owed[y] = a[y].update \o <<>> /\ b[y].update = a[y].update \o u
      BY <2>2, <2>3, <2>4, <2>5, <2>6, <2>7, <2>8
    <3>2. a[y].update \o <<>> = a[y].update /\ (a[y].update \o u) \o <<>> = a[y].update \o u
      BY <1>2, <2>2, EmptyUpdate
    <3> QED BY <3>1, <3>2 DEF p
  <2>9. CASE y \notin s /\ p \in low
    <3>1. o[y] = (a[y].update \o owed[p]) \o u /\ o[p] = owed[p] \o u /\ b[y].update = a[y].update
      BY <2>2, <2>3, <2>4, <2>6, <2>7, <2>9
    <3>2. (a[y].update \o owed[p]) \o u = a[y].update \o (owed[p] \o u)
      BY <2>2, JoinUpdates
    <3> QED BY <3>1, <3>2 DEF p
  <2>10. CASE y \notin s /\ p \notin low
    <3>1. o[y] = owed[y] /\ o[p] = owed[p] /\ b[y].update = a[y].update
      BY <2>3, <2>4, <2>6, <2>7, <2>10
    <3> QED BY <2>2, <3>1 DEF p
  <2> QED BY <2>8, <2>9, <2>10
<1>6. IsOwed(b, o)
  BY <1>3, <1>4, <1>5 DEF IsOwed
<1> QED BY <1>6 DEF o

LEMMA MarkAllStandsFor ==
  ASSUME NEW a \in Trees, NEW b \in Trees, NEW s, NEW u \in Updates, MarkedAll(a, b, s, u),
         NEW owed, IsOwed(a, owed), NEW low, NEW stale, \A x \in s : x # 1 => x \div 2 \in stale,
         \A x \in s : x \in Nodes,
         NEW target, StandsFor(a, owed, stale, target),
         NEW new, \A k \in Leaves : new[k] = IF k + n \in low THEN ApplyUpdate(u, target[k]) ELSE target[k]
  PROVE  StandsFor(b, Raised(owed, low, u), stale, new)
<1>1. ASSUME NEW y \in 1..n - 1, y \notin stale PROVE Joined(b, y)
  <2>1. y \in Nodes /\ 2 * y \in Nodes /\ 2 * y + 1 \in Nodes /\ y \in Int /\ y >= 1
    BY NodeNumbers
  <2>2. 2 * y \notin s /\ 2 * y + 1 \notin s
    <3>1. 2 * y # 1 /\ 2 * y + 1 # 1 /\ (2 * y) \div 2 = y /\ (2 * y + 1) \div 2 = y
      BY <2>1
    <3> QED BY <1>1, <3>1
  <2>3. b[2 * y].value = a[2 * y].value /\ b[2 * y].update = a[2 * y].update
    BY <2>1, <2>2 DEF MarkedAll
  <2>4. b[2 * y + 1].value = a[2 * y + 1].value /\ b[2 * y + 1].update = a[2 * y + 1].update
    BY <2>1, <2>2 DEF MarkedAll
  <2>5. Joined(a, y) /\ b[y].value = a[y].value
    BY <1>1, <2>1 DEF StandsFor, MarkedAll
  <2> QED BY <2>3, <2>4, <2>5 DEF Joined, Seen
<1>2. ASSUME NEW y \in n..2 * n - 1 PROVE ApplyUpdate(Raised(owed, low, u)[y], b[y].value) = new[y - n]
  <2>1. y \in Nodes /\ y - n \in Leaves /\ (y - n) + n = y
    BY nNat, NodeNumbers
  <2>2. owed[y] \in Updates /\ a[y].value \in Values
    BY <2>1, NodeIs DEF IsOwed
  <2>3. ApplyUpdate(owed[y], a[y].value) = target[y - n]
    BY DEF StandsFor
  <2>4. new[y - n] = IF y \in low THEN ApplyUpdate(u, target[y - n]) ELSE target[y - n]
    BY <2>1
  <2>5. b[y].value = a[y].value
    BY <2>1 DEF MarkedAll
  <2>6. CASE y \in low
    <3>1. Raised(owed, low, u)[y] = owed[y] \o u
      BY <2>1, <2>6 DEF Raised
    <3>2. ApplyUpdate(u, ApplyUpdate(owed[y], a[y].value)) = ApplyUpdate(owed[y] \o u, a[y].value)
      BY <2>2, ApplyTwo
    <3> QED BY <2>3, <2>4, <2>5, <2>6, <3>1, <3>2
  <2>7. CASE y \notin low
    <3>1. Raised(owed, low, u)[y] = owed[y]
      BY <2>1, <2>7 DEF Raised
    <3> QED BY <2>3, <2>4, <2>5, <2>7, <3>1
  <2> QED BY <2>6, <2>7
<1> QED BY <1>1, <1>2 DEF StandsFor

-----------------------------------------------------------------------------
(* Paths to the root                                                       *)

PathOf(k, t) == {Above(k)[s] : s \in t..Log2n}

\* Nothing is pending on the path from leaf k, from level t up.
Clean(owed, k, t) == \A s \in t..Log2n : owed[Above(k)[s]] = <<>>

LEMMA PathNode ==
  ASSUME NEW k \in Leaves, NEW s \in Levels
  PROVE  /\ Above(k)[s] \in Nodes /\ Above(k)[s] \in Level(s)
         /\ s # 0 => Above(k)[s] \in 1..n - 1
         /\ s = 0 => Above(k)[s] = k + n /\ Above(k)[s] \in n..2 * n - 1
         /\ Above(k)[s + 1] = Above(k)[s] \div 2
         /\ Above(k)[s] = 1 <=> s = Log2n
<1>1. Above(k)[s] \in Level(s) /\ s \in 0..Log2n /\ Log2n \in Levels
  BY Log2nNat, AboveLevel DEF Levels
<1>2. /\ Above(k)[s] \in Nodes
      /\ s # 0 => Above(k)[s] \in 1..n - 1
      /\ s = 0 => Above(k)[s] \in n..2 * n - 1
  BY <1>1, LevelRange
<1>3. Above(k)[0] = k + n /\ Above(k)[s + 1] = Above(k)[s] \div 2
  BY <1>1, AboveIs
<1>4. s = Log2n => Above(k)[s] = 1
  BY AboveTop
<1>5. s # Log2n => Above(k)[s] # 1
  <2> SUFFICES ASSUME s # Log2n PROVE Above(k)[s] # 1
    OBVIOUS
  <2>1. Above(k)[Log2n] = 1 /\ Above(k)[Log2n] \in Level(Log2n) /\ s < Log2n
    BY <1>1, AboveTop, AboveLevel
  <2>2. Above(k)[Log2n] < Above(k)[s]
    BY <1>1, <2>1, LevelsApart
  <2>3. Above(k)[s] \in Int
    BY <1>2, NodeNumbers
  <2> QED BY <2>1, <2>2, <2>3
<1> QED BY <1>1, <1>2, <1>3, <1>4, <1>5

LEMMA RestOfPath ==
  ASSUME NEW owed, NEW k \in Leaves, NEW s \in Levels, Clean(owed, k, s + 1)
  PROVE  Rest(owed, Above(k)[s]) = <<>>
<1>1. CASE s = Log2n
  BY <1>1, PathNode DEF Rest
<1>2. CASE s # Log2n
  <2>1. s + 1 \in (s + 1)..Log2n
    BY <1>2, Log2nNat DEF Levels
  <2>2. owed[Above(k)[s + 1]] = <<>>
    BY <2>1 DEF Clean
  <2>3. Above(k)[s] # 1 /\ Above(k)[s + 1] = Above(k)[s] \div 2
    BY <1>2, PathNode
  <2> QED BY <2>2, <2>3 DEF Rest
<1> QED BY <1>1, <1>2

LEMMA ClearedClean ==
  ASSUME NEW a \in Trees, NEW owed, IsOwed(a, owed), NEW x \in Nodes, Rest(owed, x) = <<>>,
         NEW k \in Leaves, NEW t \in 0..Log2n + 1, Clean(owed, k, t)
  PROVE  Clean(Cleared(owed, x), k, t)
<1>1. \A y \in Nodes : Cleared(owed, x)[y] = IF y = x THEN <<>> ELSE owed[y]
  BY DEF Cleared, IsOwed
<1>2. ASSUME NEW s \in t..Log2n PROVE Cleared(owed, x)[Above(k)[s]] = <<>>
  <2>1. s \in Levels
    BY Log2nNat DEF Levels
  <2>2. Above(k)[s] \in Nodes /\ owed[Above(k)[s]] = <<>>
    BY <2>1, PathNode DEF Clean
  <2> QED BY <1>1, <2>2
<1> QED BY <1>2 DEF Clean

LEMMA CleanedUp ==
  ASSUME NEW a \in Trees, NEW owed, IsOwed(a, owed), NEW k \in Leaves, NEW s \in Levels,
         Clean(owed, k, s + 1)
  PROVE  Clean(Cleared(owed, Above(k)[s]), k, s)
<1> DEFINE x == Above(k)[s]
<1>0. Rest(owed, x) = <<>>
  BY RestOfPath
<1>1. Rest(owed, x) = <<>> /\ x \in Nodes /\ s + 1 \in 0..Log2n + 1
  <2>1. x \in Nodes
    BY PathNode
  <2>2. s + 1 \in 0..Log2n + 1
    BY Log2nNat DEF Levels
  <2> QED BY <1>0, <2>1, <2>2
<1>2. \A y \in Nodes : Cleared(owed, x)[y] = IF y = x THEN <<>> ELSE owed[y]
  BY <1>1 DEF Cleared, IsOwed
<1>3. Clean(Cleared(owed, x), k, s + 1)
  <2> HIDE DEF x
  <2> QED BY <1>1, ClearedClean
<1>4. ASSUME NEW q \in s..Log2n PROVE Cleared(owed, x)[Above(k)[q]] = <<>>
  <2>1. CASE q = s
    BY <1>1, <1>2, <2>1
  <2>2. CASE q # s
    <3>1. q \in s + 1..Log2n
      BY <2>2 DEF Levels
    <3> QED BY <1>3, <3>1 DEF Clean
  <2> QED BY <2>1, <2>2
<1> QED BY <1>4 DEF Clean

-----------------------------------------------------------------------------
(* What is owed is determined by the array of nodes.                       *)

Accumulates(a, g) == g[1] = a[1].update /\ \A y \in Nodes : y # 1 => g[y] = a[y].update \o g[y \div 2]

LEMMA OwedUnique ==
  ASSUME NEW a, NEW owed, IsOwed(a, owed), NEW g, Accumulates(a, g)
  PROVE  \A y \in Nodes : g[y] = owed[y]
<1> USE DEF Accumulates
<1> DEFINE m == 2 * n - 1
           S == {k \in 0..m : \A y \in 1..k : g[y] = owed[y]}
<1>1. m \in Nat /\ 1..m = Nodes
  BY nNat DEF Nodes
<1>2. 0 \in S
  BY <1>1
<1>3. ASSUME NEW k \in 0..m - 1, k \in S PROVE k + 1 \in S
  <2>1. k + 1 \in Nodes /\ k + 1 \in 0..m
    BY <1>1
  <2>2. \A y \in 1..k : g[y] = owed[y]
    BY <1>3
  <2>3. g[k + 1] = owed[k + 1]
    <3>1. CASE k + 1 = 1
      BY <3>1 DEF IsOwed
    <3>2. CASE k + 1 # 1
      <4>1. (k + 1) \div 2 \in 1..k
        BY <1>1, <3>2
      <4>2. g[(k + 1) \div 2] = owed[(k + 1) \div 2]
        BY <2>2, <4>1
      <4>3. g[k + 1] = a[k + 1].update \o g[(k + 1) \div 2]
        BY <2>1, <3>2
      <4>4. owed[k + 1] = a[k + 1].update \o owed[(k + 1) \div 2]
        BY <2>1, <3>2 DEF IsOwed
      <4> QED BY <4>2, <4>3, <4>4
    <3> QED BY <3>1, <3>2
  <2>4. \A y \in 1..k + 1 : y \in 1..k \/ y = k + 1
    BY <1>1
  <2>5. \A y \in 1..k + 1 : g[y] = owed[y]
    BY <2>2, <2>3, <2>4
  <2> QED BY <2>1, <2>5
<1> HIDE DEF S
<1>4. m \in 0..m /\ \A k \in 0..m : k \in S
  <2> HIDE DEF m
  <2> QED BY <1>1, <1>2, <1>3, StepsTo
<1>5. \A y \in 1..m : g[y] = owed[y]
  BY <1>4 DEF S
<1> QED BY <1>1, <1>5

LEMMA NothingPending ==
  ASSUME NEW a, NEW owed, IsOwed(a, owed), \A y \in Nodes : ~ Pending(a, y)
  PROVE  \A y \in Nodes : owed[y] = <<>>
<1> DEFINE g == [y \in Nodes |-> <<>>]
<1>1. \A y \in Nodes : a[y].update = <<>>
  BY DEF Pending, ZeroUpdate
<1>2. \A y \in Nodes : g[y] = <<>>
  OBVIOUS
<1>3. <<>> \o <<>> = <<>>
  BY EmptyUpdate
<1> HIDE DEF g
<1>4. g[1] = a[1].update
  BY <1>1, <1>2, NodeNumbers
<1>5. \A y \in Nodes : y # 1 => g[y] = a[y].update \o g[y \div 2]
  BY <1>1, <1>2, <1>3, NodeNumbers
<1>6. \A y \in Nodes : g[y] = owed[y]
  <2>1. Accumulates(a, g)
    BY <1>4, <1>5 DEF Accumulates
  <2> QED BY <2>1, OwedUnique
<1> QED BY <1>2, <1>6

-----------------------------------------------------------------------------
(* A node with what is owed to it has the elements below it.               *)

Whole(a, owed, e, t, y) == ApplyUpdate(owed[y], a[y].value) = Total(e, First(t, y), First(t, y + 1) - 1)

LEMMA FirstsInRange ==
  ASSUME NEW t \in Levels, NEW y \in Level(t)
  PROVE  /\ y \in Int /\ First(t, y) \in 0..n - 1 /\ First(t, y + 1) \in First(t, y) + 1..n
         /\ First(t, y) \in 0..n
<1>1. y \in Int /\ y + 1 \in Int /\ t \in 0..Log2n + 1 /\ n \in Nat
  BY Log2nNat, LevelRange, nNat DEF Levels
<1>2. First(t, y) \in Int /\ First(t, y + 1) \in Int /\ First(t, y) < First(t, y + 1)
  BY <1>1, FirstInt, FirstNext
<1>3. First(t, y) >= 0 /\ First(t, y + 1) <= n
  BY FirstRange
<1> QED BY <1>1, <1>2, <1>3

LEMMA Wholes ==
  ASSUME NEW a \in Trees, NEW owed, IsOwed(a, owed), NEW e \in Arrays, StandsFor(a, owed, {}, e)
  PROVE  \A t \in Levels : \A y \in Level(t) : Whole(a, owed, e, t, y)
<1> DEFINE S == {t \in 0..Log2n : \A y \in Level(t) : Whole(a, owed, e, t, y)}
<1>1. Log2n \in Nat /\ n \in Nat
  BY Log2nNat, nNat
<1>2. 0 \in S
  <2>1. ASSUME NEW y \in Level(0) PROVE Whole(a, owed, e, 0, y)
    <3>1. 0 \in Levels
      BY <1>1 DEF Levels
    <3>2. y \in n..2 * n - 1 /\ y \in Int /\ y + 1 \in Int
      BY <3>1, LevelRange
    <3>7. First(0, y) = y - n /\ First(0, y + 1) = (y + 1) - n
      BY <3>2, FirstAtLeaf
    <3>3. First(0, y) = y - n /\ y - n \in Leaves
      BY <3>2, <3>7, NodeNumbers
    <3>4. First(0, y + 1) - 1 = y - n
      BY <1>1, <3>2, <3>7
    <3>5. Total(e, y - n, y - n) = e[y - n]
      BY <3>3, TotalOne
    <3>6. ApplyUpdate(owed[y], a[y].value) = e[y - n]
      BY <3>2 DEF StandsFor
    <3> QED BY <3>3, <3>4, <3>5, <3>6 DEF Whole
  <2> QED BY <1>1, <2>1
<1>3. ASSUME NEW t \in 0..Log2n - 1, t \in S PROVE t + 1 \in S
  <2>1. t \in Levels /\ t # Log2n /\ t + 1 \in 0..Log2n /\ t + 1 \in Levels /\ t + 1 # 0
    BY <1>1 DEF Levels
  <2>2. ASSUME NEW y \in Level(t + 1) PROVE Whole(a, owed, e, t + 1, y)
    <3> DEFINE c == 2 * y
               d == 2 * y + 1
               v == Seen(a, c)
               w == Seen(a, d)
               u == owed[y]
    <3>1. c \in Level(t) /\ d \in Level(t) /\ y \in Int /\ y \in 1..n - 1 /\ y \in Nodes
      BY <2>1, LevelDown, LevelRange, NodeNumbers
    <3>2. c \in Nodes /\ d \in Nodes /\ c # 1 /\ d # 1 /\ c \div 2 = y /\ d \div 2 = y
      BY <3>1, NodeNumbers
    <3>3. u \in Updates /\ v \in Values /\ w \in Values
      BY <3>1, <3>2, NodeIs DEF IsOwed
    <3>4. owed[c] = a[c].update \o u /\ owed[d] = a[d].update \o u
      BY <3>2 DEF IsOwed
    <3>5. ApplyUpdate(u, v) = ApplyUpdate(owed[c], a[c].value)
      <4>1. a[c].update \in Updates /\ a[c].value \in Values
        BY <3>2, NodeIs
      <4>2. ApplyUpdate(u, ApplyUpdate(a[c].update, a[c].value)) = ApplyUpdate(a[c].update \o u, a[c].value)
        <5> HIDE DEF c, u
        <5> QED BY <3>3, <4>1, ApplyTwo
      <4> QED BY <3>4, <4>2 DEF Seen
    <3>6. ApplyUpdate(u, w) = ApplyUpdate(owed[d], a[d].value)
      <4>1. a[d].update \in Updates /\ a[d].value \in Values
        BY <3>2, NodeIs
      <4>2. ApplyUpdate(u, ApplyUpdate(a[d].update, a[d].value)) = ApplyUpdate(a[d].update \o u, a[d].value)
        <5> HIDE DEF d, u
        <5> QED BY <3>3, <4>1, ApplyTwo
      <4> QED BY <3>4, <4>2 DEF Seen
    <3>7. a[y].value = v \o w
      BY <3>1 DEF StandsFor, Joined, Merge
    <3>8. ApplyUpdate(u, v \o w) = ApplyUpdate(u, v) \o ApplyUpdate(u, w)
      <4> HIDE DEF u, v, w
      <4> QED BY <3>3, ApplyToBoth
    <3>9. Whole(a, owed, e, t, c) /\ Whole(a, owed, e, t, d)
      BY <1>3, <3>1
    <3> DEFINE f == First(t, c)
               g == First(t, d)
               h == First(t, d + 1)
    <3>10. ApplyUpdate(u, a[y].value) = Total(e, f, g - 1) \o Total(e, g, h - 1)
      <4>1. c + 1 = d
        BY <3>1
      <4>2. ApplyUpdate(owed[c], a[c].value) = Total(e, f, First(t, c + 1) - 1)
        BY <3>9 DEF Whole
      <4>3. ApplyUpdate(owed[d], a[d].value) = Total(e, g, h - 1)
        BY <3>9 DEF Whole
      <4> HIDE DEF c, d, u, v, w
      <4> QED BY <3>5, <3>6, <3>7, <3>8, <4>1, <4>2, <4>3
    <3>11. f \in 0..n /\ g \in f..n /\ h - 1 \in g - 1..n - 1
      <4>1. f \in 0..n - 1 /\ First(t, c + 1) \in f + 1..n /\ g \in 0..n - 1 /\ h \in g + 1..n
        BY <2>1, <3>1, FirstsInRange
      <4>2. First(t, c + 1) = g
        BY <3>1
      <4> HIDE DEF f, g, h, c, d
      <4> QED BY <1>1, <4>1, <4>2
    <3>12. Total(e, f, g - 1) \o Total(e, g, h - 1) = Total(e, f, h - 1)
      <4> HIDE DEF f, g, h
      <4> QED BY <3>11, TotalJoin
    <3>13. First(t + 1, y) = f /\ First(t + 1, y + 1) = h
      <4>1. y + 1 \in Int /\ 2 * (y + 1) = d + 1
        BY <3>1
      <4>2. First(t + 1, y) = First(t, 2 * y) /\ First(t + 1, y + 1) = First(t, 2 * (y + 1))
        BY <2>1, <3>1, <4>1, FirstUp
      <4> QED BY <4>1, <4>2
    <3> HIDE DEF c, d, f, g, h, v, w
    <3> QED BY <3>10, <3>12, <3>13 DEF Whole
  <2> QED BY <2>1, <2>2
<1> HIDE DEF S
<1>4. \A t \in 0..Log2n : t \in S
  BY <1>1, <1>2, <1>3, StepsTo
<1> QED BY <1>4 DEF S, Levels

-----------------------------------------------------------------------------
(* The inductive invariant: what holds at each place of each operation, of *)
(* the array of nodes a, what is owed to them, the operation o under way,  *)
(* the elements e and the number s of spoiling Gets.                       *)

Places == {"idle", "build", "pushL", "pushR", "set", "cover", "rebuildL", "rebuildR",
           "check", "climb", "descend"}

NamesAt == [idle |-> {"none"}, build |-> {"New"},
            pushL |-> {"Update", "Get"}, pushR |-> {"SetValue", "Update", "Get", "Longest"},
            set |-> {"SetValue"}, cover |-> {"Update", "Get"},
            rebuildL |-> {"Update"}, rebuildR |-> {"SetValue", "Update"},
            check |-> {"Longest"}, climb |-> {"Longest"}, descend |-> {"Longest"}]

Names == {"none", "New", "SetValue", "Update", "Get", "Longest"}

Operations ==
  [name : Names, l : Leaves, r : Leaves, upd : Updates, at : Places, shift : Levels,
   i : 0..2 * n - 1, j : 0..2 * n - 1, summedL : Values, summedR : Values, spoils : BOOLEAN]

OpOK(o) ==
  /\ o \in Operations
  /\ o.l <= o.r
  /\ o.name \in {"SetValue", "Longest"} => o.l = o.r
  /\ o.name \in NamesAt[o.at]
  /\ o.at = "idle" => o = Idle

Exact(a, owed, e, s) == s = 0 => StandsFor(a, owed, {}, e)

\* Nothing has been summed up.
Unsummed(o) == o.summedL = <<>> /\ o.summedR = <<>> /\ o.spoils = FALSE

Building(a, owed, o, e) ==
  /\ \A y \in Nodes : owed[y] = <<>>
  /\ o.i \in 0..n - 1
  /\ StandsFor(a, owed, 1..o.i, e)

PushingL(a, owed, o, e, s) ==
  Exact(a, owed, e, s) /\ Unsummed(o) /\ Clean(owed, o.l, o.shift + 1)

PushingR(a, owed, o, e, s) ==
  /\ Exact(a, owed, e, s) /\ Unsummed(o)
  /\ Clean(owed, o.r, o.shift + 1)
  /\ o.name \in {"Update", "Get"} => Clean(owed, o.l, 0)

Setting(a, owed, o, e, s) ==
  Exact(a, owed, e, s) /\ Clean(owed, o.r, 0) /\ o.i = o.r + n

\* Changed, of o and e.
After(o, e) ==
  [k \in Leaves |-> IF k \notin o.l..o.r THEN e[k]
                   ELSE IF o.name = "SetValue" THEN Fresh
                   ELSE ApplyUpdate(o.upd, e[k])]

RebuildingL(a, owed, o, e, s) ==
  \E t \in 1..Log2n + 1 :
    /\ o.i = Above(o.l)[t]
    /\ s = 0 => StandsFor(a, owed, PathOf(o.l, t) \cup PathOf(o.r, 1), After(o, e))

RebuildingR(a, owed, o, e, s) ==
  \E t \in 1..Log2n + 1 :
    /\ o.i = Above(o.r)[t]
    /\ s = 0 => StandsFor(a, owed, PathOf(o.r, t), After(o, e))

\* What is left of the range is between i and j at level t.
Ends(o, t) ==
  /\ o.i \in {Above(o.l)[t], Above(o.l)[t] + 1}
  /\ o.j \in {Above(o.r)[t] - 1, Above(o.r)[t]}
  /\ o.i >= 1 /\ o.i <= o.j + 1
  /\ \A k \in Leaves : Above(k)[t] \in o.i..o.j => k \in o.l..o.r

\* The array when Update has marked what is above the leaves outside i..j.
Covered(o, e, t) ==
  [k \in Leaves |-> IF k \in o.l..o.r /\ Above(k)[t] \notin o.i..o.j
                   THEN ApplyUpdate(o.upd, e[k]) ELSE e[k]]

CoveringUpdate(a, owed, o, e, t) ==
  StandsFor(a, owed, PathOf(o.l, 1) \cup PathOf(o.r, 1), Covered(o, e, t))

Summed(o, e, t) ==
  /\ First(t, o.i) >= o.l /\ First(t, o.j + 1) <= o.r + 1
  /\ o.summedL = Total(e, o.l, First(t, o.i) - 1)
  /\ o.summedR = Total(e, First(t, o.j + 1), o.r)

CoveringGet(a, owed, o, e, t) ==
  /\ \A x \in t..Log2n : \A y \in Level(x) : Whole(a, owed, e, x, y)
  /\ Summed(o, e, t)
  /\ ~ o.spoils => StandsFor(a, owed, {}, e)

CoveringAt(a, owed, o, e, s, t) ==
  /\ Ends(o, t) /\ Clean(owed, o.l, t) /\ Clean(owed, o.r, t)
  /\ s = 0 /\ o.name = "Update" => CoveringUpdate(a, owed, o, e, t)
  /\ s = 0 /\ o.name = "Get" => CoveringGet(a, owed, o, e, t)

Covering(a, owed, o, e, s) == \E t \in 0..Log2n + 1 : CoveringAt(a, owed, o, e, s, t)

Checking(a, owed, o, e, s) ==
  Exact(a, owed, e, s) /\ Clean(owed, o.r, 0) /\ o.i = o.r + n /\ o.summedL = <<>>

Quiet(a) == \A x \in Nodes : ~ Pending(a, x)

\* The elements after those below o.i, at level t, up to o.r are good ones.
Scan(a, owed, o, e, s, t) ==
  /\ o.i \in Level(t)
  /\ Exact(a, owed, e, s) /\ Clean(owed, o.r, 0)
  /\ Predicate(o.summedL)
  /\ First(t, o.i + 1) <= o.r + 1
  /\ s = 0 /\ Quiet(a) => Predicate(Total(e, First(t, o.i + 1), o.r))

\* Node o.i ends with leaf o.r: the predicate holds with what is below its
\* right child.
Edge(a, o, t) ==
  /\ o.i = Above(o.r)[t] /\ o.summedL = <<>>
  /\ Predicate(IF t = 0 THEN a[o.i].value ELSE a[2 * o.i + 1].value)

ClimbingAt(a, owed, o, e, s, t) ==
  /\ Scan(a, owed, o, e, s, t)
  /\ First(t, o.i + 1) = o.r + 1 => Edge(a, o, t)

Climbing(a, owed, o, e, s) == \E t \in Levels : ClimbingAt(a, owed, o, e, s, t)

DescendingAt(a, owed, o, e, s, t) ==
  /\ Scan(a, owed, o, e, s, t)
  /\ First(t, o.i + 1) = o.r + 1 => Edge(a, o, t) /\ t # 0 /\ o.upd = <<>>
  /\ s = 0 /\ Quiet(a) =>
       o.upd = <<>> /\ ~ Predicate(Total(e, First(t, o.i), First(t, o.i + 1) - 1))

Descending(a, owed, o, e, s) == \E t \in Levels : DescendingAt(a, owed, o, e, s, t)

Holds(a, owed, o, e, s) ==
  /\ o.at = "idle" => Exact(a, owed, e, s)
  /\ o.at = "build" => Building(a, owed, o, e)
  /\ o.at = "pushL" => PushingL(a, owed, o, e, s)
  /\ o.at = "pushR" => PushingR(a, owed, o, e, s)
  /\ o.at = "set" => Setting(a, owed, o, e, s)
  /\ o.at = "cover" => Covering(a, owed, o, e, s)
  /\ o.at = "rebuildL" => RebuildingL(a, owed, o, e, s)
  /\ o.at = "rebuildR" => RebuildingR(a, owed, o, e, s)
  /\ o.at = "check" => Checking(a, owed, o, e, s)
  /\ o.at = "climb" => Climbing(a, owed, o, e, s)
  /\ o.at = "descend" => Descending(a, owed, o, e, s)

GoodStart(e, r, start) ==
  LET starts == {l \in 0..r : Predicate(Total(e, l, r))}
  IN start = IF starts = {} THEN -1 ELSE CHOOSE l \in starts : \A k \in starts : l <= k

AnswerOK(ans, e, s) ==
  /\ ans.name \in {"none", "get", "longest"}
  /\ ans.name = "longest" => ans.start \in -1..ans.r
  /\ ans.name = "get" /\ ans.before = 0 => ans.value = Total(e, ans.l, ans.r)
  /\ ans.name = "longest" /\ ans.quiet /\ s = 0 => GoodStart(e, ans.r, ans.start)

TypeInv ==
  /\ arr \in Trees /\ OpOK(op) /\ elements \in Arrays
  /\ changes \in 0..MaxChanges /\ spoils \in 0..MaxSpoils
  /\ op.at \notin {"idle", "build"} => spoils < MaxSpoils
  /\ op.at # "idle" => answer = NoAnswer

IInv ==
  /\ TypeInv
  /\ AnswerOK(answer, elements, spoils)
  /\ \E owed : IsOwed(arr, owed) /\ Holds(arr, owed, op, elements, spoils)

-----------------------------------------------------------------------------
(* The operation under way                                                 *)

LEMMA OpIs ==
  ASSUME NEW o, OpOK(o)
  PROVE  /\ o.name \in Names /\ o.l \in Leaves /\ o.r \in Leaves /\ o.upd \in Updates
         /\ o.at \in Places /\ o.shift \in Levels /\ o.i \in 0..2 * n - 1 /\ o.j \in 0..2 * n - 1
         /\ o.summedL \in Values /\ o.summedR \in Values /\ o.spoils \in BOOLEAN
         /\ o.l <= o.r
BY DEF OpOK, Operations

LEMMA OpAtI ==
  ASSUME NEW o, OpOK(o), o.at # "idle", NEW p, NEW i \in 0..2 * n - 1, p = [o EXCEPT !.i = i]
  PROVE  /\ OpOK(p)
         /\ p.name = o.name /\ p.l = o.l /\ p.r = o.r /\ p.upd = o.upd /\ p.at = o.at /\ p.shift = o.shift
         /\ p.i = i /\ p.j = o.j
         /\ p.summedL = o.summedL /\ p.summedR = o.summedR /\ p.spoils = o.spoils
<1>1. o \in Operations
  BY DEF OpOK
<1>2. /\ p \in Operations
      /\ p.name = o.name /\ p.l = o.l /\ p.r = o.r /\ p.upd = o.upd /\ p.at = o.at /\ p.shift = o.shift
      /\ p.i = i /\ p.j = o.j
      /\ p.summedL = o.summedL /\ p.summedR = o.summedR /\ p.spoils = o.spoils
  BY <1>1 DEF Operations
<1> QED BY <1>2 DEF OpOK

LEMMA IdleOK ==
  /\ OpOK(Idle) /\ Idle.at = "idle" /\ Idle.name = "none"
  /\ \A a, owed, e, s : Exact(a, owed, e, s) => Holds(a, owed, Idle, e, s)
<1>1. 0 \in Leaves /\ 0 \in Levels /\ 0 \in 0..2 * n - 1
  BY nNat, Log2nNat DEF Leaves, Levels
<1>2. <<>> \in Updates /\ <<>> \in Values
  BY EmptyUpdate, EmptyValue
<1>3. Idle \in Operations
  BY <1>1, <1>2 DEF Idle, Operations, Names, Places, ZeroUpdate, ZeroValue
<1>4. Idle.at = "idle" /\ Idle.name = "none" /\ Idle.l <= Idle.r
  BY DEF Idle
<1>5. Idle.name \in NamesAt[Idle.at]
  BY <1>4 DEF NamesAt
<1> QED BY <1>3, <1>4, <1>5 DEF OpOK, Holds

-----------------------------------------------------------------------------
(* The steps, one lemma for each: what it does to the tree, to what is     *)
(* owed and to the operation.                                              *)

LEMMA BuildTurnHolds ==
  ASSUME NEW a \in Trees, NEW owed, IsOwed(a, owed), NEW o, OpOK(o), NEW e,
         o.at = "build", Building(a, owed, o, e), o.i > 0,
         NEW b, b = Recompute(a, o.i), NEW p, p = [o EXCEPT !.i = o.i - 1]
  PROVE  b \in Trees /\ OpOK(p) /\ p.at = "build" /\ IsOwed(b, owed) /\ Building(b, owed, p, e)
<1>1. o.i \in 1..n - 1 /\ o.i - 1 \in 0..n - 1 /\ o.i - 1 \in 0..2 * n - 1 /\ n \in Nat
  BY nNat DEF Building
<1>2. OpOK(p) /\ p.at = "build" /\ p.i = o.i - 1
  BY <1>1, OpAtI
<1>3. /\ b \in Trees
      /\ Replaced(a, b, o.i, Merge(Seen(a, 2 * o.i), Seen(a, 2 * o.i + 1)), a[o.i].update)
      /\ \A y \in Nodes : b[y].update = a[y].update
  BY <1>1, RecomputeIs
<1>4. IsOwed(b, owed)
  BY <1>3, SameOwed
<1>5. StandsFor(b, owed, 1..p.i, e)
  <2> DEFINE x == o.i
             stale == 1..x
             later == 1..p.i
  <2>1. \A y \in stale : y \in later \/ y = x
    BY <1>1, <1>2
  <2>2. x # 1 => x \div 2 \in later
    BY <1>1, <1>2
  <2>3. StandsFor(a, owed, stale, e)
    BY DEF Building
  <2>4. x \in 1..n - 1 /\ Replaced(a, b, x, Merge(Seen(a, 2 * x), Seen(a, 2 * x + 1)), a[x].update)
    BY <1>1, <1>3
  <2> HIDE DEF x, stale, later
  <2>5. StandsFor(b, owed, later, e)
    BY <1>3, <2>1, <2>2, <2>3, <2>4, RecomputeStandsFor
  <2> QED BY <2>5 DEF later
<1> QED BY <1>1, <1>2, <1>3, <1>4, <1>5 DEF Building

LEMMA BuildEndHolds ==
  ASSUME NEW a, NEW owed, NEW o, NEW e, NEW s, Building(a, owed, o, e), ~ (o.i > 0)
  PROVE  Holds(a, owed, Idle, e, s)
<1>1. 1..o.i = {}
  BY nNat DEF Building
<1>2. Exact(a, owed, e, s)
  BY <1>1 DEF Building, Exact
<1> QED BY <1>2, IdleOK

LEMMA OpPush ==
  ASSUME NEW o, OpOK(o), o.at # "idle", o.shift > 0, NEW p, p = [o EXCEPT !.shift = o.shift - 1]
  PROVE  /\ OpOK(p)
         /\ p.name = o.name /\ p.l = o.l /\ p.r = o.r /\ p.at = o.at /\ p.shift = o.shift - 1
         /\ p.summedL = o.summedL /\ p.summedR = o.summedR /\ p.spoils = o.spoils
<1>1. o \in Operations /\ o.shift - 1 \in Levels
  <2>1. o \in Operations /\ o.shift \in 0..Log2n /\ Log2n \in Nat
    BY OpIs, Log2nNat DEF OpOK, Levels
  <2> QED BY <2>1 DEF Levels
<1>2. /\ p \in Operations
      /\ p.name = o.name /\ p.l = o.l /\ p.r = o.r /\ p.at = o.at /\ p.shift = o.shift - 1
      /\ p.summedL = o.summedL /\ p.summedR = o.summedR /\ p.spoils = o.spoils
  BY <1>1 DEF Operations
<1> QED BY <1>2 DEF OpOK

\* One turn of pushUpdates(k).
LEMMA PushOne ==
  ASSUME NEW a \in Trees, NEW owed, IsOwed(a, owed), NEW k \in Leaves, NEW s \in Levels, s > 0,
         Clean(owed, k, s + 1), NEW b, b = PushDown(a, Above(k)[s])
  PROVE  LET after == Cleared(owed, Above(k)[s])
         IN  /\ b \in Trees /\ IsOwed(b, after) /\ Clean(after, k, s)
             /\ \A e, z : Exact(a, owed, e, z) => Exact(b, after, e, z)
             /\ \A l \in Leaves : Clean(owed, l, 0) => Clean(after, l, 0)
<1> DEFINE x == Above(k)[s]
           after == Cleared(owed, x)
<1>0. s # 0
  BY Log2nNat DEF Levels
<1>1. x \in 1..n - 1 /\ x \in Nodes
  BY <1>0, PathNode
<1>2. b \in Trees /\ Pushed(a, b, x)
  <2> HIDE DEF x
  <2> QED BY <1>1, PushDownIs DEF x
<1>3. IsOwed(b, after)
  <2> HIDE DEF x
  <2> QED BY <1>1, <1>2, PushDownOwed
<1>4. Clean(after, k, s)
  BY CleanedUp
<1>5. ASSUME NEW e, NEW z, Exact(a, owed, e, z) PROVE Exact(b, after, e, z)
  <2> HIDE DEF x
  <2> QED BY <1>1, <1>2, <1>5, PushDownStandsFor DEF Exact
<1>6. Rest(owed, x) = <<>> /\ 0 \in 0..Log2n + 1
  BY RestOfPath, Log2nNat
<1>7. ASSUME NEW l \in Leaves, Clean(owed, l, 0) PROVE Clean(after, l, 0)
  <2> HIDE DEF x
  <2> QED BY <1>1, <1>6, <1>7, ClearedClean
<1> QED BY <1>2, <1>3, <1>4, <1>5, <1>7

\* The end of pushUpdates(k).
LEMMA SettleOne ==
  ASSUME NEW a \in Trees, NEW owed, IsOwed(a, owed), NEW k \in Leaves, Clean(owed, k, 1),
         NEW b, b = Settle(a, k + n)
  PROVE  LET after == Cleared(owed, k + n)
         IN  /\ b \in Trees /\ IsOwed(b, after) /\ Clean(after, k, 0)
             /\ \A e, z : Exact(a, owed, e, z) => Exact(b, after, e, z)
             /\ \A l \in Leaves : Clean(owed, l, 0) => Clean(after, l, 0)
<1> DEFINE x == k + n
           after == Cleared(owed, x)
<1>0. 0 \in Levels /\ 0 + 1 = 1 /\ 0 \in 0..Log2n + 1
  BY Log2nNat DEF Levels
<1>1. Above(k)[0] = x /\ x \in n..2 * n - 1 /\ x \in Nodes
  BY <1>0, PathNode
<1>2. b \in Trees /\ Replaced(a, b, x, Seen(a, x), <<>>)
  <2> HIDE DEF x
  <2> QED BY <1>1, SettleIs DEF x
<1>3. IsOwed(b, after)
  <2> HIDE DEF x
  <2> QED BY <1>1, <1>2, SettleOwed
<1>4. Clean(after, k, 0)
  <2>1. Clean(Cleared(owed, Above(k)[0]), k, 0)
    BY <1>0, CleanedUp
  <2> QED BY <1>1, <2>1
<1>5. ASSUME NEW e, NEW z, Exact(a, owed, e, z) PROVE Exact(b, after, e, z)
  <2> HIDE DEF x
  <2> QED BY <1>1, <1>2, <1>5, SettleStandsFor DEF Exact
<1>6. Rest(owed, x) = <<>>
  <2>1. Rest(owed, Above(k)[0]) = <<>>
    BY <1>0, RestOfPath
  <2> QED BY <1>1, <2>1
<1>7. ASSUME NEW l \in Leaves, Clean(owed, l, 0) PROVE Clean(after, l, 0)
  <2> HIDE DEF x
  <2> QED BY <1>0, <1>1, <1>6, <1>7, ClearedClean
<1> QED BY <1>2, <1>3, <1>4, <1>5, <1>7

LEMMA PushTurnHolds ==
  ASSUME NEW a \in Trees, NEW owed, IsOwed(a, owed), NEW o, OpOK(o), NEW e, NEW s,
         o.at \in {"pushL", "pushR"}, o.shift > 0, Holds(a, owed, o, e, s),
         NEW k, k = IF o.at = "pushL" THEN o.l ELSE o.r,
         NEW b, b = PushDown(a, Above(k)[o.shift]), NEW p, p = [o EXCEPT !.shift = o.shift - 1]
  PROVE  /\ b \in Trees /\ OpOK(p) /\ p.at = o.at
         /\ \E after : IsOwed(b, after) /\ Holds(b, after, p, e, s)
<1> DEFINE x == Above(k)[o.shift]
           after == Cleared(owed, x)
<1>1. k \in Leaves /\ o.l \in Leaves /\ o.shift \in Levels /\ o.at # "idle"
  BY OpIs
<1>2. Exact(a, owed, e, s) /\ Unsummed(o) /\ Clean(owed, k, o.shift + 1)
  BY DEF Holds, PushingL, PushingR
<1>3. /\ b \in Trees /\ IsOwed(b, after) /\ Clean(after, k, o.shift)
      /\ Exact(b, after, e, s)
      /\ Clean(owed, o.l, 0) => Clean(after, o.l, 0)
  BY <1>1, <1>2, PushOne
<1>4. /\ OpOK(p)
      /\ p.name = o.name /\ p.l = o.l /\ p.r = o.r /\ p.at = o.at /\ p.shift = o.shift - 1
      /\ p.summedL = o.summedL /\ p.summedR = o.summedR /\ p.spoils = o.spoils
  BY <1>1, OpPush
<1>5. p.shift + 1 = o.shift /\ Unsummed(p)
  BY <1>1, <1>2, <1>4, Log2nNat DEF Unsummed, Levels
<1> HIDE DEF after
<1>6. CASE o.at = "pushL"
  <2>1. PushingL(b, after, p, e, s)
    BY <1>3, <1>4, <1>5, <1>6 DEF PushingL
  <2>2. Holds(b, after, p, e, s)
    BY <1>4, <1>6, <2>1 DEF Holds
  <2> QED BY <1>3, <1>4, <2>2
<1>7. CASE o.at = "pushR"
  <2>1. o.name \in {"Update", "Get"} => Clean(owed, o.l, 0)
    BY <1>7 DEF Holds, PushingR
  <2>2. k = o.r
    BY <1>7
  <2>3. PushingR(b, after, p, e, s)
    BY <1>3, <1>4, <1>5, <1>7, <2>1, <2>2 DEF PushingR
  <2>4. Holds(b, after, p, e, s)
    BY <1>4, <1>7, <2>3 DEF Holds
  <2> QED BY <1>3, <1>4, <2>4
<1> QED BY <1>6, <1>7

LEMMA OpPushR ==
  ASSUME NEW o, OpOK(o), o.at = "pushL", NEW p, p = [o EXCEPT !.at = "pushR", !.shift = Log2n]
  PROVE  /\ OpOK(p)
         /\ p.name = o.name /\ p.l = o.l /\ p.r = o.r /\ p.at = "pushR" /\ p.shift = Log2n
         /\ p.summedL = o.summedL /\ p.summedR = o.summedR /\ p.spoils = o.spoils
<1>1. o \in Operations /\ Log2n \in Levels /\ "pushR" \in Places
  BY Log2nNat DEF OpOK, Levels, Places
<1>2. /\ p \in Operations
      /\ p.name = o.name /\ p.l = o.l /\ p.r = o.r /\ p.at = "pushR" /\ p.shift = Log2n
      /\ p.summedL = o.summedL /\ p.summedR = o.summedR /\ p.spoils = o.spoils
  BY <1>1 DEF Operations
<1>3. p.name \in NamesAt[p.at]
  <2>1. o.name \in NamesAt["pushL"]
    BY DEF OpOK
  <2> QED BY <1>2, <2>1 DEF NamesAt
<1> QED BY <1>2, <1>3 DEF OpOK

LEMMA OpBody ==
  ASSUME NEW o, OpOK(o), o.at = "pushR",
         NEW p, p = [o EXCEPT !.at = Body[o.name], !.i = o.l + n, !.j = o.r + n]
  PROVE  /\ OpOK(p)
         /\ p.name = o.name /\ p.l = o.l /\ p.r = o.r
         /\ p.at = Body[o.name] /\ p.i = o.l + n /\ p.j = o.r + n
         /\ p.summedL = o.summedL /\ p.summedR = o.summedR /\ p.spoils = o.spoils
         /\ p.upd = o.upd
<1>1. o \in Operations /\ o.l + n \in 0..2 * n - 1 /\ o.r + n \in 0..2 * n - 1
  <2>1. o.l \in 0..n - 1 /\ o.r \in 0..n - 1 /\ n \in Nat
    BY OpIs, nNat DEF Leaves
  <2> QED BY <2>1 DEF OpOK
<1>2. o.name \in {"SetValue", "Update", "Get", "Longest"}
  BY DEF OpOK, NamesAt
<1>3. Body[o.name] \in Places /\ o.name \in NamesAt[Body[o.name]] /\ Body[o.name] # "idle"
  BY <1>2 DEF Body, Places, NamesAt
<1>4. /\ p \in Operations
      /\ p.name = o.name /\ p.l = o.l /\ p.r = o.r
      /\ p.at = Body[o.name] /\ p.i = o.l + n /\ p.j = o.r + n
      /\ p.summedL = o.summedL /\ p.summedR = o.summedR /\ p.spoils = o.spoils
      /\ p.upd = o.upd
  <2> HIDE DEF Body
  <2> QED BY <1>1, <1>3 DEF Operations
<1> QED BY <1>3, <1>4 DEF OpOK

LEMMA PushLEndHolds ==
  ASSUME NEW a \in Trees, NEW owed, IsOwed(a, owed), NEW o, OpOK(o), NEW e, NEW s,
         o.at = "pushL", o.shift = 0, PushingL(a, owed, o, e, s),
         NEW b, b = Settle(a, o.l + n),
         NEW p, p = [o EXCEPT !.at = "pushR", !.shift = Log2n]
  PROVE  /\ b \in Trees /\ OpOK(p) /\ p.at = "pushR"
         /\ \E after : IsOwed(b, after) /\ PushingR(b, after, p, e, s)
<1> DEFINE after == Cleared(owed, o.l + n)
<1>1. o.l \in Leaves /\ o.r \in Leaves /\ o.shift + 1 = 1
  BY OpIs
<1>2. Exact(a, owed, e, s) /\ Unsummed(o) /\ Clean(owed, o.l, 1)
  BY <1>1 DEF PushingL
<1>3. /\ b \in Trees /\ IsOwed(b, after) /\ Clean(after, o.l, 0)
      /\ Exact(b, after, e, s)
  BY <1>1, <1>2, SettleOne
<1>4. /\ OpOK(p)
      /\ p.name = o.name /\ p.l = o.l /\ p.r = o.r /\ p.at = "pushR" /\ p.shift = Log2n
      /\ p.summedL = o.summedL /\ p.summedR = o.summedR /\ p.spoils = o.spoils
  BY OpPushR
<1> HIDE DEF after
<1>5. Clean(after, p.r, p.shift + 1)
  BY <1>4, Log2nNat DEF Clean
<1>6. PushingR(b, after, p, e, s)
  BY <1>2, <1>3, <1>4, <1>5 DEF PushingR, Unsummed
<1> QED BY <1>3, <1>4, <1>6

\* At the leaves: what is left of the range is all of it.
LEMMA EndsAtLeaves ==
  ASSUME NEW o, OpOK(o), o.i = o.l + n, o.j = o.r + n
  PROVE  Ends(o, 0)
<1>1. o.l \in 0..n - 1 /\ o.r \in 0..n - 1 /\ n \in Nat /\ n >= 1 /\ o.l <= o.r
  BY OpIs, nNat DEF Leaves
<1>2. \A k \in Leaves : Above(k)[0] = k + n
  BY AboveIs
<1>3. Above(o.l)[0] = o.i /\ Above(o.r)[0] = o.j
  BY <1>1, <1>2 DEF Leaves
<1>4. \A k \in Leaves : Above(k)[0] \in o.i..o.j => k \in o.l..o.r
  BY <1>1, <1>2 DEF Leaves
<1> QED BY <1>1, <1>3, <1>4 DEF Ends

LEMMA StaleMore ==
  ASSUME NEW a, NEW owed, NEW stale, NEW later, NEW e, StandsFor(a, owed, stale, e), stale \subseteq later
  PROVE  StandsFor(a, owed, later, e)
BY DEF StandsFor

LEMMA CoverStarts ==
  ASSUME NEW a \in Trees, NEW owed, IsOwed(a, owed), NEW o, OpOK(o), o.name \in {"Update", "Get"},
         NEW e \in Arrays, NEW s, Exact(a, owed, e, s), Unsummed(o),
         Clean(owed, o.l, 0), Clean(owed, o.r, 0), o.i = o.l + n, o.j = o.r + n
  PROVE  Covering(a, owed, o, e, s)
<1>1. o.l \in Leaves /\ o.r \in Leaves /\ o.l \in 0..n - 1 /\ o.r \in 0..n - 1 /\ n \in Nat
  BY OpIs, nNat DEF Leaves
<1>2. Ends(o, 0)
  BY EndsAtLeaves
<1>3. ASSUME s = 0 PROVE CoveringUpdate(a, owed, o, e, 0)
  <2>1. StandsFor(a, owed, {}, e)
    BY <1>3 DEF Exact
  <2>2. \A k \in Leaves : Covered(o, e, 0)[k] = e[k]
    <3>1. ASSUME NEW k \in Leaves PROVE Covered(o, e, 0)[k] = e[k]
      <4>1. Above(k)[0] = k + n /\ k \in 0..n - 1
        BY AboveIs DEF Leaves
      <4>2. k \in o.l..o.r => Above(k)[0] \in o.i..o.j
        BY <1>1, <4>1
      <4> QED BY <4>2 DEF Covered
    <3> QED BY <3>1
  <2>3. \A y \in n..2 * n - 1 : ApplyUpdate(owed[y], a[y].value) = Covered(o, e, 0)[y - n]
    <3>1. ASSUME NEW y \in n..2 * n - 1 PROVE ApplyUpdate(owed[y], a[y].value) = Covered(o, e, 0)[y - n]
      <4>1. y - n \in Leaves
        BY NodeNumbers
      <4>2. ApplyUpdate(owed[y], a[y].value) = e[y - n]
        BY <2>1 DEF StandsFor
      <4> QED BY <2>2, <4>1, <4>2
    <3> QED BY <3>1
  <2>4. StandsFor(a, owed, {}, Covered(o, e, 0))
    <3> HIDE DEF Covered
    <3> QED BY <2>1, <2>3 DEF StandsFor
  <2>5. StandsFor(a, owed, PathOf(o.l, 1) \cup PathOf(o.r, 1), Covered(o, e, 0))
    <3> DEFINE c == Covered(o, e, 0)
               later == PathOf(o.l, 1) \cup PathOf(o.r, 1)
    <3>1. StandsFor(a, owed, {}, c) /\ {} \subseteq later
      BY <2>4
    <3> HIDE DEF c, later
    <3>2. StandsFor(a, owed, later, c)
      BY <3>1, StaleMore
    <3> QED BY <3>2 DEF c, later
  <2> QED BY <2>5 DEF CoveringUpdate
<1>4. ASSUME s = 0 PROVE CoveringGet(a, owed, o, e, 0)
  <2>1. StandsFor(a, owed, {}, e)
    BY <1>4 DEF Exact
  <2>2. \A x \in 0..Log2n : \A y \in Level(x) : Whole(a, owed, e, x, y)
    BY <2>1, Wholes DEF Levels
  <2>3. First(0, o.i) = o.l /\ First(0, o.j + 1) = o.r + 1
    <3>1. o.i \in Int /\ o.j + 1 \in Int
      BY <1>1
    <3>2. First(0, o.i) = o.i - n /\ First(0, o.j + 1) = (o.j + 1) - n
      BY <3>1, FirstAtLeaf
    <3> QED BY <1>1, <3>2
  <2>4. Total(e, o.l, o.l - 1) = <<>>
    BY <1>1, TotalNothing
  <2>5. Total(e, o.r + 1, o.r) = <<>>
    <3> DEFINE m == o.r + 1
    <3>1. m \in 0..n /\ m - 1 = o.r
      BY <1>1
    <3>2. Total(e, m, m - 1) = <<>>
      <4> HIDE DEF m
      <4> QED BY <3>1, TotalNothing
    <3> QED BY <3>1, <3>2
  <2>6. Summed(o, e, 0)
    BY <1>1, <2>3, <2>4, <2>5 DEF Summed, Unsummed
  <2> QED BY <2>1, <2>2, <2>6 DEF CoveringGet
<1>5. CoveringAt(a, owed, o, e, s, 0)
  BY <1>2, <1>3, <1>4 DEF CoveringAt
<1> QED BY <1>5, Log2nNat DEF Covering

LEMMA PushREndHolds ==
  ASSUME NEW a \in Trees, NEW owed, IsOwed(a, owed), NEW o, OpOK(o), NEW e \in Arrays, NEW s,
         o.at = "pushR", o.shift = 0, PushingR(a, owed, o, e, s),
         NEW b, b = Settle(a, o.r + n),
         NEW p, p = [o EXCEPT !.at = Body[o.name], !.i = o.l + n, !.j = o.r + n]
  PROVE  /\ b \in Trees /\ OpOK(p) /\ p.at \in {"set", "cover", "check"}
         /\ \E after : IsOwed(b, after) /\ Holds(b, after, p, e, s)
<1> DEFINE after == Cleared(owed, o.r + n)
<1>1. o.l \in Leaves /\ o.r \in Leaves /\ o.shift + 1 = 1
  BY OpIs
<1>2. Exact(a, owed, e, s) /\ Unsummed(o) /\ Clean(owed, o.r, 1)
  BY <1>1 DEF PushingR
<1>3. /\ b \in Trees /\ IsOwed(b, after) /\ Clean(after, o.r, 0)
      /\ Exact(b, after, e, s)
      /\ Clean(owed, o.l, 0) => Clean(after, o.l, 0)
  BY <1>1, <1>2, SettleOne
<1>4. /\ OpOK(p)
      /\ p.name = o.name /\ p.l = o.l /\ p.r = o.r
      /\ p.at = Body[o.name] /\ p.i = o.l + n /\ p.j = o.r + n
      /\ p.summedL = o.summedL /\ p.summedR = o.summedR /\ p.spoils = o.spoils
  BY OpBody
<1> HIDE DEF after
<1>5. /\ o.name \in {"SetValue", "Longest"} => o.l = o.r
      /\ o.name \in {"SetValue", "Update", "Get", "Longest"}
  BY DEF OpOK, NamesAt
<1>6. Unsummed(p)
  BY <1>2, <1>4 DEF Unsummed
<1>7. CASE o.name = "SetValue"
  <2>1. Setting(b, after, p, e, s) /\ p.at = "set"
    BY <1>3, <1>4, <1>5, <1>7 DEF Setting, Body
  <2> QED BY <1>3, <1>4, <2>1 DEF Holds
<1>8. CASE o.name = "Longest"
  <2>1. Checking(b, after, p, e, s) /\ p.at = "check"
    BY <1>3, <1>4, <1>5, <1>6, <1>8 DEF Checking, Body, Unsummed
  <2> QED BY <1>3, <1>4, <2>1 DEF Holds
<1>9. CASE o.name \in {"Update", "Get"}
  <2>1. Clean(owed, o.l, 0) /\ p.at = "cover"
    BY <1>4, <1>9 DEF PushingR, Body
  <2>2. Covering(b, after, p, e, s)
    BY <1>3, <1>4, <1>6, <1>9, <2>1, CoverStarts
  <2> QED BY <1>3, <1>4, <2>1, <2>2 DEF Holds
<1> QED BY <1>5, <1>7, <1>8, <1>9

-----------------------------------------------------------------------------
(* SetLeaf and rebuild                                                     *)

MayRebuild(o, at, i) ==
  at \in {"rebuildL", "rebuildR"} /\ o.name \in NamesAt[at] /\ i \in 0..2 * n - 1

\* p is the call of o, gone to another place.
Goes(o, p, at, i) ==
  p.name = o.name /\ p.l = o.l /\ p.r = o.r /\ p.upd = o.upd /\ p.at = at /\ p.i = i

Moved(o, at, i) == [o EXCEPT !.at = at, !.i = i]

LEMMA OpRebuild ==
  ASSUME NEW o, OpOK(o), NEW at, NEW i, MayRebuild(o, at, i), NEW p, p = Moved(o, at, i)
  PROVE  OpOK(p) /\ Goes(o, p, at, i)
<1>1. o \in Operations /\ at \in Places /\ at # "idle"
  BY DEF OpOK, Places, MayRebuild
<1>2. /\ p \in Operations
      /\ p.name = o.name /\ p.l = o.l /\ p.r = o.r /\ p.upd = o.upd /\ p.at = at /\ p.i = i
  BY <1>1 DEF Operations, Moved, MayRebuild
<1> QED BY <1>1, <1>2 DEF OpOK, MayRebuild, Goes

LEMMA SameAfter ==
  ASSUME NEW o, NEW p, NEW e, p.name = o.name, p.l = o.l, p.r = o.r, p.upd = o.upd
  PROVE  After(p, e) = After(o, e)
BY DEF After

\* The node above a leaf.
LEMMA AboveLeaf ==
  ASSUME NEW k \in Leaves
  PROVE  /\ (k + n) \div 2 = Above(k)[1] /\ (k + n) \div 2 \in 0..2 * n - 1
         /\ k + n # 1 => Above(k)[1] \in PathOf(k, 1)
<1>1. 0 \in Levels /\ 0 + 1 = 1 /\ Log2n \in Nat
  BY Log2nNat DEF Levels
<1>2. Above(k)[1] = Above(k)[0] \div 2 /\ Above(k)[0] = k + n /\ (Above(k)[0] = 1 <=> 0 = Log2n)
  BY <1>1, PathNode
<1>3. k \in 0..n - 1 /\ n \in Nat
  BY nNat DEF Leaves
<1>4. k + n # 1 => 1 \in 1..Log2n
  BY <1>1, <1>2
<1>5. (k + n) \div 2 \in 0..2 * n - 1
  BY <1>3
<1> QED BY <1>2, <1>4, <1>5 DEF PathOf

LEMMA SetLeafHolds ==
  ASSUME NEW a \in Trees, NEW owed, IsOwed(a, owed), NEW o, OpOK(o), NEW e, NEW s,
         o.at = "set", Setting(a, owed, o, e, s),
         NEW b, b = [a EXCEPT ![o.i] = [value |-> Fresh, update |-> ZeroUpdate]],
         NEW p, p = [o EXCEPT !.at = "rebuildR", !.i = o.i \div 2]
  PROVE  b \in Trees /\ OpOK(p) /\ p.at = "rebuildR" /\ IsOwed(b, owed) /\ RebuildingR(b, owed, p, e, s)
<1> DEFINE x == o.i
<1>1. o.r \in Leaves /\ o.l = o.r /\ o.name = "SetValue" /\ x = o.r + n
  BY OpIs DEF OpOK, NamesAt, Setting
<1>2. /\ x \div 2 = Above(o.r)[1] /\ x \div 2 \in 0..2 * n - 1
      /\ x # 1 => x \div 2 \in PathOf(o.r, 1)
  BY <1>1, AboveLeaf
<1>3. 0 \in Levels /\ 0 \in 0..Log2n /\ 1 \in 1..Log2n + 1
  BY Log2nNat DEF Levels
<1>4. x \in n..2 * n - 1 /\ x - n = o.r /\ owed[x] = <<>>
  <2>1. Above(o.r)[0] = o.r + n /\ Above(o.r)[0] \in n..2 * n - 1
    BY <1>1, <1>3, PathNode
  <2>2. owed[Above(o.r)[0]] = <<>>
    BY <1>3 DEF Setting, Clean
  <2>3. o.r \in Int /\ n \in Int
    BY <1>1, nNat DEF Leaves
  <2> QED BY <1>1, <2>1, <2>2, <2>3
<1>5. /\ OpOK(p)
      /\ p.name = o.name /\ p.l = o.l /\ p.r = o.r /\ p.upd = o.upd /\ p.at = "rebuildR" /\ p.i = x \div 2
  <2>1. o.name \in NamesAt["rebuildR"]
    BY <1>1 DEF NamesAt
  <2> DEFINE at == "rebuildR"
             q == x \div 2
  <2>2. MayRebuild(o, at, q)
    BY <1>2, <2>1 DEF MayRebuild
  <2>3. p = Moved(o, at, q)
    BY DEF Moved
  <2> HIDE DEF at, q
  <2>4. OpOK(p) /\ Goes(o, p, at, q)
    BY <2>2, <2>3, OpRebuild
  <2> QED BY <2>4 DEF at, q, Goes
<1>6. b \in Trees /\ IsOwed(b, owed) /\ Replaced(a, b, x, Fresh, <<>>)
  <2>1. b = [a EXCEPT ![x] = [value |-> Fresh, update |-> ZeroUpdate]]
    OBVIOUS
  <2> HIDE DEF x
  <2> QED BY <1>4, <2>1, SetLeafIs
<1>7. ASSUME s = 0 PROVE StandsFor(b, owed, PathOf(o.r, 1), After(p, e))
  <2> DEFINE new == After(p, e)
             stale == PathOf(o.r, 1)
  <2>1. StandsFor(a, owed, {}, e)
    BY <1>7 DEF Setting, Exact
  <2>2. Renewed(new, e, x - n)
    <3>1. o.r \in o.l..o.r /\ \A k \in o.l..o.r : k = o.r
      BY <1>1 DEF Leaves
    <3> QED BY <1>1, <1>4, <1>5, <3>1 DEF After, Renewed
  <2>3. x # 1 => x \div 2 \in stale
    BY <1>2
  <2> HIDE DEF x, new, stale
  <2>4. StandsFor(b, owed, stale, new)
    BY <1>4, <1>6, <2>1, <2>2, <2>3, SetLeafStandsFor
  <2> QED BY <2>4 DEF stale, new
<1>8. RebuildingR(b, owed, p, e, s)
  BY <1>2, <1>3, <1>5, <1>7 DEF RebuildingR
<1> QED BY <1>5, <1>6, <1>8

\* b stands for what a stands for, with one node less of the path out of date.
Rejoined(a, b, owed, k, t) ==
  \A stale, e : StandsFor(a, owed, PathOf(k, t) \cup stale, e)
                  => StandsFor(b, owed, PathOf(k, t + 1) \cup stale, e)

\* One turn of rebuild on the path from leaf k.
LEMMA RebuildOne ==
  ASSUME NEW a \in Trees, NEW owed, IsOwed(a, owed), NEW k \in Leaves, NEW t \in 1..Log2n + 1,
         NEW x, x = Above(k)[t], x # 0, NEW b, b = Recompute(a, x)
  PROVE  /\ b \in Trees /\ IsOwed(b, owed)
         /\ t + 1 \in 1..Log2n + 1 /\ x \div 2 = Above(k)[t + 1] /\ x \div 2 \in 0..2 * n - 1
         /\ Rejoined(a, b, owed, k, t)
<1>1. t # Log2n + 1 /\ Log2n \in Nat
  BY AboveTop, Log2nNat
<1>2. t \in Levels /\ t # 0 /\ t + 1 \in 1..Log2n + 1
  BY <1>1 DEF Levels
<1>3. x \in 1..n - 1 /\ Above(k)[t + 1] = x \div 2 /\ (x = 1 <=> t = Log2n)
  BY <1>2, PathNode
<1>4. /\ b \in Trees
      /\ Replaced(a, b, x, Merge(Seen(a, 2 * x), Seen(a, 2 * x + 1)), a[x].update)
      /\ \A y \in Nodes : b[y].update = a[y].update
  BY <1>3, RecomputeIs
<1>5. IsOwed(b, owed)
  BY <1>4, SameOwed
<1>6. ASSUME NEW stale, NEW e, StandsFor(a, owed, PathOf(k, t) \cup stale, e)
      PROVE  StandsFor(b, owed, PathOf(k, t + 1) \cup stale, e)
  <2> DEFINE now == PathOf(k, t) \cup stale
             later == PathOf(k, t + 1) \cup stale
  <2>1. \A y \in now : y \in later \/ y = x
    <3>1. \A y \in PathOf(k, t) : y \in PathOf(k, t + 1) \/ y = x
      <4>1. ASSUME NEW q \in t..Log2n PROVE Above(k)[q] \in PathOf(k, t + 1) \/ Above(k)[q] = x
        <5>1. q = t \/ q \in t + 1..Log2n
          BY <1>1
        <5> QED BY <5>1 DEF PathOf
      <4> QED BY <4>1 DEF PathOf
    <3> QED BY <3>1
  <2>2. x # 1 => x \div 2 \in later
    <3>1. x # 1 => t + 1 \in t + 1..Log2n
      BY <1>1, <1>3
    <3> QED BY <1>3, <3>1 DEF PathOf
  <2>3. StandsFor(a, owed, now, e)
    BY <1>6
  <2> HIDE DEF now, later
  <2>4. StandsFor(b, owed, later, e)
    BY <1>3, <1>4, <2>1, <2>2, <2>3, RecomputeStandsFor
  <2> QED BY <2>4 DEF later
<1>7. x \div 2 \in 0..2 * n - 1
  BY <1>3, nNat
<1> QED BY <1>2, <1>3, <1>4, <1>5, <1>6, <1>7 DEF Rejoined

LEMMA RebuildTurnHolds ==
  ASSUME NEW a \in Trees, NEW owed, IsOwed(a, owed), NEW o, OpOK(o), NEW e, NEW s,
         o.at \in {"rebuildL", "rebuildR"}, o.i # 0, Holds(a, owed, o, e, s),
         NEW b, b = Recompute(a, o.i), NEW p, p = [o EXCEPT !.i = o.i \div 2]
  PROVE  b \in Trees /\ OpOK(p) /\ p.at = o.at /\ IsOwed(b, owed) /\ Holds(b, owed, p, e, s)
<1>1. o.l \in Leaves /\ o.r \in Leaves /\ o.at # "idle"
  BY OpIs
<1>2. ASSUME NEW q \in 0..2 * n - 1, q = o.i \div 2
      PROVE  /\ OpOK(p)
             /\ p.name = o.name /\ p.l = o.l /\ p.r = o.r /\ p.upd = o.upd /\ p.at = o.at /\ p.i = o.i \div 2
  BY <1>1, <1>2, OpAtI
<1>3. CASE o.at = "rebuildL"
  <2>1. PICK t \in 1..Log2n + 1 :
          /\ o.i = Above(o.l)[t]
          /\ s = 0 => StandsFor(a, owed, PathOf(o.l, t) \cup PathOf(o.r, 1), After(o, e))
    BY <1>3 DEF Holds, RebuildingL
  <2>2. /\ b \in Trees /\ IsOwed(b, owed)
        /\ t + 1 \in 1..Log2n + 1 /\ o.i \div 2 = Above(o.l)[t + 1] /\ o.i \div 2 \in 0..2 * n - 1
        /\ s = 0 => StandsFor(b, owed, PathOf(o.l, t + 1) \cup PathOf(o.r, 1), After(o, e))
    <3>1. /\ b \in Trees /\ IsOwed(b, owed)
          /\ t + 1 \in 1..Log2n + 1 /\ o.i \div 2 = Above(o.l)[t + 1] /\ o.i \div 2 \in 0..2 * n - 1
          /\ Rejoined(a, b, owed, o.l, t)
      <4> DEFINE x == o.i
                 k == o.l
      <4>1. k \in Leaves /\ x = Above(k)[t] /\ x # 0 /\ b = Recompute(a, x)
        BY <1>1, <2>1
      <4> HIDE DEF x, k
      <4>2. /\ b \in Trees /\ IsOwed(b, owed)
            /\ t + 1 \in 1..Log2n + 1 /\ x \div 2 = Above(k)[t + 1] /\ x \div 2 \in 0..2 * n - 1
            /\ Rejoined(a, b, owed, k, t)
        BY <4>1, RebuildOne
      <4> QED BY <4>2 DEF x, k
    <3> QED BY <2>1, <3>1 DEF Rejoined
  <2>3. /\ OpOK(p)
        /\ p.name = o.name /\ p.l = o.l /\ p.r = o.r /\ p.upd = o.upd /\ p.at = o.at /\ p.i = o.i \div 2
    BY <1>2, <2>2
  <2>4. After(p, e) = After(o, e)
    BY <2>3, SameAfter
  <2>5. RebuildingL(b, owed, p, e, s)
    <3>1. /\ p.i = Above(p.l)[t + 1]
          /\ s = 0 => StandsFor(b, owed, PathOf(p.l, t + 1) \cup PathOf(p.r, 1), After(p, e))
      BY <2>2, <2>3, <2>4
    <3> QED BY <2>2, <3>1 DEF RebuildingL
  <2> QED BY <1>3, <2>2, <2>3, <2>5 DEF Holds
<1>4. CASE o.at = "rebuildR"
  <2>1. PICK t \in 1..Log2n + 1 :
          /\ o.i = Above(o.r)[t]
          /\ s = 0 => StandsFor(a, owed, PathOf(o.r, t) \cup {}, After(o, e))
    BY <1>4 DEF Holds, RebuildingR
  <2>2. /\ b \in Trees /\ IsOwed(b, owed)
        /\ t + 1 \in 1..Log2n + 1 /\ o.i \div 2 = Above(o.r)[t + 1] /\ o.i \div 2 \in 0..2 * n - 1
        /\ s = 0 => StandsFor(b, owed, PathOf(o.r, t + 1) \cup {}, After(o, e))
    <3>1. /\ b \in Trees /\ IsOwed(b, owed)
          /\ t + 1 \in 1..Log2n + 1 /\ o.i \div 2 = Above(o.r)[t + 1] /\ o.i \div 2 \in 0..2 * n - 1
          /\ Rejoined(a, b, owed, o.r, t)
      <4> DEFINE x == o.i
                 k == o.r
      <4>1. k \in Leaves /\ x = Above(k)[t] /\ x # 0 /\ b = Recompute(a, x)
        BY <1>1, <2>1
      <4> HIDE DEF x, k
      <4>2. /\ b \in Trees /\ IsOwed(b, owed)
            /\ t + 1 \in 1..Log2n + 1 /\ x \div 2 = Above(k)[t + 1] /\ x \div 2 \in 0..2 * n - 1
            /\ Rejoined(a, b, owed, k, t)
        BY <4>1, RebuildOne
      <4> QED BY <4>2 DEF x, k
    <3> QED BY <2>1, <3>1 DEF Rejoined
  <2>3. /\ OpOK(p)
        /\ p.name = o.name /\ p.l = o.l /\ p.r = o.r /\ p.upd = o.upd /\ p.at = o.at /\ p.i = o.i \div 2
    BY <1>2, <2>2
  <2>4. After(p, e) = After(o, e) /\ PathOf(o.r, t + 1) \cup {} = PathOf(o.r, t + 1)
    BY <2>3, SameAfter
  <2>5. RebuildingR(b, owed, p, e, s)
    <3>1. /\ p.i = Above(p.r)[t + 1]
          /\ s = 0 => StandsFor(b, owed, PathOf(p.r, t + 1), After(p, e))
      BY <2>2, <2>3, <2>4
    <3> QED BY <2>2, <3>1 DEF RebuildingR
  <2> QED BY <1>4, <2>2, <2>3, <2>5 DEF Holds
<1> QED BY <1>3, <1>4

\* Only above the root is there node 0.
LEMMA RebuildDone ==
  ASSUME NEW k \in Leaves, NEW t \in 1..Log2n + 1, Above(k)[t] = 0
  PROVE  PathOf(k, t) = {}
<1>1. CASE t = Log2n + 1
  BY <1>1, Log2nNat DEF PathOf
<1>2. CASE t # Log2n + 1
  <2>1. t \in Levels
    BY <1>2, Log2nNat DEF Levels
  <2>2. Above(k)[t] \in Nodes
    BY <2>1, PathNode
  <2>3. 0 \notin Nodes
    BY DEF Nodes
  <2> QED BY <2>2, <2>3
<1> QED BY <1>1, <1>2

LEMMA RebuildLEndHolds ==
  ASSUME NEW a, NEW owed, NEW o, OpOK(o), NEW e, NEW s,
         o.at = "rebuildL", o.i = 0, RebuildingL(a, owed, o, e, s),
         NEW p, p = [o EXCEPT !.at = "rebuildR", !.i = (o.r + n) \div 2]
  PROVE  OpOK(p) /\ p.at = "rebuildR" /\ RebuildingR(a, owed, p, e, s)
<1>1. o.l \in Leaves /\ o.r \in Leaves /\ o.name = "Update" /\ 1 \in 1..Log2n + 1
  BY OpIs, Log2nNat DEF OpOK, NamesAt
<1>2. PICK t \in 1..Log2n + 1 :
        /\ o.i = Above(o.l)[t]
        /\ s = 0 => StandsFor(a, owed, PathOf(o.l, t) \cup PathOf(o.r, 1), After(o, e))
  BY DEF RebuildingL
<1>3. PathOf(o.l, t) = {}
  BY <1>1, <1>2, RebuildDone
<1>4. PathOf(o.l, t) \cup PathOf(o.r, 1) = PathOf(o.r, 1)
  BY <1>3
<1>5. (o.r + n) \div 2 = Above(o.r)[1] /\ (o.r + n) \div 2 \in 0..2 * n - 1
  BY <1>1, AboveLeaf
<1>6. /\ OpOK(p)
      /\ p.name = o.name /\ p.l = o.l /\ p.r = o.r /\ p.upd = o.upd /\ p.at = "rebuildR"
      /\ p.i = (o.r + n) \div 2
  <2>1. o.name \in NamesAt["rebuildR"]
    BY <1>1 DEF NamesAt
  <2> DEFINE at == "rebuildR"
             q == (o.r + n) \div 2
  <2>2. MayRebuild(o, at, q)
    BY <1>5, <2>1 DEF MayRebuild
  <2>3. p = Moved(o, at, q)
    BY DEF Moved
  <2> HIDE DEF at, q
  <2>4. OpOK(p) /\ Goes(o, p, at, q)
    BY <2>2, <2>3, OpRebuild
  <2> QED BY <2>4 DEF at, q, Goes
<1>7. After(p, e) = After(o, e)
  BY <1>6, SameAfter
<1>8. /\ p.i = Above(p.r)[1]
      /\ s = 0 => StandsFor(a, owed, PathOf(p.r, 1), After(p, e))
  BY <1>2, <1>4, <1>5, <1>6, <1>7
<1> QED BY <1>1, <1>6, <1>8 DEF RebuildingR

LEMMA AfterIs ==
  ASSUME NEW o, OpOK(o), NEW e \in Arrays
  PROVE  After(o, e) \in Arrays
<1>1. \A k \in Leaves : e[k] \in Values /\ ApplyUpdate(o.upd, e[k]) \in Values
  BY OpIs, ApplyIs DEF Arrays
<1> QED BY <1>1, FreshIs DEF After, Arrays

LEMMA RebuildREndHolds ==
  ASSUME NEW a, NEW owed, NEW o, OpOK(o), NEW e, NEW s,
         o.at = "rebuildR", o.i = 0, RebuildingR(a, owed, o, e, s)
  PROVE  Holds(a, owed, Idle, After(o, e), s)
<1>1. o.r \in Leaves
  BY OpIs
<1>2. PICK t \in 1..Log2n + 1 :
        /\ o.i = Above(o.r)[t]
        /\ s = 0 => StandsFor(a, owed, PathOf(o.r, t), After(o, e))
  BY DEF RebuildingR
<1>3. PathOf(o.r, t) = {}
  BY <1>1, <1>2, RebuildDone
<1>4. Exact(a, owed, After(o, e), s)
  BY <1>2, <1>3 DEF Exact
<1> QED BY <1>4, IdleOK

-----------------------------------------------------------------------------
(* Update and Get narrow what is left of the range.                        *)

TakenBy(o) == {x \in {o.i, o.j} : (x = o.i /\ o.i % 2 = 1) \/ (x = o.j /\ o.j % 2 = 0)}

Narrows(o, p) ==
  /\ p.name = o.name /\ p.l = o.l /\ p.r = o.r /\ p.upd = o.upd /\ p.at = o.at
  /\ p.i = (o.i + 1) \div 2 /\ p.j = (o.j - 1) \div 2

LEMMA EndsNodes ==
  ASSUME NEW o, OpOK(o), NEW t \in 0..Log2n + 1, Ends(o, t), o.i <= o.j
  PROVE  t \in Levels /\ o.i \in Level(t) /\ o.j \in Level(t)
<1>1. o.l \in Leaves /\ o.r \in Leaves /\ o.i \in Int /\ o.j \in Int
  BY OpIs, nNat
<1>2. t \in Levels
  <2>1. t # Log2n + 1
    <3> SUFFICES ASSUME t = Log2n + 1 PROVE FALSE
      OBVIOUS
    <3>1. o.j \in {0 - 1, 0} /\ o.i >= 1
      BY <1>1, AboveTop DEF Ends
    <3> QED BY <1>1, <3>1
  <2> QED BY <2>1, Log2nNat DEF Levels
<1>3. Above(o.l)[t] \in Level(t) /\ Above(o.r)[t] \in Level(t)
  BY <1>1, <1>2, AboveLevel
<1>4. PowerOf2[Log2n - t] \in Int
  <2>1. Log2n - t \in 0..Log2n + 1
    BY <1>2, Log2nNat DEF Levels
  <2> QED BY <2>1, PowersNat
<1>5. o.i >= Above(o.l)[t] /\ o.j <= Above(o.r)[t]
  <2>1. Above(o.l)[t] \in Int /\ Above(o.r)[t] \in Int
    BY <1>3, <1>4 DEF Level
  <2> QED BY <2>1 DEF Ends
<1> QED BY <1>1, <1>2, <1>3, <1>4, <1>5 DEF Level

LEMMA TakenIs ==
  ASSUME NEW o, o.i \in Int, o.j \in Int, o.i >= 1, o.i <= o.j, NEW y \in Int
  PROVE  LET half == ((o.i + 1) \div 2)..((o.j - 1) \div 2)
         IN  /\ y \in TakenBy(o) <=> (y \in o.i..o.j /\ y \div 2 \notin half)
             /\ y \div 2 \in half => y \in o.i..o.j
<1> DEFINE i == o.i
           j == o.j
           half == ((i + 1) \div 2)..((j - 1) \div 2)
<1>1. i \in Int /\ j \in Int /\ i >= 1 /\ i <= j
  OBVIOUS
<1>2. y \in TakenBy(o) <=> ((y = i /\ i % 2 = 1) \/ (y = j /\ j % 2 = 0))
  BY DEF TakenBy
<1> HIDE DEF i, j
<1>3. y \div 2 \in half => y \in i..j
  BY <1>1
<1>4. ((y = i /\ i % 2 = 1) \/ (y = j /\ j % 2 = 0)) => y \in i..j /\ y \div 2 \notin half
  BY <1>1
<1>5. y \in i..j /\ y \div 2 \notin half => ((y = i /\ i % 2 = 1) \/ (y = j /\ j % 2 = 0))
  BY <1>1
<1>6. /\ y \in TakenBy(o) <=> (y \in i..j /\ y \div 2 \notin half)
      /\ y \div 2 \in half => y \in i..j
  BY <1>2, <1>3, <1>4, <1>5
<1> QED BY <1>6 DEF i, j

LEMMA NarrowEnds ==
  ASSUME NEW o, OpOK(o), NEW t \in Levels, Ends(o, t), o.i <= o.j, NEW p, Narrows(o, p)
  PROVE  t + 1 \in 0..Log2n + 1 /\ Ends(p, t + 1) /\ p.i \in 0..2 * n - 1 /\ p.j \in 0..2 * n - 1
<1> DEFINE x == Above(o.l)[t]
           y == Above(o.r)[t]
<1>1. /\ o.l \in Leaves /\ o.r \in Leaves /\ o.i \in Int /\ o.j \in Int /\ t + 1 \in 0..Log2n + 1
      /\ n \in Nat /\ o.i \in 0..2 * n - 1 /\ o.j \in 0..2 * n - 1 /\ o.i >= 1
  BY OpIs, nNat, Log2nNat DEF Levels, Ends
<1>2. \A k \in Leaves : Above(k)[t + 1] = Above(k)[t] \div 2 /\ Above(k)[t] \in Int
  BY PathNode, NodeNumbers
<1>3. x \in Int /\ y \in Int /\ Above(o.l)[t + 1] = x \div 2 /\ Above(o.r)[t + 1] = y \div 2
  BY <1>1, <1>2
<1>4. o.i \in {x, x + 1} /\ o.j \in {y - 1, y}
  BY DEF Ends
<1>5. p.i = (o.i + 1) \div 2 /\ p.j = (o.j - 1) \div 2 /\ p.l = o.l /\ p.r = o.r
  BY DEF Narrows
<1>6. \A k \in Leaves : Above(k)[t + 1] \in p.i..p.j => k \in p.l..p.r
  <2>1. ASSUME NEW k \in Leaves, Above(k)[t + 1] \in p.i..p.j PROVE k \in p.l..p.r
    <3> DEFINE q == Above(k)[t]
    <3>1. q \in Int /\ q \div 2 \in ((o.i + 1) \div 2)..((o.j - 1) \div 2)
      BY <1>2, <1>5, <2>1
    <3>2. q \in o.i..o.j
      <4> HIDE DEF q
      <4> QED BY <1>1, <3>1, TakenIs
    <3> QED BY <1>5, <3>2 DEF Ends
  <2> QED BY <2>1
<1> HIDE DEF x, y
<1>7. p.i \in {x \div 2, x \div 2 + 1} /\ p.j \in {y \div 2 - 1, y \div 2}
  BY <1>1, <1>3, <1>4, <1>5
<1>8. p.i >= 1 /\ p.i <= p.j + 1 /\ p.i \in 0..2 * n - 1 /\ p.j \in 0..2 * n - 1
  BY <1>1, <1>5
<1> QED BY <1>1, <1>3, <1>5, <1>6, <1>7, <1>8 DEF Ends

\* The nodes taken hang off the two paths.
LEMMA TakenNodes ==
  ASSUME NEW o, OpOK(o), NEW t \in Levels, Ends(o, t), o.i <= o.j, NEW x \in TakenBy(o)
  PROVE  /\ x \in Nodes /\ x \in Level(t) /\ x \in Int /\ o.i <= x
         /\ x # 1 => /\ t + 1 \in Levels /\ x \div 2 \in Level(t + 1) /\ x \div 2 < o.i
                     /\ x \div 2 = Above(o.l)[t + 1] \/ x \div 2 = Above(o.r)[t + 1]
<1>0. t \in 0..Log2n + 1
  BY Log2nNat DEF Levels
<1>1. o.i \in Level(t) /\ o.j \in Level(t) /\ o.l \in Leaves /\ o.r \in Leaves
  BY <1>0, EndsNodes, OpIs
<1>2. x \in Level(t) /\ x \in {o.i, o.j}
  BY <1>1 DEF TakenBy
<1>3. x \in Nodes /\ x \in Int /\ o.i \in Int /\ o.j \in Int
  BY <1>1, <1>2, LevelRange
<1>4. o.i <= x
  BY <1>2, <1>3
<1>5. ASSUME x # 1
      PROVE  /\ t + 1 \in Levels /\ x \div 2 \in Level(t + 1) /\ x \div 2 < o.i
             /\ x \div 2 = Above(o.l)[t + 1] \/ x \div 2 = Above(o.r)[t + 1]
  <2>1. t # Log2n
    BY <1>2, <1>5, LevelTop
  <2>2. t + 1 \in Levels /\ t < t + 1
    BY <2>1, Log2nNat DEF Levels
  <2>3. x \div 2 \in Level(t + 1)
    BY <1>2, <2>1, LevelUp
  <2>4. x \div 2 < o.i
    BY <1>1, <2>2, <2>3, LevelsApart
  <2>5. x \div 2 = Above(o.l)[t + 1] \/ x \div 2 = Above(o.r)[t + 1]
    <3> DEFINE c == Above(o.l)[t]
               d == Above(o.r)[t]
    <3>1. c \in Int /\ d \in Int /\ Above(o.l)[t + 1] = c \div 2 /\ Above(o.r)[t + 1] = d \div 2
      BY <1>1, PathNode, NodeNumbers
    <3>2. o.i \in {c, c + 1} /\ o.j \in {d - 1, d}
      BY DEF Ends
    <3>3. (x = o.i /\ o.i % 2 = 1) \/ (x = o.j /\ o.j % 2 = 0)
      BY DEF TakenBy
    <3> HIDE DEF c, d
    <3>4. CASE x = o.i /\ o.i % 2 = 1
      BY <1>3, <3>1, <3>2, <3>4
    <3>5. CASE x = o.j /\ o.j % 2 = 0
      BY <1>3, <3>1, <3>2, <3>5
    <3> QED BY <3>3, <3>4, <3>5
  <2> QED BY <2>2, <2>3, <2>4, <2>5
<1> QED BY <1>2, <1>3, <1>4, <1>5

\* Nothing is pending above the nodes taken, and the paths are above them.
LEMMA TakenClean ==
  ASSUME NEW o, OpOK(o), NEW t \in Levels, Ends(o, t), o.i <= o.j, NEW owed,
         Clean(owed, o.l, t), Clean(owed, o.r, t), NEW x \in TakenBy(o)
  PROVE  /\ Rest(owed, x) = <<>>
         /\ x # 1 => x \div 2 \in PathOf(o.l, 1) \cup PathOf(o.r, 1)
<1>1. CASE x = 1
  BY <1>1 DEF Rest
<1>2. CASE x # 1
  <2>1. t + 1 \in Levels /\ (x \div 2 = Above(o.l)[t + 1] \/ x \div 2 = Above(o.r)[t + 1])
    BY <1>2, TakenNodes
  <2>2. t + 1 \in t..Log2n /\ t + 1 \in 1..Log2n
    BY <2>1, Log2nNat DEF Levels
  <2>3. owed[Above(o.l)[t + 1]] = <<>> /\ owed[Above(o.r)[t + 1]] = <<>>
    BY <2>2 DEF Clean
  <2> QED BY <1>2, <2>1, <2>2, <2>3 DEF Rest, PathOf
<1> QED BY <1>1, <1>2

LEMMA PathsBelow ==
  ASSUME NEW o, OpOK(o), NEW t \in Levels, o.i \in Level(t), NEW owed, NEW low,
         \A y \in Nodes : y < o.i => y \notin low, NEW u, NEW k \in Leaves, Clean(owed, k, t)
  PROVE  Clean(Raised(owed, low, u), k, t + 1)
<1>1. ASSUME NEW s \in t + 1..Log2n PROVE Raised(owed, low, u)[Above(k)[s]] = <<>>
  <2>1. s \in Levels /\ t < s /\ s \in t..Log2n
    BY Log2nNat DEF Levels
  <2>2. Above(k)[s] \in Nodes /\ Above(k)[s] \in Level(s)
    BY <2>1, PathNode
  <2>3. Above(k)[s] < o.i
    BY <2>1, <2>2, LevelsApart
  <2>4. Above(k)[s] \notin low /\ owed[Above(k)[s]] = <<>>
    BY <2>1, <2>2, <2>3 DEF Clean
  <2> QED BY <2>2, <2>4 DEF Raised
<1> QED BY <1>1 DEF Clean

LEMMA CoveredNext ==
  ASSUME NEW o, OpOK(o), NEW t \in Levels, Ends(o, t), o.i <= o.j, NEW p, Narrows(o, p), NEW e, NEW k \in Leaves
  PROVE  Covered(p, e, t + 1)[k] = IF Above(k)[t] \in TakenBy(o) THEN ApplyUpdate(o.upd, Covered(o, e, t)[k])
                                   ELSE Covered(o, e, t)[k]
<1> DEFINE y == Above(k)[t]
           half == ((o.i + 1) \div 2)..((o.j - 1) \div 2)
<1>1. y \in Int /\ Above(k)[t + 1] = y \div 2
  BY PathNode, NodeNumbers
<1>2. o.i \in Int /\ o.j \in Int /\ o.i >= 1
  BY OpIs, nNat DEF Ends
<1>3. /\ y \in TakenBy(o) <=> (y \in o.i..o.j /\ y \div 2 \notin half)
      /\ y \div 2 \in half => y \in o.i..o.j
  <2> HIDE DEF y
  <2> QED BY <1>1, <1>2, TakenIs
<1>4. y \in o.i..o.j => k \in o.l..o.r
  BY DEF Ends
<1>5. Covered(o, e, t)[k] = IF k \in o.l..o.r /\ y \notin o.i..o.j THEN ApplyUpdate(o.upd, e[k]) ELSE e[k]
  BY DEF Covered
<1>6. Covered(p, e, t + 1)[k] = IF k \in o.l..o.r /\ y \div 2 \notin half THEN ApplyUpdate(o.upd, e[k]) ELSE e[k]
  BY <1>1 DEF Covered, Narrows
<1> HIDE DEF y, half
<1>7. CASE y \in TakenBy(o)
  BY <1>3, <1>4, <1>5, <1>6, <1>7 DEF y
<1>8. CASE y \notin TakenBy(o)
  BY <1>3, <1>4, <1>5, <1>6, <1>8 DEF y
<1> QED BY <1>7, <1>8

LEMMA UpdateTurnHolds ==
  ASSUME NEW a \in Trees, NEW owed, IsOwed(a, owed), NEW o, OpOK(o), NEW e, NEW s,
         o.at = "cover", o.name = "Update", o.i <= o.j, Covering(a, owed, o, e, s),
         NEW b, b = MarkAll(a, TakenBy(o), o.upd), NEW p, Narrows(o, p)
  PROVE  b \in Trees /\ \E after : IsOwed(b, after) /\ Covering(b, after, p, e, s)
<1>1. PICK t \in 0..Log2n + 1 : CoveringAt(a, owed, o, e, s, t)
  BY DEF Covering
<1>2. Ends(o, t) /\ Clean(owed, o.l, t) /\ Clean(owed, o.r, t)
  BY <1>1 DEF CoveringAt
<1>3. t \in Levels /\ o.i \in Level(t) /\ o.l \in Leaves /\ o.r \in Leaves /\ o.upd \in Updates
  BY <1>2, EndsNodes, OpIs
<1>4. t + 1 \in 0..Log2n + 1 /\ Ends(p, t + 1)
  BY <1>2, <1>3, NarrowEnds
<1> DEFINE s0 == TakenBy(o)
           u == o.upd
<1>5. \A x \in s0 : /\ x \in Nodes /\ x \in Level(t) /\ ~ (x < o.i) /\ Rest(owed, x) = <<>>
                    /\ x # 1 => x \div 2 \in Nodes /\ x \div 2 < o.i
                    /\ x # 1 => x \div 2 \in PathOf(o.l, 1) \cup PathOf(o.r, 1)
  <2>1. ASSUME NEW x \in s0
        PROVE  /\ x \in Nodes /\ x \in Level(t) /\ ~ (x < o.i) /\ Rest(owed, x) = <<>>
               /\ x # 1 => x \div 2 \in Nodes /\ x \div 2 < o.i
               /\ x # 1 => x \div 2 \in PathOf(o.l, 1) \cup PathOf(o.r, 1)
    <3>1. /\ x \in Nodes /\ x \in Level(t) /\ x \in Int /\ o.i <= x
          /\ x # 1 => x \div 2 < o.i
      BY <1>2, <1>3, TakenNodes
    <3>2. Rest(owed, x) = <<>> /\ (x # 1 => x \div 2 \in PathOf(o.l, 1) \cup PathOf(o.r, 1))
      BY <1>2, <1>3, TakenClean
    <3>3. x # 1 => x \div 2 \in Nodes
      BY <3>1, NodeNumbers
    <3>4. o.i \in Int
      BY <1>3, LevelRange
    <3> QED BY <3>1, <3>2, <3>3, <3>4
  <2> QED BY <2>1
<1>6. PICK low : IsBelow(low, s0)
  BY BelowExists
<1>7. o.i \in Nodes
  BY <1>3, LevelRange
<1>8. \A y \in Nodes : y < o.i => y \notin low
  <2> DEFINE z == o.i
  <2>1. z \in Nodes /\ \A x \in s0 : ~ (x < z)
    BY <1>5, <1>7
  <2> HIDE DEF z, s0
  <2>2. \A y \in Nodes : y < z => y \notin low
    BY <1>6, <2>1, NotBelow
  <2> QED BY <2>2 DEF z
<1> DEFINE after == Raised(owed, low, u)
<1>9. b \in Trees /\ MarkedAll(a, b, s0, u)
  <2>1. b = MarkAll(a, s0, u) /\ u \in Updates
    BY <1>3
  <2> HIDE DEF s0, u
  <2> QED BY <2>1, MarkAllIs
<1>10. IsOwed(b, after)
  <2>1. /\ \A x \in s0 : x \in Nodes /\ Rest(owed, x) = <<>>
        /\ \A x \in s0 : x # 1 => x \div 2 \notin low
        /\ u \in Updates
    BY <1>3, <1>5, <1>8
  <2> HIDE DEF s0, u
  <2> QED BY <1>6, <1>9, <2>1, MarkAllOwed
<1>11. Clean(after, o.l, t + 1) /\ Clean(after, o.r, t + 1)
  <2> HIDE DEF u
  <2> QED BY <1>2, <1>3, <1>8, PathsBelow
<1>12. ASSUME s = 0 PROVE CoveringUpdate(b, after, p, e, t + 1)
  <2> DEFINE stale == PathOf(o.l, 1) \cup PathOf(o.r, 1)
             target == Covered(o, e, t)
             new == Covered(p, e, t + 1)
  <2>1. StandsFor(a, owed, stale, target)
    BY <1>1, <1>12 DEF CoveringAt, CoveringUpdate
  <2>2. /\ \A x \in s0 : x # 1 => x \div 2 \in stale
        /\ \A x \in s0 : x \in Nodes
    BY <1>5
  <2>3. \A k \in Leaves : new[k] = IF k + n \in low THEN ApplyUpdate(u, target[k]) ELSE target[k]
    <3>1. ASSUME NEW k \in Leaves
          PROVE  new[k] = IF k + n \in low THEN ApplyUpdate(u, target[k]) ELSE target[k]
      <4>1. new[k] = IF Above(k)[t] \in s0 THEN ApplyUpdate(u, target[k]) ELSE target[k]
        BY <1>2, <1>3, CoveredNext
      <4>2. k + n \in low <=> Above(k)[t] \in s0
        <5> DEFINE z == o.i
        <5>1. z \in Level(t) /\ s0 \in SUBSET Level(t) /\ \A x \in s0 : ~ (x < z)
          BY <1>3, <1>5
        <5> HIDE DEF z, s0
        <5> QED BY <1>3, <1>6, <5>1, LeavesBelow
      <4> QED BY <4>1, <4>2
    <3> QED BY <3>1
  <2>4. u \in Updates
    BY <1>3
  <2> HIDE DEF s0, u, stale, target, new
  <2>5. StandsFor(b, after, stale, new)
    BY <1>9, <2>1, <2>2, <2>3, <2>4, MarkAllStandsFor
  <2> QED BY <2>5 DEF stale, new, CoveringUpdate, Narrows
<1>13. CoveringAt(b, after, p, e, s, t + 1)
  <2>1. p.name = "Update" /\ p.l = o.l /\ p.r = o.r
    BY DEF Narrows
  <2> HIDE DEF after
  <2> QED BY <1>4, <1>11, <1>12, <2>1 DEF CoveringAt
<1>14. IsOwed(b, after) /\ Covering(b, after, p, e, s)
  <2> HIDE DEF after
  <2> QED BY <1>4, <1>10, <1>13 DEF Covering
<1> QED BY <1>9, <1>14

\* The loop of Update ends when it has marked all of the range.
LEMMA UpdateEndHolds ==
  ASSUME NEW a, NEW owed, NEW o, OpOK(o), NEW e, NEW s,
         o.at = "cover", o.name = "Update", ~ (o.i <= o.j), Covering(a, owed, o, e, s),
         NEW p, p = [o EXCEPT !.at = "rebuildL", !.i = (o.l + n) \div 2]
  PROVE  OpOK(p) /\ p.at = "rebuildL" /\ RebuildingL(a, owed, p, e, s)
<1>1. PICK t \in 0..Log2n + 1 : CoveringAt(a, owed, o, e, s, t)
  BY DEF Covering
<1>2. o.i \in Int /\ o.j \in Int /\ o.l \in Leaves /\ o.r \in Leaves /\ 1 \in 1..Log2n + 1
  BY OpIs, nNat, Log2nNat
<1>3. (o.l + n) \div 2 = Above(o.l)[1] /\ (o.l + n) \div 2 \in 0..2 * n - 1
  BY <1>2, AboveLeaf
<1>4. OpOK(p) /\ p.name = "Update" /\ p.l = o.l /\ p.r = o.r /\ p.upd = o.upd /\ p.at = "rebuildL"
      /\ p.i = (o.l + n) \div 2
  <2> DEFINE at == "rebuildL"
             q == (o.l + n) \div 2
  <2>1. MayRebuild(o, at, q)
    BY <1>3 DEF MayRebuild, NamesAt
  <2>2. p = Moved(o, at, q)
    BY DEF Moved
  <2> HIDE DEF at, q
  <2>3. OpOK(p) /\ Goes(o, p, at, q)
    BY <2>1, <2>2, OpRebuild
  <2> QED BY <2>3 DEF at, q, Goes
<1>5. Covered(o, e, t) = After(p, e)
  <2>1. o.i..o.j = {}
    BY <1>2
  <2>2. \A k \in Leaves : Above(k)[t] \notin o.i..o.j
    BY <2>1
  <2> QED BY <1>4, <2>2 DEF Covered, After
<1>6. s = 0 => StandsFor(a, owed, PathOf(p.l, 1) \cup PathOf(p.r, 1), After(p, e))
  BY <1>1, <1>4, <1>5 DEF CoveringAt, CoveringUpdate
<1>7. p.i = Above(p.l)[1]
  BY <1>3, <1>4
<1> QED BY <1>2, <1>4, <1>6, <1>7 DEF RebuildingL

SumsUp(a, o, p) ==
  /\ p.summedL = IF o.i % 2 = 1 THEN Merge(o.summedL, Seen(a, o.i)) ELSE o.summedL
  /\ p.summedR = IF o.j % 2 = 0 THEN Merge(Seen(a, o.j), o.summedR) ELSE o.summedR
  /\ p.spoils = (o.spoils \/ \E x \in TakenBy(o) : Pending(a, x))

LEMMA TakenWhole ==
  ASSUME NEW a \in Trees, NEW owed, IsOwed(a, owed), NEW e, NEW t \in Levels, NEW x \in Level(t),
         Whole(a, owed, e, t, x), Rest(owed, x) = <<>>
  PROVE  Seen(a, x) = Total(e, First(t, x), First(t, x + 1) - 1)
<1>1. x \in Nodes
  BY LevelRange
<1>2. owed[x] = a[x].update \o <<>> /\ a[x].update \in Updates
  BY <1>1, OwedIsRest
<1>3. owed[x] = a[x].update
  BY <1>2, EmptyUpdate
<1> QED BY <1>3 DEF Whole, Seen

LEMMA NarrowSumsLeft ==
  ASSUME NEW o, OpOK(o), NEW t \in Levels, o.i \in Level(t), NEW e \in Arrays,
         First(t, o.i) >= o.l, o.summedL = Total(e, o.l, First(t, o.i) - 1),
         NEW v, o.i % 2 = 1 => v = Total(e, First(t, o.i), First(t, o.i + 1) - 1),
         NEW p, Narrows(o, p), p.summedL = IF o.i % 2 = 1 THEN Merge(o.summedL, v) ELSE o.summedL
  PROVE  First(t + 1, p.i) >= p.l /\ p.summedL = Total(e, p.l, First(t + 1, p.i) - 1)
<1> DEFINE x == o.i
           f == First(t, x)
           g == First(t, x + 1)
           l == o.l
<1>1. x \in Int /\ f \in 0..n - 1 /\ g \in f + 1..n /\ f \in 0..n /\ l \in 0..n - 1 /\ n \in Nat
  BY FirstsInRange, OpIs, nNat DEF Leaves
<1>2. p.i = (x + 1) \div 2 /\ p.l = l
  BY DEF Narrows
<1>3. p.i \in Int
  BY <1>1, <1>2
<1>4. First(t + 1, p.i) = First(t, 2 * p.i)
  BY <1>3, FirstUp
<1>5. CASE x % 2 = 1
  <2>1. 2 * p.i = x + 1
    BY <1>1, <1>2, <1>5
  <2>2. First(t + 1, p.i) = g
    BY <1>4, <2>1
  <2>3. l \in 0..n /\ f \in l..n /\ g - 1 \in f - 1..n - 1 /\ g >= l
    <3>1. f >= l
      OBVIOUS
    <3> HIDE DEF x, f, g, l
    <3> QED BY <1>1, <3>1
  <2>4. Total(e, l, f - 1) \o Total(e, f, g - 1) = Total(e, l, g - 1)
    <3> HIDE DEF x, f, g, l
    <3> QED BY <2>3, TotalJoin
  <2>5. p.summedL = Total(e, l, f - 1) \o Total(e, f, g - 1)
    BY <1>5 DEF Merge
  <2> HIDE DEF x, f, g, l
  <2> QED BY <1>2, <2>2, <2>3, <2>4, <2>5
<1>6. CASE x % 2 # 1
  <2>1. 2 * p.i = x
    BY <1>1, <1>2, <1>6
  <2>2. First(t + 1, p.i) = f
    BY <1>4, <2>1
  <2> QED BY <1>2, <1>6, <2>2
<1> QED BY <1>5, <1>6

LEMMA NarrowSumsRight ==
  ASSUME NEW o, OpOK(o), NEW t \in Levels, o.j \in Level(t), NEW e \in Arrays,
         First(t, o.j + 1) <= o.r + 1, o.summedR = Total(e, First(t, o.j + 1), o.r),
         NEW v, o.j % 2 = 0 => v = Total(e, First(t, o.j), First(t, o.j + 1) - 1),
         NEW p, Narrows(o, p), p.summedR = IF o.j % 2 = 0 THEN Merge(v, o.summedR) ELSE o.summedR
  PROVE  First(t + 1, p.j + 1) <= p.r + 1 /\ p.summedR = Total(e, First(t + 1, p.j + 1), p.r)
<1> DEFINE x == o.j
           f == First(t, x)
           g == First(t, x + 1)
           r == o.r
<1>1. x \in Int /\ f \in 0..n - 1 /\ g \in f + 1..n /\ f \in 0..n /\ r \in 0..n - 1 /\ n \in Nat
  BY FirstsInRange, OpIs, nNat DEF Leaves
<1>2. p.j = (x - 1) \div 2 /\ p.r = r
  BY DEF Narrows
<1>3. p.j \in Int /\ p.j + 1 \in Int
  BY <1>1, <1>2
<1>4. First(t + 1, p.j + 1) = First(t, 2 * (p.j + 1))
  <2> DEFINE y == p.j + 1
  <2>1. y \in Int
    BY <1>3
  <2> HIDE DEF y
  <2>2. First(t + 1, y) = First(t, 2 * y)
    BY <2>1, FirstUp
  <2> QED BY <2>2 DEF y
<1>5. CASE x % 2 = 0
  <2>1. 2 * (p.j + 1) = x
    BY <1>1, <1>2, <1>5
  <2>2. First(t + 1, p.j + 1) = f
    BY <1>4, <2>1
  <2>3. f \in 0..n /\ g \in f..n /\ r \in g - 1..n - 1 /\ f <= r + 1
    <3>1. g <= r + 1
      OBVIOUS
    <3> HIDE DEF x, f, g, r
    <3> QED BY <1>1, <3>1
  <2>4. Total(e, f, g - 1) \o Total(e, g, r) = Total(e, f, r)
    <3> HIDE DEF x, f, g, r
    <3> QED BY <2>3, TotalJoin
  <2>5. p.summedR = Total(e, f, g - 1) \o Total(e, g, r)
    BY <1>5 DEF Merge
  <2> HIDE DEF x, f, g, r
  <2> QED BY <1>2, <2>2, <2>3, <2>4, <2>5
<1>6. CASE x % 2 # 0
  <2>1. 2 * (p.j + 1) = x + 1
    BY <1>1, <1>2, <1>6
  <2>2. First(t + 1, p.j + 1) = g
    BY <1>4, <2>1
  <2> QED BY <1>2, <1>6, <2>2
<1> QED BY <1>5, <1>6

LEMMA SeeAllIs ==
  ASSUME NEW a \in Trees, NEW s
  PROVE  /\ SeeAll(a, s) \in Trees
         /\ \A y \in Nodes : SeeAll(a, s)[y].update = a[y].update
         /\ \A y \in Nodes : y \notin s => SeeAll(a, s)[y] = a[y]
         /\ (\A x \in s : ~ Pending(a, x)) => SeeAll(a, s) = a
<1>1. ASSUME NEW y \in Nodes
      PROVE  /\ a[y] \in [value : Values, update : Updates]
             /\ [a[y] EXCEPT !.value = Seen(a, y)] \in [value : Values, update : Updates]
             /\ [a[y] EXCEPT !.value = Seen(a, y)].update = a[y].update
             /\ ~ Pending(a, y) => [a[y] EXCEPT !.value = Seen(a, y)] = a[y]
  <2>1. a[y] \in [value : Values, update : Updates] /\ Seen(a, y) \in Values
    BY NodeIs DEF Trees
  <2>2. ~ Pending(a, y) => Seen(a, y) = a[y].value
    <3>1. ~ Pending(a, y) => a[y].update = <<>>
      BY DEF Pending, ZeroUpdate
    <3>2. a[y].value \in Values
      BY NodeIs
    <3>3. ApplyUpdate(<<>>, a[y].value) = a[y].value
      BY <3>2, ApplyNothing
    <3> QED BY <3>1, <3>3 DEF Seen
  <2> QED BY <2>1, <2>2
<1> DEFINE b == SeeAll(a, s)
<1>2. \A y \in Nodes : b[y] = IF y \in s THEN [a[y] EXCEPT !.value = Seen(a, y)] ELSE a[y]
  BY DEF SeeAll
<1>3. b = [y \in Nodes |-> b[y]] /\ a = [y \in Nodes |-> a[y]]
  BY DEF SeeAll, Trees
<1> HIDE DEF b
<1>4. \A y \in Nodes : b[y] \in [value : Values, update : Updates] /\ b[y].update = a[y].update
  BY <1>1, <1>2
<1>5. b \in Trees
  BY <1>3, <1>4 DEF Trees
<1>6. ASSUME \A x \in s : ~ Pending(a, x) PROVE b = a
  <2>1. \A y \in Nodes : b[y] = a[y]
    BY <1>1, <1>2, <1>6
  <2> QED BY <1>3, <2>1
<1> QED BY <1>2, <1>4, <1>5, <1>6 DEF b

LEMMA GetTurnHolds ==
  ASSUME NEW a \in Trees, NEW owed, IsOwed(a, owed), NEW o, OpOK(o), NEW e \in Arrays, NEW s,
         o.at = "cover", o.name = "Get", o.i <= o.j, Covering(a, owed, o, e, s),
         NEW b, b = SeeAll(a, TakenBy(o)), NEW p, Narrows(o, p), SumsUp(a, o, p)
  PROVE  b \in Trees /\ IsOwed(b, owed) /\ Covering(b, owed, p, e, s)
<1>1. PICK t \in 0..Log2n + 1 : CoveringAt(a, owed, o, e, s, t)
  BY DEF Covering
<1>2. Ends(o, t) /\ Clean(owed, o.l, t) /\ Clean(owed, o.r, t)
  BY <1>1 DEF CoveringAt
<1>3. t \in Levels /\ o.i \in Level(t) /\ o.j \in Level(t) /\ o.l \in Leaves /\ o.r \in Leaves
  BY <1>2, EndsNodes, OpIs
<1>4. t + 1 \in 0..Log2n + 1 /\ Ends(p, t + 1)
  BY <1>2, <1>3, NarrowEnds
<1> DEFINE s0 == TakenBy(o)
<1>5. /\ b \in Trees
      /\ \A y \in Nodes : b[y].update = a[y].update
      /\ \A y \in Nodes : y \notin s0 => b[y] = a[y]
      /\ (\A x \in s0 : ~ Pending(a, x)) => b = a
  <2>1. b = SeeAll(a, s0)
    OBVIOUS
  <2> HIDE DEF s0
  <2> QED BY <2>1, SeeAllIs
<1>6. IsOwed(b, owed)
  BY <1>5, SameOwed
<1>7. Clean(owed, p.l, t + 1) /\ Clean(owed, p.r, t + 1)
  BY <1>2, <1>3 DEF Clean, Narrows, Levels
<1>8. ASSUME s = 0 PROVE CoveringGet(b, owed, p, e, t + 1)
  <2>1. /\ \A x \in t..Log2n : \A y \in Level(x) : Whole(a, owed, e, x, y)
        /\ Summed(o, e, t)
        /\ ~ o.spoils => StandsFor(a, owed, {}, e)
    BY <1>1, <1>8 DEF CoveringAt, CoveringGet
  <2>2. ASSUME NEW x \in t + 1..Log2n, NEW y \in Level(x) PROVE Whole(b, owed, e, x, y)
    <3>1. x \in t..Log2n /\ x \in Levels /\ t < x
      BY <1>3, Log2nNat DEF Levels
    <3>2. y \in Nodes /\ y \in Int
      BY <3>1, LevelRange
    <3>3. y < o.i
      BY <1>3, <3>1, LevelsApart
    <3>4. y \notin s0
      <4> SUFFICES ASSUME y \in s0 PROVE FALSE
        OBVIOUS
      <4>1. o.i <= y
        BY <1>2, <1>3, TakenNodes
      <4>2. o.i \in Int
        BY <1>3, LevelRange
      <4> QED BY <3>2, <3>3, <4>1, <4>2
    <3>5. b[y] = a[y]
      BY <1>5, <3>2, <3>4
    <3>6. Whole(a, owed, e, x, y)
      BY <2>1, <3>1
    <3> QED BY <3>5, <3>6 DEF Whole
  <2>3. \A x \in s0 : x \in {o.i, o.j} => Seen(a, x) = Total(e, First(t, x), First(t, x + 1) - 1)
    <3>1. ASSUME NEW x \in s0 PROVE Seen(a, x) = Total(e, First(t, x), First(t, x + 1) - 1)
      <4>1. x \in Level(t)
        BY <1>2, <1>3, TakenNodes
      <4>2. Rest(owed, x) = <<>>
        BY <1>2, <1>3, TakenClean
      <4>3. t \in t..Log2n
        BY <1>3, Log2nNat DEF Levels
      <4>4. Whole(a, owed, e, t, x)
        BY <2>1, <4>1, <4>3
      <4> HIDE DEF s0
      <4> QED BY <1>3, <4>1, <4>2, <4>4, TakenWhole
    <3> QED BY <3>1
  <2>4. o.i % 2 = 1 => Seen(a, o.i) = Total(e, First(t, o.i), First(t, o.i + 1) - 1)
    <3>1. o.i % 2 = 1 => o.i \in s0
      BY DEF TakenBy
    <3> QED BY <2>3, <3>1
  <2>5. o.j % 2 = 0 => Seen(a, o.j) = Total(e, First(t, o.j), First(t, o.j + 1) - 1)
    <3>1. o.j % 2 = 0 => o.j \in s0
      BY DEF TakenBy
    <3> QED BY <2>3, <3>1
  <2>6. First(t + 1, p.i) >= p.l /\ p.summedL = Total(e, p.l, First(t + 1, p.i) - 1)
    <3>1. p.summedL = IF o.i % 2 = 1 THEN Merge(o.summedL, Seen(a, o.i)) ELSE o.summedL
      BY DEF SumsUp
    <3>2. First(t, o.i) >= o.l /\ o.summedL = Total(e, o.l, First(t, o.i) - 1)
      BY <2>1 DEF Summed
    <3> DEFINE v == Seen(a, o.i)
    <3> HIDE DEF v
    <3> QED BY <1>3, <2>4, <3>1, <3>2, NarrowSumsLeft DEF v
  <2>7. First(t + 1, p.j + 1) <= p.r + 1 /\ p.summedR = Total(e, First(t + 1, p.j + 1), p.r)
    <3>1. p.summedR = IF o.j % 2 = 0 THEN Merge(Seen(a, o.j), o.summedR) ELSE o.summedR
      BY DEF SumsUp
    <3>2. First(t, o.j + 1) <= o.r + 1 /\ o.summedR = Total(e, First(t, o.j + 1), o.r)
      BY <2>1 DEF Summed
    <3> QED BY <1>3, <2>5, <3>1, <3>2, NarrowSumsRight
  <2>8. ~ p.spoils => StandsFor(b, owed, {}, e)
    <3>1. ~ p.spoils => ~ o.spoils /\ \A x \in s0 : ~ Pending(a, x)
      BY OpIs DEF SumsUp
    <3> QED BY <1>5, <2>1, <3>1
  <2> QED BY <2>2, <2>6, <2>7, <2>8 DEF CoveringGet, Summed
<1>9. CoveringAt(b, owed, p, e, s, t + 1)
  <2>1. p.name = "Get"
    BY DEF Narrows
  <2> QED BY <1>4, <1>7, <1>8, <2>1 DEF CoveringAt
<1> QED BY <1>4, <1>5, <1>6, <1>9 DEF Covering

LEMMA GetReturnsHolds ==
  ASSUME NEW a \in Trees, NEW owed, IsOwed(a, owed), NEW o, OpOK(o), NEW e \in Arrays, NEW s,
         o.at = "cover", o.name = "Get", o.i > o.j, Covering(a, owed, o, e, s)
  PROVE  s = 0 => /\ Merge(o.summedL, o.summedR) = Total(e, o.l, o.r)
                  /\ ~ o.spoils => StandsFor(a, owed, {}, e)
<1> SUFFICES ASSUME s = 0
             PROVE  /\ Merge(o.summedL, o.summedR) = Total(e, o.l, o.r)
                    /\ ~ o.spoils => StandsFor(a, owed, {}, e)
  OBVIOUS
<1>1. PICK t \in 0..Log2n + 1 : CoveringAt(a, owed, o, e, s, t)
  BY DEF Covering
<1>2. Ends(o, t) /\ CoveringGet(a, owed, o, e, t)
  BY <1>1 DEF CoveringAt
<1>3. o.i \in Int /\ o.j \in Int /\ o.l \in 0..n - 1 /\ o.r \in 0..n - 1 /\ n \in Nat
  BY OpIs, nNat DEF Leaves
<1>4. o.i = o.j + 1
  BY <1>2, <1>3 DEF Ends
<1> DEFINE m == First(t, o.i)
<1>5. /\ m >= o.l /\ m <= o.r + 1
      /\ o.summedL = Total(e, o.l, m - 1) /\ o.summedR = Total(e, m, o.r)
  BY <1>2, <1>4 DEF CoveringGet, Summed
<1>6. m \in Int
  BY <1>3, FirstInt
<1> HIDE DEF m
<1>7. o.l \in 0..n /\ m \in o.l..n /\ o.r \in m - 1..n - 1
  BY <1>3, <1>5, <1>6
<1>8. Total(e, o.l, m - 1) \o Total(e, m, o.r) = Total(e, o.l, o.r)
  BY <1>7, TotalJoin
<1> QED BY <1>2, <1>5, <1>8 DEF CoveringGet, Merge

-----------------------------------------------------------------------------
(* LongestRangeWherePredicate                                              *)

LEMMA PredicateOfParts ==
  ASSUME NEW e \in Arrays, NEW l \in 0..n, NEW m \in l..n, NEW r \in m - 1..n - 1
  PROVE  Predicate(Total(e, l, r)) <=> Predicate(Total(e, l, m - 1)) /\ Predicate(Total(e, m, r))
<1>1. n \in Nat
  BY nNat
<1>2. m - 1 \in l - 1..n - 1 /\ m \in 0..n
  BY <1>1
<1>3. Total(e, l, m - 1) \in Values
  <2> DEFINE q == m - 1
  <2>1. q \in l - 1..n - 1
    BY <1>2
  <2> HIDE DEF q
  <2>2. Total(e, l, q) \in Values
    BY <2>1, TotalValue
  <2> QED BY <2>2 DEF q
<1>4. Total(e, m, r) \in Values
  BY <1>2, TotalValue
<1>5. Total(e, l, m - 1) \o Total(e, m, r) = Total(e, l, r)
  BY TotalJoin
<1> DEFINE v == Total(e, l, m - 1)
           w == Total(e, m, r)
<1>6. v \in Values /\ w \in Values
  BY <1>3, <1>4
<1> HIDE DEF v, w
<1>7. Predicate(v \o w) <=> Predicate(v) /\ Predicate(w)
  BY <1>6, PredicateOfBoth
<1> QED BY <1>5, <1>7 DEF v, w

LEMMA LongestIs ==
  ASSUME NEW e \in Arrays, NEW r \in Leaves, NEW s \in 0..r, Predicate(Total(e, s, r)),
         s # 0 => ~ Predicate(Total(e, s - 1, s - 1))
  PROVE  GoodStart(e, r, s)
<1> DEFINE starts == {l \in 0..r : Predicate(Total(e, l, r))}
<1>1. r \in 0..n - 1 /\ n \in Nat /\ s \in starts
  BY nNat DEF Leaves
<1>2. ASSUME NEW k \in starts PROVE s <= k
  <2> SUFFICES ASSUME k < s PROVE FALSE
    BY <1>1
  <2> DEFINE m == s - 1
  <2>1. k \in 0..n /\ m \in k..n /\ r \in m - 1..n - 1 /\ m \in 0..n /\ s \in m..n /\ r \in s - 1..n - 1 /\ s - 1 = m
        /\ s # 0
    BY <1>1
  <2>2. Predicate(Total(e, k, r))
    OBVIOUS
  <2>3. ~ Predicate(Total(e, m, m))
    BY <2>1
  <2> HIDE DEF m, starts
  <2>4. Predicate(Total(e, m, r))
    BY <2>1, <2>2, PredicateOfParts
  <2>5. Predicate(Total(e, m, s - 1))
    BY <2>1, <2>4, PredicateOfParts
  <2> QED BY <2>1, <2>3, <2>5
<1>3. \A l \in starts : l \in Int
  BY <1>1
<1>4. s \in starts /\ s \in Int
  BY <1>1
<1> HIDE DEF starts
<1>5. s = CHOOSE l \in starts : \A k \in starts : l <= k
  <2> DEFINE c == CHOOSE l \in starts : \A k \in starts : l <= k
  <2>1. c \in starts /\ \A k \in starts : c <= k
    BY <1>2, <1>4
  <2>2. c <= s /\ s <= c
    BY <1>2, <1>4, <2>1
  <2>3. c \in Int
    BY <1>3, <2>1
  <2> HIDE DEF c
  <2>4. c = s
    BY <1>4, <2>2, <2>3
  <2> QED BY <2>4 DEF c
<1> QED BY <1>4, <1>5 DEF GoodStart, starts

LEMMA NoneIs ==
  ASSUME NEW e \in Arrays, NEW r \in Leaves, ~ Predicate(Total(e, r, r))
  PROVE  GoodStart(e, r, -1)
<1>1. r \in 0..n - 1 /\ n \in Nat
  BY nNat DEF Leaves
<1>2. ASSUME NEW l \in 0..r PROVE ~ Predicate(Total(e, l, r))
  <2>1. l \in 0..n /\ r \in l..n /\ r \in r - 1..n - 1
    BY <1>1
  <2> QED BY <2>1, PredicateOfParts
<1>3. {l \in 0..r : Predicate(Total(e, l, r))} = {}
  BY <1>2
<1> QED BY <1>3 DEF GoodStart

\* With nothing pending anywhere a node has the elements below it.
LEMMA QuietSeen ==
  ASSUME NEW a \in Trees, NEW owed, IsOwed(a, owed), NEW e \in Arrays, NEW s, Exact(a, owed, e, s),
         s = 0, Quiet(a), NEW t \in Levels, NEW y \in Level(t)
  PROVE  /\ Seen(a, y) = Total(e, First(t, y), First(t, y + 1) - 1)
         /\ a[y].update = <<>> /\ a[y].value = Seen(a, y)
<1>1. \A x \in Nodes : owed[x] = <<>>
  BY NothingPending DEF Quiet
<1>2. y \in Nodes /\ (y # 1 => y \div 2 \in Nodes)
  BY LevelRange, NodeNumbers
<1>3. Rest(owed, y) = <<>>
  BY <1>1, <1>2 DEF Rest
<1>4. Whole(a, owed, e, t, y)
  <2>1. StandsFor(a, owed, {}, e)
    BY DEF Exact
  <2> QED BY <2>1, Wholes
<1>5. Seen(a, y) = Total(e, First(t, y), First(t, y + 1) - 1)
  BY <1>3, <1>4, TakenWhole
<1>6. a[y].update = <<>> /\ a[y].value \in Values
  BY <1>2, NodeIs DEF Quiet, Pending, ZeroUpdate
<1>7. ApplyUpdate(<<>>, a[y].value) = a[y].value
  BY <1>6, ApplyNothing
<1> QED BY <1>5, <1>6, <1>7 DEF Seen

\* A node with nothing owed to it.
LEMMA CleanSeen ==
  ASSUME NEW a \in Trees, NEW owed, IsOwed(a, owed), NEW r \in Leaves, Clean(owed, r, 0), NEW t \in Levels
  PROVE  LET x == Above(r)[t]
         IN  owed[x] = <<>> /\ a[x].update = <<>> /\ Seen(a, x) = a[x].value
<1> DEFINE x == Above(r)[t]
<1>1. x \in Nodes /\ t \in 0..Log2n
  BY PathNode DEF Levels
<1>2. owed[x] = <<>>
  BY <1>1 DEF Clean
<1>3. a[x].value \in Values
  BY <1>1, NodeIs
<1> HIDE DEF x
<1>4. a[x].update = <<>>
  BY <1>1, <1>2, NothingOwed
<1>5. ApplyUpdate(<<>>, a[x].value) = a[x].value
  BY <1>3, ApplyNothing
<1> QED BY <1>2, <1>4, <1>5 DEF Seen, x

LEMMA CheckPassed ==
  ASSUME NEW a \in Trees, NEW owed, IsOwed(a, owed), NEW o, OpOK(o), NEW e \in Arrays, NEW s,
         Checking(a, owed, o, e, s), Predicate(a[o.i].value),
         NEW p, p.r = o.r, p.i = o.i, p.summedL = o.summedL
  PROVE  Climbing(a, owed, p, e, s)
<1>1. o.r \in Leaves /\ o.r \in 0..n - 1 /\ n \in Nat /\ 0 \in Levels
  BY OpIs, nNat, Log2nNat DEF Leaves, Levels
<1>2. o.i = Above(o.r)[0] /\ o.i \in Level(0) /\ o.i = o.r + n /\ o.summedL = <<>>
  BY <1>1, PathNode DEF Checking
<1>3. First(0, o.i + 1) = o.r + 1
  <2>1. o.i + 1 \in Int
    BY <1>1, <1>2
  <2>2. First(0, o.i + 1) = (o.i + 1) - n
    BY <2>1, FirstAtLeaf
  <2> QED BY <1>1, <1>2, <2>2
<1>4. Total(e, o.r + 1, o.r) = <<>>
  <2> DEFINE m == o.r + 1
  <2>1. m \in 0..n /\ m - 1 = o.r
    BY <1>1
  <2> HIDE DEF m
  <2>2. Total(e, m, m - 1) = <<>>
    BY <2>1, TotalNothing
  <2> QED BY <2>1, <2>2 DEF m
<1>5. ClimbingAt(a, owed, p, e, s, 0)
  BY <1>1, <1>2, <1>3, <1>4, PredicateOfNothing DEF ClimbingAt, Scan, Edge, Checking
<1> QED BY <1>1, <1>5 DEF Climbing

LEMMA CheckFailed ==
  ASSUME NEW a \in Trees, NEW owed, IsOwed(a, owed), NEW o, OpOK(o), NEW e \in Arrays, NEW s,
         Checking(a, owed, o, e, s), ~ Predicate(a[o.i].value), s = 0
  PROVE  GoodStart(e, o.r, -1)
<1>1. o.r \in Leaves /\ o.r \in 0..n - 1 /\ n \in Nat /\ 0 \in Levels
  BY OpIs, nNat, Log2nNat DEF Leaves, Levels
<1>2. o.i = Above(o.r)[0] /\ o.i = o.r + n /\ o.i \in n..2 * n - 1
  BY <1>1, PathNode DEF Checking
<1>3. owed[o.i] = <<>> /\ a[o.i].value \in Values
  <2>1. owed[o.i] = <<>>
    BY <1>1, <1>2, CleanSeen DEF Checking
  <2>2. o.i \in Nodes
    BY <1>2, NodeNumbers
  <2> QED BY <2>1, <2>2, NodeIs
<1>4. ApplyUpdate(owed[o.i], a[o.i].value) = e[o.i - n]
  BY <1>2 DEF Checking, Exact, StandsFor
<1>5. o.i - n = o.r
  BY <1>1, <1>2
<1>6. a[o.i].value = e[o.r]
  BY <1>3, <1>4, <1>5, ApplyNothing
<1>7. Total(e, o.r, o.r) = e[o.r]
  BY <1>1, TotalOne
<1> QED BY <1>1, <1>6, <1>7, NoneIs

\* The node under scan.
LEMMA ScanIs ==
  ASSUME NEW a \in Trees, NEW owed, IsOwed(a, owed), NEW o, OpOK(o), NEW e, NEW s,
         NEW t \in Levels, Scan(a, owed, o, e, s, t)
  PROVE  /\ o.r \in Leaves /\ o.r \in 0..n - 1 /\ n \in Nat
         /\ o.i \in Nodes /\ o.i \in Nat /\ o.i \in Level(t)
         /\ Seen(a, o.i) \in Values /\ o.summedL \in Values /\ o.upd \in Updates
         /\ First(t, o.i) \in 0..n - 1 /\ First(t, o.i + 1) \in First(t, o.i) + 1..n
         /\ First(t, o.i) \in 0..n
         /\ First(t, o.i + 1) \in First(t, o.i)..n /\ o.r \in First(t, o.i + 1) - 1..n - 1
<1>1. o.r \in Leaves /\ o.r \in 0..n - 1 /\ n \in Nat /\ o.summedL \in Values /\ o.upd \in Updates
  BY OpIs, nNat DEF Leaves
<1>2. o.i \in Level(t)
  BY DEF Scan
<1>3. o.i \in Nodes /\ o.i \in Nat
  BY <1>2, LevelRange
<1>4. Seen(a, o.i) \in Values
  BY <1>3, NodeIs
<1>5. First(t, o.i) \in 0..n - 1 /\ First(t, o.i + 1) \in First(t, o.i) + 1..n /\ First(t, o.i) \in 0..n
  BY <1>2, FirstsInRange
<1>6. First(t, o.i + 1) <= o.r + 1
  BY DEF Scan
<1>7. First(t, o.i + 1) \in First(t, o.i)..n /\ o.r \in First(t, o.i + 1) - 1..n - 1
  BY <1>1, <1>5, <1>6
<1> QED BY <1>1, <1>2, <1>3, <1>4, <1>5, <1>7

\* What the predicate says of a node that the climb has come to.
LEMMA ClimbPredicate ==
  ASSUME NEW a \in Trees, NEW owed, IsOwed(a, owed), NEW o, OpOK(o), NEW e \in Arrays, NEW s,
         NEW t \in Levels, Scan(a, owed, o, e, s, t), NEW v, v = Merge(Seen(a, o.i), o.summedL)
  PROVE  /\ v \in Values
         /\ Predicate(v) <=> Predicate(Seen(a, o.i))
         /\ s = 0 /\ Quiet(a) =>
              /\ Predicate(v) <=> Predicate(Total(e, First(t, o.i), First(t, o.i + 1) - 1))
              /\ Predicate(v) => Predicate(Total(e, First(t, o.i), o.r))
<1> DEFINE w == Seen(a, o.i)
<1>1. w \in Values /\ o.summedL \in Values /\ Predicate(o.summedL) /\ v = Merge(w, o.summedL)
  BY ScanIs DEF Scan
<1>2. v \in Values /\ (Predicate(v) <=> Predicate(w))
  <2> DEFINE z == o.summedL
  <2>1. w \in Values /\ z \in Values /\ Predicate(z) /\ v = Merge(w, z)
    BY <1>1
  <2> HIDE DEF w, z
  <2>2. v = w \o z /\ w \o z \in Values
    BY <2>1, ConcatValues
  <2>3. Predicate(w \o z) <=> Predicate(w) /\ Predicate(z)
    BY <2>1, PredicateOfBoth
  <2> QED BY <2>1, <2>2, <2>3
<1>3. ASSUME s = 0, Quiet(a)
      PROVE  /\ Predicate(v) <=> Predicate(Total(e, First(t, o.i), First(t, o.i + 1) - 1))
             /\ Predicate(v) => Predicate(Total(e, First(t, o.i), o.r))
  <2>1. w = Total(e, First(t, o.i), First(t, o.i + 1) - 1)
    <3>1. o.i \in Level(t) /\ Exact(a, owed, e, s)
      BY DEF Scan
    <3> QED BY <1>3, <3>1, QuietSeen
  <2> DEFINE f == First(t, o.i)
             g == First(t, o.i + 1)
             r == o.r
  <2>2. Predicate(Total(e, g, r))
    BY <1>3 DEF Scan
  <2>3. f \in 0..n /\ g \in f..n /\ r \in g - 1..n - 1
    BY ScanIs
  <2>4. Predicate(Total(e, f, r)) <=> Predicate(Total(e, f, g - 1)) /\ Predicate(Total(e, g, r))
    <3> HIDE DEF f, g, r
    <3> QED BY <2>3, PredicateOfParts
  <2> QED BY <1>2, <2>1, <2>2, <2>4
<1> QED BY <1>2, <1>3

LEMMA ClimbFound ==
  ASSUME NEW a \in Trees, NEW owed, IsOwed(a, owed), NEW o, OpOK(o), NEW e \in Arrays, NEW s,
         Climbing(a, owed, o, e, s), Predicate(Merge(Seen(a, o.i), o.summedL)), IsPowerOf2(o.i),
         s = 0, Quiet(a)
  PROVE  GoodStart(e, o.r, 0)
<1>1. PICK t \in Levels : ClimbingAt(a, owed, o, e, s, t)
  BY DEF Climbing
<1>2. Scan(a, owed, o, e, s, t)
  BY <1>1 DEF ClimbingAt
<1>3. o.i \in Level(t) /\ o.r \in Leaves /\ 0 \in 0..o.r
  BY <1>2, ScanIs
<1>4. First(t, o.i) = 0
  BY <1>3, PowerAtLevel
<1>5. Predicate(Total(e, First(t, o.i), o.r))
  <2> DEFINE v == Merge(Seen(a, o.i), o.summedL)
  <2>1. Predicate(v)
    OBVIOUS
  <2>2. v = Merge(Seen(a, o.i), o.summedL)
    OBVIOUS
  <2> HIDE DEF v
  <2> QED BY <1>2, <2>1, <2>2, ClimbPredicate
<1> QED BY <1>3, <1>4, <1>5, LongestIs

\* Only the root ends the climb at its own level.
LEMMA NotPower ==
  ASSUME NEW t \in Levels, NEW y \in Level(t), ~ IsPowerOf2(y)
  PROVE  /\ t # Log2n /\ t + 1 \in Levels /\ y \div 2 \in Level(t + 1)
         /\ y % 2 = 0 => y \div 2 - 1 \in Level(t + 1)
<1>1. Log2n \in Nat /\ 0 \in 0..Log2n /\ PowerOf2[0] = 1 /\ Log2n - t \in 0..Log2n
  BY Log2nNat, Powers DEF Levels
<1>2. t # Log2n
  <2>1. t = Log2n => y = PowerOf2[0]
    BY <1>1, LevelTop
  <2> QED BY <1>1, <2>1 DEF IsPowerOf2
<1>3. t + 1 \in Levels /\ y \div 2 \in Level(t + 1)
  BY <1>1, <1>2, LevelUp DEF Levels
<1>4. /\ PowerOf2[Log2n - t] = 2 * PowerOf2[Log2n - (t + 1)]
      /\ PowerOf2[Log2n - t] \in Nat /\ PowerOf2[Log2n - (t + 1)] \in Nat
  BY <1>2, PowersDown
<1>5. y # PowerOf2[Log2n - t]
  BY <1>1 DEF IsPowerOf2
<1>6. y % 2 = 0 => y \div 2 - 1 \in Level(t + 1)
  <2> DEFINE p == PowerOf2[Log2n - t]
             q == PowerOf2[Log2n - (t + 1)]
  <2>1. p = 2 * q /\ p \in Nat /\ q \in Nat /\ y \in p..2 * p - 1 /\ y # p
    BY <1>4, <1>5 DEF Level
  <2>2. y % 2 = 0 => y \div 2 - 1 \in q..2 * q - 1
    <3> HIDE DEF p, q
    <3> QED BY <2>1
  <2> QED BY <2>2 DEF Level
<1> QED BY <1>2, <1>3, <1>6

LEMMA ClimbLeft ==
  ASSUME NEW a \in Trees, NEW owed, IsOwed(a, owed), NEW o, OpOK(o), NEW e \in Arrays, NEW s,
         Climbing(a, owed, o, e, s), NEW v, v = Merge(Seen(a, o.i), o.summedL), Predicate(v),
         ~ IsPowerOf2(o.i), o.i % 2 = 0,
         NEW p, p.r = o.r, p.i = o.i \div 2 - 1, p.summedL = Merge(v, o.summedL)
  PROVE  Climbing(a, owed, p, e, s) /\ p.i \in 0..2 * n - 1 /\ Merge(v, o.summedL) \in Values
<1>1. PICK t \in Levels : ClimbingAt(a, owed, o, e, s, t)
  BY DEF Climbing
<1>2. Scan(a, owed, o, e, s, t)
  BY <1>1 DEF ClimbingAt
<1>3. /\ o.i \in Level(t) /\ o.i \in Nat /\ o.r \in 0..n - 1 /\ n \in Nat
      /\ First(t, o.i) \in 0..n - 1 /\ First(t, o.i + 1) \in First(t, o.i) + 1..n
  BY <1>2, ScanIs
<1>4. t + 1 \in Levels /\ p.i \in Level(t + 1)
  BY <1>3, NotPower
<1>5. p.i \in Int /\ p.i + 1 \in Int /\ 2 * (p.i + 1) = o.i
  BY <1>3
<1>6. First(t + 1, p.i + 1) = First(t, o.i)
  <2> DEFINE y == p.i + 1
  <2>1. y \in Int /\ 2 * y = o.i
    BY <1>5
  <2> HIDE DEF y
  <2>2. First(t + 1, y) = First(t, 2 * y)
    BY <2>1, FirstUp
  <2> QED BY <2>1, <2>2 DEF y
<1>7. First(t + 1, p.i + 1) <= p.r + 1 /\ First(t + 1, p.i + 1) # p.r + 1
  <2>1. First(t, o.i + 1) <= o.r + 1
    BY <1>2 DEF Scan
  <2> QED BY <1>3, <1>6, <2>1
<1>8. /\ v \in Values /\ o.summedL \in Values /\ Predicate(o.summedL)
      /\ s = 0 /\ Quiet(a) => Predicate(Total(e, First(t, o.i), o.r))
  BY <1>2, ClimbPredicate, ScanIs DEF Scan
<1>9. Merge(v, o.summedL) \in Values /\ Predicate(Merge(v, o.summedL))
  <2>1. Merge(v, o.summedL) = v \o o.summedL /\ v \o o.summedL \in Values
    BY <1>8, ConcatValues
  <2>2. Predicate(v \o o.summedL)
    BY <1>8, PredicateOfBoth
  <2> QED BY <2>1, <2>2
<1>10. Scan(a, owed, p, e, s, t + 1)
  BY <1>2, <1>4, <1>6, <1>7, <1>8, <1>9 DEF Scan
<1>11. p.i \in 0..2 * n - 1
  <2>1. p.i \in Nodes
    BY <1>4, LevelRange
  <2> QED BY <2>1, nNat DEF Nodes
<1> QED BY <1>4, <1>7, <1>9, <1>10, <1>11 DEF Climbing, ClimbingAt

LEMMA ClimbRight ==
  ASSUME NEW a \in Trees, NEW owed, IsOwed(a, owed), NEW o, OpOK(o), NEW e \in Arrays, NEW s,
         Climbing(a, owed, o, e, s), NEW v, v = Merge(Seen(a, o.i), o.summedL), Predicate(v),
         ~ IsPowerOf2(o.i), o.i % 2 # 0,
         NEW p, p.r = o.r, p.i = o.i \div 2, p.summedL = o.summedL
  PROVE  Climbing(a, owed, p, e, s) /\ p.i \in 0..2 * n - 1
<1>1. PICK t \in Levels : ClimbingAt(a, owed, o, e, s, t)
  BY DEF Climbing
<1>2. Scan(a, owed, o, e, s, t)
  BY <1>1 DEF ClimbingAt
<1>3. o.i \in Level(t) /\ o.i \in Nat /\ o.r \in Leaves
  BY <1>2, ScanIs
<1>4. t + 1 \in Levels /\ p.i \in Level(t + 1) /\ t + 1 # 0
  BY <1>3, NotPower, Log2nNat DEF Levels
<1>5. p.i \in Int /\ p.i + 1 \in Int /\ 2 * (p.i + 1) = o.i + 1 /\ 2 * p.i + 1 = o.i
  BY <1>3
<1>6. First(t + 1, p.i + 1) = First(t, o.i + 1)
  <2> DEFINE y == p.i + 1
  <2>1. y \in Int /\ 2 * y = o.i + 1
    BY <1>5
  <2> HIDE DEF y
  <2>2. First(t + 1, y) = First(t, 2 * y)
    BY <2>1, FirstUp
  <2> QED BY <2>1, <2>2 DEF y
<1>7. Scan(a, owed, p, e, s, t + 1)
  BY <1>2, <1>4, <1>6 DEF Scan
<1>8. ASSUME First(t + 1, p.i + 1) = p.r + 1 PROVE Edge(a, p, t + 1)
  <2>1. Edge(a, o, t)
    BY <1>1, <1>6, <1>8 DEF ClimbingAt
  <2>2. p.i = Above(o.r)[t + 1]
    <3>1. Above(o.r)[t + 1] = Above(o.r)[t] \div 2
      BY <1>3, PathNode
    <3> QED BY <2>1, <3>1 DEF Edge
  <2>3. Seen(a, o.i) = a[o.i].value
    <3>1. o.i = Above(o.r)[t] /\ Clean(owed, o.r, 0)
      BY <1>2, <2>1 DEF Edge, Scan
    <3> QED BY <1>3, <3>1, CleanSeen
  <2>4. Predicate(Seen(a, o.i))
    BY <1>2, ClimbPredicate
  <2>5. Predicate(a[2 * p.i + 1].value)
    BY <1>5, <2>3, <2>4
  <2> QED BY <1>4, <2>1, <2>2, <2>5 DEF Edge
<1>9. p.i \in 0..2 * n - 1
  <2>1. p.i \in Nodes
    BY <1>4, LevelRange
  <2> QED BY <2>1, nNat DEF Nodes
<1> QED BY <1>4, <1>7, <1>8, <1>9 DEF Climbing, ClimbingAt

LEMMA ClimbEnds ==
  ASSUME NEW a \in Trees, NEW owed, IsOwed(a, owed), NEW o, OpOK(o), NEW e \in Arrays, NEW s,
         Climbing(a, owed, o, e, s), NEW v, v = Merge(Seen(a, o.i), o.summedL), ~ Predicate(v),
         NEW p, p.r = o.r, p.i = o.i, p.summedL = o.summedL, p.upd = a[o.i].update
  PROVE  Descending(a, owed, p, e, s) /\ a[o.i].update \in Updates
<1>1. PICK t \in Levels : ClimbingAt(a, owed, o, e, s, t)
  BY DEF Climbing
<1>2. Scan(a, owed, o, e, s, t)
  BY <1>1 DEF ClimbingAt
<1>3. o.i \in Level(t) /\ o.i \in Nodes /\ o.r \in Leaves
  BY <1>2, ScanIs
<1>4. Scan(a, owed, p, e, s, t)
  BY <1>2 DEF Scan
<1>5. ~ Predicate(Seen(a, o.i))
  BY <1>2, ClimbPredicate
<1>6. ASSUME First(t, p.i + 1) = p.r + 1 PROVE Edge(a, p, t) /\ t # 0 /\ p.upd = <<>>
  <2>1. Edge(a, o, t)
    BY <1>1, <1>6 DEF ClimbingAt
  <2>2. Edge(a, p, t)
    BY <2>1 DEF Edge
  <2>3. Seen(a, o.i) = a[o.i].value /\ a[o.i].update = <<>>
    <3>1. o.i = Above(o.r)[t] /\ Clean(owed, o.r, 0)
      BY <1>2, <2>1 DEF Edge, Scan
    <3> QED BY <1>3, <3>1, CleanSeen
  <2>4. t = 0 => Predicate(a[o.i].value)
    BY <2>1 DEF Edge
  <2> QED BY <1>5, <2>2, <2>3, <2>4
<1>7. ASSUME s = 0, Quiet(a)
      PROVE  p.upd = <<>> /\ ~ Predicate(Total(e, First(t, p.i), First(t, p.i + 1) - 1))
  <2>1. a[o.i].update = <<>>
    BY <1>3, <1>7, NodeIs DEF Quiet, Pending, ZeroUpdate
  <2>2. ~ Predicate(Total(e, First(t, o.i), First(t, o.i + 1) - 1))
    BY <1>2, <1>7, ClimbPredicate
  <2> QED BY <2>1, <2>2
<1>8. DescendingAt(a, owed, p, e, s, t)
  BY <1>4, <1>6, <1>7 DEF DescendingAt
<1>9. a[o.i].update \in Updates
  BY <1>3, NodeIs
<1> QED BY <1>8, <1>9 DEF Descending

\* The right child of the node under scan, above the leaves.
LEMMA RightChild ==
  ASSUME NEW a \in Trees, NEW owed, IsOwed(a, owed), NEW o, OpOK(o), NEW e \in Arrays, NEW s,
         NEW t \in Levels, DescendingAt(a, owed, o, e, s, t), o.i < n,
         NEW x, x = 2 * o.i + 1
  PROVE  /\ t # 0 /\ t - 1 \in Levels /\ 2 * o.i \in Level(t - 1) /\ x \in Level(t - 1)
         /\ x \in Nodes /\ 2 * o.i \in Nodes /\ x \in Int
         /\ First(t - 1, 2 * o.i) = First(t, o.i) /\ First(t - 1, x + 1) = First(t, o.i + 1)
         /\ a[x].value \in Values /\ a[x].update \in Updates /\ ApplyUpdate(o.upd, a[x].value) \in Values
<1>1. Scan(a, owed, o, e, s, t)
  BY DEF DescendingAt
<1>2. o.i \in Level(t) /\ o.i \in Nat /\ o.upd \in Updates /\ n \in Nat
  BY <1>1, ScanIs
<1>3. t # 0
  <2>1. t = 0 => o.i \in n..2 * n - 1
    BY <1>2, LevelRange
  <2> QED BY <1>2, <2>1
<1>4. t - 1 \in Levels /\ t - 1 # Log2n /\ t - 1 + 1 = t
  BY <1>3, Log2nNat DEF Levels
<1>5. 2 * o.i \in Level(t - 1) /\ x \in Level(t - 1)
  <2> DEFINE q == t - 1
  <2>1. q \in Levels /\ q # Log2n /\ q + 1 = t
    BY <1>4
  <2> HIDE DEF q
  <2>2. 2 * o.i \in Level(q) /\ 2 * o.i + 1 \in Level(q)
    BY <1>2, <2>1, LevelDown
  <2> QED BY <2>2 DEF q
<1>6. x \in Nodes /\ 2 * o.i \in Nodes /\ x \in Int
  <2> DEFINE q == t - 1
             y == 2 * o.i
  <2>1. q \in Levels /\ y \in Level(q) /\ x \in Level(q)
    BY <1>4, <1>5
  <2> HIDE DEF q, y
  <2>2. y \in Nodes /\ x \in Nodes /\ x \in Nat
    BY <2>1, LevelRange
  <2> QED BY <2>2 DEF y
<1>7. First(t - 1, 2 * o.i) = First(t, o.i) /\ First(t - 1, x + 1) = First(t, o.i + 1)
  <2> DEFINE q == t - 1
             y == o.i + 1
             z == o.i
  <2>1. q \in Levels /\ q + 1 = t /\ y \in Int /\ z \in Int /\ x + 1 = 2 * y
    BY <1>2, <1>4
  <2> HIDE DEF q, y, z
  <2>2. First(q + 1, y) = First(q, 2 * y) /\ First(q + 1, z) = First(q, 2 * z)
    BY <2>1, FirstUp
  <2>3. First(t, y) = First(q, x + 1) /\ First(t, z) = First(q, 2 * z)
    BY <2>1, <2>2
  <2> QED BY <2>3 DEF q, y, z
<1>8. a[x].value \in Values /\ a[x].update \in Updates
  BY <1>6, NodeIs
<1>9. ApplyUpdate(o.upd, a[x].value) \in Values
  <2> DEFINE u == o.upd
             v == a[x].value
  <2>1. u \in Updates /\ v \in Values
    BY <1>2, <1>8
  <2> HIDE DEF u, v
  <2>2. ApplyUpdate(u, v) \in Values
    BY <2>1, ApplyIs
  <2> QED BY <2>2 DEF u, v
<1> QED BY <1>3, <1>4, <1>5, <1>6, <1>7, <1>8, <1>9

\* What combined says of the elements below the right child.
LEMMA DescendPredicate ==
  ASSUME NEW a \in Trees, NEW owed, IsOwed(a, owed), NEW o, OpOK(o), NEW e \in Arrays, NEW s,
         NEW t \in Levels, DescendingAt(a, owed, o, e, s, t), o.i < n,
         NEW x, x = 2 * o.i + 1,
         NEW v, v = Merge(ApplyUpdate(o.upd, a[x].value), o.summedL)
  PROVE  /\ v \in Values
         /\ First(t, o.i + 1) = o.r + 1 => Predicate(v)
         /\ s = 0 /\ Quiet(a) =>
              /\ Predicate(v) <=> Predicate(Total(e, First(t - 1, x), First(t - 1, x + 1) - 1))
              /\ Predicate(v) => Predicate(Total(e, First(t - 1, x), o.r))
              /\ Predicate(v) => ~ Predicate(Total(e, First(t - 1, 2 * o.i), First(t - 1, x) - 1))
<1> DEFINE w == ApplyUpdate(o.upd, a[x].value)
<1>1. Scan(a, owed, o, e, s, t)
  BY DEF DescendingAt
<1>2. w \in Values /\ o.summedL \in Values /\ Predicate(o.summedL) /\ v = Merge(w, o.summedL)
  BY <1>1, RightChild, ScanIs DEF Scan
<1>3. v \in Values /\ (Predicate(v) <=> Predicate(w)) /\ v = w \o o.summedL
  <2> DEFINE z == o.summedL
  <2>1. w \in Values /\ z \in Values /\ Predicate(z) /\ v = Merge(w, z)
    BY <1>2
  <2> HIDE DEF w, z
  <2>2. v = w \o z /\ w \o z \in Values
    BY <2>1, ConcatValues
  <2>3. Predicate(w \o z) <=> Predicate(w) /\ Predicate(z)
    BY <2>1, PredicateOfBoth
  <2> QED BY <2>1, <2>2, <2>3 DEF z
<1>4. a[x].value \in Values /\ t # 0 /\ t - 1 \in Levels /\ x \in Level(t - 1) /\ 2 * o.i \in Level(t - 1)
  BY RightChild
<1>5. o.upd = <<>> => w = a[x].value
  <2>1. ApplyUpdate(<<>>, a[x].value) = a[x].value
    BY <1>4, ApplyNothing
  <2> QED BY <2>1
<1>6. ASSUME First(t, o.i + 1) = o.r + 1 PROVE Predicate(v)
  <2>1. Edge(a, o, t) /\ t # 0 /\ o.upd = <<>>
    BY <1>6 DEF DescendingAt
  <2>2. Predicate(a[2 * o.i + 1].value)
    BY <2>1 DEF Edge
  <2>3. w = a[2 * o.i + 1].value
    BY <1>5, <2>1
  <2> QED BY <1>3, <2>2, <2>3
<1>7. ASSUME s = 0, Quiet(a)
      PROVE  /\ Predicate(v) <=> Predicate(Total(e, First(t - 1, x), First(t - 1, x + 1) - 1))
             /\ Predicate(v) => Predicate(Total(e, First(t - 1, x), o.r))
             /\ Predicate(v) => ~ Predicate(Total(e, First(t - 1, 2 * o.i), First(t - 1, x) - 1))
  <2> DEFINE f == First(t - 1, 2 * o.i)
             g == First(t - 1, x)
             h == First(t - 1, x + 1)
             r == o.r
  <2>1. o.upd = <<>> /\ ~ Predicate(Total(e, First(t, o.i), First(t, o.i + 1) - 1))
    BY <1>7 DEF DescendingAt
  <2>2. w = Total(e, g, h - 1)
    <3> DEFINE q == t - 1
    <3>1. Exact(a, owed, e, s) /\ q \in Levels /\ x \in Level(q)
      BY <1>1, <1>4 DEF Scan
    <3> HIDE DEF q
    <3>2. Seen(a, x) = Total(e, First(q, x), First(q, x + 1) - 1) /\ a[x].value = Seen(a, x)
      BY <1>7, <3>1, QuietSeen
    <3> QED BY <1>5, <2>1, <3>2 DEF q
  <2>3. h = First(t, o.i + 1) /\ f = First(t, o.i)
    BY RightChild
  <2>4. Predicate(Total(e, h, r))
    BY <1>1, <1>7, <2>3 DEF Scan
  <2>5. ~ Predicate(Total(e, f, h - 1))
    BY <2>1, <2>3
  <2>6. /\ f \in 0..n - 1 /\ First(t - 1, 2 * o.i + 1) \in f + 1..n
        /\ g \in 0..n - 1 /\ h \in g + 1..n /\ g = First(t - 1, 2 * o.i + 1)
    <3> DEFINE q == t - 1
               c == 2 * o.i
    <3>1. q \in Levels /\ c \in Level(q) /\ x \in Level(q)
      BY <1>4
    <3> HIDE DEF q, c
    <3>2. First(q, c) \in 0..n - 1 /\ First(q, c + 1) \in First(q, c) + 1..n
      BY <3>1, FirstsInRange
    <3>3. First(q, x) \in 0..n - 1 /\ First(q, x + 1) \in First(q, x) + 1..n
      BY <3>1, FirstsInRange
    <3> QED BY <3>2, <3>3 DEF q, c
  <2>7. h <= r + 1 /\ r \in 0..n - 1 /\ n \in Nat
    BY <1>1, <2>3, ScanIs DEF Scan
  <2> HIDE DEF f, g, h, r, w
  <2>8. f \in 0..n /\ g \in f..n /\ h - 1 \in g - 1..n - 1 /\ g \in 0..n /\ h \in g..n /\ r \in h - 1..n - 1
    BY <2>6, <2>7
  <2>9. Predicate(Total(e, f, h - 1)) <=> Predicate(Total(e, f, g - 1)) /\ Predicate(Total(e, g, h - 1))
    <3> DEFINE q == h - 1
    <3>1. q \in g - 1..n - 1
      BY <2>8
    <3> HIDE DEF q
    <3>2. Predicate(Total(e, f, q)) <=> Predicate(Total(e, f, g - 1)) /\ Predicate(Total(e, g, q))
      BY <2>8, <3>1, PredicateOfParts
    <3> QED BY <3>2 DEF q
  <2>10. Predicate(Total(e, g, r)) <=> Predicate(Total(e, g, h - 1)) /\ Predicate(Total(e, h, r))
    BY <2>8, PredicateOfParts
  <2>11. /\ Predicate(v) <=> Predicate(Total(e, g, h - 1))
         /\ Predicate(v) => Predicate(Total(e, g, r))
         /\ Predicate(v) => ~ Predicate(Total(e, f, g - 1))
    BY <1>3, <2>2, <2>4, <2>5, <2>9, <2>10
  <2> QED BY <2>11 DEF f, g, h, r
<1> QED BY <1>3, <1>6, <1>7

LEMMA DescendLeft ==
  ASSUME NEW a \in Trees, NEW owed, IsOwed(a, owed), NEW o, OpOK(o), NEW e \in Arrays, NEW s,
         Descending(a, owed, o, e, s), o.i < n,
         NEW v, v = Merge(ApplyUpdate(o.upd, a[2 * o.i + 1].value), o.summedL), Predicate(v),
         NEW p, p.r = o.r, p.i = 2 * o.i, p.summedL = v, p.upd = o.upd
  PROVE  Descending(a, owed, p, e, s) /\ p.i \in 0..2 * n - 1 /\ v \in Values
<1>1. PICK t \in Levels : DescendingAt(a, owed, o, e, s, t)
  BY DEF Descending
<1> DEFINE x == 2 * o.i + 1
           q == t - 1
<1>2. Scan(a, owed, o, e, s, t) /\ v = Merge(ApplyUpdate(o.upd, a[x].value), o.summedL)
  BY <1>1 DEF DescendingAt
<1>3. /\ v \in Values
      /\ s = 0 /\ Quiet(a) => /\ Predicate(Total(e, First(q, x), o.r))
                              /\ ~ Predicate(Total(e, First(q, 2 * o.i), First(q, x) - 1))
  BY <1>1, <1>2, DescendPredicate
<1>4. /\ q \in Levels /\ p.i \in Level(q) /\ p.i \in Nodes /\ x \in Level(q) /\ x = p.i + 1
      /\ First(q, x + 1) = First(t, o.i + 1)
  BY <1>1, RightChild
<1> HIDE DEF x, q
<1>5. First(q, p.i + 1) <= p.r + 1 /\ First(q, p.i + 1) # p.r + 1
  <2>1. First(t, o.i + 1) <= o.r + 1 /\ o.r \in 0..n - 1
    BY <1>2, ScanIs DEF Scan
  <2>2. First(q, x) \in 0..n - 1 /\ First(q, x + 1) \in First(q, x) + 1..n
    BY <1>4, FirstsInRange
  <2> QED BY <1>4, <2>1, <2>2, nNat
<1>6. s = 0 /\ Quiet(a) => p.upd = <<>>
  BY <1>1 DEF DescendingAt
<1>7. Scan(a, owed, p, e, s, q)
  BY <1>2, <1>3, <1>4, <1>5 DEF Scan
<1>8. DescendingAt(a, owed, p, e, s, q)
  <2>1. s = 0 /\ Quiet(a) => ~ Predicate(Total(e, First(q, p.i), First(q, p.i + 1) - 1))
    BY <1>3, <1>4
  <2> QED BY <1>5, <1>6, <1>7, <2>1 DEF DescendingAt
<1>9. p.i \in 0..2 * n - 1
  BY <1>4, nNat DEF Nodes
<1> QED BY <1>3, <1>4, <1>8, <1>9 DEF Descending

LEMMA DescendRight ==
  ASSUME NEW a \in Trees, NEW owed, IsOwed(a, owed), NEW o, OpOK(o), NEW e \in Arrays, NEW s,
         Descending(a, owed, o, e, s), o.i < n, NEW x, x = 2 * o.i + 1,
         NEW v, v = Merge(ApplyUpdate(o.upd, a[x].value), o.summedL), ~ Predicate(v),
         NEW p, p.r = o.r, p.i = x, p.summedL = o.summedL, p.upd = Push(o.upd, a[x].update)
  PROVE  Descending(a, owed, p, e, s) /\ p.i \in 0..2 * n - 1 /\ p.upd \in Updates
<1>1. PICK t \in Levels : DescendingAt(a, owed, o, e, s, t)
  BY DEF Descending
<1> DEFINE q == t - 1
<1>2. Scan(a, owed, o, e, s, t)
  BY <1>1 DEF DescendingAt
<1>3. /\ First(t, o.i + 1) = o.r + 1 => Predicate(v)
      /\ s = 0 /\ Quiet(a) => (Predicate(v) <=> Predicate(Total(e, First(q, x), First(q, x + 1) - 1)))
  BY <1>1, DescendPredicate
<1>4. /\ q \in Levels /\ x \in Level(q) /\ x \in Nodes
      /\ First(q, x + 1) = First(t, o.i + 1)
      /\ a[x].update \in Updates
  BY <1>1, RightChild
<1>5. p.upd \in Updates
  <2> DEFINE u == o.upd
             w == a[x].update
  <2>1. u \in Updates /\ w \in Updates /\ p.upd = Push(u, w)
    BY <1>4, OpIs
  <2> HIDE DEF u, w
  <2> QED BY <2>1, ConcatUpdates
<1> HIDE DEF q
<1>6. First(q, p.i + 1) <= p.r + 1 /\ First(q, p.i + 1) # p.r + 1
  BY <1>2, <1>3, <1>4 DEF Scan
<1>7. Scan(a, owed, p, e, s, q)
  BY <1>2, <1>4 DEF Scan
<1>8. ASSUME s = 0, Quiet(a)
      PROVE  p.upd = <<>> /\ ~ Predicate(Total(e, First(q, p.i), First(q, p.i + 1) - 1))
  <2>1. o.upd = <<>>
    BY <1>1, <1>8 DEF DescendingAt
  <2>2. a[x].update = <<>>
    BY <1>4, <1>8 DEF Quiet, Pending, ZeroUpdate
  <2>3. <<>> \o <<>> = <<>>
    BY EmptyUpdate
  <2> QED BY <1>3, <1>8, <2>1, <2>2, <2>3 DEF Push
<1>9. DescendingAt(a, owed, p, e, s, q)
  BY <1>6, <1>7, <1>8 DEF DescendingAt
<1>10. p.i \in 0..2 * n - 1
  BY <1>4, nNat DEF Nodes
<1> QED BY <1>4, <1>5, <1>9, <1>10 DEF Descending

LEMMA DescendFound ==
  ASSUME NEW a \in Trees, NEW owed, IsOwed(a, owed), NEW o, OpOK(o), NEW e \in Arrays, NEW s,
         Descending(a, owed, o, e, s), o.i >= n
  PROVE  /\ o.i - n + 1 \in 0..o.r
         /\ s = 0 /\ Quiet(a) => GoodStart(e, o.r, o.i - n + 1)
<1>1. PICK t \in Levels : DescendingAt(a, owed, o, e, s, t)
  BY DEF Descending
<1>2. Scan(a, owed, o, e, s, t)
  BY <1>1 DEF DescendingAt
<1>3. o.i \in Level(t) /\ o.i \in Nat /\ o.r \in 0..n - 1 /\ o.r \in Leaves /\ n \in Nat
  BY <1>2, ScanIs
<1>4. t = 0
  <2>1. t # 0 => o.i \in 1..n - 1
    BY <1>3, LevelRange
  <2> QED BY <1>3, <2>1
<1> DEFINE start == o.i - n + 1
<1>5. First(0, o.i) = start - 1 /\ First(0, o.i + 1) = start
  <2>1. o.i \in Int /\ o.i + 1 \in Int
    BY <1>3
  <2>2. First(0, o.i) = o.i - n /\ First(0, o.i + 1) = (o.i + 1) - n
    BY <2>1, FirstAtLeaf
  <2> QED BY <1>3, <2>2
<1>6. start <= o.r + 1 /\ start # o.r + 1
  <2>1. First(0, o.i + 1) <= o.r + 1
    BY <1>2, <1>4 DEF Scan
  <2>2. First(0, o.i + 1) # o.r + 1
    BY <1>1, <1>4 DEF DescendingAt
  <2> QED BY <1>5, <2>1, <2>2
<1>7. start \in 0..o.r
  BY <1>3, <1>6
<1>8. ASSUME s = 0, Quiet(a) PROVE GoodStart(e, o.r, start)
  <2>1. Predicate(Total(e, start, o.r))
    BY <1>2, <1>4, <1>5, <1>8 DEF Scan
  <2>2. ~ Predicate(Total(e, start - 1, start - 1))
    BY <1>1, <1>4, <1>5, <1>8 DEF DescendingAt
  <2> HIDE DEF start
  <2> QED BY <1>3, <1>7, <2>1, <2>2, LongestIs
<1> QED BY <1>7, <1>8

-----------------------------------------------------------------------------
(* The invariant holds at first, and every action keeps it.                *)

LEMMA InitInv == Init => IInv
<1> SUFFICES ASSUME Init PROVE IInv
  OBVIOUS
<1> DEFINE owed == [y \in Nodes |-> <<>>]
<1>1. n \in Nat /\ n >= 1 /\ Log2n \in Nat /\ 0 \in Leaves /\ 0 \in Levels
  BY nNat, Log2nNat DEF Leaves, Levels
<1>2. <<>> \in Updates /\ <<>> \in Values /\ Fresh \in Values
  BY EmptyUpdate, EmptyValue, FreshIs
<1>3. \A k : Leaf(k).value \in Values /\ Leaf(k).update = <<>> /\ Leaf(k) \in [value : Values, update : Updates]
  BY <1>2 DEF Leaf, ZeroValue, ZeroUpdate
<1>4. arr \in Trees /\ elements \in Arrays
  <2>1. arr = [y \in Nodes |-> Leaf(y - n)] /\ elements = [k \in Leaves |-> Leaf(k).value]
    BY DEF Init
  <2> QED BY <1>3, <2>1 DEF Trees, Arrays
<1>5. \A y \in Nodes : arr[y] = Leaf(y - n)
  BY DEF Init
<1>6. op = [Idle EXCEPT !.name = "New", !.at = "build", !.i = n - 1]
  BY DEF Init
<1>7. n - 1 \in 0..n - 1 /\ n - 1 \in 0..2 * n - 1
  BY <1>1
<1>8. Idle \in Operations /\ Idle.l = 0 /\ Idle.r = 0
  BY IdleOK DEF OpOK, Idle
<1>9. op \in Operations /\ op.name = "New" /\ op.at = "build" /\ op.i = n - 1 /\ op.l = 0 /\ op.r = 0
  <2>1. "New" \in Names /\ "build" \in Places
    BY DEF Names, Places
  <2> QED BY <1>6, <1>7, <1>8, <2>1 DEF Operations
<1>10. OpOK(op)
  <2>1. op.name \in NamesAt[op.at]
    BY <1>9 DEF NamesAt
  <2> QED BY <1>9, <2>1 DEF OpOK
<1>11. IsOwed(arr, owed)
  <2>1. \A y \in Nodes : owed[y] = <<>> /\ arr[y].update = <<>>
    BY <1>3, <1>5
  <2>2. owed \in [Nodes -> Updates]
    BY <1>2
  <2>3. <<>> \o <<>> = <<>>
    BY <1>2, EmptyUpdate
  <2> HIDE DEF owed
  <2> QED BY <2>1, <2>2, <2>3, NodeNumbers DEF IsOwed
<1>12. \A y \in Nodes : owed[y] = <<>>
  OBVIOUS
<1> HIDE DEF owed
<1>13. StandsFor(arr, owed, 1..op.i, elements)
  <2>1. ASSUME NEW y \in n..2 * n - 1 PROVE ApplyUpdate(owed[y], arr[y].value) = elements[y - n]
    <3>1. y \in Nodes /\ y - n \in Leaves
      BY NodeNumbers
    <3>2. arr[y].value = Leaf(y - n).value /\ owed[y] = <<>>
      BY <1>5, <1>12, <3>1
    <3>3. elements[y - n] = Leaf(y - n).value
      BY <3>1 DEF Init
    <3>4. ApplyUpdate(<<>>, Leaf(y - n).value) = Leaf(y - n).value
      BY <1>3, ApplyNothing
    <3> QED BY <3>2, <3>3, <3>4
  <2> QED BY <1>9, <2>1 DEF StandsFor
<1>14. Building(arr, owed, op, elements)
  BY <1>7, <1>9, <1>12, <1>13 DEF Building
<1>15. Holds(arr, owed, op, elements, spoils)
  BY <1>9, <1>14 DEF Holds
<1>16. TypeInv
  <2>1. changes \in 0..MaxChanges /\ spoils \in 0..MaxSpoils
    BY SegmentTreeAssumption DEF Init
  <2>2. answer = NoAnswer
    BY DEF Init
  <2> QED BY <1>4, <1>9, <1>10, <2>1, <2>2 DEF TypeInv
<1>17. AnswerOK(answer, elements, spoils)
  BY DEF Init, AnswerOK, NoAnswer
<1> QED BY <1>11, <1>15, <1>16, <1>17 DEF IInv

LEMMA NoAnswerOK == \A e, s : AnswerOK(NoAnswer, e, s)
BY DEF AnswerOK, NoAnswer

LEMMA Onward ==
  ASSUME IInv, op.at # "idle", arr' \in Trees, OpOK(op'),
         op.at = "build" => op'.at \in {"idle", "build"},
         UNCHANGED <<answer, Histories>>,
         NEW owed, IsOwed(arr', owed), Holds(arr', owed, op', elements, spoils)
  PROVE  IInv'
<1>1. /\ elements' = elements /\ changes' = changes /\ spoils' = spoils /\ answer' = answer
      /\ TypeInv /\ answer = NoAnswer
  BY DEF Histories, IInv, TypeInv
<1>2. TypeInv'
  BY <1>1 DEF TypeInv
<1>3. AnswerOK(answer', elements', spoils')
  BY <1>1, NoAnswerOK
<1>4. IsOwed(arr', owed) /\ Holds(arr', owed, op', elements', spoils')
  BY <1>1
<1> QED BY <1>2, <1>3, <1>4 DEF IInv

LEMMA BeginInv ==
  ASSUME IInv, NEW name, NEW l \in Leaves, NEW r \in Leaves, NEW upd \in Updates, NEW at,
         Begin(name, l, r, upd, at), l <= r, changes' \in 0..MaxChanges,
         \/ at = "pushL" /\ name \in {"Update", "Get"}
         \/ at = "pushR" /\ name \in {"SetValue", "Longest"} /\ l = r
  PROVE  IInv'
<1>1. /\ op = Idle /\ spoils < MaxSpoils /\ answer' = NoAnswer
      /\ arr' = arr /\ elements' = elements /\ spoils' = spoils
      /\ op' = [Idle EXCEPT !.name = name, !.l = l, !.r = r, !.upd = upd, !.at = at, !.shift = Log2n]
  BY DEF Begin
<1>2. TypeInv /\ op.at = "idle"
  BY <1>1, IdleOK DEF IInv
<1>3. PICK owed : IsOwed(arr, owed) /\ Holds(arr, owed, op, elements, spoils)
  BY DEF IInv
<1>4. Exact(arr, owed, elements, spoils)
  BY <1>2, <1>3 DEF Holds
<1>5. Idle \in Operations /\ Idle.summedL = <<>> /\ Idle.summedR = <<>> /\ Idle.spoils = FALSE
  BY IdleOK DEF OpOK, Idle, ZeroValue
<1>6. Log2n \in Levels /\ name \in Names /\ at \in Places /\ Log2n \in Nat
  BY Log2nNat DEF Levels, Names, Places
<1>7. /\ op' \in Operations
      /\ op'.name = name /\ op'.l = l /\ op'.r = r /\ op'.upd = upd /\ op'.at = at /\ op'.shift = Log2n
      /\ op'.summedL = <<>> /\ op'.summedR = <<>> /\ op'.spoils = FALSE
  BY <1>1, <1>5, <1>6 DEF Operations
<1>8. OpOK(op')
  <2>1. name \in NamesAt[at]
    BY DEF NamesAt
  <2> QED BY <1>7, <2>1 DEF OpOK
<1>9. Clean(owed, l, Log2n + 1) /\ Clean(owed, r, Log2n + 1)
  BY <1>6 DEF Clean
<1>10. Holds(arr', owed, op', elements', spoils')
  <2>1. Unsummed(op')
    BY <1>7 DEF Unsummed
  <2>2. CASE at = "pushL"
    <3>1. PushingL(arr', owed, op', elements', spoils')
      BY <1>1, <1>4, <1>7, <1>9, <2>1 DEF PushingL
    <3> QED BY <1>7, <2>2, <3>1 DEF Holds
  <2>3. CASE at = "pushR"
    <3>1. PushingR(arr', owed, op', elements', spoils')
      BY <1>1, <1>4, <1>7, <1>9, <2>1, <2>3 DEF PushingR
    <3> QED BY <1>7, <2>3, <3>1 DEF Holds
  <2> QED BY <2>2, <2>3
<1>11. TypeInv'
  BY <1>1, <1>2, <1>8 DEF TypeInv
<1>12. AnswerOK(answer', elements', spoils')
  BY <1>1, NoAnswerOK
<1> QED BY <1>1, <1>3, <1>10, <1>11, <1>12 DEF IInv

LEMMA ChangeOK == ASSUME IInv, Change PROVE changes' \in 0..MaxChanges
BY SegmentTreeAssumption DEF IInv, TypeInv, Change

LEMMA RangeOK ==
  ASSUME NEW l \in Endpoints, NEW r \in Endpoints, From(l) <= To(r)
  PROVE  From(l) \in Leaves /\ To(r) \in Leaves
<1>1. l \in Int /\ r \in Int
  BY SegmentTreeAssumption
<1> QED BY <1>1, nNat DEF From, To, Leaves

LEMMA CallInv ==
  ASSUME IInv
  PROVE  /\ \A l, r \in Endpoints : Get(l, r) => IInv'
         /\ \A l, r \in Endpoints, m \in Marks : Update(l, r, <<m>>) => IInv'
         /\ \A i \in Endpoints \cap Leaves : (SetValue(i) => IInv') /\ (Longest(i) => IInv')
<1>1. <<>> \in Updates /\ \A m \in Marks : <<m>> \in Updates
  BY EmptyUpdate DEF Updates
<1>2. changes \in 0..MaxChanges
  BY DEF IInv, TypeInv
<1>3. ASSUME NEW l \in Endpoints, NEW r \in Endpoints, Get(l, r) PROVE IInv'
  <2>1. /\ From(l) <= To(r) /\ Begin("Get", From(l), To(r), <<>>, "pushL") /\ changes' \in 0..MaxChanges
    BY <1>2, <1>3 DEF Get, ZeroUpdate
  <2>2. From(l) \in Leaves /\ To(r) \in Leaves
    BY <2>1, RangeOK
  <2> QED BY <1>1, <2>1, <2>2, BeginInv
<1>4. ASSUME NEW l \in Endpoints, NEW r \in Endpoints, NEW m \in Marks, Update(l, r, <<m>>) PROVE IInv'
  <2>1. /\ From(l) <= To(r) /\ Begin("Update", From(l), To(r), <<m>>, "pushL") /\ changes' \in 0..MaxChanges
    BY <1>4, ChangeOK DEF Update
  <2>2. From(l) \in Leaves /\ To(r) \in Leaves /\ <<m>> \in Updates
    BY <1>1, <2>1, RangeOK
  <2> QED BY <2>1, <2>2, BeginInv
<1>5. ASSUME NEW i \in Endpoints \cap Leaves PROVE (SetValue(i) => IInv') /\ (Longest(i) => IInv')
  <2>1. i \in Leaves /\ i <= i
    BY nNat DEF Leaves
  <2>2. ASSUME SetValue(i) PROVE IInv'
    <3>1. Begin("SetValue", i, i, <<>>, "pushR") /\ changes' \in 0..MaxChanges
      BY <2>2, ChangeOK DEF SetValue, ZeroUpdate
    <3> QED BY <1>1, <2>1, <3>1, BeginInv
  <2>3. ASSUME Longest(i) PROVE IInv'
    <3>1. Begin("Longest", i, i, <<>>, "pushR") /\ changes' \in 0..MaxChanges
      BY <1>2, <2>3 DEF Longest, ZeroUpdate
    <3> QED BY <1>1, <2>1, <3>1, BeginInv
  <2> QED BY <2>2, <2>3
<1> QED BY <1>3, <1>4, <1>5

\* The facts of a state.
LEMMA Now ==
  ASSUME IInv
  PROVE  /\ arr \in Trees /\ OpOK(op) /\ elements \in Arrays /\ TypeInv
         /\ \E owed : IsOwed(arr, owed) /\ Holds(arr, owed, op, elements, spoils)
BY DEF IInv, TypeInv

LEMMA BuildTurnInv == ASSUME IInv, BuildTurn PROVE IInv'
<1>1. arr \in Trees /\ OpOK(op) /\ op.at = "build" /\ UNCHANGED <<answer, Histories>>
  BY Now DEF BuildTurn
<1>2. PICK owed : IsOwed(arr, owed) /\ Holds(arr, owed, op, elements, spoils)
  BY Now
<1>3. Building(arr, owed, op, elements)
  BY <1>1, <1>2 DEF Holds
<1>4. CASE op.i > 0
  <2>1. arr' = Recompute(arr, op.i) /\ op' = [op EXCEPT !.i = op.i - 1]
    BY <1>4 DEF BuildTurn
  <2>2. /\ arr' \in Trees /\ OpOK(op') /\ op'.at = "build" /\ IsOwed(arr', owed)
        /\ Building(arr', owed, op', elements)
    BY <1>1, <1>2, <1>3, <1>4, <2>1, BuildTurnHolds
  <2>3. Holds(arr', owed, op', elements, spoils)
    BY <2>2 DEF Holds
  <2> QED BY <1>1, <2>2, <2>3, Onward
<1>5. CASE ~ (op.i > 0)
  <2>1. arr' = arr /\ op' = Idle
    BY <1>5 DEF BuildTurn
  <2>2. Holds(arr', owed, op', elements, spoils)
    BY <1>3, <1>5, <2>1, BuildEndHolds
  <2>3. OpOK(op') /\ op'.at = "idle"
    BY <2>1, IdleOK
  <2> QED BY <1>1, <1>2, <2>1, <2>2, <2>3, Onward
<1> QED BY <1>4, <1>5

LEMMA PushTurnInv == ASSUME IInv, PushTurn PROVE IInv'
<1>1. /\ arr \in Trees /\ OpOK(op) /\ op.at \in {"pushL", "pushR"} /\ op.shift > 0
      /\ UNCHANGED <<answer, Histories>>
      /\ arr' = PushDown(arr, Above(End)[op.shift])
      /\ op' = [op EXCEPT !.shift = op.shift - 1]
  BY Now DEF PushTurn
<1>2. PICK owed : IsOwed(arr, owed) /\ Holds(arr, owed, op, elements, spoils)
  BY Now
<1>3. End = IF op.at = "pushL" THEN op.l ELSE op.r
  BY <1>1 DEF End
<1>4. /\ arr' \in Trees /\ OpOK(op') /\ op'.at = op.at
      /\ \E after : IsOwed(arr', after) /\ Holds(arr', after, op', elements, spoils)
  <2> DEFINE k == End
  <2>1. k = IF op.at = "pushL" THEN op.l ELSE op.r
    BY <1>3
  <2>2. arr' = PushDown(arr, Above(k)[op.shift])
    BY <1>1
  <2> HIDE DEF k
  <2> QED BY <1>1, <1>2, <2>1, <2>2, PushTurnHolds
<1>5. PICK after : IsOwed(arr', after) /\ Holds(arr', after, op', elements, spoils)
  BY <1>4
<1> QED BY <1>1, <1>4, <1>5, Onward

LEMMA PushEndsInv == ASSUME IInv, PushEnds PROVE IInv'
<1>1. /\ arr \in Trees /\ OpOK(op) /\ op.at \in {"pushL", "pushR"} /\ op.shift = 0
      /\ elements \in Arrays /\ UNCHANGED <<answer, Histories>>
      /\ arr' = Settle(arr, End + n)
  BY Now DEF PushEnds
<1>2. PICK owed : IsOwed(arr, owed) /\ Holds(arr, owed, op, elements, spoils)
  BY Now
<1>3. CASE op.at = "pushL"
  <2>1. op' = [op EXCEPT !.at = "pushR", !.shift = Log2n] /\ arr' = Settle(arr, op.l + n)
    BY <1>1, <1>3 DEF PushEnds, End
  <2>2. PushingL(arr, owed, op, elements, spoils)
    BY <1>2, <1>3 DEF Holds
  <2>3. /\ arr' \in Trees /\ OpOK(op') /\ op'.at = "pushR"
        /\ \E after : IsOwed(arr', after) /\ PushingR(arr', after, op', elements, spoils)
    BY <1>1, <1>2, <1>3, <2>1, <2>2, PushLEndHolds
  <2>4. PICK after : IsOwed(arr', after) /\ PushingR(arr', after, op', elements, spoils)
    BY <2>3
  <2>5. Holds(arr', after, op', elements, spoils)
    BY <2>3, <2>4 DEF Holds
  <2> QED BY <1>1, <2>3, <2>4, <2>5, Onward
<1>4. CASE op.at = "pushR"
  <2>1. op' = [op EXCEPT !.at = Body[op.name], !.i = op.l + n, !.j = op.r + n] /\ arr' = Settle(arr, op.r + n)
    BY <1>1, <1>4 DEF PushEnds, End
  <2>2. PushingR(arr, owed, op, elements, spoils)
    BY <1>2, <1>4 DEF Holds
  <2>3. /\ arr' \in Trees /\ OpOK(op')
        /\ \E after : IsOwed(arr', after) /\ Holds(arr', after, op', elements, spoils)
    BY <1>1, <1>2, <1>4, <2>1, <2>2, PushREndHolds
  <2>4. PICK after : IsOwed(arr', after) /\ Holds(arr', after, op', elements, spoils)
    BY <2>3
  <2> QED BY <1>1, <2>3, <2>4, Onward
<1> QED BY <1>1, <1>3, <1>4

LEMMA SetLeafInv == ASSUME IInv, SetLeaf PROVE IInv'
<1>1. /\ arr \in Trees /\ OpOK(op) /\ op.at = "set" /\ UNCHANGED <<answer, Histories>>
      /\ arr' = [arr EXCEPT ![op.i] = [value |-> Fresh, update |-> ZeroUpdate]]
      /\ op' = [op EXCEPT !.at = "rebuildR", !.i = op.i \div 2]
  BY Now DEF SetLeaf
<1>2. PICK owed : IsOwed(arr, owed) /\ Holds(arr, owed, op, elements, spoils)
  BY Now
<1>3. Setting(arr, owed, op, elements, spoils)
  BY <1>1, <1>2 DEF Holds
<1>4. /\ arr' \in Trees /\ OpOK(op') /\ op'.at = "rebuildR" /\ IsOwed(arr', owed)
      /\ RebuildingR(arr', owed, op', elements, spoils)
  BY <1>1, <1>2, <1>3, SetLeafHolds
<1>5. Holds(arr', owed, op', elements, spoils)
  BY <1>4 DEF Holds
<1> QED BY <1>1, <1>4, <1>5, Onward

LEMMA RebuildTurnInv == ASSUME IInv, RebuildTurn PROVE IInv'
<1>1. /\ arr \in Trees /\ OpOK(op) /\ op.at \in {"rebuildL", "rebuildR"} /\ op.i # 0
      /\ UNCHANGED <<answer, Histories>>
      /\ arr' = Recompute(arr, op.i) /\ op' = [op EXCEPT !.i = op.i \div 2]
  BY Now DEF RebuildTurn
<1>2. PICK owed : IsOwed(arr, owed) /\ Holds(arr, owed, op, elements, spoils)
  BY Now
<1>3. /\ arr' \in Trees /\ OpOK(op') /\ op'.at = op.at /\ IsOwed(arr', owed)
      /\ Holds(arr', owed, op', elements, spoils)
  BY <1>1, <1>2, RebuildTurnHolds
<1> QED BY <1>1, <1>3, Onward

LEMMA RebuildEndsInv == ASSUME IInv, RebuildEnds PROVE IInv'
<1>1. /\ arr \in Trees /\ OpOK(op) /\ op.at \in {"rebuildL", "rebuildR"} /\ op.i = 0
      /\ elements \in Arrays /\ TypeInv
      /\ arr' = arr /\ answer' = answer /\ changes' = changes /\ spoils' = spoils
  BY Now DEF RebuildEnds
<1>2. PICK owed : IsOwed(arr, owed) /\ Holds(arr, owed, op, elements, spoils)
  BY Now
<1>3. CASE op.at = "rebuildL"
  <2>1. op' = [op EXCEPT !.at = "rebuildR", !.i = (op.r + n) \div 2] /\ elements' = elements
    BY <1>1, <1>3 DEF RebuildEnds
  <2>2. RebuildingL(arr, owed, op, elements, spoils)
    BY <1>2, <1>3 DEF Holds
  <2>3. OpOK(op') /\ op'.at = "rebuildR" /\ RebuildingR(arr, owed, op', elements, spoils)
    BY <1>1, <1>3, <2>1, <2>2, RebuildLEndHolds
  <2>4. Holds(arr', owed, op', elements, spoils)
    BY <1>1, <2>3 DEF Holds
  <2> QED BY <1>1, <1>2, <2>1, <2>3, <2>4, Onward DEF Histories
<1>4. CASE op.at = "rebuildR"
  <2>1. op' = Idle /\ elements' = After(op, elements)
    BY <1>1, <1>4 DEF RebuildEnds, Changed, After
  <2>2. RebuildingR(arr, owed, op, elements, spoils)
    BY <1>2, <1>4 DEF Holds
  <2>3. Holds(arr', owed, op', elements', spoils')
    BY <1>1, <1>4, <2>1, <2>2, RebuildREndHolds
  <2>4. elements' \in Arrays /\ OpOK(op') /\ op'.at = "idle"
    BY <1>1, <2>1, AfterIs, IdleOK
  <2>5. TypeInv' /\ answer' = NoAnswer
    BY <1>1, <2>4 DEF TypeInv
  <2>6. AnswerOK(answer', elements', spoils')
    BY <2>5, NoAnswerOK
  <2> QED BY <1>1, <1>2, <2>3, <2>5, <2>6 DEF IInv
<1> QED BY <1>1, <1>3, <1>4

LEMMA TakenNow == Taken = TakenBy(op)
BY DEF Taken, TakenBy, TakesLeft, TakesRight

\* Narrowed, of o, with other sums.
NarrowedTo(o, v, w, b) ==
  [o EXCEPT !.i = (o.i + 1) \div 2, !.j = (o.j - 1) \div 2, !.summedL = v, !.summedR = w, !.spoils = b]

MayNarrow(o, v, w, b) ==
  /\ OpOK(o) /\ o.at = "cover" /\ o.i <= o.j
  /\ \E t \in Levels : Ends(o, t)
  /\ v \in Values /\ w \in Values /\ b \in BOOLEAN

NarrowedOK(o, p, v, w, b) ==
  OpOK(p) /\ Narrows(o, p) /\ p.summedL = v /\ p.summedR = w /\ p.spoils = b

LEMMA OpNarrowed ==
  ASSUME NEW o, NEW v, NEW w, NEW b, MayNarrow(o, v, w, b), NEW p, p = NarrowedTo(o, v, w, b)
  PROVE  NarrowedOK(o, p, v, w, b)
<1> DEFINE x == (o.i + 1) \div 2
           y == (o.j - 1) \div 2
           q == [l |-> o.l, r |-> o.r, name |-> o.name, upd |-> o.upd, at |-> o.at, i |-> x, j |-> y]
<1>1. Narrows(o, q) /\ q.i = x /\ q.j = y
  BY DEF Narrows
<1>2. x \in 0..2 * n - 1 /\ y \in 0..2 * n - 1
  <2> HIDE DEF q
  <2>0. PICK t \in Levels : Ends(o, t)
    BY DEF MayNarrow
  <2>1. q.i \in 0..2 * n - 1 /\ q.j \in 0..2 * n - 1
    BY <1>1, <2>0, NarrowEnds DEF MayNarrow
  <2> QED BY <1>1, <2>1
<1>3. /\ p = [o EXCEPT !.i = x, !.j = y, !.summedL = v, !.summedR = w, !.spoils = b]
      /\ o \in Operations /\ v \in Values /\ w \in Values /\ b \in BOOLEAN
  BY DEF OpOK, MayNarrow, NarrowedTo
<1> HIDE DEF x, y, q
<1>4. /\ p \in Operations
      /\ p.name = o.name /\ p.l = o.l /\ p.r = o.r /\ p.upd = o.upd /\ p.at = o.at
      /\ p.i = x /\ p.j = y
      /\ p.summedL = v /\ p.summedR = w /\ p.spoils = b
  BY <1>2, <1>3 DEF Operations
<1> QED BY <1>4 DEF OpOK, Narrows, x, y, MayNarrow, NarrowedOK

LEMMA UpdateTurnInv == ASSUME IInv, UpdateTurn PROVE IInv'
<1>1. /\ arr \in Trees /\ OpOK(op) /\ op.at = "cover" /\ op.name = "Update"
      /\ UNCHANGED <<answer, Histories>>
  BY Now DEF UpdateTurn
<1>2. PICK owed : IsOwed(arr, owed) /\ Holds(arr, owed, op, elements, spoils)
  BY Now
<1>3. Covering(arr, owed, op, elements, spoils)
  BY <1>1, <1>2 DEF Holds
<1>4. CASE op.i <= op.j
  <2>1. arr' = MarkAll(arr, TakenBy(op), op.upd)
    BY <1>4, TakenNow DEF UpdateTurn
  <2>2. op' = [op EXCEPT !.i = (op.i + 1) \div 2, !.j = (op.j - 1) \div 2]
    BY <1>4 DEF UpdateTurn, Narrowed
  <2>3. op' = [op EXCEPT !.i = (op.i + 1) \div 2, !.j = (op.j - 1) \div 2,
                         !.summedL = op.summedL, !.summedR = op.summedR, !.spoils = op.spoils]
    <3>1. op \in Operations
      BY <1>1 DEF OpOK
    <3> QED BY <2>2, <3>1 DEF Operations
  <2>4. PICK t \in 0..Log2n + 1 : CoveringAt(arr, owed, op, elements, spoils, t)
    BY <1>3 DEF Covering
  <2>5. Ends(op, t) /\ t \in Levels
    BY <1>1, <1>4, <2>4, EndsNodes DEF CoveringAt
  <2>6. OpOK(op') /\ Narrows(op, op')
    <3>1. op.summedL \in Values /\ op.summedR \in Values /\ op.spoils \in BOOLEAN
      BY <1>1, OpIs
    <3> DEFINE v == op.summedL
               w == op.summedR
               b == op.spoils
    <3>2. MayNarrow(op, v, w, b)
      BY <1>1, <1>4, <2>5, <3>1 DEF MayNarrow
    <3>3. op' = NarrowedTo(op, v, w, b)
      BY <2>3 DEF NarrowedTo
    <3> HIDE DEF v, w, b
    <3>4. NarrowedOK(op, op', v, w, b)
      BY <3>2, <3>3, OpNarrowed
    <3> QED BY <3>4 DEF NarrowedOK
  <2>7. /\ arr' \in Trees
        /\ \E after : IsOwed(arr', after) /\ Covering(arr', after, op', elements, spoils)
    BY <1>1, <1>2, <1>3, <1>4, <2>1, <2>6, UpdateTurnHolds
  <2>8. PICK after : IsOwed(arr', after) /\ Covering(arr', after, op', elements, spoils)
    BY <2>7
  <2>9. Holds(arr', after, op', elements, spoils)
    BY <1>1, <2>6, <2>8 DEF Holds, Narrows
  <2> QED BY <1>1, <2>6, <2>7, <2>8, <2>9, Onward
<1>5. CASE ~ (op.i <= op.j)
  <2>1. arr' = arr /\ op' = [op EXCEPT !.at = "rebuildL", !.i = (op.l + n) \div 2]
    BY <1>5 DEF UpdateTurn
  <2>2. OpOK(op') /\ op'.at = "rebuildL" /\ RebuildingL(arr, owed, op', elements, spoils)
    BY <1>1, <1>3, <1>5, <2>1, UpdateEndHolds
  <2>3. Holds(arr', owed, op', elements, spoils)
    BY <2>1, <2>2 DEF Holds
  <2> QED BY <1>1, <1>2, <2>1, <2>2, <2>3, Onward
<1> QED BY <1>4, <1>5

LEMMA GetTurnInv == ASSUME IInv, GetTurn PROVE IInv'
<1>1. /\ arr \in Trees /\ OpOK(op) /\ op.at = "cover" /\ op.name = "Get" /\ op.i <= op.j
      /\ elements \in Arrays /\ UNCHANGED <<answer, Histories>>
      /\ arr' = SeeAll(arr, TakenBy(op))
  BY Now, TakenNow DEF GetTurn
<1>2. PICK owed : IsOwed(arr, owed) /\ Holds(arr, owed, op, elements, spoils)
  BY Now
<1>3. Covering(arr, owed, op, elements, spoils)
  BY <1>1, <1>2 DEF Holds
<1>4. PICK t \in 0..Log2n + 1 : CoveringAt(arr, owed, op, elements, spoils, t)
  BY <1>3 DEF Covering
<1>5. Ends(op, t) /\ t \in Levels /\ op.i \in Level(t) /\ op.j \in Level(t)
  BY <1>1, <1>4, EndsNodes DEF CoveringAt
<1> DEFINE v == IF op.i % 2 = 1 THEN Merge(op.summedL, Seen(arr, op.i)) ELSE op.summedL
           w == IF op.j % 2 = 0 THEN Merge(Seen(arr, op.j), op.summedR) ELSE op.summedR
           b == (op.spoils \/ \E x \in TakenBy(op) : Pending(arr, x))
<1>6. op.summedL \in Values /\ op.summedR \in Values /\ op.spoils \in BOOLEAN
  BY <1>1, OpIs
<1>7. op \in Operations
  BY <1>1 DEF OpOK
<1>8. op' = [op EXCEPT !.i = (op.i + 1) \div 2, !.j = (op.j - 1) \div 2,
                       !.summedL = v, !.summedR = w, !.spoils = b]
  <2>1. op' = [Narrowed EXCEPT !.summedL = IF TakesLeft THEN Merge(Narrowed.summedL, Seen(arr, op.i))
                                           ELSE Narrowed.summedL,
                               !.summedR = IF TakesRight THEN Merge(Seen(arr, op.j), Narrowed.summedR)
                                           ELSE Narrowed.summedR,
                               !.spoils = Narrowed.spoils \/ \E x \in TakenBy(op) : Pending(arr, x)]
    BY TakenNow DEF GetTurn
  <2>2. Narrowed.summedL = op.summedL /\ Narrowed.summedR = op.summedR /\ Narrowed.spoils = op.spoils
    BY <1>7 DEF Narrowed, Operations
  <2>3. op' = [Narrowed EXCEPT !.summedL = v, !.summedR = w, !.spoils = b]
    BY <2>1, <2>2 DEF TakesLeft, TakesRight
  <2> HIDE DEF v, w, b
  <2> QED BY <2>3 DEF Narrowed
<1>9. v \in Values /\ w \in Values /\ b \in BOOLEAN
  <2>1. op.i \in Nodes /\ op.j \in Nodes
    BY <1>5, LevelRange
  <2>2. Seen(arr, op.i) \in Values /\ Seen(arr, op.j) \in Values
    BY <1>1, <2>1, NodeIs
  <2>3. Merge(op.summedL, Seen(arr, op.i)) \in Values
    <3> DEFINE c == op.summedL
               d == Seen(arr, op.i)
    <3>1. c \in Values /\ d \in Values
      BY <1>6, <2>2
    <3> HIDE DEF c, d
    <3>2. Merge(c, d) \in Values
      BY <3>1, ConcatValues
    <3> QED BY <3>2 DEF c, d
  <2>4. Merge(Seen(arr, op.j), op.summedR) \in Values
    <3> DEFINE c == Seen(arr, op.j)
               d == op.summedR
    <3>1. c \in Values /\ d \in Values
      BY <1>6, <2>2
    <3> HIDE DEF c, d
    <3>2. Merge(c, d) \in Values
      BY <3>1, ConcatValues
    <3> QED BY <3>2 DEF c, d
  <2>5. v \in Values
    BY <1>6, <2>3
  <2>6. w \in Values
    BY <1>6, <2>4
  <2>7. b \in BOOLEAN
    BY <1>6
  <2> QED BY <2>5, <2>6, <2>7
<1>10. OpOK(op') /\ Narrows(op, op') /\ op'.summedL = v /\ op'.summedR = w /\ op'.spoils = b
  <2> HIDE DEF v, w, b
  <2>1. MayNarrow(op, v, w, b)
    BY <1>1, <1>5, <1>9 DEF MayNarrow
  <2>2. op' = NarrowedTo(op, v, w, b)
    BY <1>8 DEF NarrowedTo
  <2>3. NarrowedOK(op, op', v, w, b)
    BY <2>1, <2>2, OpNarrowed
  <2> QED BY <2>3 DEF NarrowedOK
<1>11. SumsUp(arr, op, op')
  BY <1>10 DEF SumsUp
<1>12. arr' \in Trees /\ IsOwed(arr', owed) /\ Covering(arr', owed, op', elements, spoils)
  BY <1>1, <1>2, <1>3, <1>10, <1>11, GetTurnHolds
<1>13. Holds(arr', owed, op', elements, spoils) /\ op'.at = "cover"
  BY <1>1, <1>10, <1>12 DEF Holds, Narrows
<1> QED BY <1>1, <1>10, <1>12, <1>13, Onward

LEMMA GetReturnsInv == ASSUME IInv, GetReturns PROVE IInv'
<1>1. /\ arr \in Trees /\ OpOK(op) /\ op.at = "cover" /\ op.name = "Get" /\ op.i > op.j
      /\ elements \in Arrays /\ TypeInv
      /\ answer' = [name |-> "get", l |-> op.l, r |-> op.r, before |-> spoils,
                    value |-> Merge(op.summedL, op.summedR)]
      /\ spoils' = (IF op.spoils THEN spoils + 1 ELSE spoils)
      /\ op' = Idle /\ arr' = arr /\ elements' = elements /\ changes' = changes
  BY Now DEF GetReturns
<1>2. PICK owed : IsOwed(arr, owed) /\ Holds(arr, owed, op, elements, spoils)
  BY Now
<1>3. Covering(arr, owed, op, elements, spoils)
  BY <1>1, <1>2 DEF Holds
<1>4. spoils = 0 => /\ Merge(op.summedL, op.summedR) = Total(elements, op.l, op.r)
                    /\ ~ op.spoils => StandsFor(arr, owed, {}, elements)
  BY <1>1, <1>2, <1>3, GetReturnsHolds
<1>5. spoils \in 0..MaxSpoils /\ spoils < MaxSpoils /\ MaxSpoils \in Nat
  BY <1>1, SegmentTreeAssumption DEF TypeInv
<1>6. Exact(arr', owed, elements', spoils')
  <2>1. spoils' = 0 => spoils = 0 /\ ~ op.spoils
    BY <1>1, <1>5
  <2> QED BY <1>1, <1>4, <2>1 DEF Exact
<1>7. Holds(arr', owed, op', elements', spoils')
  BY <1>1, <1>6, IdleOK
<1>8. TypeInv'
  <2>1. OpOK(op') /\ op'.at = "idle"
    BY <1>1, IdleOK
  <2>2. spoils' \in 0..MaxSpoils
    BY <1>1, <1>5
  <2> QED BY <1>1, <2>1, <2>2 DEF TypeInv
<1>9. AnswerOK(answer', elements', spoils')
  BY <1>1, <1>4 DEF AnswerOK
<1> QED BY <1>1, <1>2, <1>7, <1>8, <1>9 DEF IInv

-----------------------------------------------------------------------------
(* The steps of LongestRangeWherePredicate                                 *)

ScanTo(o, at, i, v, u) == [o EXCEPT !.at = at, !.i = i, !.summedL = v, !.upd = u]

MayScan(o, at, i, v, u) ==
  /\ OpOK(o) /\ o.name = "Longest"
  /\ at \in {"climb", "descend"} /\ i \in 0..2 * n - 1 /\ v \in Values /\ u \in Updates

Scans(o, p, at, i, v, u) ==
  /\ OpOK(p)
  /\ p.r = o.r /\ p.at = at /\ p.i = i /\ p.summedL = v /\ p.upd = u

LEMMA OpScan ==
  ASSUME NEW o, NEW at, NEW i, NEW v, NEW u, MayScan(o, at, i, v, u),
         NEW p, p = ScanTo(o, at, i, v, u)
  PROVE  Scans(o, p, at, i, v, u)
<1>1. /\ o \in Operations /\ o.name = "Longest" /\ o.l = o.r /\ o.l <= o.r
      /\ at \in Places /\ at \in {"climb", "descend"}
      /\ i \in 0..2 * n - 1 /\ v \in Values /\ u \in Updates
  BY DEF MayScan, OpOK, Places
<1>2. /\ p \in Operations
      /\ p.name = o.name /\ p.l = o.l /\ p.r = o.r /\ p.at = at
      /\ p.i = i /\ p.summedL = v /\ p.upd = u
  BY <1>1 DEF Operations, ScanTo
<1>3. p.name \in NamesAt[p.at]
  BY <1>1, <1>2 DEF NamesAt
<1> QED BY <1>1, <1>2, <1>3 DEF OpOK, Scans

LEMMA LongestAt ==
  ASSUME NEW o, OpOK(o), o.at \in {"check", "climb", "descend"}
  PROVE  o.name = "Longest" /\ o \in Operations
BY DEF OpOK, NamesAt

LEMMA FoundInv ==
  ASSUME IInv, op.at \in {"check", "climb", "descend"}, NEW start, Found(start),
         UNCHANGED <<arr, Histories>>, start \in -1..op.r,
         spoils = 0 /\ Quiet(arr) => GoodStart(elements, op.r, start)
  PROVE  IInv'
<1>1. /\ TypeInv /\ arr' = arr /\ elements' = elements /\ changes' = changes /\ spoils' = spoils
      /\ op' = Idle
      /\ answer' = [name |-> "longest", r |-> op.r, start |-> start, quiet |-> Quiet(arr)]
  BY Now DEF Found, Histories, Quiet
<1>2. PICK owed : IsOwed(arr, owed) /\ Holds(arr, owed, op, elements, spoils)
  BY Now
<1>3. Exact(arr, owed, elements, spoils)
  <2>1. CASE op.at = "check"
    BY <1>2, <2>1 DEF Holds, Checking
  <2>2. CASE op.at = "climb"
    BY <1>2, <2>2 DEF Holds, Climbing, ClimbingAt, Scan
  <2>3. CASE op.at = "descend"
    BY <1>2, <2>3 DEF Holds, Descending, DescendingAt, Scan
  <2> QED BY <2>1, <2>2, <2>3
<1>4. Holds(arr', owed, op', elements', spoils') /\ OpOK(op') /\ op'.at = "idle"
  BY <1>1, <1>3, IdleOK
<1>5. TypeInv'
  BY <1>1, <1>4 DEF TypeInv
<1>6. AnswerOK(answer', elements', spoils')
  <2>1. /\ answer'.name = "longest" /\ answer'.r = op.r /\ answer'.start = start
        /\ answer'.quiet = Quiet(arr)
    <3> HIDE DEF Quiet
    <3> QED BY <1>1
  <2>2. answer'.name = "longest" /\ answer'.quiet /\ spoils' = 0 => GoodStart(elements', answer'.r, answer'.start)
    <3> HIDE DEF Quiet, GoodStart
    <3>1. CASE Quiet(arr) /\ spoils = 0
      BY <1>1, <2>1, <3>1
    <3>2. CASE ~ (Quiet(arr) /\ spoils = 0)
      BY <1>1, <2>1, <3>2
    <3> QED BY <3>1, <3>2
  <2> HIDE DEF Quiet, GoodStart
  <2> QED BY <2>1, <2>2 DEF AnswerOK
<1> QED BY <1>1, <1>2, <1>4, <1>5, <1>6 DEF IInv

LEMMA CheckLeafInv == ASSUME IInv, CheckLeaf PROVE IInv'
<1>1. /\ arr \in Trees /\ OpOK(op) /\ op.at = "check" /\ elements \in Arrays
      /\ UNCHANGED <<arr, Histories>>
  BY Now DEF CheckLeaf
<1>2. PICK owed : IsOwed(arr, owed) /\ Holds(arr, owed, op, elements, spoils)
  BY Now
<1>3. Checking(arr, owed, op, elements, spoils)
  BY <1>1, <1>2 DEF Holds
<1>4. CASE Predicate(arr[op.i].value)
  <2> DEFINE at == "climb"
             i == op.i
             v == op.summedL
             u == op.upd
  <2>1. op' = [op EXCEPT !.at = "climb"] /\ UNCHANGED answer
    BY <1>4 DEF CheckLeaf
  <2>2. MayScan(op, at, i, v, u)
    BY <1>1, OpIs, LongestAt DEF MayScan
  <2>3. op' = ScanTo(op, at, i, v, u)
    <3>1. op \in Operations
      BY <1>1, LongestAt
    <3> QED BY <2>1, <3>1 DEF Operations, ScanTo
  <2> HIDE DEF at, i, v, u
  <2>4. Scans(op, op', at, i, v, u)
    BY <2>2, <2>3, OpScan
  <2>5. OpOK(op') /\ op'.r = op.r /\ op'.at = "climb" /\ op'.i = op.i /\ op'.summedL = op.summedL
    BY <2>4 DEF Scans, at, i, v
  <2>6. Climbing(arr, owed, op', elements, spoils)
    BY <1>1, <1>2, <1>3, <1>4, <2>5, CheckPassed
  <2>7. Holds(arr', owed, op', elements, spoils)
    BY <1>1, <2>5, <2>6 DEF Holds
  <2> QED BY <1>1, <1>2, <2>1, <2>5, <2>7, Onward
<1>5. CASE ~ Predicate(arr[op.i].value)
  <2>1. Found(-1)
    BY <1>5 DEF CheckLeaf
  <2>2. -1 \in -1..op.r
    <3>1. op.r \in Leaves
      BY <1>1, OpIs
    <3> QED BY <3>1 DEF Leaves
  <2>3. spoils = 0 => GoodStart(elements, op.r, -1)
    BY <1>1, <1>2, <1>3, <1>5, CheckFailed
  <2> QED BY <1>1, <2>1, <2>2, <2>3, FoundInv
<1> QED BY <1>4, <1>5

LEMMA ClimbTurnInv == ASSUME IInv, ClimbTurn PROVE IInv'
<1> DEFINE val == Merge(Seen(arr, op.i), op.summedL)
<1>1. /\ arr \in Trees /\ OpOK(op) /\ op.at = "climb" /\ elements \in Arrays
      /\ op \in Operations /\ op.i \in 0..2 * n - 1 /\ op.summedL \in Values /\ op.upd \in Updates
      /\ UNCHANGED <<arr, Histories>>
  BY Now, OpIs DEF ClimbTurn, OpOK
<1>2. PICK owed : IsOwed(arr, owed) /\ Holds(arr, owed, op, elements, spoils)
  BY Now
<1>3. Climbing(arr, owed, op, elements, spoils)
  BY <1>1, <1>2 DEF Holds
<1>4. CASE Predicate(val) /\ IsPowerOf2(op.i)
  <2>1. Found(0)
    BY <1>4 DEF ClimbTurn
  <2>2. 0 \in -1..op.r
    <3>1. op.r \in Leaves
      BY <1>1, OpIs
    <3> QED BY <3>1, nNat DEF Leaves
  <2>3. spoils = 0 /\ Quiet(arr) => GoodStart(elements, op.r, 0)
    BY <1>1, <1>2, <1>3, <1>4, ClimbFound
  <2> QED BY <1>1, <2>1, <2>2, <2>3, FoundInv
<1>5. CASE Predicate(val) /\ ~ IsPowerOf2(op.i) /\ op.i % 2 = 0
  <2> DEFINE at == "climb"
             i == op.i \div 2 - 1
             v == Merge(val, op.summedL)
             u == op.upd
             q == [r |-> op.r, i |-> i, summedL |-> v]
  <2>1. op' = [op EXCEPT !.i = i, !.summedL = v] /\ UNCHANGED answer
    BY <1>5 DEF ClimbTurn
  <2>2. i \in 0..2 * n - 1 /\ v \in Values
    <3> DEFINE w == val
    <3>1. w = Merge(Seen(arr, op.i), op.summedL) /\ Predicate(w) /\ ~ IsPowerOf2(op.i) /\ op.i % 2 = 0
      BY <1>5
    <3>2. q.r = op.r /\ q.i = op.i \div 2 - 1 /\ q.summedL = Merge(w, op.summedL)
      OBVIOUS
    <3> HIDE DEF w, q
    <3>3. q.i \in 0..2 * n - 1 /\ Merge(w, op.summedL) \in Values
      BY <1>1, <1>2, <1>3, <3>1, <3>2, ClimbLeft
    <3> QED BY <3>2, <3>3 DEF w
  <2>3. MayScan(op, at, i, v, u)
    <3> HIDE DEF i, v
    <3> QED BY <1>1, <2>2, LongestAt DEF MayScan
  <2>4. op' = ScanTo(op, at, i, v, u)
    <3> HIDE DEF i, v
    <3> QED BY <1>1, <2>1 DEF Operations, ScanTo
  <2>5. Scans(op, op', at, i, v, u)
    <3> HIDE DEF at, i, v, u
    <3> QED BY <2>3, <2>4, OpScan
  <2>6. /\ OpOK(op') /\ op'.r = op.r /\ op'.at = "climb"
        /\ op'.i = op.i \div 2 - 1 /\ op'.summedL = Merge(val, op.summedL)
    BY <2>5 DEF Scans
  <2>7. Climbing(arr, owed, op', elements, spoils)
    <3> DEFINE w == val
    <3>1. w = Merge(Seen(arr, op.i), op.summedL) /\ Predicate(w) /\ ~ IsPowerOf2(op.i) /\ op.i % 2 = 0
          /\ op'.summedL = Merge(w, op.summedL)
      BY <1>5, <2>6
    <3> HIDE DEF w
    <3> QED BY <1>1, <1>2, <1>3, <2>6, <3>1, ClimbLeft
  <2>8. Holds(arr', owed, op', elements, spoils)
    BY <1>1, <2>6, <2>7 DEF Holds
  <2> QED BY <1>1, <1>2, <2>1, <2>6, <2>8, Onward
<1>6. CASE Predicate(val) /\ ~ IsPowerOf2(op.i) /\ op.i % 2 # 0
  <2> DEFINE at == "climb"
             i == op.i \div 2
             v == op.summedL
             u == op.upd
  <2>1. op' = [op EXCEPT !.i = i] /\ UNCHANGED answer
    BY <1>6 DEF ClimbTurn
  <2>2. i \in 0..2 * n - 1
    BY <1>1, nNat
  <2>3. MayScan(op, at, i, v, u)
    <3> HIDE DEF i
    <3> QED BY <1>1, <2>2, LongestAt DEF MayScan
  <2>4. op' = ScanTo(op, at, i, v, u)
    <3> HIDE DEF i
    <3> QED BY <1>1, <2>1 DEF Operations, ScanTo
  <2>5. Scans(op, op', at, i, v, u)
    <3> HIDE DEF at, i, v, u
    <3> QED BY <2>3, <2>4, OpScan
  <2>6. /\ OpOK(op') /\ op'.r = op.r /\ op'.at = "climb"
        /\ op'.i = op.i \div 2 /\ op'.summedL = op.summedL
    BY <2>5 DEF Scans
  <2>7. Climbing(arr, owed, op', elements, spoils)
    <3> DEFINE w == val
    <3>1. w = Merge(Seen(arr, op.i), op.summedL) /\ Predicate(w) /\ ~ IsPowerOf2(op.i) /\ op.i % 2 # 0
      BY <1>6
    <3> HIDE DEF w
    <3> QED BY <1>1, <1>2, <1>3, <2>6, <3>1, ClimbRight
  <2>8. Holds(arr', owed, op', elements, spoils)
    BY <1>1, <2>6, <2>7 DEF Holds
  <2> QED BY <1>1, <1>2, <2>1, <2>6, <2>8, Onward
<1>7. CASE ~ Predicate(val)
  <2> DEFINE at == "descend"
             i == op.i
             v == op.summedL
             u == arr[op.i].update
             q == [r |-> op.r, i |-> i, summedL |-> v, upd |-> u]
  <2>1. op' = [op EXCEPT !.at = "descend", !.upd = u] /\ UNCHANGED answer
    BY <1>7 DEF ClimbTurn
  <2>2. u \in Updates
    <3> DEFINE w == val
    <3>1. w = Merge(Seen(arr, op.i), op.summedL) /\ ~ Predicate(w)
      BY <1>7
    <3>2. q.r = op.r /\ q.i = op.i /\ q.summedL = op.summedL /\ q.upd = arr[op.i].update
      OBVIOUS
    <3> HIDE DEF w, q
    <3> QED BY <1>1, <1>2, <1>3, <3>1, <3>2, ClimbEnds
  <2>3. MayScan(op, at, i, v, u)
    <3> HIDE DEF u
    <3> QED BY <1>1, <2>2, LongestAt DEF MayScan
  <2>4. op' = ScanTo(op, at, i, v, u)
    <3> HIDE DEF u
    <3> QED BY <1>1, <2>1 DEF Operations, ScanTo
  <2>5. Scans(op, op', at, i, v, u)
    <3> HIDE DEF at, i, v, u
    <3> QED BY <2>3, <2>4, OpScan
  <2>6. /\ OpOK(op') /\ op'.r = op.r /\ op'.at = "descend"
        /\ op'.i = op.i /\ op'.summedL = op.summedL /\ op'.upd = arr[op.i].update
    BY <2>5 DEF Scans
  <2>7. Descending(arr, owed, op', elements, spoils)
    <3> DEFINE w == val
    <3>1. w = Merge(Seen(arr, op.i), op.summedL) /\ ~ Predicate(w)
      BY <1>7
    <3> HIDE DEF w
    <3> QED BY <1>1, <1>2, <1>3, <2>6, <3>1, ClimbEnds
  <2>8. Holds(arr', owed, op', elements, spoils)
    BY <1>1, <2>6, <2>7 DEF Holds
  <2> QED BY <1>1, <1>2, <2>1, <2>6, <2>8, Onward
<1> QED BY <1>4, <1>5, <1>6, <1>7

LEMMA DescendTurnInv == ASSUME IInv, DescendTurn PROVE IInv'
<1> DEFINE x == 2 * op.i + 1
           val == Merge(ApplyUpdate(op.upd, arr[x].value), op.summedL)
<1>1. /\ arr \in Trees /\ OpOK(op) /\ op.at = "descend" /\ op.i < n /\ elements \in Arrays
      /\ op \in Operations /\ op.i \in 0..2 * n - 1 /\ op.summedL \in Values /\ op.upd \in Updates
      /\ UNCHANGED <<arr, answer, Histories>>
  BY Now, OpIs DEF DescendTurn, OpOK
<1>2. PICK owed : IsOwed(arr, owed) /\ Holds(arr, owed, op, elements, spoils)
  BY Now
<1>3. Descending(arr, owed, op, elements, spoils)
  BY <1>1, <1>2 DEF Holds
<1>4. CASE Predicate(val)
  <2> DEFINE at == "descend"
             i == 2 * op.i
             v == val
             u == op.upd
             q == [r |-> op.r, i |-> i, summedL |-> v, upd |-> u]
  <2>1. op' = [op EXCEPT !.i = i, !.summedL = v]
    BY <1>4 DEF DescendTurn
  <2>2. i \in 0..2 * n - 1 /\ v \in Values
    <3>1. v = Merge(ApplyUpdate(op.upd, arr[2 * op.i + 1].value), op.summedL) /\ Predicate(v)
      BY <1>4
    <3>2. q.r = op.r /\ q.i = 2 * op.i /\ q.summedL = v /\ q.upd = op.upd
      OBVIOUS
    <3> HIDE DEF v, q
    <3>3. q.i \in 0..2 * n - 1 /\ v \in Values
      BY <1>1, <1>2, <1>3, <3>1, <3>2, DescendLeft
    <3> QED BY <3>2, <3>3
  <2>3. MayScan(op, at, i, v, u)
    <3> HIDE DEF i, v
    <3> QED BY <1>1, <2>2, LongestAt DEF MayScan
  <2>4. op' = ScanTo(op, at, i, v, u)
    <3> HIDE DEF i, v
    <3> QED BY <1>1, <2>1 DEF Operations, ScanTo
  <2>5. Scans(op, op', at, i, v, u)
    <3> HIDE DEF at, i, v, u
    <3> QED BY <2>3, <2>4, OpScan
  <2>6. /\ OpOK(op') /\ op'.r = op.r /\ op'.at = "descend"
        /\ op'.i = 2 * op.i /\ op'.summedL = v /\ op'.upd = op.upd
    BY <2>5 DEF Scans
  <2>7. Descending(arr, owed, op', elements, spoils)
    <3>1. v = Merge(ApplyUpdate(op.upd, arr[2 * op.i + 1].value), op.summedL) /\ Predicate(v)
      BY <1>4
    <3> HIDE DEF v
    <3> QED BY <1>1, <1>2, <1>3, <2>6, <3>1, DescendLeft
  <2>8. Holds(arr', owed, op', elements, spoils)
    BY <1>1, <2>6, <2>7 DEF Holds
  <2> QED BY <1>1, <1>2, <2>6, <2>8, Onward
<1>5. CASE ~ Predicate(val)
  <2> DEFINE at == "descend"
             i == x
             v == op.summedL
             u == Push(op.upd, arr[x].update)
             q == [r |-> op.r, i |-> i, summedL |-> v, upd |-> u]
             w == val
  <2>1. op' = [op EXCEPT !.i = i, !.upd = u]
    BY <1>5 DEF DescendTurn
  <2>a. x = 2 * op.i + 1 /\ w = Merge(ApplyUpdate(op.upd, arr[x].value), op.summedL) /\ ~ Predicate(w)
    BY <1>5
  <2>2. i \in 0..2 * n - 1 /\ u \in Updates
    <3>2. q.r = op.r /\ q.i = x /\ q.summedL = op.summedL /\ q.upd = Push(op.upd, arr[x].update)
      OBVIOUS
    <3> HIDE DEF w, q, x
    <3>3. q.i \in 0..2 * n - 1 /\ q.upd \in Updates
      BY <1>1, <1>2, <1>3, <2>a, <3>2, DescendRight
    <3> QED BY <3>2, <3>3
  <2>3. MayScan(op, at, i, v, u)
    <3> HIDE DEF i, u
    <3> QED BY <1>1, <2>2, LongestAt DEF MayScan
  <2>4. op' = ScanTo(op, at, i, v, u)
    <3> HIDE DEF i, u
    <3> QED BY <1>1, <2>1 DEF Operations, ScanTo
  <2>5. Scans(op, op', at, i, v, u)
    <3> HIDE DEF at, i, v, u
    <3> QED BY <2>3, <2>4, OpScan
  <2>6. /\ OpOK(op') /\ op'.r = op.r /\ op'.at = "descend"
        /\ op'.i = x /\ op'.summedL = op.summedL /\ op'.upd = Push(op.upd, arr[x].update)
    BY <2>5 DEF Scans
  <2>7. Descending(arr, owed, op', elements, spoils)
    <3> HIDE DEF w, x
    <3> QED BY <1>1, <1>2, <1>3, <2>6, <2>a, DescendRight
  <2>8. Holds(arr', owed, op', elements, spoils)
    BY <1>1, <2>6, <2>7 DEF Holds
  <2> QED BY <1>1, <1>2, <2>6, <2>8, Onward
<1> QED BY <1>4, <1>5

LEMMA DescendEndsInv == ASSUME IInv, DescendEnds PROVE IInv'
<1>1. /\ arr \in Trees /\ OpOK(op) /\ op.at = "descend" /\ op.i >= n /\ elements \in Arrays
      /\ Found(op.i - n + 1) /\ UNCHANGED <<arr, Histories>>
  BY Now DEF DescendEnds
<1>2. PICK owed : IsOwed(arr, owed) /\ Holds(arr, owed, op, elements, spoils)
  BY Now
<1>3. Descending(arr, owed, op, elements, spoils)
  BY <1>1, <1>2 DEF Holds
<1> DEFINE start == op.i - n + 1
<1>4. start \in 0..op.r /\ (spoils = 0 /\ Quiet(arr) => GoodStart(elements, op.r, start))
  BY <1>1, <1>2, <1>3, DescendFound
<1>5. start \in -1..op.r
  <2>1. op.r \in Leaves
    BY <1>1, OpIs
  <2> QED BY <1>4, <2>1, nNat DEF Leaves
<1>6. Found(start)
  BY <1>1
<1> HIDE DEF start
<1> QED BY <1>1, <1>4, <1>5, <1>6, FoundInv

-----------------------------------------------------------------------------
(* The theorems                                                            *)

LEMMA NextInv == ASSUME IInv, [Next]_vars PROVE IInv'
<1>1. CASE UNCHANGED vars
  <2>1. /\ arr' = arr /\ op' = op /\ answer' = answer
        /\ elements' = elements /\ changes' = changes /\ spoils' = spoils
    BY <1>1 DEF vars
  <2> QED BY <2>1 DEF IInv, TypeInv
<1>2. CASE Next
  <2>1. CASE Loop
    BY <2>1, BuildTurnInv, PushTurnInv, PushEndsInv, RebuildTurnInv, RebuildEndsInv, SetLeafInv,
       UpdateTurnInv, GetTurnInv, GetReturnsInv, CheckLeafInv, ClimbTurnInv, DescendTurnInv,
       DescendEndsInv DEF Loop
  <2>2. ASSUME NEW l \in Endpoints, NEW r \in Endpoints,
               Get(l, r) \/ \E m \in Marks : Update(l, r, <<m>>)
        PROVE  IInv'
    BY <2>2, CallInv
  <2>3. ASSUME NEW i \in Endpoints \cap Leaves, SetValue(i) \/ Longest(i) PROVE IInv'
    BY <2>3, CallInv
  <2> QED BY <1>2, <2>1, <2>2, <2>3 DEF Next
<1> QED BY <1>1, <1>2

\* The state of the tree fits the loop that the operation under way is in:
\* what each loop of segment_tree.go may rely on when it takes a turn.
THEOREM TreeInvariant == Spec => []IInv
<1>1. Init => IInv
  BY InitInv
<1>2. IInv /\ [Next]_vars => IInv'
  BY NextInv
<1> QED BY <1>1, <1>2, PTL DEF Spec

LEMMA TypesHold == ASSUME IInv PROVE STTypeOK
<1>1. /\ TypeInv /\ AnswerOK(answer, elements, spoils) /\ OpOK(op)
  BY DEF IInv, TypeInv
<1>2. /\ op.l \in Leaves /\ op.r \in Leaves /\ op.upd \in Updates
      /\ op.shift \in 0..Log2n /\ op.i \in 0..2 * n - 1
      /\ op.summedL \in Values /\ op.summedR \in Values
  BY <1>1, OpIs DEF Levels
<1>3. arr \in [Nodes -> [value : Values, update : Seq(Marks)]]
  BY <1>1 DEF TypeInv, Trees, Updates
<1>4. elements \in [Leaves -> Values] /\ changes \in 0..MaxChanges /\ spoils \in 0..MaxSpoils
  BY <1>1 DEF TypeInv, Arrays
<1> QED BY <1>1, <1>2, <1>3, <1>4 DEF STTypeOK, AnswerOK, Updates

\* Every variable keeps its type in NewSegmentTree, SetValue, Update, Get
\* and LongestRangeWherePredicate, whatever the size and the controller.
THEOREM TreeTypeCorrect == Spec => []STTypeOK
<1>1. IInv => STTypeOK
  BY TypesHold
<1> QED BY <1>1, TreeInvariant, PTL

\* The recursive function of Aggregates.
LEMMA OwedIs ==
  ASSUME NEW owed, IsOwed(arr, owed)
  PROVE  \A y \in Nodes : Owed[y] = owed[y]
<1> DEFINE turn(g, i) == IF i = 1 THEN arr[i].update ELSE arr[i].update \o g[i \div 2]
           Right(g) == g = [i \in Nodes |-> turn(g, i)]
           f == [i \in Nodes |-> owed[i]]
<1>1. \A i \in Nodes : f[i] = owed[i]
  OBVIOUS
<1>2. Right(f)
  <2>1. ASSUME NEW i \in Nodes PROVE f[i] = turn(f, i)
    <3>1. CASE i = 1
      BY <3>1 DEF IsOwed
    <3>2. CASE i # 1
      <4>1. i \div 2 \in Nodes
        BY <3>2, NodeNumbers
      <4>2. owed[i] = arr[i].update \o owed[i \div 2]
        BY <3>2 DEF IsOwed
      <4>3. f[i] = owed[i] /\ f[i \div 2] = owed[i \div 2]
        BY <1>1, <4>1
      <4> QED BY <3>2, <4>2, <4>3
    <3> QED BY <3>1, <3>2
  <2> HIDE DEF turn
  <2> QED BY <2>1
<1>3. Owed = CHOOSE g : Right(g)
  BY DEF Owed
<1>4. Right(Owed)
  <2> HIDE DEF Right
  <2> QED BY <1>2, <1>3
<1> DEFINE g == Owed
<1>5. Right(g)
  BY <1>4
<1> HIDE DEF g
<1>6. \A y \in Nodes : g[y] = turn(g, y)
  <2> HIDE DEF turn
  <2> QED BY <1>5
<1>7. Accumulates(arr, g)
  BY <1>6, NodeNumbers DEF Accumulates
<1>8. \A y \in Nodes : g[y] = owed[y]
  BY <1>7, OwedUnique
<1> QED BY <1>8 DEF g

LEMMA AggregatesHold == ASSUME IInv PROVE Aggregates
<1> SUFFICES ASSUME spoils = 0, op = Idle
             PROVE  /\ \A i \in 1..n - 1 : arr[i].value = Merge(Seen(arr, 2 * i), Seen(arr, 2 * i + 1))
                    /\ \A i \in Leaves : ApplyUpdate(Owed[i + n], arr[i + n].value) = elements[i]
  BY DEF Aggregates
<1>1. PICK owed : IsOwed(arr, owed) /\ Holds(arr, owed, op, elements, spoils)
  BY Now
<1>2. op.at = "idle"
  BY IdleOK
<1>3. StandsFor(arr, owed, {}, elements)
  BY <1>1, <1>2 DEF Holds, Exact
<1>4. \A i \in 1..n - 1 : arr[i].value = Merge(Seen(arr, 2 * i), Seen(arr, 2 * i + 1))
  BY <1>3 DEF StandsFor, Joined
<1>5. ASSUME NEW i \in Leaves PROVE ApplyUpdate(Owed[i + n], arr[i + n].value) = elements[i]
  <2> DEFINE y == i + n
  <2>1. y \in n..2 * n - 1 /\ y - n = i
    BY nNat DEF Leaves
  <2> HIDE DEF y
  <2>2. Owed[y] = owed[y]
    BY <1>1, <2>1, OwedIs, NodeNumbers
  <2>3. ApplyUpdate(owed[y], arr[y].value) = elements[y - n]
    BY <1>3, <2>1 DEF StandsFor
  <2>4. ApplyUpdate(Owed[y], arr[y].value) = elements[i]
    BY <2>1, <2>2, <2>3
  <2> QED BY <2>4 DEF y
<1> QED BY <1>4, <1>5

\* Between operations every value is that of the two children with what is
\* pending in them, and pushUpdates, Update and rebuild have lost, repeated
\* or swapped no update on its way from the root to a leaf.
THEOREM TreeAggregates == Spec => []Aggregates
<1>1. IInv => Aggregates
  BY AggregatesHold
<1> QED BY <1>1, TreeInvariant, PTL

\* Until a Get has added a pending update in and left it there, Get returns
\* the merge of exactly the elements of its range, from left to right.
THEOREM TreeGetAnswers == Spec => []GetAnswersUntilSpoiled
<1>1. IInv => GetAnswersUntilSpoiled
  BY DEF IInv, AnswerOK, GetAnswersUntilSpoiled
<1> QED BY <1>1, TreeInvariant, PTL

\* With nothing pending anywhere LongestRangeWherePredicate returns the
\* leftmost start of a range that ends at rMax and that the predicate holds
\* with, although its first loop merges summedValue in twice.
THEOREM TreeLongestAnswers == Spec => []LongestAnswersWhenQuiet
<1>1. IInv => LongestAnswersWhenQuiet
  BY DEF IInv, AnswerOK, GoodStart, LongestAnswersWhenQuiet
<1> QED BY <1>1, TreeInvariant, PTL

-----------------------------------------------------------------------------
(***************************************************************************)
(* SOLVE                                                                   *)
(***************************************************************************)

Sides == {"A", "B"}
Pairs == [side : Sides, at : Positions]

\* The bounds before the loop.
FirstAl(i) == IF Letter(i) = "A" THEN i ELSE 0
FirstBr(i) == IF Letter(i) = "B" THEN i ELSE N + 1

SolveTypes ==
  /\ string \in Seq(Sides) /\ N \in Nat /\ N >= 1
  /\ al \in [Positions -> Positions] /\ br \in [Positions -> Positions]
  /\ queue \in [0..N + 3 -> Seq(Pairs)]
  /\ dist \in 1..N + 1

\* Only Alice's bound at the end of the string and Bob's at its beginning
\* ever improve.
OthersUntouched ==
  /\ \A i \in Positions : i # N => al[i] = FirstAl(i)
  /\ \A i \in Positions : i # 1 => br[i] = FirstBr(i)

\* Alice's bound at the end improves to an A that another A follows.
ImprovedByTwoAs ==
  \/ al[N] = FirstAl(N)
  \/ /\ al[N] \in 1..N - 1 /\ Letter(N) # "A"
     /\ Letter(al[N]) = "A" /\ Letter(al[N] + 1) = "A"

\* What two As in a row are good for is noted or still in the queue.
TwoAsNoted ==
  \A l \in 2..N : Letter(l - 1) = "A" /\ Letter(l) = "A" =>
    \/ al[N] >= l - 1
    \/ dist <= N + 2 - l /\ InQueue(Of("B", l), N + 2 - l)

SInv == SolveTypes /\ NothingOverlooked /\ OthersUntouched /\ ImprovedByTwoAs /\ TwoAsNoted

-----------------------------------------------------------------------------
(* Queues                                                                  *)

In(el, q) == \E k \in DOMAIN q : q[k] = el

LEMMA InAppend ==
  ASSUME NEW S, NEW q \in Seq(S), NEW e \in S
  PROVE  /\ Append(q, e) \in Seq(S)
         /\ In(e, Append(q, e))
         /\ \A el : In(el, q) => In(el, Append(q, e))
<1>1. /\ Append(q, e) \in Seq(S) /\ Len(Append(q, e)) = Len(q) + 1 /\ Len(q) \in Nat
      /\ \A i \in 1..Len(q) : Append(q, e)[i] = q[i]
      /\ Append(q, e)[Len(q) + 1] = e
  BY AppendProperties, LenProperties
<1>2. DOMAIN q = 1..Len(q) /\ DOMAIN Append(q, e) = 1..Len(q) + 1
  BY <1>1, LenProperties
<1> HIDE DEF In
<1>3. In(e, Append(q, e))
  BY <1>1, <1>2 DEF In
<1>4. ASSUME NEW el, In(el, q) PROVE In(el, Append(q, e))
  <2>1. PICK k \in DOMAIN q : q[k] = el
    BY <1>4 DEF In
  <2>2. k \in DOMAIN Append(q, e) /\ Append(q, e)[k] = el
    BY <1>1, <1>2, <2>1
  <2> QED BY <2>2 DEF In
<1> QED BY <1>1, <1>3, <1>4

\* Taking the first leaves the others.
LEMMA InTail ==
  ASSUME NEW S, NEW q \in Seq(S), q # <<>>
  PROVE  /\ Head(q) \in S /\ Tail(q) \in Seq(S)
         /\ \A el : In(el, q) /\ el # Head(q) => In(el, Tail(q))
<1>1. /\ Head(q) \in S /\ Tail(q) \in Seq(S) /\ Len(Tail(q)) = Len(q) - 1
      /\ \A i \in 1..Len(Tail(q)) : Tail(q)[i] = q[i + 1]
      /\ Len(q) \in Nat
  BY HeadTailProperties, LenProperties
<1>2. DOMAIN q = 1..Len(q) /\ DOMAIN Tail(q) = 1..Len(q) - 1
  BY <1>1, LenProperties
<1>3. Head(q) = q[1]
  OBVIOUS
<1>4. ASSUME NEW el, In(el, q), el # Head(q) PROVE In(el, Tail(q))
  <2>1. PICK k \in DOMAIN q : q[k] = el
    BY <1>4 DEF In
  <2>2. k # 1
    BY <1>3, <1>4, <2>1
  <2>3. k - 1 \in DOMAIN Tail(q) /\ Tail(q)[k - 1] = el
    BY <1>1, <1>2, <2>1, <2>2
  <2> QED BY <2>3 DEF In
<1> QED BY <1>1, <1>4

LEMMA InQueueIsIn == \A el, d : InQueue(el, d) <=> In(el, queue[d])
  BY DEF InQueue, In

-----------------------------------------------------------------------------
(* Before the loop                                                         *)

LEMMA LetterValues ==
  ASSUME string \in Seq(Sides), N \in Nat
  PROVE  /\ \A i \in Int : Letter(i) \in {"A", "B", "X"}
         /\ \A i \in Int : Letter(i) # "X" <=> i \in 1..N
         /\ \A i \in 1..N : Letter(i) = string[i]
<1>1. \A i \in 1..N : string[i] \in {"A", "B"}
  BY ElementOfSeq DEF N, Sides
<1> QED BY <1>1 DEF Letter

LEMMA InConcat ==
  ASSUME NEW S, NEW s \in Seq(S), NEW t \in Seq(S), NEW el, In(el, s)
  PROVE  In(el, s \o t)
<1>1. PICK k \in DOMAIN s : s[k] = el
  BY DEF In
<1>2. /\ Len(s) \in Nat /\ Len(t) \in Nat /\ s \o t \in Seq(S)
      /\ Len(s \o t) = Len(s) + Len(t) /\ DOMAIN s = 1..Len(s)
      /\ DOMAIN (s \o t) = 1..Len(s \o t)
      /\ \A i \in 1..Len(s) + Len(t) : (s \o t)[i] = IF i <= Len(s) THEN s[i] ELSE t[i - Len(s)]
  BY LenProperties, ConcatProperties
<1>3. k \in DOMAIN (s \o t) /\ (s \o t)[k] = el
  BY <1>1, <1>2
<1> QED BY <1>3 DEF In

\* The first loop queues both sides of every position by the longest
\* interval that they may have.
LEMMA QueuedBoth ==
  ASSUME N \in Nat
  PROVE  /\ \A d \in 0..N + 3 : Queued(d) \in Seq(Pairs)
         /\ \A i \in Positions : In(Of("A", i), Queued(i + 1))
         /\ \A i \in Positions : In(Of("B", i), Queued(N + 2 - i))
<1>1. ASSUME NEW d \in 1..N + 2
      PROVE  /\ Of("A", d - 1) \in Pairs /\ Of("B", N + 2 - d) \in Pairs
             /\ \/ Queued(d) = <<Of("A", d - 1), Of("B", N + 2 - d)>>
                \/ Queued(d) = <<Of("B", N + 2 - d), Of("A", d - 1)>>
  <2>1. d - 1 \in Positions /\ N + 2 - d \in Positions
    BY DEF Positions
  <2>2. Of("A", d - 1) \in Pairs /\ Of("B", N + 2 - d) \in Pairs
    BY <2>1 DEF Of, Pairs, Sides
  <2> QED BY <2>2 DEF Queued
<1>2. ASSUME NEW d \in 1..N + 2
      PROVE  /\ Queued(d) \in Seq(Pairs)
             /\ In(Of("A", d - 1), Queued(d)) /\ In(Of("B", N + 2 - d), Queued(d))
  <2> DEFINE a == Of("A", d - 1)
             b == Of("B", N + 2 - d)
  <2>1. a \in Pairs /\ b \in Pairs /\ (Queued(d) = <<a, b>> \/ Queued(d) = <<b, a>>)
    BY <1>1
  <2> HIDE DEF a, b
  <2>2. Queued(d) \in Seq(Pairs)
    <3>1. <<a, b>> \in Seq(Pairs) /\ <<b, a>> \in Seq(Pairs)
      BY <2>1
    <3> QED BY <2>1, <3>1
  <2>3. In(a, Queued(d)) /\ In(b, Queued(d))
    <3>1. In(a, <<a, b>>) /\ In(b, <<a, b>>)
      BY <2>1 DEF In
    <3>2. In(a, <<b, a>>) /\ In(b, <<b, a>>)
      BY <2>1 DEF In
    <3> QED BY <2>1, <3>1, <3>2
  <2> QED BY <2>2, <2>3 DEF a, b
<1>3. \A d \in 0..N + 3 : d \notin 1..N + 2 => Queued(d) = <<>>
  BY DEF Queued
<1>4. \A d \in 0..N + 3 : Queued(d) \in Seq(Pairs)
  BY <1>2, <1>3, EmptySeq
<1>5. ASSUME NEW i \in Positions
      PROVE  In(Of("A", i), Queued(i + 1)) /\ In(Of("B", i), Queued(N + 2 - i))
  <2>1. i + 1 \in 1..N + 2 /\ N + 2 - i \in 1..N + 2
        /\ (i + 1) - 1 = i /\ N + 2 - (N + 2 - i) = i
    BY DEF Positions
  <2>2. In(Of("A", (i + 1) - 1), Queued(i + 1))
    BY <1>2, <2>1
  <2>3. In(Of("B", N + 2 - (N + 2 - i)), Queued(N + 2 - i))
    BY <1>2, <2>1
  <2> QED BY <2>1, <2>2, <2>3
<1> QED BY <1>4, <1>5

LEMMA InitSInv == SolveInit => SInv
<1> SUFFICES ASSUME SolveInit PROVE SInv
  OBVIOUS
<1>1. string \in Seq(Sides) /\ N \in Nat /\ N >= 1
  <2>1. PICK m \in 1..MaxN : string \in [1..m -> Sides]
    BY DEF SolveInit, Sides
  <2>2. m \in Nat /\ m >= 1
    BY <2>1
  <2>3. string \in Seq(Sides)
    BY <2>1, <2>2, SeqDef
  <2>4. Len(string) \in Nat /\ DOMAIN string = 1..Len(string) /\ DOMAIN string = 1..m
    BY <2>1, <2>3, LenProperties
  <2>5. Len(string) = m
    <3>1. m \in 1..Len(string)
      BY <2>2, <2>4
    <3>2. Len(string) \in 1..m
      BY <2>4, <3>1
    <3> QED BY <3>1, <3>2
  <2> QED BY <2>2, <2>3, <2>5 DEF N
<1>2. /\ al = [i \in Positions |-> FirstAl(i)]
      /\ br = [i \in Positions |-> FirstBr(i)]
      /\ dist = 1
  BY DEF SolveInit, FirstAl, FirstBr
<1>3. al \in [Positions -> Positions] /\ br \in [Positions -> Positions]
  <2>1. \A i \in Positions : FirstAl(i) \in Positions /\ FirstBr(i) \in Positions
    BY <1>1 DEF FirstAl, FirstBr, Positions
  <2> QED BY <1>2, <2>1
<1> DEFINE letters == [i \in 1..N |-> Of(string[i], i)]
           more(d) == IF d = 1 THEN letters ELSE <<>>
<1>4. \A d \in 0..N + 3 : more(d) \in Seq(Pairs)
  <2>1. \A i \in 1..N : Of(string[i], i) \in Pairs
    <3>1. \A i \in 1..N : string[i] \in Sides /\ i \in Positions
      BY <1>1, ElementOfSeq DEF N, Positions
    <3> QED BY <3>1 DEF Of, Pairs
  <2>2. letters \in [1..N -> Pairs]
    BY <2>1
  <2>3. letters \in Seq(Pairs)
    BY <1>1, <2>2, SeqDef
  <2> QED BY <2>3, EmptySeq
<1>5. queue = [d \in 0..N + 3 |-> Queued(d) \o more(d)]
  BY DEF SolveInit
<1> HIDE DEF more
<1>6. queue \in [0..N + 3 -> Seq(Pairs)]
  <2>1. \A d \in 0..N + 3 : Queued(d) \o more(d) \in Seq(Pairs)
    BY <1>1, <1>4, QueuedBoth, ConcatProperties
  <2> QED BY <1>5, <2>1
<1>7. SolveTypes
  BY <1>1, <1>2, <1>3, <1>6 DEF SolveTypes
<1>8. ASSUME NEW el, NEW d \in 0..N + 3, In(el, Queued(d))
      PROVE  InQueue(el, d)
  <2>1. In(el, Queued(d) \o more(d))
    BY <1>1, <1>4, <1>8, QueuedBoth, InConcat
  <2>2. queue[d] = Queued(d) \o more(d)
    BY <1>5
  <2> QED BY <2>1, <2>2, InQueueIsIn
<1>9. NothingOverlooked
  <2> SUFFICES ASSUME NEW side \in Sides, NEW i \in Positions,
                      dist < Interval(Of(side, i))[2] - Interval(Of(side, i))[1] + 1
               PROVE  InQueue(Of(side, i), Interval(Of(side, i))[2] - Interval(Of(side, i))[1] + 1)
    BY DEF NothingOverlooked, Sides
  <2>1. i \in Int /\ i >= 0 /\ i <= N + 1
    BY <1>1 DEF Positions
  <2>2. CASE side = "A"
    <3>1. Interval(Of(side, i))[1] = FirstAl(i) /\ Interval(Of(side, i))[2] = i
      BY <1>2, <2>2 DEF Interval, Of
    <3>2. FirstAl(i) = 0
      BY <1>2, <2>1, <3>1 DEF FirstAl
    <3>3. InQueue(Of("A", i), i + 1)
      BY <1>1, <1>8, <2>1, QueuedBoth
    <3> QED BY <2>1, <2>2, <3>1, <3>2, <3>3
  <2>3. CASE side = "B"
    <3>1. Interval(Of(side, i))[1] = i /\ Interval(Of(side, i))[2] = FirstBr(i)
      BY <1>2, <2>3 DEF Interval, Of
    <3>2. FirstBr(i) = N + 1
      BY <1>2, <2>1, <3>1 DEF FirstBr
    <3>3. InQueue(Of("B", i), N + 2 - i)
      BY <1>1, <1>8, <2>1, QueuedBoth
    <3>4. Interval(Of(side, i))[2] - Interval(Of(side, i))[1] + 1 = N + 2 - i
      BY <1>1, <2>1, <3>1, <3>2
    <3> QED BY <2>3, <3>3, <3>4
  <2> QED BY <2>2, <2>3 DEF Sides
<1>10. OthersUntouched
  BY <1>2 DEF OthersUntouched
<1>11. ImprovedByTwoAs
  <2>1. N \in Positions
    BY <1>1 DEF Positions
  <2> QED BY <1>2, <2>1 DEF ImprovedByTwoAs
<1>12. TwoAsNoted
  <2> SUFFICES ASSUME NEW l \in 2..N
               PROVE  dist <= N + 2 - l /\ InQueue(Of("B", l), N + 2 - l)
    BY DEF TwoAsNoted
  <2>1. l \in Positions /\ N + 2 - l \in 0..N + 3 /\ dist <= N + 2 - l
    BY <1>1, <1>2 DEF Positions
  <2>2. In(Of("B", l), Queued(N + 2 - l))
    BY <1>1, <2>1, QueuedBoth
  <2> QED BY <1>8, <2>1, <2>2
<1> QED BY <1>7, <1>9, <1>10, <1>11, <1>12 DEF SInv

-----------------------------------------------------------------------------
(* A turn of the loop                                                      *)

\* A bound that improves is Alice's at the end of the string, found by two
\* As in a row, or Bob's at the beginning; and it is queued by the length of
\* its interval.
LEMMA WhatImproves ==
  ASSUME SInv, NEW el \in Pairs, NEW b \in Consequences(el), Improves(b)
  PROVE  /\ b.at \in Positions /\ b.to \in Positions /\ b.dist \in dist..N + 3
         /\ \/ /\ b.side = "A" /\ b.at = N /\ b.dist = N - b.to + 1
               /\ b.to \in 1..N - 1 /\ al[N] < b.to
               /\ Letter(N) # "A" /\ Letter(b.to) = "A" /\ Letter(b.to + 1) = "A"
            \/ /\ b.side = "B" /\ b.at = 1 /\ b.dist = b.to
<1>1. /\ string \in Seq(Sides) /\ N \in Nat /\ N >= 1
      /\ al \in [Positions -> Positions] /\ br \in [Positions -> Positions]
      /\ dist \in 1..N + 1
  BY DEF SInv, SolveTypes
<1>2. /\ \A i \in Int : Letter(i) \in {"A", "B", "X"}
      /\ \A i \in Int : Letter(i) # "X" <=> i \in 1..N
  BY <1>1, LetterValues
<1>3. OthersUntouched /\ ImprovedByTwoAs
  BY DEF SInv
<1>4. CASE el.side = "A"
  <2> DEFINE r == el.at
             l == al[r]
  <2>1. r \in Positions /\ l \in Positions
    BY <1>1 DEF Pairs
  <2>2. Interval(el)[1] = l /\ Interval(el)[2] = r
    BY <1>4 DEF Interval
  <2> HIDE DEF l, r
  <2>3. r - l + 1 = dist /\ r # N + 1 /\ b \in Follows("A", l, r)
    BY <1>4, <2>2 DEF Consequences
  <2>4. l \in Int /\ r \in Int /\ 0 <= l /\ l <= r /\ r <= N
    BY <1>1, <2>1, <2>3 DEF Positions
  <2>5. CASE Letter(r + 1) = "A"
    <3>1. b = Bound("A", r + 1, l, dist + 1)
      BY <2>3, <2>5 DEF Follows
    <3>2. al[r + 1] < l
      BY <3>1 DEF Bound, Improves
    <3>3. r + 1 \in Positions /\ r + 1 \in 1..N
      BY <1>1, <1>2, <2>4, <2>5 DEF Positions
    <3>4. al[r + 1] = r + 1
      <4>1. CASE r + 1 # N
        BY <1>3, <2>5, <3>3, <4>1 DEF OthersUntouched, FirstAl
      <4>2. CASE r + 1 = N
        BY <1>3, <2>5, <3>3, <4>2 DEF ImprovedByTwoAs, FirstAl
      <4> QED BY <4>1, <4>2
    <3> QED BY <2>4, <3>2, <3>4
  <2>6. CASE Letter(r + 1) # "A"
    <3>1. l # r /\ b = Bound("B", l + 1, r + 1, dist)
      BY <2>3, <2>6 DEF Follows
    <3>2. br[l + 1] > r + 1
      BY <3>1 DEF Bound, Improves
    <3>3. l + 1 \in Positions /\ r + 1 \in Positions /\ br[l + 1] \in Positions
      BY <1>1, <2>4 DEF Positions
    <3>4. r # N
      BY <1>1, <2>4, <3>2, <3>3 DEF Positions
    <3>5. l = 0
      BY <1>3, <2>1, <3>1, <3>4 DEF OthersUntouched, FirstAl, l
    <3> QED BY <1>1, <2>3, <2>4, <3>1, <3>3, <3>5 DEF Bound
  <2> QED BY <2>5, <2>6
<1>5. CASE el.side = "B"
  <2> DEFINE l == el.at
             r == br[l]
  <2>1. r \in Positions /\ l \in Positions
    BY <1>1 DEF Pairs
  <2>2. Interval(el)[1] = l /\ Interval(el)[2] = r
    BY <1>5 DEF Interval
  <2> HIDE DEF l, r
  <2>3. r - l + 1 = dist /\ l # 0 /\ b \in Follows("B", l, r)
    BY <1>5, <2>2 DEF Consequences
  <2>4. l \in Int /\ r \in Int /\ 1 <= l /\ l <= r /\ r <= N + 1
    BY <1>1, <2>1, <2>3 DEF Positions
  <2>5. CASE Letter(l - 1) = "B"
    <3>1. b = Bound("B", l - 1, r, dist + 1)
      BY <2>3, <2>5 DEF Follows
    <3>2. br[l - 1] > r
      BY <3>1 DEF Bound, Improves
    <3>3. l - 1 \in Positions /\ l - 1 \in 1..N
      BY <1>1, <1>2, <2>4, <2>5 DEF Positions
    <3>4. l - 1 = 1
      <4>1. l - 1 # 1 => br[l - 1] = l - 1
        BY <1>3, <2>5, <3>3 DEF OthersUntouched, FirstBr
      <4> QED BY <2>4, <3>2, <4>1
    <3> QED BY <1>1, <2>1, <2>3, <2>4, <3>1, <3>3, <3>4 DEF Bound
  <2>6. CASE Letter(l - 1) # "B"
    <3>1. l # r /\ b = Bound("A", r - 1, l - 1, dist)
      BY <2>3, <2>6 DEF Follows
    <3>2. al[r - 1] < l - 1
      BY <3>1 DEF Bound, Improves
    <3>3. l - 1 \in Positions /\ r - 1 \in Positions /\ al[r - 1] \in Positions
      BY <1>1, <2>4 DEF Positions
    <3>4. l >= 2 /\ l <= N
      BY <1>1, <2>4, <3>1, <3>2, <3>3 DEF Positions
    <3>5. Letter(l) # "B" /\ r = N + 1
      BY <1>3, <2>1, <3>1, <3>4 DEF OthersUntouched, FirstBr, r
    <3>6. Letter(l) = "A" /\ Letter(l - 1) = "A"
      <4>1. l \in 1..N /\ l - 1 \in 1..N
        BY <1>1, <2>4, <3>4
      <4> QED BY <1>2, <2>6, <3>5, <4>1
    <3>7. Letter(N) # "A"
      <4>1. Letter(N) = "A" => al[N] = N
        BY <1>3 DEF ImprovedByTwoAs, FirstAl
      <4>2. al[N] < l - 1
        BY <1>1, <3>2, <3>5
      <4> QED BY <1>1, <2>4, <3>4, <4>1, <4>2
    <3> QED BY <1>1, <2>3, <2>4, <3>1, <3>2, <3>3, <3>4, <3>5, <3>6, <3>7 DEF Bound
  <2> QED BY <2>5, <2>6
<1> QED BY <1>4, <1>5 DEF Pairs, Sides

\* Passing over a pair, or finding nothing better: one queue gets shorter.
\* Finding something better: a queue gets a pair more.
LEMMA PopQueues ==
  ASSUME SInv, Pop
  PROVE  LET el == Head(queue[dist]) IN
         /\ el \in Pairs /\ dist <= N
         /\ queue' \in [0..N + 3 -> Seq(Pairs)]
         /\ \A d \in 0..N + 3 : \A e :
              InQueue(e, d) /\ (d = dist => e # el) => InQueue(e, d)'
         /\ \/ UNCHANGED <<al, br>> /\ \A b \in Consequences(el) : ~Improves(b)
            \/ \E b \in Consequences(el) :
                 /\ Improves(b)
                 /\ InQueue(Of(b.side, b.at), b.dist)'
                 /\ IF b.side = "A" THEN al' = [al EXCEPT ![b.at] = b.to] /\ UNCHANGED br
                    ELSE br' = [br EXCEPT ![b.at] = b.to] /\ UNCHANGED al
<1> DEFINE el == Head(queue[dist])
           popped == [queue EXCEPT ![dist] = Tail(@)]
<1>1. /\ N \in Nat /\ queue \in [0..N + 3 -> Seq(Pairs)] /\ dist \in 1..N + 1
  BY DEF SInv, SolveTypes
<1>2. dist <= N /\ queue[dist] # <<>> /\ dist \in 0..N + 3
  BY <1>1 DEF Pop
<1>3. /\ el \in Pairs /\ Tail(queue[dist]) \in Seq(Pairs)
      /\ \A e : In(e, queue[dist]) /\ e # el => In(e, Tail(queue[dist]))
  BY <1>1, <1>2, InTail
<1>4. /\ popped \in [0..N + 3 -> Seq(Pairs)]
      /\ \A d \in 0..N + 3 : \A e :
           In(e, queue[d]) /\ (d = dist => e # el) => In(e, popped[d])
  BY <1>1, <1>2, <1>3
<1>5. \/ queue' = popped /\ UNCHANGED <<al, br>> /\ \A b \in Consequences(el) : ~Improves(b)
      \/ \E b \in Consequences(el) :
           /\ Improves(b)
           /\ queue' = [popped EXCEPT ![b.dist] = Append(@, Of(b.side, b.at))]
           /\ IF b.side = "A" THEN al' = [al EXCEPT ![b.at] = b.to] /\ UNCHANGED br
              ELSE br' = [br EXCEPT ![b.at] = b.to] /\ UNCHANGED al
  BY DEF Pop
<1>6. \A e, d : InQueue(e, d)' <=> In(e, queue'[d])
  BY DEF InQueue, In
<1> HIDE DEF el, popped
<1>7. CASE queue' = popped /\ UNCHANGED <<al, br>> /\ \A b \in Consequences(el) : ~Improves(b)
  <2>1. \A d \in 0..N + 3 : \A e : InQueue(e, d) /\ (d = dist => e # el) => InQueue(e, d)'
    BY <1>4, <1>6, <1>7, InQueueIsIn
  <2> QED BY <1>2, <1>3, <1>4, <1>7, <2>1 DEF el
<1>8. ASSUME NEW b \in Consequences(el), Improves(b),
             queue' = [popped EXCEPT ![b.dist] = Append(@, Of(b.side, b.at))]
      PROVE  /\ queue' \in [0..N + 3 -> Seq(Pairs)]
             /\ InQueue(Of(b.side, b.at), b.dist)'
             /\ \A d \in 0..N + 3 : \A e :
                  InQueue(e, d) /\ (d = dist => e # el) => InQueue(e, d)'
  <2> DEFINE new == Of(b.side, b.at)
  <2>1. b.at \in Positions /\ b.dist \in 0..N + 3 /\ b.side \in Sides
    <3>1. b.at \in Positions /\ b.dist \in dist..N + 3 /\ b.side \in Sides
      BY <1>3, <1>8, WhatImproves DEF Sides
    <3> QED BY <1>1, <3>1
  <2>2. new \in Pairs
    BY <2>1 DEF Of, Pairs
  <2> HIDE DEF new
  <2>3. /\ Append(popped[b.dist], new) \in Seq(Pairs)
        /\ In(new, Append(popped[b.dist], new))
        /\ \A e : In(e, popped[b.dist]) => In(e, Append(popped[b.dist], new))
    BY <1>4, <2>1, <2>2, InAppend
  <2>4. queue' = [popped EXCEPT ![b.dist] = Append(popped[b.dist], new)]
    BY <1>8 DEF new
  <2>5. /\ queue' \in [0..N + 3 -> Seq(Pairs)] /\ In(new, queue'[b.dist])
        /\ \A d \in 0..N + 3 : \A e : In(e, popped[d]) => In(e, queue'[d])
    BY <1>4, <2>1, <2>3, <2>4
  <2>6. \A d \in 0..N + 3 : \A e : InQueue(e, d) /\ (d = dist => e # el) => InQueue(e, d)'
    BY <1>4, <1>6, <2>5, InQueueIsIn
  <2>7. InQueue(new, b.dist)'
    BY <1>6, <2>5
  <2> QED BY <2>5, <2>6, <2>7 DEF new
<1>9. el \in Pairs /\ dist <= N
  BY <1>2, <1>3
<1>10. CASE \E b \in Consequences(el) :
              /\ Improves(b)
              /\ queue' = [popped EXCEPT ![b.dist] = Append(@, Of(b.side, b.at))]
              /\ IF b.side = "A" THEN al' = [al EXCEPT ![b.at] = b.to] /\ UNCHANGED br
                 ELSE br' = [br EXCEPT ![b.at] = b.to] /\ UNCHANGED al
  BY <1>8, <1>9, <1>10 DEF el
<1> QED BY <1>5, <1>7, <1>10

LEMMA IntervalRange ==
  ASSUME SolveTypes, NEW side \in Sides, NEW i \in Positions
  PROVE  /\ Interval(Of(side, i))[1] \in Int /\ Interval(Of(side, i))[1] >= 0
         /\ Interval(Of(side, i))[2] \in Int /\ Interval(Of(side, i))[2] <= N + 1
<1>1. \A x \in Positions : x \in Int /\ 0 <= x /\ x <= N + 1
  BY DEF SolveTypes, Positions
<1>2. al[i] \in Positions /\ br[i] \in Positions
  BY DEF SolveTypes
<1>3. Interval(Of(side, i)) = <<al[i], i>> \/ Interval(Of(side, i)) = <<i, br[i]>>
  BY DEF Interval, Of
<1> QED BY <1>1, <1>2, <1>3

\* Bob's interval, with a letter before it that is not his.
LEMMA FollowsForAlice ==
  ASSUME NEW l, NEW r, Letter(l - 1) # "B", l # r
  PROVE  Follows("B", l, r) = {Bound("A", r - 1, l - 1, dist)}
  BY DEF Follows

\* The pair that is popped stands for an interval of length dist at most, so
\* that no bound waits for it any more.
LEMMA PopSInv == SInv /\ Pop => SInv'
<1> SUFFICES ASSUME SInv, Pop PROVE SInv'
  OBVIOUS
<1> DEFINE el == Head(queue[dist])
<1>1. /\ string \in Seq(Sides) /\ N \in Nat /\ N >= 1
      /\ al \in [Positions -> Positions] /\ br \in [Positions -> Positions]
      /\ dist \in 1..N + 1
  BY DEF SInv, SolveTypes
<1>2. UNCHANGED <<string, dist>>
  BY DEF Pop
<1>3. /\ el \in Pairs /\ dist <= N
      /\ queue' \in [0..N + 3 -> Seq(Pairs)]
      /\ \A d \in 0..N + 3 : \A e : InQueue(e, d) /\ (d = dist => e # el) => InQueue(e, d)'
  BY PopQueues
<1>4. \/ UNCHANGED <<al, br>> /\ \A b \in Consequences(el) : ~Improves(b)
      \/ \E b \in Consequences(el) :
           /\ Improves(b)
           /\ InQueue(Of(b.side, b.at), b.dist)'
           /\ IF b.side = "A" THEN al' = [al EXCEPT ![b.at] = b.to] /\ UNCHANGED br
              ELSE br' = [br EXCEPT ![b.at] = b.to] /\ UNCHANGED al
  BY PopQueues
<1> HIDE DEF el
<1>5. /\ N' = N /\ Positions' = Positions /\ Pairs' = Pairs /\ dist' = dist
      /\ \A i : Letter(i)' = Letter(i) /\ FirstAl(i)' = FirstAl(i) /\ FirstBr(i)' = FirstBr(i)
  BY <1>2 DEF N, Positions, Pairs, Letter, FirstAl, FirstBr
<1>6. /\ NothingOverlooked /\ OthersUntouched /\ ImprovedByTwoAs /\ TwoAsNoted
      /\ N \in Positions /\ 1 \in Positions
  BY <1>1 DEF SInv, Positions
\* What is noted of two As stays noted, unless it was the pair popped.
<1>7. ASSUME NEW l \in 2..N, Letter(l - 1) = "A", Letter(l) = "A",
             al'[N] \in Int, al'[N] >= al[N]
      PROVE  \/ al'[N] >= l - 1
             \/ dist <= N + 2 - l /\ InQueue(Of("B", l), N + 2 - l)'
             \/ el = Of("B", l) /\ dist = N + 2 - l
  <2>1. al[N] \in Int /\ l \in Int /\ N + 2 - l \in 0..N + 3
    BY <1>1, <1>6 DEF Positions
  <2>2. al[N] >= l - 1 \/ (dist <= N + 2 - l /\ InQueue(Of("B", l), N + 2 - l))
    BY <1>6, <1>7 DEF TwoAsNoted
  <2>3. CASE InQueue(Of("B", l), N + 2 - l) /\ dist <= N + 2 - l
    <3>1. CASE ~(el = Of("B", l) /\ dist = N + 2 - l)
      <4>1. N + 2 - l = dist => Of("B", l) # el
        BY <3>1
      <4> QED BY <1>3, <1>5, <2>1, <2>3, <4>1
    <3> QED BY <3>1
  <2>4. CASE al[N] >= l - 1
    BY <1>7, <2>1, <2>4
  <2> QED BY <2>2, <2>3, <2>4
\* If it was, Alice's bound is no worse than what it leads to.
<1>8. ASSUME NEW l \in 2..N, Letter(l - 1) = "A", Letter(l) = "A",
             el = Of("B", l), dist = N + 2 - l
      PROVE  Bound("A", N, l - 1, dist) \in Consequences(el)
  <2>0. N \in Nat
    BY <1>1
  <2>1. l \in Positions /\ l # 1 /\ l # 0 /\ l # N + 1 /\ N + 1 - 1 = N
        /\ N + 1 - l + 1 = N + 2 - l
    BY <2>0 DEF Positions
  <2>2. br[l] = N + 1
    BY <1>6, <1>8, <2>1 DEF OthersUntouched, FirstBr
  <2>3. Interval(el)[1] = l /\ Interval(el)[2] = N + 1 /\ el.side = "B"
    BY <1>8, <2>2 DEF Interval, Of
  <2>4. Follows("B", l, N + 1) = {Bound("A", N, l - 1, dist)}
    <3>1. Follows("B", l, N + 1) = {Bound("A", (N + 1) - 1, l - 1, dist)}
      BY <1>8, <2>1, FollowsForAlice
    <3> QED BY <2>0, <2>1, <3>1
  <2>5. Consequences(el) = Follows("B", l, N + 1)
    <3>1. N + 1 - l + 1 = dist /\ l # 0
      BY <1>8, <2>1
    <3> QED BY <2>0, <2>3, <3>1 DEF Consequences
  <2> QED BY <2>4, <2>5
<1>9. CASE UNCHANGED <<al, br>> /\ \A b \in Consequences(el) : ~Improves(b)
  <2>1. SolveTypes'
    BY <1>1, <1>2, <1>3, <1>5, <1>9 DEF SolveTypes
  <2>2. OthersUntouched' /\ ImprovedByTwoAs'
    BY <1>5, <1>6, <1>9 DEF OthersUntouched, ImprovedByTwoAs
  <2>3. NothingOverlooked'
    <3> SUFFICES ASSUME NEW side \in Sides, NEW i \in Positions,
                        dist < Interval(Of(side, i))[2] - Interval(Of(side, i))[1] + 1
                 PROVE  InQueue(Of(side, i), Interval(Of(side, i))[2] - Interval(Of(side, i))[1] + 1)'
      BY <1>5, <1>9 DEF NothingOverlooked, Sides, Interval
    <3> DEFINE size == Interval(Of(side, i))[2] - Interval(Of(side, i))[1] + 1
    <3>1. InQueue(Of(side, i), size)
      BY <1>6 DEF NothingOverlooked, Sides
    <3>2. size' = size
      BY <1>9 DEF Interval
    <3>3. size \in dist + 1..N + 2
      BY <1>1, IntervalRange DEF SInv
    <3> HIDE DEF size
    <3>4. InQueue(Of(side, i), size)'
      BY <1>1, <1>3, <3>1, <3>2, <3>3
    <3> QED BY <3>4 DEF size
  <2>4. TwoAsNoted'
    <3> SUFFICES ASSUME NEW l \in 2..N, Letter(l - 1) = "A", Letter(l) = "A"
                 PROVE  \/ al'[N] >= l - 1
                        \/ dist <= N + 2 - l /\ InQueue(Of("B", l), N + 2 - l)'
      BY <1>5, <1>9 DEF TwoAsNoted, InQueue
    <3>1. al[N] \in Int /\ al'[N] = al[N]
      BY <1>1, <1>6, <1>9 DEF Positions
    <3>2. CASE el = Of("B", l) /\ dist = N + 2 - l
      <4>1. ~Improves(Bound("A", N, l - 1, dist))
        BY <1>8, <1>9, <3>2
      <4>2. ~(al[N] < l - 1)
        BY <4>1 DEF Improves, Bound
      <4> QED BY <3>1, <4>2
    <3> QED BY <1>7, <3>1, <3>2
  <2> QED BY <2>1, <2>2, <2>3, <2>4 DEF SInv
<1>10. ASSUME NEW b \in Consequences(el), Improves(b),
              InQueue(Of(b.side, b.at), b.dist)',
              IF b.side = "A" THEN al' = [al EXCEPT ![b.at] = b.to] /\ UNCHANGED br
              ELSE br' = [br EXCEPT ![b.at] = b.to] /\ UNCHANGED al
       PROVE  SInv'
  <2>1. /\ b.at \in Positions /\ b.to \in Positions /\ b.dist \in dist..N + 3
        /\ \/ /\ b.side = "A" /\ b.at = N /\ b.dist = N - b.to + 1
              /\ b.to \in 1..N - 1 /\ al[N] < b.to
              /\ Letter(N) # "A" /\ Letter(b.to) = "A" /\ Letter(b.to + 1) = "A"
           \/ /\ b.side = "B" /\ b.at = 1 /\ b.dist = b.to
    BY <1>3, <1>10, WhatImproves
  <2>2. \/ /\ b.side = "A" /\ al' = [al EXCEPT ![N] = b.to] /\ br' = br
        \/ /\ b.side = "B" /\ br' = [br EXCEPT ![1] = b.to] /\ al' = al
    BY <1>10, <2>1
  <2>3. al' \in [Positions -> Positions] /\ br' \in [Positions -> Positions]
    BY <1>1, <2>1, <2>2
  <2>4. SolveTypes'
    BY <1>1, <1>2, <1>3, <1>5, <2>3 DEF SolveTypes
  <2>5. OthersUntouched'
    BY <1>1, <1>5, <1>6, <2>2 DEF OthersUntouched
  <2>6. ImprovedByTwoAs'
    BY <1>1, <1>5, <1>6, <2>1, <2>2 DEF ImprovedByTwoAs
  <2>7. NothingOverlooked'
    <3> SUFFICES ASSUME NEW side \in Sides, NEW i \in Positions,
                        dist < (Interval(Of(side, i))[2] - Interval(Of(side, i))[1] + 1)'
                 PROVE  InQueue(Of(side, i), Interval(Of(side, i))[2] - Interval(Of(side, i))[1] + 1)'
      BY <1>5 DEF NothingOverlooked, Sides
    <3> DEFINE size == Interval(Of(side, i))[2] - Interval(Of(side, i))[1] + 1
    <3>1. CASE side = b.side /\ i = b.at
      <4>1. size' = b.dist
        <5>1. CASE b.side = "A"
          <6>1. al'[N] = b.to /\ b.dist = N - b.to + 1 /\ i = N
            BY <1>1, <1>6, <2>1, <2>2, <3>1, <5>1
          <6> QED BY <3>1, <5>1, <6>1 DEF Interval, Of
        <5>2. CASE b.side = "B"
          <6>1. br'[1] = b.to /\ b.dist = b.to /\ i = 1
            BY <1>1, <1>6, <2>1, <2>2, <3>1, <5>2
          <6>2. b.to \in Int
            BY <2>1, <6>1
          <6> QED BY <3>1, <5>2, <6>1, <6>2 DEF Interval, Of
        <5> QED BY <2>1, <5>1, <5>2
      <4> HIDE DEF size
      <4>2. InQueue(Of(side, i), size)'
        BY <1>10, <3>1, <4>1 DEF InQueue
      <4> QED BY <4>2 DEF size
    <3>2. CASE ~(side = b.side /\ i = b.at)
      <4>1. size' = size
        BY <1>1, <2>1, <2>2, <3>2 DEF Interval, Of, Sides
      <4>2. size \in dist + 1..N + 2
        BY <1>1, <4>1, IntervalRange DEF SInv
      <4>3. InQueue(Of(side, i), size)
        BY <1>1, <1>6, <4>1 DEF NothingOverlooked, Sides
      <4> HIDE DEF size
      <4>4. InQueue(Of(side, i), size)'
        BY <1>1, <1>3, <4>1, <4>2, <4>3
      <4> QED BY <4>4 DEF size
    <3> QED BY <3>1, <3>2
  <2>8. TwoAsNoted'
    <3> SUFFICES ASSUME NEW l \in 2..N, Letter(l - 1) = "A", Letter(l) = "A"
                 PROVE  \/ al'[N] >= l - 1
                        \/ dist <= N + 2 - l /\ InQueue(Of("B", l), N + 2 - l)'
      BY <1>5 DEF TwoAsNoted, InQueue
    <3>1. al[N] \in Int /\ al'[N] \in Int /\ al'[N] >= al[N]
      <4>1. al[N] \in Int
        BY <1>1, <1>6 DEF Positions
      <4>2. CASE b.side = "A"
        <5>1. al'[N] = b.to /\ b.to \in Int /\ al[N] < b.to
          BY <1>1, <1>6, <2>1, <2>2, <4>2
        <5> QED BY <4>1, <5>1
      <4>3. CASE b.side = "B"
        BY <2>2, <4>1, <4>3
      <4> QED BY <2>1, <4>2, <4>3
    <3>2. CASE el = Of("B", l) /\ dist = N + 2 - l
      <4>1. b = Bound("A", N, l - 1, dist)
        <5>1. Bound("A", N, l - 1, dist) \in Consequences(el)
          BY <1>8, <3>2
        <5>2. \A c, d \in Consequences(el) : c = d
          BY DEF Consequences, Follows
        <5> QED BY <5>1, <5>2
      <4>2. b.side = "A" /\ b.to = l - 1
        BY <4>1 DEF Bound
      <4>3. al'[N] = l - 1
        BY <1>1, <1>6, <2>2, <4>2
      <4> QED BY <3>1, <4>3
    <3> QED BY <1>7, <3>1, <3>2
  <2> QED BY <2>4, <2>5, <2>6, <2>7, <2>8 DEF SInv
<1> QED BY <1>4, <1>9, <1>10

LEMMA NextDistSInv == SInv /\ NextDist => SInv'
<1> SUFFICES ASSUME SInv, NextDist PROVE SInv'
  OBVIOUS
<1>1. /\ SolveTypes /\ N \in Nat /\ dist \in 1..N + 1 /\ dist <= N
      /\ queue[dist] = <<>> /\ dist' = dist + 1 /\ UNCHANGED <<string, al, br, queue>>
  BY DEF NextDist, SInv, SolveTypes
<1>2. /\ N' = N /\ Positions' = Positions /\ Pairs' = Pairs
      /\ \A i : Letter(i)' = Letter(i) /\ FirstAl(i)' = FirstAl(i) /\ FirstBr(i)' = FirstBr(i)
      /\ \A e, d : InQueue(e, d)' <=> InQueue(e, d)
  BY <1>1 DEF N, Positions, Pairs, Letter, FirstAl, FirstBr, InQueue
<1>3. SolveTypes' /\ OthersUntouched' /\ ImprovedByTwoAs'
  BY <1>1, <1>2 DEF SInv, SolveTypes, OthersUntouched, ImprovedByTwoAs
<1>4. NothingOverlooked'
  <2> SUFFICES ASSUME NEW side \in Sides, NEW i \in Positions,
                      dist + 1 < Interval(Of(side, i))[2] - Interval(Of(side, i))[1] + 1
               PROVE  InQueue(Of(side, i), Interval(Of(side, i))[2] - Interval(Of(side, i))[1] + 1)
    BY <1>1, <1>2 DEF NothingOverlooked, Sides, Interval, InQueue
  <2>1. dist < Interval(Of(side, i))[2] - Interval(Of(side, i))[1] + 1
    BY <1>1, IntervalRange
  <2> QED BY <2>1 DEF SInv, NothingOverlooked, Sides
<1>5. TwoAsNoted'
  <2> SUFFICES ASSUME NEW l \in 2..N, Letter(l - 1) = "A", Letter(l) = "A"
               PROVE  \/ al[N] >= l - 1
                      \/ dist + 1 <= N + 2 - l /\ InQueue(Of("B", l), N + 2 - l)
    BY <1>1, <1>2 DEF TwoAsNoted, InQueue
  <2>1. al[N] >= l - 1 \/ (dist <= N + 2 - l /\ InQueue(Of("B", l), N + 2 - l))
    BY DEF SInv, TwoAsNoted
  <2>2. dist = N + 2 - l => ~InQueue(Of("B", l), N + 2 - l)
    BY <1>1 DEF InQueue
  <2> QED BY <1>1, <2>1, <2>2
<1> QED BY <1>3, <1>4, <1>5 DEF SInv

THEOREM SolveInvariant == SolveSpec => []SInv
<1>1. SInv /\ UNCHANGED solveVars => SInv'
  <2> SUFFICES ASSUME SInv, UNCHANGED solveVars PROVE SInv'
    OBVIOUS
  <2> USE DEF solveVars
  <2>1. /\ N' = N /\ Positions' = Positions /\ Pairs' = Pairs
        /\ \A i : Letter(i)' = Letter(i) /\ FirstAl(i)' = FirstAl(i) /\ FirstBr(i)' = FirstBr(i)
        /\ \A e, d : InQueue(e, d)' <=> InQueue(e, d)
        /\ \A e : Interval(e)' = Interval(e)
    BY DEF N, Positions, Pairs, Letter, FirstAl, FirstBr, InQueue, Interval
  <2>2. SolveTypes' /\ OthersUntouched' /\ ImprovedByTwoAs'
    BY <2>1 DEF SInv, SolveTypes, OthersUntouched, ImprovedByTwoAs
  <2>3. NothingOverlooked' /\ TwoAsNoted'
    BY <2>1 DEF SInv, NothingOverlooked, TwoAsNoted, Interval, InQueue
  <2> QED BY <2>2, <2>3 DEF SInv
<1>2. SInv /\ [SolveNext]_solveVars => SInv'
  BY <1>1, PopSInv, NextDistSInv DEF SolveNext
<1> QED BY <1>2, InitSInv, PTL DEF SolveSpec

\* On strings of every length, whatever the order in the queues, no bound is
\* overlooked, and Alice is said to win exactly if some A is not followed by
\* a B (solve.go:7-79).
THEOREM SolveAnswersRight == SolveSpec => []SolveIsRight
<1>1. SInv => SolveIsRight
  <2> SUFFICES ASSUME SInv, dist = N + 1
               PROVE  Alice <=> \E i \in 1..N : string[i] = "A" /\ Letter(i + 1) # "B"
    BY DEF SInv, SolveIsRight
  <2>1. /\ string \in Seq(Sides) /\ N \in Nat /\ N >= 1 /\ N \in Positions
        /\ al[N] \in Int
    BY DEF SInv, SolveTypes, Positions
  <2>2. /\ \A i \in Int : Letter(i) \in {"A", "B", "X"}
        /\ \A i \in Int : Letter(i) # "X" <=> i \in 1..N
        /\ \A i \in 1..N : Letter(i) = string[i]
    BY <2>1, LetterValues
  <2>3. ImprovedByTwoAs /\ TwoAsNoted
    BY DEF SInv
  <2>4. ASSUME Alice PROVE \E i \in 1..N : string[i] = "A" /\ Letter(i + 1) # "B"
    <3>1. CASE al[N] = FirstAl(N)
      <4>1. Letter(N) = "A"
        BY <2>4, <3>1 DEF Alice, FirstAl
      <4>2. Letter(N + 1) = "X" /\ N \in 1..N
        BY <2>1, <2>2
      <4> QED BY <2>2, <4>1, <4>2
    <3>2. CASE al[N] \in 1..N - 1 /\ Letter(al[N]) = "A" /\ Letter(al[N] + 1) = "A"
      <4>1. al[N] \in 1..N
        BY <2>1, <3>2
      <4> QED BY <2>2, <3>2, <4>1
    <3> QED BY <2>3, <3>1, <3>2 DEF ImprovedByTwoAs
  <2>5. ASSUME NEW i \in 1..N, string[i] = "A", Letter(i + 1) # "B" PROVE Alice
    <3>1. CASE i = N
      BY <2>1, <2>2, <2>3, <2>5, <3>1 DEF ImprovedByTwoAs, FirstAl, Alice
    <3>2. CASE i # N
      <4>1. i + 1 \in 2..N /\ i + 1 \in 1..N /\ (i + 1) - 1 = i
            /\ N + 2 - (i + 1) < dist
        BY <2>1, <3>2
      <4>2. Letter(i) = "A" /\ Letter(i + 1) = "A"
        BY <2>2, <2>5, <4>1
      <4>3. al[N] >= (i + 1) - 1
        BY <2>1, <2>3, <4>1, <4>2 DEF TwoAsNoted
      <4> QED BY <2>1, <4>1, <4>3 DEF Alice
    <3> QED BY <3>1, <3>2
  <2> QED BY <2>4, <2>5
<1> QED BY <1>1, SolveInvariant, PTL

=============================================================================
