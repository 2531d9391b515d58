------------------------- MODULE HeapAndSpanProofs --------------------------
(***************************************************************************)
(* What holds of two small containers at every size.  A Push leaves a heap *)
(* a heap and a Pop takes out what Peek showed, over every set of          *)
(* integers.  The basis keeps an echelon form of what the ints added so    *)
(* far span, for ints and words of every width.                            *)
(***************************************************************************)
EXTENDS MinHeap, XorSpan, FiniteSetTheorems, SequenceTheorems, WellFoundedInduction, TLAPS

-----------------------------------------------------------------------------
(* The heap                                                                *)

\* A heap but for the node k, which may be less than its parent: all others
\* are in order, and the children of k are where its parent could be theirs.
HeapBut(s, k) ==
  /\ \A j \in DOMAIN s : j # 1 /\ j # k => s[Parent(j)] <= s[j]
  /\ \A j \in DOMAIN s : j # 1 /\ k # 1 /\ Parent(j) = k => s[Parent(k)] <= s[j]

\* A loop stands at a node.
Placed ==
  /\ op.name = "none" => op = Idle
  /\ op.name # "none" => op.at \in 1..Len(data)

\* What was a heap is one but for the value on its way up.
Rising == op.name = "up" /\ HeapOrdered(before) => HeapBut(data, op.at)

\* Behind the values that may change places is the one that was first.
Sinking ==
  op.name = "down" =>
    /\ before # <<>>
    /\ data[Len(data)] = before[1]
    /\ BagOf(data) = BagOf(before)

HeapInv == HeapTypeOK /\ Placed /\ Rising /\ Sinking

-----------------------------------------------------------------------------
(* Parents and places                                                      *)

LEMMA ValuesAreNumbers ==
  ASSUME NEW s \in Seq(Values)
  PROVE  \A j \in DOMAIN s : s[j] \in Int
<1>1. \A j \in DOMAIN s : s[j] \in Values
  OBVIOUS
<1>2. Values \subseteq Int
  BY MinHeapAssumption
<1> QED BY <1>1, <1>2

LEMMA ParentIsBefore ==
  ASSUME NEW j \in Nat, j > 1
  PROVE  Parent(j) \in 1..(j - 1)
  BY DEF Parent

LEMMA SwappedValues ==
  ASSUME NEW s \in Seq(Values), NEW i \in DOMAIN s, NEW j \in DOMAIN s
  PROVE  /\ Swapped(s, i, j) \in Seq(Values)
         /\ Len(Swapped(s, i, j)) = Len(s)
         /\ DOMAIN Swapped(s, i, j) = DOMAIN s
         /\ Swapped(s, i, j)[i] = s[j]
         /\ Swapped(s, i, j)[j] = s[i]
         /\ \A k \in DOMAIN s : k # i /\ k # j => Swapped(s, i, j)[k] = s[k]
  BY DEF Swapped

\* A value that is less than its parent's takes its place.
LEMMA RisingStep ==
  ASSUME NEW s \in Seq(Values), NEW k \in DOMAIN s, k # 1, HeapBut(s, k),
         s[k] < s[Parent(k)]
  PROVE  HeapBut(Swapped(s, k, Parent(k)), Parent(k))
<1> DEFINE p == Parent(k)
           t == Swapped(s, k, p)
<1>1. DOMAIN s = 1..Len(s) /\ Len(s) \in Nat /\ \A j \in DOMAIN s : s[j] \in Int
  BY ValuesAreNumbers
<1>2. p \in DOMAIN s /\ p < k /\ p \in Nat /\ k \in Nat
  BY <1>1, ParentIsBefore
<1>3. \A j \in DOMAIN s : j # 1 => Parent(j) \in DOMAIN s /\ Parent(j) < j /\ Parent(j) \in Nat
  <2> SUFFICES ASSUME NEW j \in DOMAIN s, j # 1
               PROVE  Parent(j) \in DOMAIN s /\ Parent(j) < j /\ Parent(j) \in Nat
    OBVIOUS
  <2> QED BY <1>1, ParentIsBefore
<1>4. /\ DOMAIN t = DOMAIN s /\ t[k] = s[p] /\ t[p] = s[k]
      /\ \A j \in DOMAIN s : j # k /\ j # p => t[j] = s[j]
  BY <1>2, SwappedValues
<1>5. s[k] < s[p]
  OBVIOUS
<1> HIDE DEF t
<1>6. ASSUME NEW j \in DOMAIN t, j # 1, j # p
      PROVE  t[Parent(j)] <= t[j]
  <2>1. j \in DOMAIN s
    BY <1>4
  <2>2. CASE j = k
    BY <2>2, <1>1, <1>2, <1>4, <1>5
  <2>3. CASE j # k /\ Parent(j) = k
    BY <2>1, <2>3, <1>1, <1>4, <1>6 DEF HeapBut
  <2>4. CASE j # k /\ Parent(j) = p
    <3>1. s[p] <= s[j]
      BY <2>1, <2>4, <1>6 DEF HeapBut
    <3>2. t[Parent(j)] = s[k] /\ t[j] = s[j]
      BY <2>1, <2>4, <1>4, <1>6
    <3> HIDE DEF p
    <3> QED BY <3>1, <3>2, <1>1, <1>2, <1>5, <2>1
  <2>5. CASE j # k /\ Parent(j) # k /\ Parent(j) # p
    BY <2>1, <2>5, <1>3, <1>4, <1>6 DEF HeapBut
  <2> QED BY <2>2, <2>3, <2>4, <2>5
<1>7. ASSUME NEW j \in DOMAIN t, j # 1, p # 1, Parent(j) = p
      PROVE  t[Parent(p)] <= t[j]
  <2>1. j \in DOMAIN s
    BY <1>4
  <2>2. s[Parent(p)] <= s[p]
    BY <1>2, <1>7 DEF HeapBut
  <2>3. Parent(p) \in DOMAIN s /\ Parent(p) < p
    BY <1>2, <1>3, <1>7
  <2>4. t[Parent(p)] = s[Parent(p)]
    BY <1>2, <1>4, <2>3
  <2>5. CASE j = k
    BY <2>2, <2>4, <2>5, <1>4
  <2>6. CASE j # k
    <3>1. s[p] <= s[j]
      BY <2>1, <2>6, <1>7 DEF HeapBut
    <3>2. j # p
      BY <1>3, <1>7, <2>1, <1>2
    <3>3. t[j] = s[j]
      BY <3>2, <2>1, <2>6, <1>4
    <3>4. s[Parent(p)] \in Int /\ s[p] \in Int /\ s[j] \in Int
      BY <1>1, <1>2, <2>1, <2>3
    <3> HIDE DEF p
    <3> QED BY <3>1, <3>3, <3>4, <2>2, <2>4
  <2> QED BY <2>5, <2>6
<1> QED BY <1>6, <1>7 DEF HeapBut, t

\* At the root, or under a parent that is not greater, the value has risen.
LEMMA RisenIsHeap ==
  ASSUME NEW s \in Seq(Values), NEW k \in DOMAIN s, HeapBut(s, k),
         k = 1 \/ ~(s[k] < s[Parent(k)])
  PROVE  HeapOrdered(s)
<1> SUFFICES ASSUME NEW j \in DOMAIN s, j # 1
             PROVE  s[Parent(j)] <= s[j]
  BY DEF HeapOrdered
<1>1. Parent(j) \in DOMAIN s
  BY ParentIsBefore
<1>2. s[j] \in Int /\ s[Parent(j)] \in Int
  BY <1>1, ValuesAreNumbers
<1> QED BY <1>2 DEF HeapBut

\* Behind a heap there is room for a value that is yet to rise.
LEMMA AppendedToHeap ==
  ASSUME NEW s \in Seq(Values), NEW v \in Values, HeapOrdered(s)
  PROVE  HeapBut(Append(s, v), Len(s) + 1)
<1> DEFINE t == Append(s, v)
           k == Len(s) + 1
<1>1. /\ DOMAIN t = 1..k /\ DOMAIN s = 1..Len(s) /\ Len(s) \in Nat
      /\ \A j \in 1..Len(s) : t[j] = s[j]
  OBVIOUS
<1>2. ASSUME NEW j \in DOMAIN t, j # 1
      PROVE  Parent(j) \in 1..Len(s)
  BY <1>1, <1>2, ParentIsBefore
<1>3. ASSUME NEW j \in DOMAIN t, j # 1, j # k
      PROVE  t[Parent(j)] <= t[j]
  BY <1>1, <1>2, <1>3 DEF HeapOrdered
<1> QED BY <1>1, <1>2, <1>3 DEF HeapBut


-----------------------------------------------------------------------------
(* The bag of a sequence                                                   *)

\* Where the value v is.
At(s, v) == {i \in DOMAIN s : s[i] = v}

LEMMA BagOfAt ==
  ASSUME NEW s \in Seq(Values)
  PROVE  /\ DOMAIN BagOf(s) = ToSet(s)
         /\ \A v \in ToSet(s) : BagOf(s)[v] = Cardinality(At(s, v))
         /\ \A v : At(s, v) # {} <=> v \in ToSet(s)
         /\ \A v : IsFiniteSet(At(s, v)) /\ Cardinality(At(s, v)) \in Nat
         /\ \A v : Cardinality(At(s, v)) = 0 <=> v \notin ToSet(s)
<1>1. DOMAIN BagOf(s) = ToSet(s) /\ \A v \in ToSet(s) : BagOf(s)[v] = Cardinality(At(s, v))
  BY DEF BagOf, At
<1>2. \A v : At(s, v) # {} <=> v \in ToSet(s)
  BY DEF At, ToSet
<1>3. ASSUME NEW v PROVE IsFiniteSet(At(s, v)) /\ Cardinality(At(s, v)) \in Nat
  <2>1. IsFiniteSet(DOMAIN s)
    BY FS_Interval
  <2>2. At(s, v) \in SUBSET DOMAIN s
    BY DEF At
  <2>3. IsFiniteSet(At(s, v))
    BY <2>1, <2>2, FS_Subset
  <2> QED BY <2>3, FS_CardinalityType
<1>4. ASSUME NEW v PROVE Cardinality(At(s, v)) = 0 <=> v \notin ToSet(s)
  BY <1>2, <1>3, FS_EmptySet
<1> QED BY <1>1, <1>2, <1>3, <1>4

\* To change two places changes nothing in the bag.
LEMMA SwappedBag ==
  ASSUME NEW s \in Seq(Values), NEW i \in DOMAIN s, NEW j \in DOMAIN s
  PROVE  BagOf(Swapped(s, i, j)) = BagOf(s)
<1> DEFINE t == Swapped(s, i, j)
           other(k) == IF k = i THEN j ELSE IF k = j THEN i ELSE k
<1>1. /\ t \in Seq(Values) /\ DOMAIN t = DOMAIN s
      /\ t[i] = s[j] /\ t[j] = s[i]
      /\ \A k \in DOMAIN s : k # i /\ k # j => t[k] = s[k]
  BY SwappedValues
<1> HIDE DEF t
<1>2. \A k \in DOMAIN s : /\ other(k) \in DOMAIN s /\ other(other(k)) = k
                          /\ t[other(k)] = s[k] /\ s[other(k)] = t[k]
  BY <1>1
<1> HIDE DEF other
<1>3. ASSUME NEW v PROVE Cardinality(At(t, v)) = Cardinality(At(s, v))
  <2> DEFINE f == [k \in At(s, v) |-> other(k)]
  <2>1. f \in [At(s, v) -> At(t, v)]
    BY <1>1, <1>2 DEF At
  <2>2. \A a, b \in At(s, v) : f[a] = f[b] => a = b
    BY <1>2 DEF At
  <2>3. \A b \in At(t, v) : other(b) \in At(s, v) /\ f[other(b)] = b
    BY <1>1, <1>2 DEF At
  <2> HIDE DEF f
  <2>4. f \in Bijection(At(s, v), At(t, v))
    BY <2>1, <2>2, <2>3 DEF Bijection, Injection, Surjection, IsInjective
  <2>5. ExistsBijection(At(s, v), At(t, v))
    BY <2>4 DEF ExistsBijection
  <2> QED BY <2>5, BagOfAt, FS_Bijection
<1>4. ToSet(t) = ToSet(s)
  BY <1>1, <1>2 DEF ToSet
<1>5. BagOf(t) = [v \in ToSet(t) |-> Cardinality(At(t, v))]
  BY DEF BagOf, At
<1>6. BagOf(s) = [v \in ToSet(s) |-> Cardinality(At(s, v))]
  BY DEF BagOf, At
<1> QED BY <1>3, <1>4, <1>5, <1>6 DEF t

\* To cut off the last value takes it out of the bag, and nothing else.
LEMMA FrontBag ==
  ASSUME NEW s \in Seq(Values), s # <<>>
  PROVE  BagOf(Front(s)) = BagOf(s) (-) SetToBag({s[Len(s)]})
<1> DEFINE t == Front(s)
           n == Len(s)
           last == s[n]
           less == [e \in DOMAIN BagOf(s) |->
                      IF e \in {last} THEN BagOf(s)[e] - 1 ELSE BagOf(s)[e]]
<1>1. /\ n \in Nat \ {0} /\ DOMAIN s = 1..n
      /\ t \in Seq(Values) /\ DOMAIN t = 1..(n - 1)
      /\ \A k \in 1..(n - 1) : t[k] = s[k]
  BY DEF Front
<1> HIDE DEF t, n
<1>2. At(t, last) = At(s, last) \ {n} /\ n \in At(s, last)
  BY <1>1 DEF At
<1>3. \A v : v # last => At(t, v) = At(s, v)
  BY <1>1 DEF At
<1>4. Cardinality(At(t, last)) = Cardinality(At(s, last)) - 1
  BY <1>2, BagOfAt, FS_RemoveElement
<1>5. BagOf(s) (-) SetToBag({last}) = [e \in {d \in DOMAIN less : less[d] > 0} |-> less[e]]
  BY DEF (-), SetToBag
<1>6. DOMAIN less = ToSet(s)
  BY BagOfAt
<1>7. ASSUME NEW v \in ToSet(s)
      PROVE  less[v] = Cardinality(At(t, v))
  BY <1>3, <1>4, <1>6, <1>7, BagOfAt
<1> HIDE DEF less, last
<1>8. ASSUME NEW v PROVE v \in ToSet(t) <=> v \in ToSet(s) /\ less[v] > 0
  <2>1. v \in ToSet(t) => v \in ToSet(s)
    BY <1>1 DEF ToSet
  <2>2. v \in ToSet(t) <=> Cardinality(At(t, v)) # 0
    BY <1>1, BagOfAt
  <2>3. Cardinality(At(t, v)) \in Nat
    BY <1>1, BagOfAt
  <2> QED BY <2>1, <2>2, <2>3, <1>7
<1>9. ToSet(t) = {d \in DOMAIN less : less[d] > 0}
  BY <1>6, <1>8
<1>10. BagOf(t) = [v \in ToSet(t) |-> Cardinality(At(t, v))]
  BY DEF BagOf, At
<1>11. BagOf(t) = [e \in {d \in DOMAIN less : less[d] > 0} |-> less[e]]
  BY <1>6, <1>7, <1>9, <1>10
<1> QED BY <1>5, <1>11 DEF t, last, n
-----------------------------------------------------------------------------
(* The invariant                                                           *)

LEMMA InitHeapInv == Init => HeapInv
  BY DEF Init, HeapInv, HeapTypeOK, Placed, Rising, Sinking, Idle

LEMMA PushHeapInv ==
  ASSUME HeapInv, NEW v \in Values, Push(v)
  PROVE  HeapInv'
<1>1. data \in Seq(Values) /\ Len(data) \in Nat
  BY DEF HeapInv, HeapTypeOK
<1>2. data' = Append(data, v) /\ before' = data /\ op' = [name |-> "up", at |-> Len(data) + 1]
  BY DEF Push
<1>3. data' \in Seq(Values) /\ Len(data') = Len(data) + 1
  BY <1>1, <1>2
<1>4. HeapTypeOK'
  BY <1>1, <1>2, <1>3 DEF HeapTypeOK
<1>5. Placed'
  BY <1>1, <1>2, <1>3 DEF Placed
<1>6. Rising'
  BY <1>1, <1>2, AppendedToHeap DEF Rising
<1>7. Sinking'
  BY <1>2 DEF Sinking
<1> QED BY <1>4, <1>5, <1>6, <1>7 DEF HeapInv

LEMMA UpHeapInv ==
  ASSUME HeapInv, Up
  PROVE  HeapInv'
<1> DEFINE k == op.at
           p == Parent(op.at)
<1>1. /\ data \in Seq(Values) /\ Len(data) \in Nat /\ DOMAIN data = 1..Len(data)
      /\ before \in Seq(Values)
      /\ op \in [name : {"none", "up", "down"}, at : 0..Len(data)]
      /\ op.name = "up" /\ k \in 1..Len(data)
  BY DEF HeapInv, HeapTypeOK, Placed, Up
<1>2. k # 1 /\ data[k] < data[p]
  BY DEF Up, Rises, Less
<1>3. p \in 1..Len(data)
  BY <1>1, <1>2, ParentIsBefore
<1>4. data' = Swapped(data, k, p) /\ op' = [op EXCEPT !.at = p] /\ before' = before
  BY DEF Up
<1>5. data' \in Seq(Values) /\ Len(data') = Len(data)
  BY <1>1, <1>3, <1>4, SwappedValues
<1>6. op'.name = "up" /\ op'.at = p
  BY <1>1, <1>4
<1>7. HeapTypeOK'
  BY <1>1, <1>3, <1>4, <1>5 DEF HeapTypeOK
<1>8. Placed'
  BY <1>3, <1>5, <1>6 DEF Placed
<1>9. Rising'
  <2>1. HeapOrdered(before) => HeapBut(data, k)
    BY <1>1 DEF HeapInv, Rising
  <2>2. HeapBut(data, k) => HeapBut(data', p)
    BY <1>1, <1>2, <1>4, RisingStep
  <2> QED BY <2>1, <2>2, <1>4, <1>6 DEF Rising
<1>10. Sinking'
  BY <1>6 DEF Sinking
<1> QED BY <1>7, <1>8, <1>9, <1>10 DEF HeapInv

LEMMA UpDoneHeapInv ==
  ASSUME HeapInv, UpDone
  PROVE  HeapInv'
  BY DEF HeapInv, HeapTypeOK, Placed, Rising, Sinking, UpDone, Idle

LEMMA PopHeapInv ==
  ASSUME HeapInv, Pop
  PROVE  HeapInv'
<1> DEFINE n == Len(data)
<1>1. /\ data \in Seq(Values) /\ n \in Nat \ {0} /\ DOMAIN data = 1..n
      /\ data # <<>>
  BY DEF HeapInv, HeapTypeOK, Pop
<1>2. /\ data' = Swapped(data, 1, n) /\ before' = data
      /\ op' = [name |-> "down", at |-> 1]
  BY DEF Pop
<1>3. 1 \in DOMAIN data /\ n \in DOMAIN data
  BY <1>1
<1>4. data' \in Seq(Values) /\ Len(data') = n /\ data'[n] = data[1]
  BY <1>1, <1>2, <1>3, SwappedValues
<1>5. BagOf(data') = BagOf(data)
  BY <1>1, <1>2, <1>3, SwappedBag
<1>6. HeapTypeOK'
  BY <1>1, <1>2, <1>4 DEF HeapTypeOK
<1>7. Placed'
  BY <1>1, <1>2, <1>4 DEF Placed
<1>8. Rising'
  BY <1>2 DEF Rising
<1>9. Sinking'
  BY <1>1, <1>2, <1>4, <1>5 DEF Sinking
<1> QED BY <1>6, <1>7, <1>8, <1>9 DEF HeapInv

LEMMA DownHeapInv ==
  ASSUME HeapInv, Down
  PROVE  HeapInv'
<1> DEFINE n == Len(data)
           i == op.at
           j == IF Sinks(2 * i + 1, i) THEN 2 * i + 1 ELSE 2 * i
<1>1. /\ data \in Seq(Values) /\ n \in Nat /\ DOMAIN data = 1..n
      /\ before \in Seq(Values)
      /\ op \in [name : {"none", "up", "down"}, at : 0..n]
      /\ op.name = "down" /\ i \in 1..n
  BY DEF HeapInv, HeapTypeOK, Placed, Down
<1>2. /\ before # <<>> /\ data[n] = before[1] /\ BagOf(data) = BagOf(before)
  BY <1>1 DEF HeapInv, Sinking
<1>3. /\ Sinks(j, i) /\ data' = Swapped(data, i, j)
      /\ op' = [op EXCEPT !.at = j] /\ before' = before
  BY DEF Down
<1>4. j \in Nat /\ j > i /\ j < n
  <2>1. j = 2 * i + 1 \/ j = 2 * i
    OBVIOUS
  <2>2. j < n
    BY <1>3 DEF Sinks
  <2> HIDE DEF j
  <2> QED BY <1>1, <2>1, <2>2
<1> HIDE DEF j
<1>5. /\ data' \in Seq(Values) /\ Len(data') = n /\ data'[n] = data[n]
      /\ BagOf(data') = BagOf(data)
  <2> HIDE DEF i, n
  <2>1. i \in DOMAIN data /\ j \in DOMAIN data /\ n \in DOMAIN data /\ n # i /\ n # j
    BY <1>1, <1>4
  <2>2. /\ Swapped(data, i, j) \in Seq(Values)
        /\ Len(Swapped(data, i, j)) = Len(data)
        /\ Swapped(data, i, j)[n] = data[n]
    <3>1. data \in Seq(Values)
      BY <1>1
    <3> QED BY ONLY <3>1, <2>1, SwappedValues
  <2>3. BagOf(Swapped(data, i, j)) = BagOf(data)
    BY <1>1, <2>1, SwappedBag
  <2> QED BY <1>3, <2>2, <2>3 DEF n
<1>6. op'.name = "down" /\ op'.at = j
  BY <1>1, <1>3
<1>7. HeapTypeOK'
  BY <1>1, <1>3, <1>4, <1>5 DEF HeapTypeOK
<1>8. Placed'
  BY <1>1, <1>4, <1>5, <1>6 DEF Placed
<1>9. Rising'
  BY <1>6 DEF Rising
<1>10. Sinking'
  BY <1>2, <1>3, <1>5 DEF Sinking
<1> QED BY <1>7, <1>8, <1>9, <1>10 DEF HeapInv

LEMMA DownDoneHeapInv ==
  ASSUME HeapInv, DownDone
  PROVE  HeapInv'
<1>1. data \in Seq(Values) /\ Len(data) \in Nat \ {0}
  BY DEF HeapInv, HeapTypeOK, Placed, DownDone
<1>2. data' = Front(data) /\ op' = Idle /\ before' = data'
  BY DEF DownDone
<1>3. data' \in Seq(Values) /\ Len(data') \in Nat
  BY <1>1, <1>2 DEF Front
<1> QED BY <1>2, <1>3 DEF HeapInv, HeapTypeOK, Placed, Rising, Sinking, Idle

LEMMA NextHeapInv == HeapInv /\ [Next]_vars => HeapInv'
<1> SUFFICES ASSUME HeapInv, [Next]_vars PROVE HeapInv'
  OBVIOUS
<1>1. CASE Pop
  BY <1>1, PopHeapInv
<1>2. CASE Up
  BY <1>2, UpHeapInv
<1>3. CASE UpDone
  BY <1>3, UpDoneHeapInv
<1>4. CASE Down
  BY <1>4, DownHeapInv
<1>5. CASE DownDone
  BY <1>5, DownDoneHeapInv
<1>6. CASE \E v \in Values : Push(v)
  BY <1>6, PushHeapInv
<1>7. CASE UNCHANGED vars
  BY <1>7 DEF HeapInv, HeapTypeOK, Placed, Rising, Sinking, vars
<1> QED BY <1>1, <1>2, <1>3, <1>4, <1>5, <1>6, <1>7 DEF Next, Loop

\* The inductive invariant of the heap of heap.go: where the loops of up and
\* down stand, what is in order around the value on its way up, and that what
\* is on its way out waits behind the others.
THEOREM HeapInvariant == Spec => []HeapInv
  BY InitHeapInv, NextHeapInv, PTL DEF Spec

\* Type correctness of the heap: the loops of up and down stay within data.
THEOREM HeapTypeCorrect == Spec => []HeapTypeOK
<1>1. HeapInv => HeapTypeOK
  BY DEF HeapInv
<1> QED BY <1>1, HeapInvariant, PTL

-----------------------------------------------------------------------------
(* Push and Pop                                                            *)

LEMMA EndsRight ==
  ASSUME HeapInv, Next, op' = Idle
  PROVE  /\ op.name = "up" /\ HeapOrdered(before) => HeapOrdered(data')
         /\ op.name = "down" => BagOf(data') = BagOf(before) (-) SetToBag({before[1]})
<1>1. op' # Idle \/ UpDone \/ DownDone
  <2>1. ASSUME NEW v \in Values, Push(v) PROVE op' # Idle
    BY <2>1 DEF Push, Idle
  <2>2. Pop => op' # Idle
    BY DEF Pop, Idle
  <2>3. Up => op' # Idle
    BY DEF Up, Idle, HeapInv, HeapTypeOK
  <2>4. Down => op' # Idle
    BY DEF Down, Idle, HeapInv, HeapTypeOK
  <2> QED BY <2>1, <2>2, <2>3, <2>4 DEF Next, Loop
<1>2. data \in Seq(Values) /\ DOMAIN data = 1..Len(data) /\ Len(data) \in Nat
  BY DEF HeapInv, HeapTypeOK
<1>3. CASE UpDone
  <2>1. op.name = "up" /\ data' = data /\ op.at \in DOMAIN data
        /\ (op.at = 1 \/ ~(data[op.at] < data[Parent(op.at)]))
    BY <1>2, <1>3 DEF UpDone, Rises, Less, HeapInv, Placed
  <2>2. HeapOrdered(before) => HeapBut(data, op.at)
    BY <2>1 DEF HeapInv, Rising
  <2> QED BY <1>2, <2>1, <2>2, RisenIsHeap
<1>4. CASE DownDone
  <2>1. op.name = "down" /\ data' = Front(data) /\ data # <<>>
    BY <1>2, <1>4 DEF DownDone, HeapInv, Placed
  <2>2. data[Len(data)] = before[1] /\ BagOf(data) = BagOf(before)
    BY <2>1 DEF HeapInv, Sinking
  <2> QED BY <1>2, <2>1, <2>2, FrontBag
<1> QED BY <1>1, <1>3, <1>4

\* A Push leaves a heap a heap, and Pop takes out what Peek showed and nothing
\* else, for heaps of every length.
THEOREM HeapPushesAndPopsRight == Spec => PushAndPopRight
<1> DEFINE Right == op' = Idle =>
       /\ op.name = "up" /\ HeapOrdered(before) => HeapOrdered(data')
       /\ op.name = "down" => BagOf(data') = BagOf(before) (-) SetToBag({before[1]})
<1>1. HeapInv /\ [Next]_vars => [Right]_vars
  BY EndsRight
<1> HIDE DEF Right
<1>2. Spec => [][Right]_vars
  BY <1>1, HeapInvariant, PTL DEF Spec
<1> QED BY <1>2 DEF PushAndPopRight, Right

-----------------------------------------------------------------------------
(* The basis                                                               *)

LEMMA LeastOf ==
  ASSUME NEW S \in SUBSET Nat, S # {}
  PROVE  \E k \in S : \A j \in S : k <= j
<1>1. PICK k \in S : \A j \in S : ~(<<j, k>> \in OpToRel(<, Nat))
  BY NatLessThanWellFounded, WFMin
<1>2. ASSUME NEW j \in S PROVE k <= j
  <2>1. k \in Nat /\ j \in Nat
    OBVIOUS
  <2>2. j < k => <<j, k>> \in OpToRel(<, Nat)
    BY <2>1 DEF OpToRel
  <2>3. ~(j < k)
    BY <1>1, <2>2
  <2> QED BY <2>1, <2>3
<1> QED BY <1>2

LEMMA XorFacts ==
  ASSUME NEW u, NEW w
  PROVE  /\ Xor(u, w) = Xor(w, u)
         /\ Xor(Xor(u, w), w) = u
         /\ \A z : Xor(Xor(u, w), z) = Xor(u, Xor(w, z))
         /\ Xor(u, {}) = u /\ Xor({}, u) = u /\ Xor(u, u) = {}
         /\ \A S : u \subseteq S /\ w \subseteq S => Xor(u, w) \subseteq S
BY DEF Xor

LEMMA XorFits == ASSUME NEW u, NEW w, Fits(u), Fits(w) PROVE Fits(Xor(u, w))
BY DEF Fits, Xor

LEMMA BitsAre == /\ 0..Places - 1 \subseteq 0..LowBits - 1 /\ 0..LowBits - 1 \subseteq Bits
                 /\ Places \in Nat /\ LowBits \in Nat /\ Width \in Nat
BY XorAssumption DEF Bits

LEMMA HighestIs ==
  ASSUME NEW w \in SUBSET Bits, Low(w) # {}
  PROVE  /\ HighestBit(w) \in w /\ HighestBit(w) \in Nat /\ HighestBit(w) < LowBits
         /\ \A c \in Low(w) : c <= HighestBit(w)
<1> DEFINE S == {k \in Nat : \E b \in Low(w) : k = Width - b}
<1>1. \A b \in Low(w) : b \in Nat /\ b < Width /\ Width - b \in Nat /\ b < LowBits /\ b \in w
  BY BitsAre DEF Low, Bits
<1>2. S \in SUBSET Nat /\ S # {}
  BY <1>1
<1>3. PICK k \in S : \A j \in S : k <= j
  BY <1>2, LeastOf
<1>4. PICK b \in Low(w) : k = Width - b
  BY <1>3
<1>5. \A c \in Low(w) : c <= b
  <2> TAKE c \in Low(w)
  <2>1. Width - c \in S
    BY <1>1
  <2> HIDE DEF S
  <2> QED BY <1>1, <1>3, <1>4, <2>1, BitsAre
<1>6. HighestBit(w) \in Low(w) /\ \A c \in Low(w) : c <= HighestBit(w)
  BY <1>5 DEF HighestBit
<1> QED BY <1>1, <1>6

LEMMA NothingLow == ASSUME NEW w, Low(w) = {} PROVE HighestBit(w) = -1
BY DEF HighestBit

LEMMA HighestOfFitting ==
  ASSUME NEW w \in SUBSET Bits, Fits(w), w # {}
  PROVE  HighestBit(w) \in w /\ HighestBit(w) \in 0..Places - 1 /\ \A c \in w : c <= HighestBit(w)
<1>1. Low(w) = w
  <2>1. \A b \in w : b < LowBits
    BY BitsAre DEF Fits
  <2> QED BY <2>1 DEF Low
<1> QED BY <1>1, HighestIs DEF Fits

LEMMA HighestOfXor ==
  ASSUME NEW u \in SUBSET Bits, NEW w \in SUBSET Bits, Fits(u), Fits(w), u # {}, w # {},
         HighestBit(u) # HighestBit(w)
  PROVE  HighestBit(Xor(u, w)) \in {HighestBit(u), HighestBit(w)}
<1> DEFINE z == Xor(u, w)
<1>1. /\ HighestBit(u) \in u /\ HighestBit(u) \in Int /\ \A c \in u : c <= HighestBit(u)
      /\ HighestBit(w) \in w /\ HighestBit(w) \in Int /\ \A c \in w : c <= HighestBit(w)
  BY HighestOfFitting
<1>2. /\ u \subseteq Nat /\ w \subseteq Nat
      /\ z \in SUBSET Bits /\ Fits(z)
  BY DEF Bits, Fits, Xor
<1>3. CASE HighestBit(u) < HighestBit(w)
  <2>1. HighestBit(w) \in z
    BY <1>1, <1>3 DEF Xor
  <2>2. HighestBit(z) \in z /\ HighestBit(z) \in Int /\ \A c \in z : c <= HighestBit(z)
    <3>1. HighestBit(z) \in z /\ HighestBit(z) \in 0..Places - 1 /\ \A c \in z : c <= HighestBit(z)
      <4> HIDE DEF z
      <4> QED BY <1>2, <2>1, HighestOfFitting
    <3> QED BY <3>1, BitsAre
  <2>3. HighestBit(w) <= HighestBit(z)
    BY <2>1, <2>2
  <2>4. HighestBit(z) <= HighestBit(w)
    <3>1. HighestBit(z) \in u \/ HighestBit(z) \in w
      BY <2>2 DEF Xor
    <3> QED BY <1>1, <1>3, <2>2, <3>1
  <2> QED BY <1>1, <2>2, <2>3, <2>4
<1>4. CASE HighestBit(w) < HighestBit(u)
  <2>1. HighestBit(u) \in z
    BY <1>1, <1>4 DEF Xor
  <2>2. HighestBit(z) \in z /\ HighestBit(z) \in Int /\ \A c \in z : c <= HighestBit(z)
    <3>1. HighestBit(z) \in z /\ HighestBit(z) \in 0..Places - 1 /\ \A c \in z : c <= HighestBit(z)
      <4> HIDE DEF z
      <4> QED BY <1>2, <2>1, HighestOfFitting
    <3> QED BY <3>1, BitsAre
  <2>3. HighestBit(u) <= HighestBit(z)
    BY <2>1, <2>2
  <2>4. HighestBit(z) <= HighestBit(u)
    <3>1. HighestBit(z) \in u \/ HighestBit(z) \in w
      BY <2>2 DEF Xor
    <3> QED BY <1>1, <1>4, <2>2, <3>1
  <2> QED BY <1>1, <2>2, <2>3, <2>4
<1> QED BY <1>1, <1>3, <1>4

-----------------------------------------------------------------------------
AllFit == \A v \in added : Fits(v)

\* The span is one, and holds the vectors that are kept.
Spans ==
  /\ {} \in span
  /\ \A s \in span, t \in span : Xor(s, t) \in span
  /\ \A i \in DOMAIN x : x[i] \in span

\* What is left of the int differs from it by something spanned.
Reducing ==
  xorAnswer = "adding" =>
    /\ given \in added /\ Xor(left, given) \in span
    /\ spanned = (given \in span)
    /\ Fits(Low(left)) => Fits(Low(given))

\* Of ints that fit, whatever else is spanned has its place taken.
Led ==
  AllFit =>
    /\ \A s \in span : Fits(s)
    /\ \A s \in span : s # {} => x[HighestBit(s)] # {}
    /\ xorAnswer # "adding" => xorAnswer \in {"none", IF spanned THEN "false" ELSE "true"}

\* An int with a bit above the places ends in a panic.
NoneAbove ==
  xorAnswer # "panic" =>
    \A v \in added : Fits(Low(v)) \/ (xorAnswer = "adding" /\ v = given)

XInv == XorTypeOK /\ Spans /\ Reducing /\ Led /\ NoneAbove

LEMMA InitXInv == XorInit => XInv
<1> SUFFICES ASSUME XorInit PROVE XInv
  OBVIOUS
<1>1. XorTypeOK
  BY DEF XorInit, XorTypeOK
<1>2. Spans
  BY DEF XorInit, Spans, Xor
<1>3. Reducing /\ Led /\ NoneAbove
  BY DEF XorInit, Reducing, Led, NoneAbove, Fits
<1> QED BY <1>1, <1>2, <1>3 DEF XInv

LEMMA AddXInv == ASSUME XInv, NEW v \in Added, Add(v) PROVE XInv'
<1>1. v \in SUBSET Bits
  BY XorAssumption
<1>2. XorTypeOK'
  BY <1>1 DEF XInv, XorTypeOK, Add
<1>3. Spans'
  BY DEF XInv, Spans, Add
<1>4. Reducing'
  BY <1>3, XorFacts DEF Reducing, Spans, Add
<1>5. Led'
  BY DEF XInv, Led, Add, AllFit
<1>6. NoneAbove'
  BY DEF XInv, NoneAbove, Add
<1> QED BY <1>2, <1>3, <1>4, <1>5, <1>6 DEF XInv

\* An int whose highest bit has a place has no low bit above.
LEMMA PlaceFits ==
  ASSUME NEW w \in SUBSET Bits, HighestBit(w) \in 0..Places - 1
  PROVE  Fits(Low(w))
<1>1. CASE Low(w) = {}
  BY <1>1 DEF Fits
<1>2. CASE Low(w) # {}
  <2>1. \A c \in Low(w) : c \in Nat /\ c <= HighestBit(w)
    BY <1>2, HighestIs DEF Low, Bits
  <2> QED BY <2>1, BitsAre DEF Fits
<1> QED BY <1>1, <1>2

LEMMA ReduceXInv == ASSUME XInv, Reduce PROVE XInv'
<1> DEFINE i == HighestBit(left)
<1>1. /\ XorTypeOK /\ Spans /\ Reducing
      /\ i \in 0..Places - 1 /\ x[i] \in SUBSET Bits /\ x[i] \in span
      /\ left \in SUBSET Bits /\ xorAnswer = "adding"
  BY DEF XInv, XorTypeOK, Reduce, Spans
<1>2. /\ left' = Xor(left, x[i])
      /\ UNCHANGED <<x, xorAnswer, given, added, span, spanned>>
  BY DEF Reduce
<1>3. XorTypeOK'
  <2>1. left' \in SUBSET Bits
    BY <1>1, <1>2, XorFacts
  <2> QED BY <1>1, <1>2, <2>1 DEF XorTypeOK
<1>4. Spans'
  BY <1>1, <1>2 DEF Spans
<1>5. Reducing'
  <2>1. Xor(left', given) = Xor(Xor(left, given), x[i])
    BY <1>2 DEF Xor
  <2>2. Xor(left', given) \in span
    BY <1>1, <2>1 DEF Spans, Reducing
  <2>3. Fits(Low(given))
    BY <1>1, PlaceFits DEF Reducing
  <2> QED BY <1>1, <1>2, <2>2, <2>3 DEF Reducing
<1>6. Led' /\ NoneAbove'
  BY <1>2 DEF XInv, Led, AllFit, NoneAbove
<1> QED BY <1>3, <1>4, <1>5, <1>6 DEF XInv

\* The span when an Add ends.
LEMMA EndsSpans ==
  ASSUME XInv, xorAnswer = "adding", NEW answer, Ends(answer)
  PROVE  /\ span' \in SUBSET SUBSET Bits /\ span \subseteq span'
         /\ {} \in span'
         /\ \A s \in span', t \in span' : Xor(s, t) \in span'
         /\ left \in span'
         /\ \A s \in span' : s \in span \/ \E t \in span : s = Xor(t, left)
<1>1. /\ Spans /\ span \subseteq SUBSET Bits /\ given \in SUBSET Bits /\ left \in SUBSET Bits
      /\ Xor(left, given) \in span
  BY DEF XInv, XorTypeOK, Reducing
<1>2. span' = span \cup {Xor(s, given) : s \in span}
  BY DEF Ends
<1>3. \A s \in span : Xor(s, given) \in span'
  BY <1>2
<1>4. /\ span' \in SUBSET SUBSET Bits /\ span \subseteq span' /\ {} \in span'
  <2>1. \A s \in span : Xor(s, given) \in SUBSET Bits
    BY <1>1 DEF Xor
  <2>2. \A s \in span' : s \in SUBSET Bits
    BY <1>1, <1>2, <2>1
  <2> QED BY <1>1, <1>2, <2>2 DEF Spans
<1>5. ASSUME NEW s \in span', NEW t \in span' PROVE Xor(s, t) \in span'
  <2>1. CASE s \in span /\ t \in span
    BY <1>1, <1>2, <2>1 DEF Spans
  <2>2. CASE s \in span /\ t \notin span
    <3>1. PICK q \in span : t = Xor(q, given)
      BY <1>2, <2>2
    <3>2. Xor(s, t) = Xor(Xor(s, q), given)
      BY <3>1, XorFacts
    <3> QED BY <1>1, <1>3, <2>2, <3>2 DEF Spans
  <2>3. CASE s \notin span /\ t \in span
    <3>1. PICK q \in span : s = Xor(q, given)
      BY <1>2, <2>3
    <3>2. Xor(s, t) = Xor(Xor(q, t), given)
      BY <3>1 DEF Xor
    <3> QED BY <1>1, <1>3, <2>3, <3>2 DEF Spans
  <2>4. CASE s \notin span /\ t \notin span
    <3>1. PICK q \in span : s = Xor(q, given)
      BY <1>2, <2>4
    <3>2. PICK r \in span : t = Xor(r, given)
      BY <1>2, <2>4
    <3>3. Xor(s, t) = Xor(q, r)
      BY <3>1, <3>2 DEF Xor
    <3> QED BY <1>1, <1>4, <3>3 DEF Spans
  <2> QED BY <2>1, <2>2, <2>3, <2>4
<1>6. left \in span'
  <2>1. left = Xor(Xor(left, given), given)
    BY XorFacts
  <2> QED BY <1>1, <1>3, <2>1
<1>7. ASSUME NEW s \in span', s \notin span PROVE \E t \in span : s = Xor(t, left)
  <2>1. PICK q \in span : s = Xor(q, given)
    BY <1>2, <1>7
  <2>2. s = Xor(Xor(q, Xor(left, given)), left)
    BY <2>1 DEF Xor
  <2>3. Xor(q, Xor(left, given)) \in span
    BY <1>1 DEF Spans
  <2> QED BY <2>2, <2>3
<1> QED BY <1>4, <1>5, <1>6, <1>7

LEMMA LeftFits ==
  ASSUME XInv, xorAnswer = "adding", AllFit
  PROVE  Fits(left) /\ Fits(given)
<1>1. Fits(given) /\ Fits(Xor(left, given))
  BY DEF XInv, Led, AllFit, Reducing
<1>2. left = Xor(Xor(left, given), given)
  BY XorFacts
<1>3. Fits(left)
  BY <1>1, <1>2, XorFits
<1> QED BY <1>1, <1>3

LEMMA StoreXInv == ASSUME XInv, Store PROVE XInv'
<1> DEFINE i == HighestBit(left)
<1>1. /\ XorTypeOK /\ Spans /\ Reducing /\ Led /\ NoneAbove
      /\ xorAnswer = "adding" /\ left # {} /\ left \in SUBSET Bits
      /\ i \in 0..Places - 1 /\ x[i] = {} /\ x' = [x EXCEPT ![i] = left]
      /\ Ends("true")
  BY DEF XInv, XorTypeOK, Store
<1>2. /\ xorAnswer' = "true" /\ left' = {} /\ UNCHANGED <<given, added, spanned>>
  BY <1>1 DEF Ends
<1>3. /\ x' \in [0..Places - 1 -> SUBSET Bits] /\ x'[i] = left
      /\ \A j \in 0..Places - 1 : j # i => x'[j] = x[j]
  BY <1>1 DEF XorTypeOK
<1>4. XorTypeOK'
  <2>1. span' \subseteq SUBSET Bits
    BY <1>1, EndsSpans
  <2>2. \A j \in DOMAIN x' : x'[j] # {} => HighestBit(x'[j]) = j
    BY <1>1, <1>3 DEF XorTypeOK
  <2> QED BY <1>1, <1>2, <1>3, <2>1, <2>2 DEF XorTypeOK
<1>5. Spans'
  <2>1. \A j \in DOMAIN x' : x'[j] \in span'
    BY <1>1, <1>3, EndsSpans DEF Spans, XorTypeOK
  <2> QED BY <1>1, <2>1, EndsSpans DEF Spans
<1>6. Reducing'
  BY <1>2 DEF Reducing
<1>7. Led'
  <2> SUFFICES ASSUME AllFit' PROVE Led!2'
    BY DEF Led
  <2>1. AllFit /\ Fits(left) /\ \A s \in span : Fits(s) /\ s \in SUBSET Bits
    BY <1>1, <1>2, LeftFits DEF AllFit, Led, XorTypeOK
  <2>2. ASSUME NEW s \in span' PROVE Fits(s) /\ (s # {} => x'[HighestBit(s)] # {})
    <3>1. CASE s \in span
      <4>1. Fits(s) /\ (s # {} => x[HighestBit(s)] # {} /\ HighestBit(s) \in 0..Places - 1)
        BY <1>1, <2>1, <3>1, HighestOfFitting DEF Led
      <4> QED BY <1>1, <1>3, <4>1
    <3>2. CASE s \notin span
      <4>1. PICK t \in span : s = Xor(t, left)
        BY <1>1, <2>2, <3>2, EndsSpans
      <4>2. Fits(s)
        BY <2>1, <4>1, XorFits
      <4>3. CASE t = {}
        BY <1>1, <1>3, <4>1, <4>2, <4>3, XorFacts
      <4>4. CASE t # {}
        <5>1. x[HighestBit(t)] # {} /\ HighestBit(t) \in 0..Places - 1
          BY <1>1, <2>1, <4>4, HighestOfFitting DEF Led
        <5>2. HighestBit(s) \in {HighestBit(t), i}
          BY <1>1, <2>1, <4>1, <4>4, <5>1, HighestOfXor
        <5> QED BY <1>1, <1>3, <4>2, <5>1, <5>2
      <4> QED BY <4>3, <4>4
    <3> QED BY <3>1, <3>2
  <2>3. ~spanned'
    <3>1. left \notin span
      BY <1>1, <2>1 DEF Led
    <3>2. Xor(given, Xor(left, given)) = left
      BY DEF Xor
    <3>3. given \notin span
      BY <1>1, <3>1, <3>2 DEF Spans, Reducing
    <3>4. spanned = (given \in span) /\ spanned' = spanned
      BY <1>1, <1>2 DEF Reducing
    <3> QED BY <3>3, <3>4, Zenon
  <2> QED BY <1>2, <2>2, <2>3
<1>8. NoneAbove'
  <2>1. Fits(Low(given))
    BY <1>1, PlaceFits DEF Reducing
  <2> QED BY <1>1, <1>2, <2>1 DEF NoneAbove
<1> QED BY <1>4, <1>5, <1>6, <1>7, <1>8 DEF XInv

LEMMA VanishXInv == ASSUME XInv, Vanish PROVE XInv'
<1>1. /\ XorTypeOK /\ Spans /\ Reducing /\ Led /\ NoneAbove
      /\ xorAnswer = "adding" /\ left = {} /\ Ends("false") /\ x' = x
  BY DEF XInv, Vanish
<1>2. /\ xorAnswer' = "false" /\ left' = {} /\ UNCHANGED <<given, added, spanned>>
  BY <1>1 DEF Ends
<1>3. given \in span
  BY <1>1, XorFacts DEF Reducing
<1>4. span' = span
  <2>1. \A s \in span : Xor(s, given) \in span
    BY <1>1, <1>3 DEF Spans
  <2> QED BY <1>1, <2>1 DEF Ends
<1>5. XorTypeOK'
  BY <1>1, <1>2, <1>4 DEF XorTypeOK
<1>6. Spans' /\ Reducing'
  BY <1>1, <1>2, <1>4 DEF Spans, Reducing
<1>7. Led'
  BY <1>1, <1>2, <1>3, <1>4 DEF Led, Reducing, AllFit
<1>8. NoneAbove'
  <2>1. Fits(Low(left))
    BY <1>1 DEF Fits, Low
  <2> QED BY <1>1, <1>2, <2>1 DEF NoneAbove, Reducing
<1> QED BY <1>5, <1>6, <1>7, <1>8 DEF XInv

LEMMA IndexPanicsXInv == ASSUME XInv, IndexPanics PROVE XInv'
<1>1. /\ XorTypeOK /\ Spans /\ Reducing /\ Led /\ NoneAbove
      /\ xorAnswer = "adding" /\ left # {} /\ left \in SUBSET Bits
      /\ HighestBit(left) \notin 0..Places - 1 /\ Ends("panic") /\ x' = x
  BY DEF XInv, IndexPanics, XorTypeOK
<1>2. /\ xorAnswer' = "panic" /\ left' = {} /\ UNCHANGED <<given, added, spanned>>
  BY <1>1 DEF Ends
<1>3. XorTypeOK'
  BY <1>1, <1>2, EndsSpans DEF XorTypeOK
<1>4. Spans'
  BY <1>1, EndsSpans DEF Spans
<1>5. ~AllFit'
  <2>1. ~AllFit
    BY <1>1, LeftFits, HighestOfFitting
  <2> QED BY <1>2, <2>1 DEF AllFit
<1> QED BY <1>2, <1>3, <1>4, <1>5 DEF XInv, Reducing, Led, NoneAbove

\* The invariant of Add, for ints and arrays of every size.
THEOREM BasisInvariant == XorSpec => []XInv
<1>1. XorInit => XInv
  BY InitXInv
<1>2. XInv /\ [XorNext]_xorVars => XInv'
  <2> SUFFICES ASSUME XInv, [XorNext]_xorVars PROVE XInv'
    OBVIOUS
  <2>1. CASE UNCHANGED xorVars
    BY <2>1 DEF xorVars, XInv, XorTypeOK, Spans, Reducing, Led, AllFit, NoneAbove
  <2>2. CASE XorNext
    BY <2>2, AddXInv, ReduceXInv, StoreXInv, VanishXInv, IndexPanicsXInv DEF XorNext
  <2> QED BY <2>1, <2>2
<1> QED BY <1>1, <1>2, PTL DEF XorSpec

LEMMA AnswersHold == XInv => XorAnswers
<1> SUFFICES ASSUME XInv, xorAnswer # "adding" PROVE XorAnswers!2
  BY DEF XorAnswers
<1>1. ASSUME AllFit
      PROVE  {HighestBit(s) : s \in span \ {{}}} = {i \in DOMAIN x : x[i] # {}}
  <2>1. \A s \in span \ {{}} : HighestBit(s) \in DOMAIN x /\ x[HighestBit(s)] # {}
    BY <1>1, HighestOfFitting DEF XInv, Led, XorTypeOK
  <2>2. \A i \in DOMAIN x : x[i] # {} => x[i] \in span \ {{}} /\ HighestBit(x[i]) = i
    BY DEF XInv, Spans, XorTypeOK
  <2> QED BY <2>1, <2>2
<1>2. AllFit => xorAnswer \in {"none", IF spanned THEN "false" ELSE "true"}
  BY DEF XInv, Led
<1>3. \A i \in DOMAIN x : x[i] \in span
  BY DEF XInv, Spans
<1>4. (\E v \in added : ~Fits(Low(v))) => xorAnswer = "panic"
  BY DEF XInv, NoneAbove
<1> QED BY <1>1, <1>2, <1>3, <1>4 DEF AllFit

\* Add tells what is new of ints that fit, keeps an echelon form of what they
\* span, and panics on ints with a bit of their low word above its places.
THEOREM BasisAnswers == XorSpec => []XorAnswers
BY BasisInvariant, AnswersHold, PTL

\* Every vector is at the place of its highest bit.
THEOREM BasisTypeCorrect == XorSpec => []XorTypeOK
<1>1. XInv => XorTypeOK
  BY DEF XInv
<1> QED BY <1>1, BasisInvariant, PTL

\* Each turn of the loop in Add clears the highest of the low bits that are
\* left, so that there are at most as many turns as places.
THEOREM AddDescends ==
  XorSpec => [][Reduce => HighestBit(left') < HighestBit(left)]_xorVars
<1>1. XInv /\ [XorNext]_xorVars => [Reduce => HighestBit(left') < HighestBit(left)]_xorVars
  <2> SUFFICES ASSUME XInv, Reduce PROVE HighestBit(left') < HighestBit(left)
    OBVIOUS
  <2> DEFINE i == HighestBit(left)
             w == Xor(left, x[i])
  <2>1. /\ left \in SUBSET Bits /\ x[i] \in SUBSET Bits /\ i \in 0..Places - 1
        /\ x[i] # {} /\ HighestBit(x[i]) = i /\ left' = w
    BY DEF XInv, XorTypeOK, Reduce
  <2>2. i \in Nat /\ i \in Int
    BY <2>1, BitsAre
  <2>3. Low(left) # {} /\ Low(x[i]) # {}
    BY <2>1, <2>2, NothingLow
  <2>4. /\ i \in left /\ \A c \in Low(left) : c <= i
        /\ i \in x[i] /\ \A c \in Low(x[i]) : c <= i
    BY <2>1, <2>3, HighestIs
  <2>5. w \in SUBSET Bits /\ i \notin w /\ \A c \in Low(w) : c <= i
    BY <2>1, <2>4 DEF Xor, Low
  <2>6. CASE Low(w) = {}
    BY <2>1, <2>2, <2>6, NothingLow
  <2>7. CASE Low(w) # {}
    <3>1. HighestBit(w) \in w /\ HighestBit(w) \in Nat /\ HighestBit(w) \in Low(w)
      <4> HIDE DEF w
      <4> QED BY <2>5, <2>7, HighestIs DEF Low
    <3>2. HighestBit(w) <= i /\ HighestBit(w) # i
      BY <2>5, <3>1
    <3> HIDE DEF w
    <3> QED BY <2>1, <2>2, <3>1, <3>2
  <2> QED BY <2>6, <2>7
<1> QED BY <1>1, BasisInvariant, PTL DEF XorSpec
=============================================================================
