------------------------------ MODULE MinHeap -------------------------------
(***************************************************************************)
(* The binary heap of heap/heap.go, one turn of the loops of up and down a *)
(* step.  The value at index i of data is data[i + 1] here, so that the    *)
(* children of i are 2i and 2i + 1 and its parent is i \div 2.             *)
(***************************************************************************)
EXTENDS Integers, Sequences, FiniteSets, Bags, SequencesExt

CONSTANTS
  Values,   \* the values, a set of integers; less is <
  MaxLen    \* bound: the length of data

ASSUME MinHeapAssumption == Values \subseteq Int /\ MaxLen \in Nat

VARIABLES
  data,
  op,      \* the loop under way and its index j or i, or Idle
  before   \* history: data as the operation under way found it

vars == <<data, op, before>>

Idle == [name |-> "none", at |-> 0]

Init == data = <<>> /\ op = Idle /\ before = <<>>

Less(i, j) == data[i] < data[j]

Swapped(s, i, j) == [s EXCEPT ![i] = s[j], ![j] = s[i]]

Push(v) ==
  /\ op = Idle
  /\ Len(data) < MaxLen
  /\ data' = Append(data, v)
  /\ op' = [name |-> "up", at |-> Len(data) + 1]
  /\ before' = data

-----------------------------------------------------------------------------
(* up(j)                                                                   *)

Parent(j) == j \div 2

\* Mutant of Rises: the root is taken for settled one level too early.
RisesBelow(j) == Parent(j) > 1 /\ Less(j, Parent(j))

Rises(j) == j # 1 /\ Less(j, Parent(j))

Up ==
  /\ op.name = "up"
  /\ Rises(op.at)
  /\ data' = Swapped(data, op.at, Parent(op.at))
  /\ op' = [op EXCEPT !.at = Parent(op.at)]
  /\ UNCHANGED before

UpDone ==
  /\ op.name = "up"
  /\ ~Rises(op.at)
  /\ op' = Idle /\ before' = data
  /\ UNCHANGED data

-----------------------------------------------------------------------------
(* Pop: the first and the last value change places, down(0, n) runs on the *)
(* others, and the last is cut off and returned.                           *)

Pop ==
  /\ op = Idle
  /\ data # <<>>
  /\ data' = Swapped(data, 1, Len(data))
  /\ op' = [name |-> "down", at |-> 1]
  /\ before' = data

\* Whether the value at i sinks to its child j, among the first n values.
Sinks(j, i) == j < Len(data) /\ Less(j, i)

\* The right child, if it is less than its parent, is not compared with the
\* left one.
Down ==
  LET i == op.at
      j == IF Sinks(2 * i + 1, i) THEN 2 * i + 1 ELSE 2 * i
  IN /\ op.name = "down"
     /\ Sinks(j, i)
     /\ data' = Swapped(data, i, j)
     /\ op' = [op EXCEPT !.at = j]
     /\ UNCHANGED before

DownDone ==
  /\ op.name = "down"
  /\ ~Sinks(2 * op.at, op.at) /\ ~Sinks(2 * op.at + 1, op.at)
  /\ data' = Front(data)
  /\ op' = Idle
  /\ before' = data'

-----------------------------------------------------------------------------
Loop == Up \/ UpDone \/ Down \/ DownDone

Next == Pop \/ Loop \/ \E v \in Values : Push(v)

Spec == Init /\ [][Next]_vars

-----------------------------------------------------------------------------
(* Properties                                                              *)

BagOf(s) == [v \in ToSet(s) |-> Cardinality({i \in DOMAIN s : s[i] = v})]

HeapOrdered(s) == \A j \in DOMAIN s : j # 1 => s[Parent(j)] <= s[j]

\* Every variable has its type.
HeapTypeOK ==
  /\ data \in Seq(Values) /\ before \in Seq(Values)
  /\ op \in [name : {"none", "up", "down"}, at : 0..Len(data)]

\* A Push leaves a heap a heap, in which its parent's value is nowhere
\* greater than a node's own; a Pop may not.  Pop takes out what Peek showed
\* before it and nothing else, whatever the order of the others has become.
PushAndPopRight ==
  [][op' = Idle =>
       /\ op.name = "up" /\ HeapOrdered(before) => HeapOrdered(data')
       /\ op.name = "down" => BagOf(data') = BagOf(before) (-) SetToBag({before[1]})]_vars

\* The values leave the heap least first.  While an operation is under way
\* the heap holds what it held before, the new value included.
Queue == INSTANCE PriorityQueue WITH
  held <- IF op.name = "up" THEN BagOf(data) ELSE BagOf(before)

ImplementsPriorityQueue == Queue!Spec

=============================================================================
