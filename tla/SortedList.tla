----------------------------- MODULE SortedList -----------------------------
(***************************************************************************)
(* What a red-black tree promises: a sorted list of values.  It is the     *)
(* slice that the test of rbtree compares the tree with.                   *)
(***************************************************************************)
EXTENDS Integers, Sequences, SequencesExt

CONSTANT Keys

VARIABLE items

Init == items = <<>>

\* The places that v may take in the sorted list s: among equal items, any.
Places(s, v) ==
  {i \in 1..(Len(s) + 1) : /\ \A j \in 1..(i - 1) : s[j] <= v
                           /\ \A j \in i..Len(s) : v <= s[j]}

\* What one operation can make of the list s.  An InsertOrReplace of a value
\* that it holds leaves it as it is.
Results(s) ==
  (UNION {{InsertAt(s, i, v) : i \in Places(s, v)} : v \in Keys})
    \cup {RemoveAt(s, i) : i \in DOMAIN s}
    \cup {<<>>}

Next == items' \in Results(items)

Spec == Init /\ [][Next]_items

=============================================================================
