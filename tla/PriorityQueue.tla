--------------------------- MODULE PriorityQueue ----------------------------
(***************************************************************************)
(* What a min-heap promises: Pop takes out the least value, or one of the  *)
(* least if there are several.                                             *)
(***************************************************************************)
EXTENDS Integers, Bags

CONSTANT Values

VARIABLE held   \* the bag of values in the queue

Init == held = EmptyBag

Push(v) == held' = held (+) SetToBag({v})

Least == CHOOSE v \in BagToSet(held) : \A w \in BagToSet(held) : v <= w

Pop ==
  /\ held # EmptyBag
  /\ held' = held (-) SetToBag({Least})

Next == Pop \/ \E v \in Values : Push(v)

Spec == Init /\ [][Next]_held

=============================================================================
