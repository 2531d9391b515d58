------------------------------- MODULE Lists --------------------------------
(***************************************************************************)
(* What the treaps of a program promise: lists, one in each of its slots,  *)
(* that can be cut in two, joined and turned round.  An operation is given *)
(* the lists before it and the lists after it.                             *)
(***************************************************************************)
EXTENDS Integers, Sequences, SequencesExt

CONSTANTS Slots, Elements

VARIABLE lists

Init == lists = [s \in Slots |-> <<>>]

InsertI(old, new, s, v, i) == new = [old EXCEPT ![s] = InsertAt(@, i + 1, v)]

\* The first k elements stay in s, the others go to the empty slot t.
Cut(old, new, s, t, k) ==
  /\ s # t /\ old[t] = <<>>
  /\ new = [old EXCEPT ![s] = SubSeq(@, 1, k), ![t] = SubSeq(old[s], k + 1, Len(old[s]))]

Join(old, new, s, t) ==
  /\ s # t
  /\ new = [old EXCEPT ![s] = @ \o old[t], ![t] = <<>>]

Turn(old, new, s) == new = [old EXCEPT ![s] = Reverse(@)]

Operation(old, new) ==
  \E s \in Slots :
    \/ \E v \in Elements, i \in 0..Len(old[s]) : InsertI(old, new, s, v, i)
    \/ \E t \in Slots :
         Join(old, new, s, t) \/ \E k \in 0..Len(old[s]) : Cut(old, new, s, t, k)
    \/ Turn(old, new, s)

Next == \E old \in {lists}, new \in {lists'} : Operation(old, new)

Spec == Init /\ [][Next]_lists

=============================================================================
