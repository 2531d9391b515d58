------------------------------- MODULE Treap --------------------------------
(***************************************************************************)
(* The treaps of treap/treap.go, a tree a value, in the hands of a program *)
(* that keeps the roots in slots.  A step is a call.  The controller is    *)
(* the one of the test, sizes in Pull and an order in Less, and Push hands *)
(* down a pending reversal, as in a list that can be turned round.  A tree *)
(* serves either as such a list, by position, or as a sorted one.          *)
(***************************************************************************)
EXTENDS Integers, Sequences, FiniteSets, Functions

CONSTANTS
  Slots,      \* the program's variables of type *Node
  Elements,   \* the values, a set of integers; Less is <
  Seeds,      \* what rand.Uint32 may return
  MaxNodes,   \* bound: the number of nodes in all slots
  Sorted,     \* whether the trees serve as sorted lists
  Nil

VARIABLES
  root,     \* the tree in each slot
  answer    \* what the last query has returned, and what about

vars == <<root, answer>>

-----------------------------------------------------------------------------
(* The controller and the nodes.                                           *)

NewNode(v, seed) ==
  [Value |-> v, Sz |-> 1, Seed |-> seed, flip |-> FALSE, C |-> [d \in {0, 1} |-> Nil]]

Size(x) == IF x = Nil THEN 0 ELSE x.Sz

Pull(x) == [x EXCEPT !.Sz = 1 + Size(x.C[0]) + Size(x.C[1])]

Flip(x) == IF x = Nil THEN Nil ELSE [x EXCEPT !.flip = ~@]

\* The controller's Push hands a pending reversal down to the children.
Push(x) ==
  IF x.flip
  THEN [x EXCEPT !.flip = FALSE, !.C = [d \in {0, 1} |-> Flip(x.C[1 - d])]]
  ELSE x

\* Mutant of Hang: the size stays what it was.
HangOnly(x, d, y) == [x EXCEPT !.C[d] = y]

\* y becomes child d of x.
Hang(x, d, y) == Pull([x EXCEPT !.C[d] = y])

-----------------------------------------------------------------------------
(* The functions of treap.go.                                              *)

\* Whether x comes out on top when x and y are merged.
Above(x, y) == x.Seed > y.Seed

\* Mutant of Merge: y on top takes x after its left child.
RECURSIVE MergeBehind(_, _)
MergeBehind(x, y) ==
  CASE x = Nil /\ y = Nil -> Nil
    [] x = Nil /\ y # Nil -> Push(y)
    [] x # Nil /\ y = Nil -> Push(x)
    [] OTHER -> IF Above(x, y)
                THEN LET p == Push(x) IN Hang(p, 1, MergeBehind(p.C[1], y))
                ELSE LET p == Push(y) IN Hang(p, 0, MergeBehind(p.C[0], x))

RECURSIVE Merge(_, _)
Merge(x, y) ==
  CASE x = Nil /\ y = Nil -> Nil
    [] x = Nil /\ y # Nil -> Push(y)
    [] x # Nil /\ y = Nil -> Push(x)
    [] OTHER -> IF Above(x, y)
                THEN LET p == Push(x) IN Hang(p, 1, Merge(p.C[1], y))
                ELSE LET p == Push(y) IN Hang(p, 0, Merge(x, p.C[0]))

\* The first k and the others.
RECURSIVE SplitK(_, _)
SplitK(x, k) ==
  IF x = Nil THEN <<Nil, Nil>>
  ELSE LET p == Push(x)
           sz0 == Size(p.C[0])
       IN IF sz0 >= k
          THEN LET ab == SplitK(p.C[0], k) IN <<ab[1], Hang(p, 0, ab[2])>>
          ELSE LET ab == SplitK(p.C[1], k - 1 - sz0) IN <<Hang(p, 1, ab[1]), ab[2]>>

\* Those not greater than v and the others.
RECURSIVE Split(_, _)
Split(x, v) ==
  IF x = Nil THEN <<Nil, Nil>>
  ELSE LET p == Push(x)
       IN IF v < p.Value
          THEN LET ab == Split(p.C[0], v) IN <<ab[1], Hang(p, 0, ab[2])>>
          ELSE LET ab == Split(p.C[1], v) IN <<Hang(p, 1, ab[1]), ab[2]>>

\* Mutant of GetI: it looks at the children before it pushes.
RECURSIVE GetIUnpushed(_, _)
GetIUnpushed(x, i) ==
  IF x = Nil THEN Nil
  ELSE LET sz0 == Size(x.C[0])
       IN CASE i = sz0 -> x.Value
            [] i < sz0 -> GetIUnpushed(x.C[0], i)
            [] OTHER -> GetIUnpushed(x.C[1], i - 1 - sz0)

\* The value at position i, or nil.
RECURSIVE GetI(_, _)
GetI(x, i) ==
  IF x = Nil THEN Nil
  ELSE LET p == Push(x)
           sz0 == Size(p.C[0])
       IN CASE i = sz0 -> p.Value
            [] i < sz0 -> GetI(p.C[0], i)
            [] OTHER -> GetI(p.C[1], i - 1 - sz0)

\* The tree that GetI leaves behind: pushed down to where i was found.
RECURSIVE PushedTo(_, _)
PushedTo(x, i) ==
  IF x = Nil THEN Nil
  ELSE LET p == Push(x)
           sz0 == Size(p.C[0])
       IN CASE i = sz0 -> p
            [] i < sz0 -> [p EXCEPT !.C[0] = PushedTo(@, i)]
            [] OTHER -> [p EXCEPT !.C[1] = PushedTo(@, i - 1 - sz0)]

RECURSIVE Array(_)
Array(x) ==
  IF x = Nil THEN <<>>
  ELSE LET p == Push(x) IN Array(p.C[0]) \o <<p.Value>> \o Array(p.C[1])

\* The tree that Array leaves behind.
RECURSIVE PushedThrough(_)
PushedThrough(x) ==
  IF x = Nil THEN Nil
  ELSE LET p == Push(x) IN [p EXCEPT !.C = [d \in {0, 1} |-> PushedThrough(p.C[d])]]

\* The node at the end in direction d: First and Last.
RECURSIVE Outermost(_, _)
Outermost(x, d) ==
  CASE x = Nil -> Nil
    [] x # Nil /\ x.C[d] = Nil -> Push(x)
    [] OTHER -> Outermost(Push(x).C[d], d)

\* The last value on the way down that is not greater than v decides.
RECURSIVE ContainsAfter(_, _, _)
ContainsAfter(x, v, lastR) ==
  IF x = Nil THEN lastR # Nil /\ ~(lastR < v)
  ELSE LET p == Push(x)
       IN IF v < p.Value THEN ContainsAfter(p.C[0], v, lastR)
          ELSE ContainsAfter(p.C[1], v, p.Value)

Contains(x, v) == ContainsAfter(x, v, Nil)

-----------------------------------------------------------------------------
(* The program's calls.                                                    *)

RECURSIVE CountNodes(_)
CountNodes(x) == IF x = Nil THEN 0 ELSE 1 + CountNodes(x.C[0]) + CountNodes(x.C[1])

RECURSIVE CountAll(_)
CountAll(S) ==
  IF S = {} THEN 0
  ELSE LET s == CHOOSE s \in S : TRUE IN CountNodes(root[s]) + CountAll(S \ {s})

NoAnswer == [name |-> "none"]

Init ==
  /\ root = [s \in Slots |-> Nil]
  /\ answer = NoAnswer

\* rand.Uint32 may return any seed.
InsertI(s, v, i) ==
  /\ CountAll(Slots) < MaxNodes
  /\ \E seed \in Seeds :
       LET parts == SplitK(root[s], i)
       IN root' = [root EXCEPT ![s] = Merge(Merge(parts[1], NewNode(v, seed)), parts[2])]
  /\ answer' = [name |-> "InsertI", slot |-> s, key |-> i, value |-> v]

\* Whether Last of the part that is not greater than v is equal to v.
HasSame(left, v) ==
  LET maybeSame == Outermost(left, 1)
  IN maybeSame # Nil /\ ~(maybeSame.Value < v)

Insert(s, v, allowRepetition) ==
  /\ CountAll(Slots) < MaxNodes
  /\ LET parts == Split(root[s], v)
     IN IF ~allowRepetition /\ HasSame(parts[1], v)
        THEN root' = [root EXCEPT ![s] = Merge(parts[1], parts[2])]
        ELSE \E seed \in Seeds :
               root' = [root EXCEPT ![s] = Merge(Merge(parts[1], NewNode(v, seed)), parts[2])]
  /\ answer' = [name |-> "insert", slot |-> s, key |-> v, repeats |-> allowRepetition,
                before |-> Array(root[s])]

CutK(s, t, k) ==
  /\ root[t] = Nil
  /\ LET parts == SplitK(root[s], k)
     IN root' = [root EXCEPT ![s] = parts[1], ![t] = parts[2]]
  /\ answer' = [name |-> "SplitK", slot |-> s, key |-> k]

CutAfter(s, t, v) ==
  /\ root[t] = Nil
  /\ LET parts == Split(root[s], v)
     IN root' = [root EXCEPT ![s] = parts[1], ![t] = parts[2]]
  /\ answer' = [name |-> "split", left |-> s, right |-> t, key |-> v]

\* A sorted program joins what it has cut: nothing in t is less.
Join(s, t) ==
  /\ root[s] # Nil /\ root[t] # Nil
  /\ Sorted => Outermost(root[s], 1).Value <= Outermost(root[t], 0).Value
  /\ root' = [root EXCEPT ![s] = Merge(root[s], root[t]), ![t] = Nil]
  /\ answer' = NoAnswer

Turn(s) ==
  /\ root[s] # Nil
  /\ root' = [root EXCEPT ![s] = Flip(@)]
  /\ answer' = [name |-> "Turn", slot |-> s, before |-> Array(root[s])]

Look(s, i) ==
  /\ root' = [root EXCEPT ![s] = PushedTo(@, i)]
  /\ answer' = [name |-> "GetI", slot |-> s, key |-> i, value |-> GetI(root[s], i)]

\* Array, whose answer LooksRight takes as the list.
Read(s) ==
  /\ root' = [root EXCEPT ![s] = PushedThrough(@)]
  /\ answer' = [name |-> "Array", slot |-> s, list |-> Array(root[s])]

GetValue(s) ==
  /\ root[s] # Nil
  /\ root' = [root EXCEPT ![s] = Push(@)]
  /\ answer' = [name |-> "GetI", slot |-> s, key |-> Size(root'[s].C[0]), value |-> root'[s].Value]

Search(s, v) ==
  /\ answer' = [name |-> "Contains", slot |-> s, key |-> v, value |-> Contains(root[s], v)]
  /\ UNCHANGED root

ListCalls(s) ==
  /\ ~Sorted
  /\ \/ \E v \in Elements, i \in 0..Size(root[s]) : InsertI(s, v, i)
     \/ \E t \in Slots \ {s}, k \in 0..Size(root[s]) : CutK(s, t, k)
     \/ Turn(s)
     \/ \E i \in 0..MaxNodes : Look(s, i)
     \/ Read(s)
     \/ GetValue(s)

SortedCalls(s) ==
  /\ Sorted
  /\ \E v \in Elements :
       \/ \E allowRepetition \in BOOLEAN : Insert(s, v, allowRepetition)
       \/ \E t \in Slots \ {s} : CutAfter(s, t, v)
       \/ Search(s, v)

Next ==
  \E s \in Slots :
    ListCalls(s) \/ SortedCalls(s) \/ \E t \in Slots \ {s} : Join(s, t)

Spec == Init /\ [][Next]_vars

-----------------------------------------------------------------------------
(* Properties                                                              *)

RECURSIVE WellFormed(_)
WellFormed(x) ==
  x = Nil \/ /\ x.Value \in Elements /\ x.Seed \in Seeds /\ x.flip \in BOOLEAN
             /\ x.Sz = CountNodes(x)
             /\ \A d \in {0, 1} : WellFormed(x.C[d])

\* The slots hold trees, and every Sz, from which positions are counted, is
\* the number of nodes below, after any sequence of calls.
TreapTypeOK == \A s \in Slots : WellFormed(root[s])

RECURSIVE HeapOrdered(_)
HeapOrdered(x) ==
  x = Nil \/ \A d \in {0, 1} :
    x.C[d] # Nil => x.C[d].Seed <= x.Seed /\ HeapOrdered(x.C[d])

\* No node has a seed greater than its parent's, whatever was cut and joined:
\* the depth stays that of a random tree.
SeedsInOrder == \A s \in Slots : HeapOrdered(root[s])

\* Positions count what the reader of the list sees, through reversals that
\* are still pending: GetI answers with the element there, InsertI puts its
\* value there, SplitK leaves that many elements on the left; and turning the
\* list round brings the element at each position to its mirror image.
LooksRight ==
  ~Sorted /\ answer # NoAnswer =>
    LET list == Array(root[answer.slot])
    IN CASE answer.name = "SplitK" -> Len(list) = answer.key
         [] answer.name = "Array" -> answer.list = list
         [] answer.name = "Turn" ->
              answer.before = [i \in DOMAIN list |-> list[Len(list) + 1 - i]]
         [] OTHER ->
              answer.value = IF answer.key < Len(list) THEN list[answer.key + 1] ELSE Nil

\* A list in which nothing is followed by something less.
IsSorted(list) == \A i, j \in DOMAIN list : i < j => list[i] <= list[j]

\* Split parts a sorted tree at the key, equals to the left, as
\* treap.go:141 says.
SplitsAtKey ==
  answer.name = "split" =>
    /\ \A i \in DOMAIN Array(root[answer.left]) : Array(root[answer.left])[i] <= answer.key
    /\ \A i \in DOMAIN Array(root[answer.right]) : answer.key < Array(root[answer.right])[i]

\* Contains finds what is there.
FindsWhatIsThere ==
  answer.name = "Contains" =>
    (answer.value <=> answer.key \in Range(Array(root[answer.slot])))

\* Insert without repetition adds a value exactly when it was not there.
RepeatsOnlyIfAllowed ==
  answer.name = "insert" =>
    Len(Array(root[answer.slot])) =
      IF answer.key \in Range(answer.before) /\ ~answer.repeats
      THEN Len(answer.before) ELSE Len(answer.before) + 1

\* Trees that serve as sorted lists stay sorted, whatever is split, merged
\* and inserted, and their calls use the order right.
SortedCallsRight ==
  Sorted =>
    /\ \A s \in Slots : IsSorted(Array(root[s]))
    /\ SplitsAtKey /\ FindsWhatIsThere /\ RepeatsOnlyIfAllowed

=============================================================================
