---------------------------- MODULE SegmentTree -----------------------------
(***************************************************************************)
(* The lazy segment tree of segment_tree_iter/segment_tree.go.  A step is  *)
(* one turn of a loop of one of its operations, or what lies between two   *)
(* loops.  The tree is generic in its controller; here it runs on the      *)
(* freest one that a lawful controller can be: a value is the list of the  *)
(* elements below a node, an update is a list of marks, and an element is  *)
(* the list of the marks it has got since it was set.                      *)
(***************************************************************************)
EXTENDS Integers, Sequences

CONSTANTS
  Log2n, Size,   \* log2n and the argument size of NewSegmentTree
  Marks,         \* updates are made of these
  Bad,           \* those among them after which an element is a bad one
  Endpoints,     \* the arguments l and r in use
  MaxChanges,    \* bound: the number of calls of SetValue and Update
  MaxSpoils      \* bound: the number of spoiling Gets after which a run stops

\* 1 << k
PowerOf2[k \in 0..Log2n + 1] == IF k = 0 THEN 1 ELSE 2 * PowerOf2[k - 1]

n == PowerOf2[Log2n]
Leaves == 0..n - 1
Nodes == 1..2 * n - 1

\* log2n is LogCeil(size).
ASSUME SegmentTreeAssumption ==
  /\ Log2n \in Nat /\ Size \in 1..n /\ 2 * Size > n
  /\ Bad \subseteq Marks /\ Endpoints \subseteq Int
  /\ MaxChanges \in Nat /\ MaxSpoils \in Nat

VARIABLES
  arr,       \* the nodes, each a value and an update
  op,        \* the operation under way: its arguments, the loop it is in and
             \* the variables of the loop
  answer,    \* what the last query has returned
  elements,  \* history: the array the tree stands for
  changes,   \* history: the number of SetValue and Update so far
  spoils     \* history: the number of Gets that have added a pending update
             \* in and left it there

vars == <<arr, op, answer, elements, changes, spoils>>

-----------------------------------------------------------------------------
(* The controller.                                                         *)

Merge(a, b) == a \o b
ApplyUpdate(u, v) == [i \in DOMAIN v |-> v[i] \o u]

\* update u comes on top of the pending one, w
Push(u, w) == w \o u

ZeroValue == <<>>
ZeroUpdate == <<>>
Fresh == << <<>> >>

\* No bad element: with a range it holds for every part of it.
Predicate(v) == \A i \in DOMAIN v : v[i] # <<>> => v[i][Len(v[i])] \notin Bad

-----------------------------------------------------------------------------
(* Nodes of an array of nodes a.                                           *)

\* The value of a node with its pending update, from a copy of the node.
Seen(a, i) == ApplyUpdate(a[i].update, a[i].value)

Pending(a, i) == a[i].update # ZeroUpdate

\* (i + n) >> shift: the nodes from leaf i up to the root, and 0 beyond it.
Above(i) ==
  LET above[shift \in 0..Log2n + 1] == IF shift = 0 THEN i + n ELSE above[shift - 1] \div 2
  IN above

IsPowerOf2(i) == \E k \in 0..Log2n : i = PowerOf2[k]

Recompute(a, i) == [a EXCEPT ![i].value = Merge(Seen(a, 2 * i), Seen(a, 2 * i + 1))]

\* Mutant of PushDown: the pending update is not taken off the node.
PushDownKeeping(a, i) ==
  [a EXCEPT ![i].value = Seen(a, i),
            ![2 * i].update = Push(a[i].update, @),
            ![2 * i + 1].update = Push(a[i].update, @)]

PushDown(a, i) ==
  [a EXCEPT ![i] = [value |-> Seen(a, i), update |-> ZeroUpdate],
            ![2 * i].update = Push(a[i].update, @),
            ![2 * i + 1].update = Push(a[i].update, @)]

Settle(a, i) == [a EXCEPT ![i] = [value |-> Seen(a, i), update |-> ZeroUpdate]]

\* Update and Get at the nodes of the set s.
MarkAll(a, s, u) ==
  [x \in Nodes |-> IF x \in s THEN [a[x] EXCEPT !.update = Push(u, @)] ELSE a[x]]
SeeAll(a, s) ==
  [x \in Nodes |-> IF x \in s THEN [a[x] EXCEPT !.value = Seen(a, x)] ELSE a[x]]

-----------------------------------------------------------------------------
Leaf(i) == [value |-> IF i \in 0..Size - 1 THEN Fresh ELSE ZeroValue, update |-> ZeroUpdate]

NoAnswer == [name |-> "none"]

Idle == [name |-> "none", l |-> 0, r |-> 0, upd |-> ZeroUpdate,
         at |-> "idle", shift |-> 0, i |-> 0, j |-> 0,
         summedL |-> ZeroValue, summedR |-> ZeroValue, spoils |-> FALSE]

\* NewSegmentTree: the leaves, then the nodes above them from right to left.
Init ==
  /\ arr = [i \in Nodes |-> Leaf(i - n)]
  /\ op = [Idle EXCEPT !.name = "New", !.at = "build", !.i = n - 1]
  /\ answer = NoAnswer
  /\ elements = [i \in Leaves |-> Leaf(i).value]
  /\ changes = 0
  /\ spoils = 0

Histories == <<elements, changes, spoils>>

BuildTurn ==
  /\ op.at = "build"
  /\ IF op.i > 0
     THEN /\ arr' = Recompute(arr, op.i)
          /\ op' = [op EXCEPT !.i = @ - 1]
     ELSE op' = Idle /\ UNCHANGED arr
  /\ UNCHANGED <<answer, Histories>>

Begin(name, l, r, upd, at) ==
  /\ op = Idle
  /\ spoils < MaxSpoils
  /\ op' = [Idle EXCEPT !.name = name, !.l = l, !.r = r, !.upd = upd, !.at = at, !.shift = Log2n]
  /\ answer' = NoAnswer
  /\ UNCHANGED <<arr, elements, spoils>>

From(l) == IF l < 0 THEN 0 ELSE l
To(r) == IF r > n - 1 THEN n - 1 ELSE r

Change == changes < MaxChanges /\ changes' = changes + 1

\* A fresh element takes the place of what is at i.
SetValue(i) == Change /\ Begin("SetValue", i, i, ZeroUpdate, "pushR")

\* An empty range is left alone.
Update(l, r, u) == Change /\ From(l) <= To(r) /\ Begin("Update", From(l), To(r), u, "pushL")

Get(l, r) ==
  /\ From(l) <= To(r)
  /\ Begin("Get", From(l), To(r), ZeroUpdate, "pushL")
  /\ UNCHANGED changes

Longest(rMax) == Begin("Longest", rMax, rMax, ZeroUpdate, "pushR") /\ UNCHANGED changes

-----------------------------------------------------------------------------
(* pushUpdates and rebuild, for l first and then for r, or for r alone.    *)

End == IF op.at \in {"pushL", "rebuildL"} THEN op.l ELSE op.r

PushTurn ==
  /\ op.at \in {"pushL", "pushR"}
  /\ op.shift > 0
  /\ arr' = PushDown(arr, Above(End)[op.shift])
  /\ op' = [op EXCEPT !.shift = @ - 1]
  /\ UNCHANGED <<answer, Histories>>

Body == [SetValue |-> "set", Update |-> "cover", Get |-> "cover", Longest |-> "check"]

PushEnds ==
  /\ op.at \in {"pushL", "pushR"}
  /\ op.shift = 0
  /\ arr' = Settle(arr, End + n)
  /\ op' = IF op.at = "pushL" THEN [op EXCEPT !.at = "pushR", !.shift = Log2n]
           ELSE [op EXCEPT !.at = Body[op.name], !.i = op.l + n, !.j = op.r + n]
  /\ UNCHANGED <<answer, Histories>>

RebuildTurn ==
  /\ op.at \in {"rebuildL", "rebuildR"}
  /\ op.i # 0
  /\ arr' = Recompute(arr, op.i)
  /\ op' = [op EXCEPT !.i = @ \div 2]
  /\ UNCHANGED <<answer, Histories>>

\* The array after the SetValue or Update under way.
Changed ==
  [k \in Leaves |-> IF k \notin op.l..op.r THEN elements[k]
                   ELSE IF op.name = "SetValue" THEN Fresh
                   ELSE ApplyUpdate(op.upd, elements[k])]

\* Mutant of RebuildEnds: it stops below the root.
RebuildEndsBelowRoot ==
  /\ op.at \in {"rebuildL", "rebuildR"}
  /\ op.i <= 1
  /\ IF op.at = "rebuildL"
     THEN op' = [op EXCEPT !.at = "rebuildR", !.i = (op.r + n) \div 2] /\ UNCHANGED elements
     ELSE op' = Idle /\ elements' = Changed
  /\ UNCHANGED <<arr, answer, changes, spoils>>

RebuildEnds ==
  /\ op.at \in {"rebuildL", "rebuildR"}
  /\ op.i = 0
  /\ IF op.at = "rebuildL"
     THEN op' = [op EXCEPT !.at = "rebuildR", !.i = (op.r + n) \div 2] /\ UNCHANGED elements
     ELSE op' = Idle /\ elements' = Changed
  /\ UNCHANGED <<arr, answer, changes, spoils>>

-----------------------------------------------------------------------------
(* Between pushUpdates and rebuild.                                        *)

SetLeaf ==
  /\ op.at = "set"
  /\ arr' = [arr EXCEPT ![op.i] = [value |-> Fresh, update |-> ZeroUpdate]]
  /\ op' = [op EXCEPT !.at = "rebuildR", !.i = @ \div 2]
  /\ UNCHANGED <<answer, Histories>>

\* The loop of Update and Get goes up level by level and takes the nodes at
\* the ends of what is left of the range, l..r of the code.
TakesLeft == op.i % 2 = 1
TakesRight == op.j % 2 = 0
Taken == {x \in {op.i, op.j} : (x = op.i /\ TakesLeft) \/ (x = op.j /\ TakesRight)}

Narrowed == [op EXCEPT !.i = (@ + 1) \div 2, !.j = (@ - 1) \div 2]

UpdateTurn ==
  /\ op.at = "cover" /\ op.name = "Update"
  /\ IF op.i <= op.j
     THEN arr' = MarkAll(arr, Taken, op.upd) /\ op' = Narrowed
     ELSE /\ op' = [op EXCEPT !.at = "rebuildL", !.i = (op.l + n) \div 2]
          /\ UNCHANGED arr
  /\ UNCHANGED <<answer, Histories>>

\* Get adds the pending update of each node it takes into the node's value,
\* and leaves it pending.
GetTurn ==
  /\ op.at = "cover" /\ op.name = "Get"
  /\ op.i <= op.j
  /\ arr' = SeeAll(arr, Taken)
  /\ op' = [Narrowed EXCEPT !.summedL = IF TakesLeft THEN Merge(@, Seen(arr, op.i)) ELSE @,
                            !.summedR = IF TakesRight THEN Merge(Seen(arr, op.j), @) ELSE @,
                            !.spoils = @ \/ \E x \in Taken : Pending(arr, x)]
  /\ UNCHANGED <<answer, Histories>>

GetReturns ==
  /\ op.at = "cover" /\ op.name = "Get"
  /\ op.i > op.j
  /\ answer' = [name |-> "get", l |-> op.l, r |-> op.r, before |-> spoils,
                value |-> Merge(op.summedL, op.summedR)]
  /\ spoils' = IF op.spoils THEN spoils + 1 ELSE spoils
  /\ op' = Idle
  /\ UNCHANGED <<arr, elements, changes>>

-----------------------------------------------------------------------------
(* LongestRangeWherePredicate.                                             *)

Found(start) ==
  /\ answer' = [name |-> "longest", r |-> op.r, start |-> start,
                quiet |-> \A x \in Nodes : ~Pending(arr, x)]
  /\ op' = Idle

\* Mutant of CheckLeaf: the leaf itself is not looked at first.
CheckLeafNever ==
  /\ op.at = "check"
  /\ op' = [op EXCEPT !.at = "climb"]
  /\ UNCHANGED <<arr, answer, Histories>>

\* -1 stands for the answer (-1, false).
CheckLeaf ==
  /\ op.at = "check"
  /\ IF Predicate(arr[op.i].value) THEN op' = [op EXCEPT !.at = "climb"] /\ UNCHANGED answer
     ELSE Found(-1)
  /\ UNCHANGED <<arr, Histories>>

\* The first loop climbs from the leaf to the first node that the predicate
\* fails with; summedL is summedValue.  Leaving a left child merges
\* summedValue in once more.
ClimbTurn ==
  LET val == Merge(Seen(arr, op.i), op.summedL)
  IN /\ op.at = "climb"
     /\ \/ Predicate(val) /\ IsPowerOf2(op.i) /\ Found(0)
        \/ /\ Predicate(val) /\ ~IsPowerOf2(op.i)
           /\ op' = IF op.i % 2 = 0
                    THEN [op EXCEPT !.i = @ \div 2 - 1, !.summedL = Merge(val, @)]
                    ELSE [op EXCEPT !.i = @ \div 2]
           /\ UNCHANGED answer
        \/ /\ ~Predicate(val)
           /\ op' = [op EXCEPT !.at = "descend", !.upd = arr[op.i].update]
           /\ UNCHANGED answer
     /\ UNCHANGED <<arr, Histories>>

\* The second loop goes down to the last leaf that cannot be in the range.
\* The value of the right child is taken with upd, but without what is
\* pending in the child itself.
DescendTurn ==
  LET right == 2 * op.i + 1
      combined == Merge(ApplyUpdate(op.upd, arr[right].value), op.summedL)
  IN /\ op.at = "descend" /\ op.i < n
     /\ op' = IF Predicate(combined)
              THEN [op EXCEPT !.i = 2 * @, !.summedL = combined]
              ELSE [op EXCEPT !.i = right, !.upd = Push(@, arr[right].update)]
     /\ UNCHANGED <<arr, answer, Histories>>

\* Mutant of DescendEnds: the leaf that fails is taken for the first one.
DescendEndsAtLeaf ==
  /\ op.at = "descend" /\ op.i >= n
  /\ Found(op.i - n)
  /\ UNCHANGED <<arr, Histories>>

DescendEnds ==
  /\ op.at = "descend" /\ op.i >= n
  /\ Found(op.i - n + 1)
  /\ UNCHANGED <<arr, Histories>>

-----------------------------------------------------------------------------
Loop ==
  \/ BuildTurn \/ PushTurn \/ PushEnds \/ RebuildTurn \/ RebuildEnds
  \/ SetLeaf \/ UpdateTurn \/ GetTurn \/ GetReturns
  \/ CheckLeaf \/ ClimbTurn \/ DescendTurn \/ DescendEnds

Next ==
  \/ \E l, r \in Endpoints :
       \/ Get(l, r)
       \/ \E m \in Marks : Update(l, r, <<m>>)
  \/ \E i \in Endpoints \cap Leaves : SetValue(i) \/ Longest(i)
  \/ Loop

Spec == Init /\ [][Next]_vars

-----------------------------------------------------------------------------
(* Properties                                                              *)

\* The elements e[l], ..., e[r], merged in this order.
Total(e, l, r) ==
  LET total[k \in 0..n - l] == IF k = 0 THEN <<>> ELSE total[k - 1] \o e[l + k - 1]
  IN total[r - l + 1]

\* What is pending for each node, in the node or above it.
Owed ==
  LET owed[i \in Nodes] == IF i = 1 THEN arr[i].update ELSE arr[i].update \o owed[i \div 2]
  IN owed

Values == Seq(Seq(Marks))

\* Every variable has its type, and a range found does not end before it
\* starts.
STTypeOK ==
  /\ arr \in [Nodes -> [value : Values, update : Seq(Marks)]]
  /\ op.l \in Leaves /\ op.r \in Leaves /\ op.upd \in Seq(Marks)
  /\ op.shift \in 0..Log2n /\ op.i \in 0..2 * n - 1
  /\ op.summedL \in Values /\ op.summedR \in Values
  /\ answer.name \in {"none", "get", "longest"}
  /\ answer.name = "longest" => answer.start \in -1..answer.r
  /\ elements \in [Leaves -> Values]
  /\ changes \in 0..MaxChanges /\ spoils \in 0..MaxSpoils

\* Between operations every node's value is that of its two children with
\* what is pending in them, and no update is lost, repeated or out of order
\* on its way down: a leaf with everything pending for it is the element it
\* stands for.
Aggregates ==
  spoils = 0 /\ op = Idle =>
    /\ \A i \in 1..n - 1 : arr[i].value = Merge(Seen(arr, 2 * i), Seen(arr, 2 * i + 1))
    /\ \A i \in Leaves : ApplyUpdate(Owed[i + n], arr[i + n].value) = elements[i]

\* Get returns the merged elements of its range, in their order, until a Get
\* has met a pending update at a node that lies between the paths to its two
\* ends; that Get still answers right.
GetAnswersUntilSpoiled ==
  answer.name = "get" /\ answer.before = 0 => answer.value = Total(elements, answer.l, answer.r)

\* The range found is the longest one that ends at rMax and that the
\* predicate holds with, if nothing is pending anywhere.
LongestAnswersWhenQuiet ==
  answer.name = "longest" /\ answer.quiet /\ spoils = 0 =>
    LET starts == {l \in 0..answer.r : Predicate(Total(elements, l, answer.r))}
    IN answer.start = IF starts = {} THEN -1 ELSE CHOOSE l \in starts : \A k \in starts : l <= k

=============================================================================
