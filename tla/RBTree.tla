------------------------------- MODULE RBTree -------------------------------
(***************************************************************************)
(* The red-black tree of rbtree/rbtree.go, pointer by pointer.  A step is  *)
(* an operation up to its fixup, or one turn of the loop of a fixup.  One  *)
(* iteration may be under way: its body may insert, and may remove any     *)
(* node except the one it stands on.                                       *)
(***************************************************************************)
EXTENDS Integers, Sequences, FiniteSets

CONSTANTS
  Keys,       \* the values, a set of integers; Less is <
  Copies,     \* bound: how many nodes may be born with the same value
  MaxSize,    \* bound: the number of nodes in the tree
  MaxIterated, \* bound: the same while an iteration is under way
  Overrides,  \* the values of insert's argument override in use
  IterDirs,   \* the iterations in use: 1 for Iter, 0 for ReverseIter
  Nil

ASSUME RBTreeAssumption ==
  /\ Keys \subseteq Int /\ Copies \subseteq Nat /\ MaxSize \in Nat
  /\ MaxIterated \in 0..MaxSize
  /\ Overrides \subseteq BOOLEAN /\ IterDirs \subseteq {0, 1}
  /\ Nil \notin Keys \X Copies

VARIABLES
  tree,     \* the tree and the fields of its nodes
  op,       \* the fixup under way: its name, its variables node and parent,
            \* and the parity of the turns of its loop
  cursor,   \* the node an iteration stands on and its direction
  pending   \* history: what the iteration found in the tree, still in the
            \* tree and not yielded yet

vars == <<tree, op, cursor, pending>>

Red == "Red"
Black == "Black"
Dirs == {0, 1}    \* Childs[0] is left, Childs[1] is right

\* Addresses mean nothing: a node is named by the value it was born with.
Nodes == Keys \X Copies
Ref == Nodes \cup {Nil}

Blank == [Color |-> Red, Parent |-> Nil, Childs |-> [d \in Dirs |-> Nil], Value |-> Nil]
Idle == [name |-> "none", node |-> Nil, parent |-> Nil, turn |-> 0]
NoCursor == [node |-> Nil, dir |-> 0]

Init ==
  /\ tree = [Root |-> Nil, at |-> [n \in Nodes |-> Blank]]
  /\ op = Idle
  /\ cursor = NoCursor
  /\ pending = {}

-----------------------------------------------------------------------------
(* Reading a tree t.                                                       *)

ParentOf(t, n) == t.at[n].Parent
Child(t, n, d) == t.at[n].Childs[d]
ValueOf(t, n) == t.at[n].Value
IsBlack(t, n) == n # Nil => t.at[n].Color = Black
IsRed(t, n) == ~IsBlack(t, n)

\* Which child of its parent n is: 0 unless it is the right one.
Side(t, n) == IF ParentOf(t, n) # Nil /\ n # Child(t, ParentOf(t, n), 0) THEN 1 ELSE 0

\* The last node on the way from n in direction d: Minimum, Maximum.
Extreme(t, n, d) ==
  LET walk[m \in Nodes] == IF Child(t, m, d) = Nil THEN m ELSE walk[Child(t, m, d)]
  IN walk[n]

\* Where the search for v goes on from n.
Way(t, n, v) == IF v < ValueOf(t, n) THEN 0 ELSE 1

\* The last node that the search for v passes.
SearchEnd(t, v) ==
  LET walk[m \in Nodes] ==
        LET c == Child(t, m, Way(t, m, v)) IN IF c = Nil THEN m ELSE walk[c]
  IN walk[t.Root]

\* The last node at which the search for v goes in direction d, or nil.
LastTurn(t, v, d) ==
  LET walk[m \in Ref] ==
        IF m = Nil THEN Nil
        ELSE LET below == walk[Child(t, m, Way(t, m, v))]
             IN IF below = Nil /\ Way(t, m, v) = d THEN m ELSE below
  IN walk[t.Root]

Find(t, v) ==
  LET walk[m \in Ref] ==
        IF m = Nil THEN Nil
        ELSE IF v < ValueOf(t, m) THEN walk[Child(t, m, 0)]
        ELSE IF ValueOf(t, m) < v THEN walk[Child(t, m, 1)] ELSE m
  IN walk[t.Root]

\* Mutant of Neighbour: the climb looks at the nearest ancestor only.
NeighbourOfParent(t, n, d) ==
  IF Child(t, n, d) # Nil THEN Extreme(t, Child(t, n, d), 1 - d)
  ELSE IF ParentOf(t, n) # Nil /\ n = Child(t, ParentOf(t, n), d) THEN Nil
  ELSE ParentOf(t, n)

\* Successor (d = 1) and Predecessor (d = 0)
Neighbour(t, n, d) ==
  LET climb[m \in Nodes] ==
        LET p == ParentOf(t, m)
        IN IF p # Nil /\ m = Child(t, p, d) THEN climb[p] ELSE p
  IN IF Child(t, n, d) # Nil THEN Extreme(t, Child(t, n, d), 1 - d) ELSE climb[n]

-----------------------------------------------------------------------------
(* Changing a tree t.                                                      *)

\* Mutant of Link: the child is not told.
LinkOneWay(t, p, d, c) ==
  IF p = Nil THEN [t EXCEPT !.Root = c] ELSE [t EXCEPT !.at[p].Childs[d] = c]

\* c becomes child d of p, or the root if p is nil.
Link(t, p, d, c) ==
  LET down == IF p = Nil THEN [t EXCEPT !.Root = c] ELSE [t EXCEPT !.at[p].Childs[d] = c]
  IN IF c = Nil THEN down ELSE [down EXCEPT !.at[c].Parent = p]

Paint(t, n, c) == IF n = Nil THEN t ELSE [t EXCEPT !.at[n].Color = c]

Rotate(t, n, d) ==
  LET c == Child(t, n, 1 - d)
      p == ParentOf(t, n)
  IN Link(Link(Link(t, n, 1 - d, Child(t, c, d)), p, Side(t, n), c), c, d, n)

\* The function of the same name inside Remove.
Transplant(t, u, v) == Link(t, ParentOf(t, u), Side(t, u), v)

-----------------------------------------------------------------------------
(* insert                                                                  *)

Linked(t) ==
  LET below[m \in Ref] ==
        IF m = Nil THEN {} ELSE {m} \cup below[Child(t, m, 0)] \cup below[Child(t, m, 1)]
  IN below[t.Root]

Fresh(v) == {<<v, c>> : c \in Copies} \ Linked(tree)

\* The least of the unused names for v: which one it is makes no difference.
NewNode(v) == CHOOSE n \in Fresh(v) : \A m \in Fresh(v) : n[2] <= m[2]

Born(v, color) == [Blank EXCEPT !.Color = color, !.Value = v]

InsertRoot(v) ==
  /\ tree.Root = Nil
  /\ tree' = [Root |-> NewNode(v), at |-> [tree.at EXCEPT ![NewNode(v)] = Born(v, Black)]]
  /\ UNCHANGED op

\* The node whose value insert replaces, or nil.  lastLeftTurn is where the
\* search last went right, so that Less(value, lastLeftTurn.Value) is false
\* whenever there is such a node.
Replaced(v) ==
  LET lastLeftTurn == LastTurn(tree, v, 1)
      lastRightTurn == LastTurn(tree, v, 0)
  IN IF lastLeftTurn # Nil /\ ~(v < ValueOf(tree, lastLeftTurn)) THEN lastLeftTurn
     ELSE IF lastRightTurn # Nil /\ ~(ValueOf(tree, lastRightTurn) < v) THEN lastRightTurn
     ELSE Nil

InsertReplace(v) ==
  /\ tree.Root # Nil
  /\ Replaced(v) # Nil
  /\ tree' = [tree EXCEPT !.at[Replaced(v)].Value = v]
  /\ UNCHANGED op

InsertLeaf(v) ==
  LET n == NewNode(v)
      parent == SearchEnd(tree, v)
      grown == [tree EXCEPT !.at[n] = Born(v, Red)]
  IN /\ tree.Root # Nil
     /\ tree' = Link(grown, parent, Way(tree, parent, v), n)
     /\ op' = [name |-> "insertFixup", node |-> n, parent |-> Nil, turn |-> 0]

Insert(v, override) ==
  /\ op = Idle
  /\ Fresh(v) # {}
  /\ Cardinality(Linked(tree)) < IF cursor = NoCursor THEN MaxSize ELSE MaxIterated
  /\ \/ InsertRoot(v)
     \/ override /\ InsertReplace(v)
     \/ (~override \/ Replaced(v) = Nil) /\ InsertLeaf(v)
  /\ UNCHANGED <<cursor, pending>>

-----------------------------------------------------------------------------
(* insertFixup                                                             *)

\* One more turn of the loop, with its variables node and parent.
Turn(n, p) == [op EXCEPT !.node = n, !.parent = p, !.turn = 1 - @]

Grandparent(n) == ParentOf(tree, ParentOf(tree, n))
Uncle(n) == Child(tree, Grandparent(n), 1 - Side(tree, ParentOf(tree, n)))

RedParent(n) == ParentOf(tree, n) # Nil /\ IsRed(tree, ParentOf(tree, n))

InsertRecolor ==
  LET n == op.node
  IN /\ op.name = "insertFixup"
     /\ RedParent(n) /\ IsRed(tree, Uncle(n))
     /\ tree' = Paint(Paint(Paint(tree, ParentOf(tree, n), Black), Uncle(n), Black),
                      Grandparent(n), Red)
     /\ op' = Turn(Grandparent(n), Nil)
     /\ UNCHANGED <<cursor, pending>>

\* A node on the inside of its grandparent is first rotated to the outside.
InnerRotation(n, d) ==
  LET p == ParentOf(tree, n)
  IN IF n = Child(tree, p, 1 - d)
     THEN [t |-> Rotate(tree, p, d), node |-> p]
     ELSE [t |-> tree, node |-> n]

InsertRotate ==
  LET n == op.node
      d == Side(tree, ParentOf(tree, n))
      inner == InnerRotation(n, d)
      p == ParentOf(inner.t, inner.node)
      g == ParentOf(inner.t, p)
  IN /\ op.name = "insertFixup"
     /\ RedParent(n) /\ IsBlack(tree, Uncle(n))
     /\ tree' = Rotate(Paint(Paint(inner.t, p, Black), g, Red), g, 1 - d)
     /\ op' = Turn(inner.node, Nil)
     /\ UNCHANGED <<cursor, pending>>

InsertDone ==
  /\ op.name = "insertFixup"
  /\ ~RedParent(op.node)
  /\ tree' = Paint(tree, tree.Root, Black)
  /\ op' = Idle
  /\ UNCHANGED <<cursor, pending>>

-----------------------------------------------------------------------------
(* Remove                                                                  *)

\* Each operator: the tree after the unlinking, the color that left its
\* place, and the x and xParent that deleteFixup starts from.

RemoveWithOneChild(t, n) ==
  LET x == IF Child(t, n, 0) = Nil THEN Child(t, n, 1) ELSE Child(t, n, 0)
  IN [t |-> Transplant(t, n, x), lost |-> t.at[n].Color, x |-> x, xParent |-> ParentOf(t, n)]

\* Mutant of RemoveWithTwoChildren: the successor's value moves, not its node.
RemoveCopying(t, n) ==
  LET y == Extreme(t, Child(t, n, 1), 0)
      moved == [t EXCEPT !.at[n].Value = ValueOf(t, y)]
  IN [t |-> Transplant(moved, y, Child(t, y, 1)), lost |-> t.at[y].Color,
      x |-> Child(t, y, 1), xParent |-> ParentOf(t, y)]

\* Mutant of RemoveWithTwoChildren: Maximum instead of Minimum.
RemoveForMaximum(t, n) ==
  LET y == Extreme(t, Child(t, n, 1), 1)
      near == ParentOf(t, y) = n
      freed == IF near THEN t ELSE Link(Transplant(t, y, Nil), y, 1, Child(t, n, 1))
      placed == Link(Transplant(freed, n, y), y, 0, Child(t, n, 0))
  IN [t |-> Paint(placed, y, t.at[n].Color), lost |-> t.at[y].Color,
      x |-> Nil, xParent |-> IF near THEN y ELSE ParentOf(t, y)]

RemoveWithTwoChildren(t, n) ==
  LET y == Extreme(t, Child(t, n, 1), 0)
      x == Child(t, y, 1)
      near == ParentOf(t, y) = n
      freed == IF near THEN t ELSE Link(Transplant(t, y, x), y, 1, Child(t, n, 1))
      placed == Link(Transplant(freed, n, y), y, 0, Child(t, n, 0))
  IN [t |-> Paint(placed, y, t.at[n].Color), lost |-> t.at[y].Color,
      x |-> x, xParent |-> IF near THEN y ELSE ParentOf(t, y)]

Unlinked(t, n) ==
  IF Child(t, n, 0) = Nil \/ Child(t, n, 1) = Nil
  THEN RemoveWithOneChild(t, n)
  ELSE RemoveWithTwoChildren(t, n)

\* Nobody looks at a removed node again: its fields are blanked.
Remove(n) ==
  LET r == Unlinked(tree, n)
      gone == Linked(tree) \ Linked(r.t)
  IN /\ op = Idle
     /\ n # cursor.node
     /\ tree' = [r.t EXCEPT !.at = [m \in Nodes |-> IF m \in gone THEN Blank ELSE @[m]]]
     /\ op' = IF r.lost = Black
              THEN [name |-> "deleteFixup", node |-> r.x, parent |-> r.xParent, turn |-> 0]
              ELSE Idle
     /\ pending' = pending \ {n}
     /\ UNCHANGED cursor

-----------------------------------------------------------------------------
(* deleteFixup: node is one black short.  d is its side of parent.         *)

Short ==
  /\ op.name = "deleteFixup"
  /\ op.node # tree.Root /\ IsBlack(tree, op.node)
  /\ op.parent # Nil

\* Which child of op.parent op.node, perhaps nil, is.
ShortSide == IF op.node = Child(tree, op.parent, 0) THEN 0 ELSE 1

\* A red sibling is first rotated above the parent.
BlackSibling(d) ==
  LET p == op.parent
      s == Child(tree, p, 1 - d)
  IN IF IsRed(tree, s) THEN Rotate(Paint(Paint(tree, s, Black), p, Red), p, d) ELSE tree

\* Mutant of MoveUp: parent stays behind.
MoveUpStale(t, s) ==
  /\ tree' = Paint(t, s, Red)
  /\ op' = Turn(op.parent, op.parent)

\* The shortage moves up: with a black sibling that has no red child, which
\* turns red, and also where there is no sibling.
MoveUp(t, s) ==
  /\ tree' = Paint(t, s, Red)
  /\ op' = Turn(op.parent, ParentOf(t, op.parent))

\* Mutant of OuterRed: a red nephew on the inside is left there.
OuterAsIs(t, p, d) == t

\* A red nephew on the inside only is first rotated to the outside.
OuterRed(t, p, d) ==
  LET s == Child(t, p, 1 - d)
  IN IF IsBlack(t, Child(t, s, 1 - d))
     THEN Rotate(Paint(Paint(t, Child(t, s, d), Black), s, Red), s, 1 - d)
     ELSE t

\* The sibling takes the parent's place and its color.
Settle(t, d) ==
  LET p == op.parent
      u == OuterRed(t, p, d)
      s == Child(u, p, 1 - d)
      painted == Paint(Paint(Paint(u, s, u.at[p].Color), p, Black), Child(u, s, 1 - d), Black)
      done == Rotate(painted, p, d)
  IN /\ tree' = done
     /\ op' = Turn(done.Root, Nil)

RedNephew(t, s) == s # Nil /\ \E d \in Dirs : IsRed(t, Child(t, s, d))

DeleteMoveUp ==
  /\ Short
  /\ LET t == BlackSibling(ShortSide)
         s == Child(t, op.parent, 1 - ShortSide)
     IN ~RedNephew(t, s) /\ MoveUp(t, s)
  /\ UNCHANGED <<cursor, pending>>

DeleteSettle ==
  /\ Short
  /\ LET t == BlackSibling(ShortSide)
     IN RedNephew(t, Child(t, op.parent, 1 - ShortSide)) /\ Settle(t, ShortSide)
  /\ UNCHANGED <<cursor, pending>>

DeleteDone ==
  /\ op.name = "deleteFixup"
  /\ ~Short
  /\ tree' = Paint(Paint(tree, op.node, Black), tree.Root, Black)
  /\ op' = Idle
  /\ UNCHANGED <<cursor, pending>>

-----------------------------------------------------------------------------
(* Clear, and the iterations of Iter and ReverseIter                       *)

Clear ==
  /\ op = Idle /\ cursor = NoCursor
  /\ tree.Root # Nil
  /\ tree' = [Root |-> Nil, at |-> [n \in Nodes |-> Blank]]
  /\ UNCHANGED <<op, cursor, pending>>

\* On an empty tree Iter panics: the client does not call it there.
Iter(d) ==
  /\ op = Idle /\ cursor = NoCursor
  /\ tree.Root # Nil /\ Cardinality(Linked(tree)) <= MaxIterated
  /\ cursor' = [node |-> Extreme(tree, tree.Root, 1 - d), dir |-> d]
  /\ pending' = Linked(tree) \ {cursor'.node}
  /\ UNCHANGED <<tree, op>>

\* yield has returned true and the next node is fetched.
Advance ==
  LET next == Neighbour(tree, cursor.node, cursor.dir)
  IN /\ op = Idle /\ cursor # NoCursor
     /\ cursor' = IF next = Nil THEN NoCursor ELSE [cursor EXCEPT !.node = next]
     /\ pending' = pending \ {next}
     /\ UNCHANGED <<tree, op>>

\* yield has returned false.
Break ==
  /\ op = Idle /\ cursor # NoCursor
  /\ cursor' = NoCursor /\ pending' = {}
  /\ UNCHANGED <<tree, op>>

-----------------------------------------------------------------------------
Fixup ==
  \/ InsertRecolor \/ InsertRotate \/ InsertDone
  \/ DeleteMoveUp \/ DeleteSettle \/ DeleteDone

Next ==
  \/ \E v \in Keys, override \in Overrides : Insert(v, override)
  \/ \E n \in Linked(tree) : Remove(n)
  \/ Fixup
  \/ Clear
  \/ \E d \in IterDirs : Iter(d)
  \/ Advance
  \/ Break

\* A fixup under way goes on.  This is WF_vars(Fixup) with its enabling
\* condition written out; that there is no deadlock shows it to be the one.
Fairness == []<>(op = Idle) \/ []<><<Fixup>>_vars

Spec == Init /\ [][Next]_vars /\ Fairness

-----------------------------------------------------------------------------
(* Properties                                                              *)

\* The nodes of the tree from left to right.
InOrder ==
  LET walk[m \in Ref] ==
        IF m = Nil THEN <<>>
        ELSE walk[Child(tree, m, 0)] \o <<m>> \o walk[Child(tree, m, 1)]
  IN walk[tree.Root]

\* The values that Iter yields, were the tree left alone.
Contents ==
  LET walk[m \in Ref] ==
        IF m = Nil THEN <<>>
        ELSE walk[Child(tree, m, 0)] \o <<ValueOf(tree, m)>> \o walk[Child(tree, m, 1)]
  IN walk[tree.Root]

Place(n) == CHOOSE i \in DOMAIN InOrder : InOrder[i] = n

\* Every variable has its type, and the pointers agree: no node hangs in the
\* tree twice and a node is the parent of its children.
RBTypeOK ==
  /\ tree.Root \in Ref
  /\ tree.at \in [Nodes -> [Color : {Red, Black}, Parent : Ref,
                            Childs : [Dirs -> Ref], Value : Keys \cup {Nil}]]
  /\ op \in [name : {"none", "insertFixup", "deleteFixup"}, node : Ref, parent : Ref,
            turn : {0, 1}]
  /\ cursor \in [node : Ref, dir : Dirs]
  /\ pending \subseteq Linked(tree)
  /\ \A i, j \in DOMAIN InOrder : InOrder[i] = InOrder[j] => i = j
  /\ \A n \in Linked(tree), d \in Dirs :
       Child(tree, n, d) # Nil => ParentOf(tree, Child(tree, n, d)) = n

\* Between operations the tree is red-black: its root is black, no red node
\* has a red child, and every way down passes the same number of blacks.
\* The fixups restore this after any sequence of inserts and removals; and
\* Find finds a value exactly when some node holds it.
RedBlack ==
  LET blacks[m \in Ref] ==
        IF m = Nil THEN {0}
        ELSE {b + (IF IsBlack(tree, m) THEN 1 ELSE 0) :
                b \in blacks[Child(tree, m, 0)] \cup blacks[Child(tree, m, 1)]}
  IN op = Idle =>
       /\ IsBlack(tree, tree.Root)
       /\ \A n \in Linked(tree), d \in Dirs :
            IsRed(tree, n) => IsBlack(tree, Child(tree, n, d))
       /\ Cardinality(blacks[tree.Root]) = 1
       /\ \A v \in Keys :
            IF \E n \in Linked(tree) : ValueOf(tree, n) = v
            THEN Find(tree, v) # Nil /\ ValueOf(tree, Find(tree, v)) = v
            ELSE Find(tree, v) = Nil

\* Whatever the body inserts or removes, the nodes the iteration still owes
\* lie ahead of the one it stands on; when it ends it owes none.
IterationMissesNothing ==
  op = Idle =>
    IF cursor = NoCursor THEN pending = {}
    ELSE \A n \in pending :
           IF cursor.dir = 1 THEN Place(n) > Place(cursor.node) ELSE Place(n) < Place(cursor.node)

\* A caller may keep the *Node it got from Insert: a step unlinks at most
\* one node, and the others keep their values.
HandlesStayValid ==
  [][op = Idle /\ tree'.Root # Nil =>
       /\ Cardinality(Linked(tree) \ Linked(tree')) <= 1
       /\ (Linked(tree) \ Linked(tree') # {} =>
             \A n \in Linked(tree') : ValueOf(tree, n) = ValueOf(tree', n))]_vars

\* Every fixup comes to its end.
FixupsEnd == (op # Idle) ~> (op = Idle)

\* Insert, Remove and Clear do to the values what they do to a sorted list.
Sorted == INSTANCE SortedList WITH items <- Contents

ImplementsSortedList == Sorted!Spec

=============================================================================
