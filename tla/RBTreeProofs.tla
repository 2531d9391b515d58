---------------------------- MODULE RBTreeProofs ----------------------------
(***************************************************************************)
(* The red-black tree is a red-black tree between operations and a sorted  *)
(* list of its values, for any values and any number of nodes.             *)
(***************************************************************************)
EXTENDS RBTree, SequenceTheorems, FiniteSetTheorems, WellFoundedInduction, TLAPS

(***************************************************************************)
(* The shape of a tree t.  g numbers its nodes from left to right: node[i] *)
(* is the i-th, pos[n] is the number of n or 0, and the nodes below n, n   *)
(* among them, have the numbers lo[n]..hi[n].                              *)
(***************************************************************************)

Trees == [Root : Ref, at : [Nodes -> [Color : {Red, Black}, Parent : Ref,
                                      Childs : [Dirs -> Ref], Value : Keys \cup {Nil}]]]

Numberings == [node : Seq(Nodes), pos : [Nodes -> Int], lo : [Nodes -> Int],
               hi : [Nodes -> Int]]

Size(g) == Len(g.node)
At(g, i) == g.node[i]
Pos(g, n) == g.pos[n]
Lo(g, n) == g.lo[n]
Hi(g, n) == g.hi[n]
In(g, n) == Pos(g, n) > 0
Within(g, i, n) == Lo(g, n) <= i /\ i <= Hi(g, n)

\* The numbers are those of the nodes.
Numbered(g) ==
  /\ g.node \in Seq(Nodes) /\ Size(g) \in Nat
  /\ \A n \in Nodes : Pos(g, n) \in 0..Size(g) /\ Lo(g, n) \in Int /\ Hi(g, n) \in Int
  /\ \A n \in Nodes : In(g, n) => At(g, Pos(g, n)) = n
  /\ \A i \in 1..Size(g) : At(g, i) \in Nodes /\ Pos(g, At(g, i)) = i
  /\ \A n \in Nodes : In(g, n) => Within(g, Pos(g, n), n) /\ 1 <= Lo(g, n) /\ Hi(g, n) <= Size(g)

\* The child of n in direction d has what lies on that side of n.
ChildRight(t, g, n, d) ==
  LET c == Child(t, n, d)
      first == IF d = 0 THEN Lo(g, n) ELSE Pos(g, n) + 1
      last == IF d = 0 THEN Pos(g, n) - 1 ELSE Hi(g, n)
  IN IF c = Nil THEN first > last
     ELSE In(g, c) /\ Lo(g, c) = first /\ Hi(g, c) = last /\ ParentOf(t, c) = n

ParentRight(t, g, n) ==
  LET p == ParentOf(t, n)
  IN IF p = Nil THEN n = t.Root ELSE In(g, p) /\ (Child(t, p, 0) = n \/ Child(t, p, 1) = n)

RootRight(t, g) ==
  IF t.Root = Nil THEN Size(g) = 0
  ELSE /\ In(g, t.Root) /\ ParentOf(t, t.Root) = Nil
       /\ Lo(g, t.Root) = 1 /\ Hi(g, t.Root) = Size(g)

Shape(t, g) ==
  /\ t \in Trees
  /\ Numbered(g)
  /\ RootRight(t, g)
  /\ \A n \in Nodes : In(g, n) => ParentRight(t, g, n)
  /\ \A n \in Nodes, d \in Dirs : In(g, n) => ChildRight(t, g, n, d)
  /\ \A n \in Nodes, d \in Dirs :
       ~In(g, n) /\ Child(t, n, d) # Nil => In(g, Child(t, n, d))

Outside(t, g) == \A n \in Nodes : ~In(g, n) => t.at[n] = Blank

\* The values grow from left to right.
Ordered(t, g) ==
  /\ \A n \in Nodes : In(g, n) => ValueOf(t, n) \in Keys
  /\ \A m, n \in Nodes : In(g, m) /\ In(g, n) /\ Pos(g, m) < Pos(g, n) =>
       ValueOf(t, m) <= ValueOf(t, n)

\* h[n] is the number of blacks on the ways down from n; on the side d of p
\* it is one short.
Height(h, n) == IF n = Nil THEN 0 ELSE h[n]
Mark(t, n) == IF IsBlack(t, n) THEN 1 ELSE 0
Lack(n, d, p, e) == IF n = p /\ d = e THEN 1 ELSE 0

Level(t, g, h, p, e) ==
  /\ h \in [Nodes -> Nat]
  /\ \A n \in Nodes, d \in Dirs : In(g, n) =>
       h[n] = Height(h, Child(t, n, d)) + Lack(n, d, p, e) + Mark(t, n)

\* No red node has a red child, and the root is black, but for the child or
\* root x and the parent y.
Coloured(t, g, x, y) ==
  /\ \A n \in Nodes, d \in Dirs : In(g, n) /\ IsRed(t, n) /\ n # y /\ Child(t, n, d) # x =>
       IsBlack(t, Child(t, n, d))
  /\ t.Root # x => IsBlack(t, t.Root)

\* What a fixup knows of its variables.
OpRight(t, g, o) ==
  /\ o \in [name : {"none", "insertFixup", "deleteFixup"}, node : Ref, parent : Ref,
            turn : {0, 1}]
  /\ o.name = "none" => o = Idle
  /\ o.name = "insertFixup" =>
       o.node # Nil /\ In(g, o.node) /\ IsRed(t, o.node) /\ o.parent = Nil
  /\ o.name = "deleteFixup" =>
       IF o.parent = Nil THEN o.node = t.Root
       ELSE /\ In(g, o.parent)
            /\ \E d \in Dirs : Child(t, o.parent, d) = o.node

ShortOf(t, o) == IF o.name = "deleteFixup" /\ o.parent # Nil
                 THEN IF o.node = Child(t, o.parent, 0) THEN 0 ELSE 1 ELSE 0

Iterating(g, cu, pe) ==
  IF cu = NoCursor THEN pe = {}
  ELSE /\ cu \in [node : Nodes, dir : Dirs] /\ In(g, cu.node)
       /\ \A n \in pe : n \in Nodes /\ In(g, n) /\
            IF cu.dir = 1 THEN Pos(g, n) > Pos(g, cu.node) ELSE Pos(g, n) < Pos(g, cu.node)

IInvWith(g, h) ==
  /\ Shape(tree, g)
  /\ Outside(tree, g)
  /\ Ordered(tree, g)
  /\ Level(tree, g, h, op.parent, ShortOf(tree, op))
  /\ Coloured(tree, g, op.node, IF op.name = "deleteFixup" THEN op.node ELSE Nil)
  /\ OpRight(tree, g, op)
  /\ Iterating(g, cursor, pending)

(***************************************************************************)
(* What the operators that change a tree do to each field of each node.    *)
(***************************************************************************)

ColorOf(t, n) == t.at[n].Color

LEMMA NilIsNoNode == Nil \notin Nodes /\ (\A n \in Nodes : n # Nil) /\ (\A n \in Ref : n # Nil => n \in Nodes)
  BY RBTreeAssumption DEF Nodes, Ref

LEMMA FieldTypes ==
  ASSUME NEW t \in Trees
  PROVE  /\ t.Root \in Ref
         /\ \A n \in Nodes : /\ ParentOf(t, n) \in Ref
                             /\ ColorOf(t, n) \in {Red, Black}
                             /\ ValueOf(t, n) \in Keys \cup {Nil}
         /\ \A n \in Nodes, d \in Dirs : Child(t, n, d) \in Ref
  BY DEF Trees, ParentOf, ColorOf, ValueOf, Child

Put(t, n, r) == [t EXCEPT !.at[n] = r]

LEMMA PutFields ==
  ASSUME NEW t \in Trees, NEW n \in Nodes, NEW r, NEW u, u = Put(t, n, r),
         r \in [Color : {Red, Black}, Parent : Ref, Childs : [Dirs -> Ref], Value : Keys \cup {Nil}]
  PROVE  /\ u \in Trees
         /\ u.Root = t.Root
         /\ \A m \in Nodes : u.at[m] = IF m = n THEN r ELSE t.at[m]
  BY DEF Trees, Put

WithChild(t, p, d, c) == [t EXCEPT !.at[p].Childs[d] = c]
WithParent(t, p, c) == [t EXCEPT !.at[c].Parent = p]

LEMMA SetChild ==
  ASSUME NEW t \in Trees, NEW p \in Nodes, NEW d \in Dirs, NEW c \in Ref, NEW u,
         u = WithChild(t, p, d, c)
  PROVE  /\ u \in Trees
         /\ u.Root = t.Root
         /\ \A n \in Nodes : /\ ColorOf(u, n) = ColorOf(t, n)
                             /\ ValueOf(u, n) = ValueOf(t, n)
                             /\ ParentOf(u, n) = ParentOf(t, n)
         /\ \A n \in Nodes, e \in Dirs :
              Child(u, n, e) = IF n = p /\ e = d THEN c ELSE Child(t, n, e)
<1> DEFINE r == [t.at[p] EXCEPT !.Childs[d] = c]
<1>1. t.at[p] \in [Color : {Red, Black}, Parent : Ref, Childs : [Dirs -> Ref],
                   Value : Keys \cup {Nil}]
  BY DEF Trees
<1>2. /\ r \in [Color : {Red, Black}, Parent : Ref, Childs : [Dirs -> Ref],
                Value : Keys \cup {Nil}]
      /\ r.Color = t.at[p].Color /\ r.Value = t.at[p].Value /\ r.Parent = t.at[p].Parent
      /\ \A e \in Dirs : r.Childs[e] = IF e = d THEN c ELSE t.at[p].Childs[e]
  BY <1>1
<1>3. u = Put(t, p, r)
  BY DEF Trees, Put, WithChild
<1> HIDE DEF r
<1>4. /\ u \in Trees
      /\ u.Root = t.Root
      /\ \A m \in Nodes : u.at[m] = IF m = p THEN r ELSE t.at[m]
  BY <1>2, <1>3, PutFields
<1>5. ASSUME NEW n \in Nodes
      PROVE  /\ ColorOf(u, n) = ColorOf(t, n) /\ ValueOf(u, n) = ValueOf(t, n)
             /\ ParentOf(u, n) = ParentOf(t, n)
  <2>1. u.at[n] = IF n = p THEN r ELSE t.at[n]
    BY <1>4
  <2> QED BY <1>2, <2>1 DEF ColorOf, ValueOf, ParentOf
<1>6. ASSUME NEW n \in Nodes, NEW e \in Dirs
      PROVE  Child(u, n, e) = IF n = p /\ e = d THEN c ELSE Child(t, n, e)
  <2>1. u.at[n] = IF n = p THEN r ELSE t.at[n]
    BY <1>4
  <2> QED BY <1>2, <2>1 DEF Child
<1> QED BY <1>4, <1>5, <1>6

LEMMA SetParent ==
  ASSUME NEW t \in Trees, NEW p \in Ref, NEW c \in Nodes, NEW u,
         u = WithParent(t, p, c)
  PROVE  /\ u \in Trees
         /\ u.Root = t.Root
         /\ \A n \in Nodes : /\ ColorOf(u, n) = ColorOf(t, n)
                             /\ ValueOf(u, n) = ValueOf(t, n)
                             /\ ParentOf(u, n) = IF n = c THEN p ELSE ParentOf(t, n)
         /\ \A n \in Nodes, e \in Dirs : Child(u, n, e) = Child(t, n, e)
<1> DEFINE r == [t.at[c] EXCEPT !.Parent = p]
<1>1. t.at[c] \in [Color : {Red, Black}, Parent : Ref, Childs : [Dirs -> Ref],
                   Value : Keys \cup {Nil}]
  BY DEF Trees
<1>2. /\ r \in [Color : {Red, Black}, Parent : Ref, Childs : [Dirs -> Ref],
                Value : Keys \cup {Nil}]
      /\ r.Color = t.at[c].Color /\ r.Value = t.at[c].Value /\ r.Parent = p
      /\ r.Childs = t.at[c].Childs
  BY <1>1
<1>3. u = Put(t, c, r)
  BY DEF Trees, Put, WithParent
<1> HIDE DEF r
<1>4. /\ u \in Trees
      /\ u.Root = t.Root
      /\ \A m \in Nodes : u.at[m] = IF m = c THEN r ELSE t.at[m]
  BY <1>2, <1>3, PutFields
<1>5. ASSUME NEW n \in Nodes
      PROVE  /\ ColorOf(u, n) = ColorOf(t, n) /\ ValueOf(u, n) = ValueOf(t, n)
             /\ ParentOf(u, n) = IF n = c THEN p ELSE ParentOf(t, n)
  <2>1. u.at[n] = IF n = c THEN r ELSE t.at[n]
    BY <1>4
  <2> QED BY <1>2, <2>1 DEF ColorOf, ValueOf, ParentOf
<1>6. ASSUME NEW n \in Nodes, NEW e \in Dirs
      PROVE  Child(u, n, e) = Child(t, n, e)
  <2>1. u.at[n] = IF n = c THEN r ELSE t.at[n]
    BY <1>4
  <2> QED BY <1>2, <2>1 DEF Child
<1> QED BY <1>4, <1>5, <1>6

LinkSpec(t, p, d, c, u) ==
  /\ u \in Trees
  /\ u.Root = IF p = Nil THEN c ELSE t.Root
  /\ \A n \in Nodes : /\ ColorOf(u, n) = ColorOf(t, n)
                      /\ ValueOf(u, n) = ValueOf(t, n)
                      /\ ParentOf(u, n) = IF n = c THEN p ELSE ParentOf(t, n)
  /\ \A n \in Nodes, e \in Dirs :
       Child(u, n, e) = IF n = p /\ e = d THEN c ELSE Child(t, n, e)

LEMMA LinkFields ==
  ASSUME NEW t \in Trees, NEW p \in Ref, NEW d \in Dirs, NEW c \in Ref, NEW u,
         u = Link(t, p, d, c)
  PROVE  LinkSpec(t, p, d, c, u)
<1> DEFINE down == IF p = Nil THEN [t EXCEPT !.Root = c] ELSE WithChild(t, p, d, c)
<1>1. /\ down \in Trees
      /\ down.Root = IF p = Nil THEN c ELSE t.Root
      /\ \A n \in Nodes : /\ ColorOf(down, n) = ColorOf(t, n)
                          /\ ValueOf(down, n) = ValueOf(t, n)
                          /\ ParentOf(down, n) = ParentOf(t, n)
      /\ \A n \in Nodes, e \in Dirs :
           Child(down, n, e) = IF n = p /\ e = d THEN c ELSE Child(t, n, e)
  <2>1. CASE p = Nil
    BY <2>1, NilIsNoNode DEF Trees, ColorOf, ValueOf, ParentOf, Child
  <2>2. CASE p # Nil
    <3>1. p \in Nodes
      BY <2>2, NilIsNoNode
    <3> QED BY <2>2, <3>1, SetChild
  <2> QED BY <2>1, <2>2
<1>2. u = IF c = Nil THEN down ELSE WithParent(down, p, c)
  BY DEF Link, WithChild, WithParent
<1> HIDE DEF down
<1>3. CASE c = Nil
  BY <1>1, <1>2, <1>3, NilIsNoNode DEF LinkSpec
<1>4. CASE c # Nil
  <2>1. c \in Nodes
    BY <1>4, NilIsNoNode
  <2>2. u = WithParent(down, p, c)
    BY <1>2, <1>4
  <2>3. /\ u \in Trees
        /\ u.Root = down.Root
        /\ \A n \in Nodes : /\ ColorOf(u, n) = ColorOf(down, n)
                            /\ ValueOf(u, n) = ValueOf(down, n)
                            /\ ParentOf(u, n) = IF n = c THEN p ELSE ParentOf(down, n)
        /\ \A n \in Nodes, e \in Dirs : Child(u, n, e) = Child(down, n, e)
    BY <1>1, <2>1, <2>2, SetParent
  <2> QED BY <1>1, <2>3 DEF LinkSpec
<1> QED BY <1>3, <1>4

LEMMA PaintFields ==
  ASSUME NEW t \in Trees, NEW n \in Ref, NEW c \in {Red, Black}, NEW u, u = Paint(t, n, c)
  PROVE  /\ u \in Trees
         /\ u.Root = t.Root
         /\ \A m \in Nodes : /\ ColorOf(u, m) = IF m = n THEN c ELSE ColorOf(t, m)
                             /\ ValueOf(u, m) = ValueOf(t, m)
                             /\ ParentOf(u, m) = ParentOf(t, m)
         /\ \A m \in Nodes, e \in Dirs : Child(u, m, e) = Child(t, m, e)
<1>1. CASE n = Nil
  BY <1>1, NilIsNoNode DEF Paint
<1>2. CASE n # Nil
  <2> DEFINE r == [t.at[n] EXCEPT !.Color = c]
  <2>1. n \in Nodes /\ t.at[n] \in [Color : {Red, Black}, Parent : Ref, Childs : [Dirs -> Ref],
                                    Value : Keys \cup {Nil}]
    BY <1>2, NilIsNoNode DEF Trees
  <2>2. /\ r \in [Color : {Red, Black}, Parent : Ref, Childs : [Dirs -> Ref],
                  Value : Keys \cup {Nil}]
        /\ r.Color = c /\ r.Value = t.at[n].Value /\ r.Parent = t.at[n].Parent
        /\ r.Childs = t.at[n].Childs
    BY <2>1
  <2>3. u = Put(t, n, r)
    BY <1>2, <2>1 DEF Trees, Put, Paint
  <2> HIDE DEF r
  <2>4. /\ u \in Trees
        /\ u.Root = t.Root
        /\ \A m \in Nodes : u.at[m] = IF m = n THEN r ELSE t.at[m]
    BY <2>1, <2>2, <2>3, PutFields
  <2> QED BY <2>2, <2>4 DEF ColorOf, ValueOf, ParentOf, Child
<1> QED BY <1>1, <1>2

LEMMA RotateFields ==
  ASSUME NEW t \in Trees, NEW n \in Nodes, NEW d \in Dirs, NEW c \in Nodes, NEW b, NEW p, NEW e,
         c = Child(t, n, 1 - d), b = Child(t, c, d), p = ParentOf(t, n), e = Side(t, n),
         NEW u, u = Rotate(t, n, d), c # n, b # c, b # n, p # n
  PROVE  /\ u \in Trees
         /\ u.Root = IF p = Nil THEN c ELSE t.Root
         /\ \A m \in Nodes : /\ ColorOf(u, m) = ColorOf(t, m)
                             /\ ValueOf(u, m) = ValueOf(t, m)
                             /\ ParentOf(u, m) = IF m = n THEN c ELSE IF m = c THEN p
                                                 ELSE IF m = b THEN n ELSE ParentOf(t, m)
         /\ \A m \in Nodes, f \in Dirs :
              Child(u, m, f) = IF m = c /\ f = d THEN n
                               ELSE IF m = p /\ f = e THEN c
                               ELSE IF m = n /\ f = 1 - d THEN b ELSE Child(t, m, f)
<1> DEFINE o == 1 - d
<1>0. o \in Dirs
  BY DEF Dirs
<1> HIDE DEF o
<1> PICK v : v = Link(t, n, o, b)
  OBVIOUS
<1> PICK w : w = Link(v, p, e, c)
  OBVIOUS
<1>u. u = Link(w, c, d, n)
  BY DEF Rotate, o
<1>1. /\ o \in Dirs /\ e \in Dirs /\ b \in Ref /\ p \in Ref /\ n \in Ref /\ c \in Ref
      /\ n # Nil /\ c # Nil
  <2>1. b \in Ref /\ p \in Ref
    BY FieldTypes
  <2> QED BY <1>0, <2>1, NilIsNoNode DEF Dirs, Side, Ref
<1>2. LinkSpec(t, n, o, b, v)
  BY <1>1, LinkFields
<1>v. v \in Trees
  BY <1>2 DEF LinkSpec
<1>3. LinkSpec(v, p, e, c, w)
  BY <1>1, <1>v, LinkFields
<1>w. w \in Trees
  BY <1>3 DEF LinkSpec
<1>4. LinkSpec(w, c, d, n, u)
  BY <1>u, <1>1, <1>w, LinkFields
<1>6. \A m \in Nodes : ParentOf(u, m) = IF m = n THEN c ELSE IF m = c THEN p
                                        ELSE IF m = b THEN n ELSE ParentOf(t, m)
  BY <1>2, <1>3, <1>4 DEF LinkSpec
<1>7. \A m \in Nodes, f \in Dirs :
        Child(u, m, f) = IF m = c /\ f = d THEN n
                         ELSE IF m = p /\ f = e THEN c
                         ELSE IF m = n /\ f = 1 - d THEN b ELSE Child(t, m, f)
  BY <1>2, <1>3, <1>4 DEF o, LinkSpec
<1>8. /\ u \in Trees
      /\ u.Root = IF p = Nil THEN c ELSE t.Root
      /\ \A m \in Nodes : ColorOf(u, m) = ColorOf(t, m) /\ ValueOf(u, m) = ValueOf(t, m)
  BY <1>1, <1>2, <1>3, <1>4 DEF LinkSpec
<1> QED BY <1>6, <1>7, <1>8

(***************************************************************************)
(* What a shape says of its nodes.                                         *)
(***************************************************************************)

LEMMA NodeFacts ==
  ASSUME NEW t, NEW g, Shape(t, g)
  PROVE  /\ t \in Trees /\ Size(g) \in Nat
         /\ \A n \in Nodes : Pos(g, n) \in Int /\ Lo(g, n) \in Int /\ Hi(g, n) \in Int
         /\ \A n \in Nodes : In(g, n) => /\ 1 <= Lo(g, n) /\ Lo(g, n) <= Pos(g, n)
                                         /\ Pos(g, n) <= Hi(g, n) /\ Hi(g, n) <= Size(g)
                                         /\ At(g, Pos(g, n)) = n
         /\ \A i \in Int : 1 <= i /\ i <= Size(g) =>
              At(g, i) \in Nodes /\ Pos(g, At(g, i)) = i /\ In(g, At(g, i))
  BY DEF Shape, Numbered, Within, In

LEMMA SamePos ==
  ASSUME NEW t, NEW g, Shape(t, g), NEW m \in Nodes, NEW n \in Nodes, In(g, m), In(g, n),
         Pos(g, m) = Pos(g, n)
  PROVE  m = n
  BY NodeFacts

LEMMA ChildFacts ==
  ASSUME NEW t, NEW g, Shape(t, g), NEW n \in Nodes, In(g, n)
  PROVE  /\ Child(t, n, 0) \in Ref /\ Child(t, n, 1) \in Ref
         /\ Child(t, n, 0) = Nil => Lo(g, n) = Pos(g, n)
         /\ Child(t, n, 0) # Nil =>
              /\ Child(t, n, 0) \in Nodes /\ In(g, Child(t, n, 0))
              /\ Lo(g, Child(t, n, 0)) = Lo(g, n) /\ Hi(g, Child(t, n, 0)) = Pos(g, n) - 1
              /\ ParentOf(t, Child(t, n, 0)) = n
         /\ Child(t, n, 1) = Nil => Hi(g, n) = Pos(g, n)
         /\ Child(t, n, 1) # Nil =>
              /\ Child(t, n, 1) \in Nodes /\ In(g, Child(t, n, 1))
              /\ Lo(g, Child(t, n, 1)) = Pos(g, n) + 1 /\ Hi(g, Child(t, n, 1)) = Hi(g, n)
              /\ ParentOf(t, Child(t, n, 1)) = n
<1>1. t \in Trees /\ ChildRight(t, g, n, 0) /\ ChildRight(t, g, n, 1)
  BY DEF Shape, Dirs
<1>2. Child(t, n, 0) \in Ref /\ Child(t, n, 1) \in Ref
  BY <1>1, FieldTypes DEF Dirs
<1>3. /\ Lo(g, n) <= Pos(g, n) /\ Pos(g, n) <= Hi(g, n)
      /\ Pos(g, n) \in Int /\ Lo(g, n) \in Int /\ Hi(g, n) \in Int
  BY NodeFacts
<1> QED BY <1>1, <1>2, <1>3, NilIsNoNode DEF ChildRight

LEMMA ParentFacts ==
  ASSUME NEW t, NEW g, Shape(t, g), NEW n \in Nodes, In(g, n), n # t.Root,
         NEW p, p = ParentOf(t, n)
  PROVE  /\ p \in Nodes /\ In(g, p) /\ p # n
         /\ \/ /\ Child(t, p, 0) = n /\ Child(t, p, 1) # n
               /\ Lo(g, n) = Lo(g, p) /\ Hi(g, n) = Pos(g, p) - 1
            \/ /\ Child(t, p, 1) = n /\ Child(t, p, 0) # n
               /\ Lo(g, n) = Pos(g, p) + 1 /\ Hi(g, n) = Hi(g, p)
<1>1. t \in Trees /\ ParentRight(t, g, n)
  BY DEF Shape
<1>2. p \in Ref /\ p # Nil
  BY <1>1, FieldTypes DEF ParentRight
<1>3. p \in Nodes /\ In(g, p) /\ (Child(t, p, 0) = n \/ Child(t, p, 1) = n)
  BY <1>1, <1>2, NilIsNoNode DEF ParentRight
<1>4. n # Nil
  BY NilIsNoNode
<1> QED BY <1>3, <1>4, ChildFacts, NodeFacts

LEMMA RootFacts ==
  ASSUME NEW t, NEW g, Shape(t, g)
  PROVE  /\ t.Root \in Ref
         /\ t.Root = Nil <=> Size(g) = 0
         /\ t.Root # Nil => /\ t.Root \in Nodes /\ In(g, t.Root) /\ ParentOf(t, t.Root) = Nil
                            /\ Lo(g, t.Root) = 1 /\ Hi(g, t.Root) = Size(g)
<1>1. t \in Trees /\ RootRight(t, g)
  BY DEF Shape
<1>2. t.Root \in Ref
  BY <1>1, FieldTypes
<1> QED BY <1>1, <1>2, NilIsNoNode, NodeFacts DEF RootRight

LEMMA LeastNumber ==
  ASSUME NEW S \in SUBSET Nat, S # {}
  PROVE  \E k \in S : \A j \in S : k <= j
<1>1. PICK x \in S : \A y \in S : ~(<<y, x>> \in OpToRel(<, Nat))
  BY NatLessThanWellFounded, WFMin
<1>2. ASSUME NEW y \in S PROVE x <= y
  <2>1. x \in Nat /\ y \in Nat
    OBVIOUS
  <2>2. y < x => <<y, x>> \in OpToRel(<, Nat)
    BY <2>1 DEF OpToRel
  <2>3. ~ (<<y, x>> \in OpToRel(<, Nat))
    BY <1>1
  <2>4. ~ (y < x)
    BY <2>2, <2>3
  <2> QED BY <2>1, <2>4
<1> QED BY <1>2

\* The nodes below m and those below n, m # n: no node is below both, or
\* one of m and n is below the other.
Apart(g, m, n) ==
  \/ Hi(g, m) < Lo(g, n)
  \/ Hi(g, n) < Lo(g, m)
  \/ Lo(g, n) <= Lo(g, m) /\ Hi(g, m) <= Hi(g, n) /\ ~Within(g, Pos(g, n), m)
  \/ Lo(g, m) <= Lo(g, n) /\ Hi(g, n) <= Hi(g, m) /\ ~Within(g, Pos(g, m), n)

LEMMA Nested ==
  ASSUME NEW t, NEW g, Shape(t, g)
  PROVE  \A m, n \in Nodes : In(g, m) /\ In(g, n) /\ m # n => Apart(g, m, n)
<1> DEFINE Bad(m, n) == In(g, m) /\ In(g, n) /\ m # n /\ ~Apart(g, m, n)
           W(m, n) == 2 * Size(g) - (Hi(g, m) - Lo(g, m)) - (Hi(g, n) - Lo(g, n))
           S == {k \in Nat : \E m, n \in Nodes : Bad(m, n) /\ k = W(m, n)}
<1> SUFFICES ASSUME NEW x \in Nodes, NEW y \in Nodes, Bad(x, y) PROVE FALSE
  OBVIOUS
<1>1. \A m, n \in Nodes : Bad(m, n) => W(m, n) \in Nat
  BY NodeFacts
<1>2. S \in SUBSET Nat /\ S # {}
  BY <1>1
<1>3. PICK k \in S : \A j \in S : k <= j
  BY <1>2, LeastNumber
<1>4. PICK m \in Nodes, n \in Nodes : Bad(m, n) /\ k = W(m, n)
  BY <1>3
<1>5. \A a, b \in Nodes : Bad(a, b) => W(m, n) <= W(a, b)
  BY <1>1, <1>3, <1>4
<1>6. /\ In(g, m) /\ In(g, n) /\ m # n /\ ~Apart(g, m, n)
      /\ \A a, b \in Nodes : In(g, a) /\ In(g, b) /\ a # b /\ W(a, b) < W(m, n) => Apart(g, a, b)
  <2> HIDE DEF W
  <2>1. \A a, b \in Nodes : Bad(a, b) => W(a, b) \in Int /\ W(m, n) \in Int
    BY <1>1, <1>4
  <2> QED BY <1>4, <1>5, <2>1
<1> HIDE DEF Bad, S
<1>7. /\ Pos(g, m) \in Int /\ Lo(g, m) \in Int /\ Hi(g, m) \in Int /\ Size(g) \in Int
      /\ Pos(g, n) \in Int /\ Lo(g, n) \in Int /\ Hi(g, n) \in Int
      /\ 1 <= Lo(g, m) /\ Lo(g, m) <= Pos(g, m) /\ Pos(g, m) <= Hi(g, m) /\ Hi(g, m) <= Size(g)
      /\ 1 <= Lo(g, n) /\ Lo(g, n) <= Pos(g, n) /\ Pos(g, n) <= Hi(g, n) /\ Hi(g, n) <= Size(g)
  BY <1>6, NodeFacts
\* the root is apart from every other node
<1>8. ASSUME NEW r \in Nodes, r = t.Root, NEW a \in Nodes, In(g, a), a # r,
             \A q \in Nodes : In(g, q) /\ q # r /\ W(q, r) < W(a, r) => Apart(g, q, r)
      PROVE  Apart(g, a, r)
  <2>1. Lo(g, r) = 1 /\ Hi(g, r) = Size(g) /\ In(g, r)
    BY <1>8, RootFacts, NilIsNoNode
  <2>2. PICK q : q = ParentOf(t, a)
    OBVIOUS
  <2>3. /\ q \in Nodes /\ In(g, q)
        /\ \/ Lo(g, a) = Lo(g, q) /\ Hi(g, a) = Pos(g, q) - 1
           \/ Lo(g, a) = Pos(g, q) + 1 /\ Hi(g, a) = Hi(g, q)
    BY <1>8, <2>2, ParentFacts
  <2>4. /\ Pos(g, a) \in Int /\ Lo(g, a) \in Int /\ Hi(g, a) \in Int /\ Size(g) \in Int
        /\ Pos(g, q) \in Int /\ Lo(g, q) \in Int /\ Hi(g, q) \in Int
        /\ Pos(g, r) \in Int
        /\ 1 <= Lo(g, a) /\ Lo(g, a) <= Pos(g, a) /\ Pos(g, a) <= Hi(g, a) /\ Hi(g, a) <= Size(g)
        /\ 1 <= Lo(g, q) /\ Lo(g, q) <= Pos(g, q) /\ Pos(g, q) <= Hi(g, q) /\ Hi(g, q) <= Size(g)
        /\ 1 <= Pos(g, r) /\ Pos(g, r) <= Size(g)
    BY <1>8, <2>1, <2>3, NodeFacts
  <2>5. CASE q = r
    BY <2>1, <2>3, <2>4, <2>5 DEF Apart, Within
  <2>6. CASE q # r
    <3>1. W(q, r) < W(a, r)
      BY <2>1, <2>3, <2>4
    <3>2. Apart(g, q, r)
      BY <1>8, <2>3, <2>6, <3>1
    <3> QED BY <2>1, <2>3, <2>4, <3>2 DEF Apart, Within
  <2> QED BY <2>5, <2>6
<1>9. CASE n = t.Root
  BY <1>6, <1>8, <1>9
<1>10. CASE m = t.Root
  <2>1. \A q \in Nodes : In(g, q) /\ q # m /\ W(q, m) < W(n, m) => Apart(g, q, m)
    <3> SUFFICES ASSUME NEW q \in Nodes, In(g, q), q # m, W(q, m) < W(n, m) PROVE Apart(g, q, m)
      OBVIOUS
    <3>1. W(q, m) < W(m, n)
      BY <1>7, NodeFacts
    <3> QED BY <1>6, <3>1
  <2>2. Apart(g, n, m)
    BY <1>6, <1>8, <1>10, <2>1
  <2> QED BY <1>6, <1>7, <2>2 DEF Apart
<1>11. CASE m # t.Root /\ n # t.Root
  <2> PICK q, p : q = ParentOf(t, m) /\ p = ParentOf(t, n)
    OBVIOUS
  <2>1. /\ q \in Nodes /\ In(g, q) /\ q # m
        /\ \/ /\ Child(t, q, 0) = m
              /\ Lo(g, m) = Lo(g, q) /\ Hi(g, m) = Pos(g, q) - 1
           \/ /\ Child(t, q, 1) = m
              /\ Lo(g, m) = Pos(g, q) + 1 /\ Hi(g, m) = Hi(g, q)
    BY <1>6, <1>11, ParentFacts
  <2>2. /\ p \in Nodes /\ In(g, p) /\ p # n
        /\ \/ /\ Child(t, p, 0) = n
              /\ Lo(g, n) = Lo(g, p) /\ Hi(g, n) = Pos(g, p) - 1
           \/ /\ Child(t, p, 1) = n
              /\ Lo(g, n) = Pos(g, p) + 1 /\ Hi(g, n) = Hi(g, p)
    BY <1>6, <1>11, ParentFacts
  <2>3. /\ Pos(g, p) \in Int /\ Lo(g, p) \in Int /\ Hi(g, p) \in Int
        /\ Pos(g, q) \in Int /\ Lo(g, q) \in Int /\ Hi(g, q) \in Int
        /\ 1 <= Lo(g, p) /\ Lo(g, p) <= Pos(g, p) /\ Pos(g, p) <= Hi(g, p) /\ Hi(g, p) <= Size(g)
        /\ 1 <= Lo(g, q) /\ Lo(g, q) <= Pos(g, q) /\ Pos(g, q) <= Hi(g, q) /\ Hi(g, q) <= Size(g)
    BY <2>1, <2>2, NodeFacts
  <2>4. W(m, p) < W(m, n) /\ W(q, n) < W(m, n) /\ W(p, q) < W(m, n)
    BY <1>7, <2>1, <2>2, <2>3
  <2>5. p # m /\ q # n
    BY <1>6, <1>7, <2>1, <2>2, <2>3 DEF Apart, Within
  <2>6. Apart(g, m, p) /\ Apart(g, q, n)
    BY <1>6, <2>1, <2>2, <2>4, <2>5
  <2>7. CASE p = q
    BY <1>6, <1>7, <2>1, <2>2, <2>3, <2>7 DEF Apart
  <2>8. CASE p # q
    <3>1. Apart(g, p, q)
      BY <1>6, <2>1, <2>2, <2>4, <2>8
    <3> QED BY <1>6, <1>7, <2>1, <2>2, <2>3, <2>6, <3>1 DEF Apart, Within
  <2> QED BY <2>7, <2>8
<1> QED BY <1>6, <1>9, <1>10, <1>11

(***************************************************************************)
(* What the walks over a tree find.  Each is a recursive function, which   *)
(* is the only one that satisfies its equation since a tree has no cycle.  *)
(***************************************************************************)

\* Two functions that agree on a node when they agree on its children agree.
LEMMA Agree ==
  ASSUME NEW t, NEW g, Shape(t, g), NEW f, NEW h,
         \A m \in Nodes :
           (\A d \in Dirs : Child(t, m, d) # Nil => f[Child(t, m, d)] = h[Child(t, m, d)])
             => f[m] = h[m]
  PROVE  \A m \in Nodes : f[m] = h[m]
<1> DEFINE W(m) == Hi(g, m) - Lo(g, m)
           S == {k \in Nat : \E m \in Nodes : In(g, m) /\ f[m] # h[m] /\ k = W(m)}
<1>1. \A m \in Nodes : In(g, m) => W(m) \in Nat
  BY NodeFacts
<1>2. ASSUME NEW x \in Nodes, In(g, x) PROVE f[x] = h[x]
  <2> SUFFICES ASSUME f[x] # h[x] PROVE FALSE
    OBVIOUS
  <2>1. S \in SUBSET Nat /\ S # {}
    BY <1>1, <1>2
  <2>2. PICK k \in S : \A j \in S : k <= j
    BY <2>1, LeastNumber
  <2>3. PICK m \in Nodes : In(g, m) /\ f[m] # h[m] /\ k = W(m)
    BY <2>2
  <2>4. \A c \in Nodes : In(g, c) /\ f[c] # h[c] => W(m) <= W(c)
    BY <1>1, <2>2, <2>3
  <2> HIDE DEF S
  <2>5. ASSUME NEW d \in Dirs, Child(t, m, d) # Nil
        PROVE  f[Child(t, m, d)] = h[Child(t, m, d)]
    <3>1. Child(t, m, d) \in Nodes /\ In(g, Child(t, m, d)) /\ W(Child(t, m, d)) < W(m)
      BY <2>3, <2>5, ChildFacts, NodeFacts DEF Dirs
    <3>2. W(Child(t, m, d)) \in Nat /\ W(m) \in Nat
      BY <1>1, <2>3, <3>1
    <3> HIDE DEF W
    <3> QED BY <2>4, <3>1, <3>2
  <2> QED BY <2>3, <2>5
<1>3. ASSUME NEW m \in Nodes, ~In(g, m) PROVE f[m] = h[m]
  <2>1. \A d \in Dirs : Child(t, m, d) # Nil => Child(t, m, d) \in Nodes /\ In(g, Child(t, m, d))
    <3>1. t \in Trees
      BY DEF Shape
    <3>2. \A d \in Dirs : Child(t, m, d) \in Ref
      BY <3>1, FieldTypes
    <3> QED BY <1>3, <3>2, NilIsNoNode DEF Shape
  <2> QED BY <1>2, <2>1
<1> QED BY <1>2, <1>3

End(g, n, d) == IF d = 0 THEN Lo(g, n) ELSE Hi(g, n)

LEMMA ExtremeIs ==
  ASSUME NEW t, NEW g, Shape(t, g), NEW n \in Nodes, In(g, n), NEW d \in Dirs
  PROVE  Extreme(t, n, d) = At(g, End(g, n, d))
<1> DEFINE E(m) == At(g, End(g, m, d))
           F == [m \in Nodes |-> IF In(g, m) THEN E(m)
                                 ELSE IF Child(t, m, d) = Nil THEN m ELSE E(Child(t, m, d))]
           Q(f) == f = [m \in Nodes |-> IF Child(t, m, d) = Nil THEN m ELSE f[Child(t, m, d)]]
<1>0. \A m \in Nodes : Child(t, m, d) # Nil => Child(t, m, d) \in Nodes /\ In(g, Child(t, m, d))
  <2>1. \A m \in Nodes : Child(t, m, d) \in Ref
    BY FieldTypes DEF Shape
  <2> QED BY <2>1, ChildFacts, NilIsNoNode DEF Shape, Dirs
<1>1. ASSUME NEW m \in Nodes
      PROVE  F[m] = IF Child(t, m, d) = Nil THEN m ELSE F[Child(t, m, d)]
  <2>1. CASE In(g, m)
    <3>1. Child(t, m, d) = Nil => E(m) = m
      BY <2>1, ChildFacts, NodeFacts DEF End, Dirs
    <3>2. Child(t, m, d) # Nil => End(g, m, d) = End(g, Child(t, m, d), d)
      BY <2>1, ChildFacts DEF End, Dirs
    <3> QED BY <1>0, <2>1, <3>1, <3>2
  <2>2. CASE ~In(g, m)
    BY <1>0, <2>2
  <2> QED BY <2>1, <2>2
<1>2. Q(F)
  BY <1>1
<1>3. ASSUME NEW f, Q(f) PROVE f = F
  <2>1. \A m \in Nodes : f[m] = IF Child(t, m, d) = Nil THEN m ELSE f[Child(t, m, d)]
    BY <1>3
  <2> HIDE DEF F
  <2>2. \A m \in Nodes : f[m] = F[m]
    BY <1>1, <2>1, Agree
  <2>3. DOMAIN f = Nodes /\ f = [m \in Nodes |-> f[m]]
    BY <1>3
  <2>4. F = [m \in Nodes |-> F[m]]
    BY DEF F
  <2> QED BY <2>2, <2>3, <2>4
<1>4. F[n] = E(n)
  OBVIOUS
<1>5. Extreme(t, n, d) = (CHOOSE f : Q(f))[n]
  BY DEF Extreme
<1> HIDE DEF Q, F
<1>6. (CHOOSE f : Q(f)) = F
  BY <1>2, <1>3
<1> QED BY <1>4, <1>5, <1>6

LEMMA ChildTypes ==
  ASSUME NEW t, NEW g, Shape(t, g), NEW m \in Nodes, NEW d \in Dirs, Child(t, m, d) # Nil
  PROVE  Child(t, m, d) \in Nodes /\ In(g, Child(t, m, d))
<1>1. Child(t, m, d) \in Ref
  BY FieldTypes DEF Shape
<1> QED BY <1>1, ChildFacts, NilIsNoNode DEF Shape, Dirs

LEMMA LinkedIs ==
  ASSUME NEW t, NEW g, Shape(t, g)
  PROVE  Linked(t) = {n \in Nodes : In(g, n)}
<1> DEFINE B(m) == IF m = Nil THEN {} ELSE {k \in Nodes : In(g, k) /\ Within(g, Pos(g, k), m)}
           F == [m \in Ref |-> IF m = Nil \/ In(g, m) THEN B(m)
                               ELSE {m} \cup B(Child(t, m, 0)) \cup B(Child(t, m, 1))]
           Q(f) == f = [m \in Ref |-> IF m = Nil THEN {}
                                      ELSE {m} \cup f[Child(t, m, 0)] \cup f[Child(t, m, 1)]]
<1>0. \A m \in Nodes : Child(t, m, 0) \in Ref /\ Child(t, m, 1) \in Ref
  BY FieldTypes DEF Shape, Dirs
<1>1. ASSUME NEW m \in Ref
      PROVE  F[m] = IF m = Nil THEN {} ELSE {m} \cup F[Child(t, m, 0)] \cup F[Child(t, m, 1)]
  <2>1. CASE m = Nil
    BY <2>1
  <2>2. CASE m # Nil
    <3>1. m \in Nodes
      BY <2>2, NilIsNoNode
    <3>2. F[Child(t, m, 0)] = B(Child(t, m, 0)) /\ F[Child(t, m, 1)] = B(Child(t, m, 1))
      BY <1>0, <3>1, ChildTypes DEF Dirs
    <3>3. CASE In(g, m)
      <4>1. \A k \in Nodes : In(g, k) =>
              ( Within(g, Pos(g, k), m) <=>
                  \/ k = m
                  \/ Child(t, m, 0) # Nil /\ Within(g, Pos(g, k), Child(t, m, 0))
                  \/ Child(t, m, 1) # Nil /\ Within(g, Pos(g, k), Child(t, m, 1)) )
        BY <3>1, <3>3, ChildFacts, NodeFacts DEF Within
      <4>2. F[m] = B(m)
        BY <3>3
      <4> HIDE DEF F
      <4>3. B(m) = {m} \cup B(Child(t, m, 0)) \cup B(Child(t, m, 1))
        BY <2>2, <3>1, <3>3, <4>1
      <4> QED BY <2>2, <3>2, <4>2, <4>3
    <3>4. CASE ~In(g, m)
      BY <2>2, <3>2, <3>4
    <3> QED BY <3>3, <3>4
  <2> QED BY <2>1, <2>2
<1>2. Q(F)
  BY <1>1
<1>3. ASSUME NEW f, Q(f) PROVE f = F
  <2>1. \A m \in Ref : f[m] = IF m = Nil THEN {}
                              ELSE {m} \cup f[Child(t, m, 0)] \cup f[Child(t, m, 1)]
    BY <1>3
  <2>2. DOMAIN f = Ref /\ f = [m \in Ref |-> f[m]]
    BY <1>3
  <2>3. F = [m \in Ref |-> F[m]]
    OBVIOUS
  <2> HIDE DEF F
  <2>4. ASSUME NEW m \in Nodes,
               \A d \in Dirs : Child(t, m, d) # Nil => f[Child(t, m, d)] = F[Child(t, m, d)]
        PROVE  f[m] = F[m]
    <3>1. f[Nil] = F[Nil]
      BY <1>1, <2>1 DEF Ref
    <3>2. f[Child(t, m, 0)] = F[Child(t, m, 0)] /\ f[Child(t, m, 1)] = F[Child(t, m, 1)]
      BY <2>4, <3>1 DEF Dirs
    <3>3. m \in Ref /\ m # Nil
      BY NilIsNoNode DEF Ref
    <3>4. f[m] = {m} \cup f[Child(t, m, 0)] \cup f[Child(t, m, 1)]
      BY <2>1, <3>3
    <3>5. F[m] = {m} \cup F[Child(t, m, 0)] \cup F[Child(t, m, 1)]
      BY <1>1, <3>3
    <3> QED BY <3>2, <3>4, <3>5
  <2>5. \A m \in Nodes : f[m] = F[m]
    BY <2>4, Agree
  <2>6. f[Nil] = F[Nil]
    BY <1>1, <2>1 DEF Ref
  <2> QED BY <2>2, <2>3, <2>5, <2>6 DEF Ref
<1>4. t.Root \in Ref /\ F[t.Root] = B(t.Root)
  BY RootFacts
<1>5. B(t.Root) = {n \in Nodes : In(g, n)}
  BY RootFacts, NodeFacts DEF Within, In
<1>6. Linked(t) = (CHOOSE f : Q(f))[t.Root]
  BY DEF Linked
<1> HIDE DEF Q, F, B
<1>7. (CHOOSE f : Q(f)) = F
  BY <1>2, <1>3
<1> QED BY <1>4, <1>5, <1>6, <1>7

\* The same as Agree, from the root down.
LEMMA AgreeDown ==
  ASSUME NEW t, NEW g, Shape(t, g), NEW f, NEW h,
         \A m \in Nodes : /\ In(g, m)
                          /\ m # t.Root => f[ParentOf(t, m)] = h[ParentOf(t, m)]
                          => f[m] = h[m]
  PROVE  \A m \in Nodes : In(g, m) => f[m] = h[m]
<1> DEFINE W(m) == Size(g) - (Hi(g, m) - Lo(g, m))
           S == {k \in Nat : \E m \in Nodes : In(g, m) /\ f[m] # h[m] /\ k = W(m)}
<1>1. \A m \in Nodes : In(g, m) => W(m) \in Nat
  BY NodeFacts
<1> SUFFICES ASSUME NEW x \in Nodes, In(g, x), f[x] # h[x] PROVE FALSE
  OBVIOUS
<1>2. S \in SUBSET Nat /\ S # {}
  BY <1>1
<1>3. PICK k \in S : \A j \in S : k <= j
  BY <1>2, LeastNumber
<1>4. PICK m \in Nodes : In(g, m) /\ f[m] # h[m] /\ k = W(m)
  BY <1>3
<1>5. \A c \in Nodes : In(g, c) /\ f[c] # h[c] => W(m) <= W(c)
  BY <1>1, <1>3, <1>4
<1> HIDE DEF S
<1>6. ASSUME m # t.Root PROVE f[ParentOf(t, m)] = h[ParentOf(t, m)]
  <2> PICK p : p = ParentOf(t, m)
    OBVIOUS
  <2>1. p \in Nodes /\ In(g, p) /\ W(p) < W(m)
    BY <1>4, <1>6, ParentFacts, NodeFacts
  <2>2. W(p) \in Nat /\ W(m) \in Nat
    BY <1>1, <1>4, <2>1
  <2> HIDE DEF W
  <2> QED BY <1>5, <2>1, <2>2
<1> QED BY <1>4, <1>6

Beside(g, n, d) ==
  IF d = 1 THEN (IF Pos(g, n) = Size(g) THEN Nil ELSE At(g, Pos(g, n) + 1))
  ELSE IF Pos(g, n) = 1 THEN Nil ELSE At(g, Pos(g, n) - 1)

LEMMA NeighbourIs ==
  ASSUME NEW t, NEW g, Shape(t, g), Outside(t, g), NEW n \in Nodes, In(g, n), NEW d \in Dirs
  PROVE  Neighbour(t, n, d) = Beside(g, n, d)
<1> DEFINE B(m) == IF d = 1 THEN (IF Hi(g, m) = Size(g) THEN Nil ELSE At(g, Hi(g, m) + 1))
                   ELSE IF Lo(g, m) = 1 THEN Nil ELSE At(g, Lo(g, m) - 1)
           F == [m \in Nodes |-> IF In(g, m) THEN B(m) ELSE Nil]
           Up(f, m) == IF ParentOf(t, m) # Nil /\ m = Child(t, ParentOf(t, m), d)
                       THEN f[ParentOf(t, m)] ELSE ParentOf(t, m)
           Q(f) == f = [m \in Nodes |-> Up(f, m)]
<1>1. ASSUME NEW m \in Nodes PROVE F[m] = Up(F, m)
  <2>1. CASE ~In(g, m)
    BY <2>1, NilIsNoNode DEF Outside, Blank, ParentOf
  <2>2. CASE In(g, m) /\ m = t.Root
    <3>1. ParentOf(t, m) = Nil /\ Lo(g, m) = 1 /\ Hi(g, m) = Size(g)
      BY <2>2, RootFacts, NilIsNoNode
    <3> QED BY <2>2, <3>1 DEF Dirs
  <2>3. CASE In(g, m) /\ m # t.Root
    <3> PICK p : p = ParentOf(t, m)
      OBVIOUS
    <3>1. /\ p \in Nodes /\ In(g, p) /\ p # Nil
          /\ \/ /\ Child(t, p, 0) = m /\ Child(t, p, 1) # m
                /\ Lo(g, m) = Lo(g, p) /\ Hi(g, m) = Pos(g, p) - 1
             \/ /\ Child(t, p, 1) = m /\ Child(t, p, 0) # m
                /\ Lo(g, m) = Pos(g, p) + 1 /\ Hi(g, m) = Hi(g, p)
      BY <2>3, ParentFacts, NilIsNoNode
    <3>2. /\ Pos(g, p) \in Int /\ Hi(g, m) \in Int /\ Lo(g, m) \in Int /\ Size(g) \in Int
          /\ 1 <= Lo(g, p) /\ Lo(g, p) <= Pos(g, p) /\ Lo(g, p) \in Int
          /\ Pos(g, p) <= Hi(g, p) /\ Hi(g, p) <= Size(g) /\ Hi(g, p) \in Int
          /\ At(g, Pos(g, p)) = p
      BY <3>1, NodeFacts
    <3>3. m = Child(t, p, d) => B(m) = B(p)
      BY <3>1, <3>2 DEF Dirs
    <3>4. m # Child(t, p, d) => B(m) = p
      BY <3>1, <3>2 DEF Dirs
    <3> HIDE DEF B
    <3> QED BY <2>3, <3>1, <3>3, <3>4
  <2> QED BY <2>1, <2>2, <2>3
<1>2. Q(F)
  BY <1>1
<1>3. ASSUME NEW f, Q(f) PROVE f = F
  <2>1. \A m \in Nodes : f[m] = Up(f, m)
    BY <1>3
  <2>2. DOMAIN f = Nodes /\ f = [m \in Nodes |-> f[m]]
    BY <1>3
  <2>3. F = [m \in Nodes |-> F[m]]
    OBVIOUS
  <2> HIDE DEF F
  <2>4. \A m \in Nodes : In(g, m) => f[m] = F[m]
    <3>1. ASSUME NEW m \in Nodes, In(g, m), m # t.Root => f[ParentOf(t, m)] = F[ParentOf(t, m)]
          PROVE  f[m] = F[m]
      <4>1. m = t.Root => ParentOf(t, m) = Nil
        BY RootFacts, NilIsNoNode
      <4> QED BY <1>1, <2>1, <3>1, <4>1
    <3> QED BY <3>1, AgreeDown
  <2>5. \A m \in Nodes : ~In(g, m) => f[m] = F[m]
    <3>1. \A m \in Nodes : ~In(g, m) => ParentOf(t, m) = Nil
      BY DEF Outside, Blank, ParentOf
    <3> QED BY <1>1, <2>1, <3>1
  <2> QED BY <2>2, <2>3, <2>4, <2>5
<1>4. F[n] = B(n)
  OBVIOUS
<1>5. Neighbour(t, n, d) = IF Child(t, n, d) # Nil THEN Extreme(t, Child(t, n, d), 1 - d)
                           ELSE (CHOOSE f : Q(f))[n]
  BY DEF Neighbour
<1> HIDE DEF Q, F
<1>6. (CHOOSE f : Q(f)) = F
  BY <1>2, <1>3
<1>7. CASE Child(t, n, d) = Nil
  <2>1. B(n) = Beside(g, n, d)
    BY <1>7, ChildFacts DEF Beside, Dirs
  <2> QED BY <1>4, <1>5, <1>6, <1>7, <2>1
<1>8. CASE Child(t, n, d) # Nil
  <2> PICK c : c = Child(t, n, d)
    OBVIOUS
  <2>1. c \in Nodes /\ In(g, c) /\ 1 - d \in Dirs
    BY <1>8, ChildTypes DEF Dirs
  <2>2. Extreme(t, c, 1 - d) = At(g, End(g, c, 1 - d))
    BY <2>1, ExtremeIs
  <2>3. At(g, End(g, c, 1 - d)) = Beside(g, n, d)
    BY <1>8, <2>1, ChildFacts, NodeFacts DEF Beside, End, Dirs
  <2> QED BY <1>5, <1>8, <2>2, <2>3
<1> QED BY <1>7, <1>8

(***************************************************************************)
(* Searching.  k is the number of nodes that v comes after.                *)
(***************************************************************************)

Gap(t, g, v, k) ==
  /\ k \in Nat /\ k <= Size(g)
  /\ \A n \in Nodes : In(g, n) => (v < ValueOf(t, n) <=> k < Pos(g, n))

LEMMA GapExists ==
  ASSUME NEW t, NEW g, Shape(t, g), Ordered(t, g), NEW v \in Keys
  PROVE  \E k \in Nat : Gap(t, g, v, k)
<1> DEFINE T(j) == j = Size(g) + 1 \/ (j <= Size(g) /\ v < ValueOf(t, At(g, j)))
           S == {j \in Nat : 1 <= j /\ T(j)}
<1>0. Size(g) \in Nat /\ Keys \subseteq Int
  BY NodeFacts, RBTreeAssumption
<1>1. S \in SUBSET Nat /\ Size(g) + 1 \in S
  <2>1. Size(g) + 1 \in Nat /\ 1 <= Size(g) + 1
    BY <1>0
  <2>2. T(Size(g) + 1)
    OBVIOUS
  <2> HIDE DEF T
  <2>3. Size(g) + 1 \in S
    BY <2>1, <2>2
  <2>4. S \in SUBSET Nat
    OBVIOUS
  <2> QED BY <2>3, <2>4
<1>2. PICK j \in S : \A i \in S : j <= i
  BY <1>1, LeastNumber
<1>3. j \in Nat /\ 1 <= j /\ j <= Size(g) + 1
  BY <1>0, <1>1, <1>2
<1>4. ASSUME NEW n \in Nodes, In(g, n) PROVE v < ValueOf(t, n) <=> j - 1 < Pos(g, n)
  <2>1. Pos(g, n) \in Nat /\ 1 <= Pos(g, n) /\ Pos(g, n) <= Size(g) /\ At(g, Pos(g, n)) = n
    BY <1>4, NodeFacts
  <2>2. v < ValueOf(t, n) => j <= Pos(g, n)
    BY <1>2, <2>1
  <2>3. ASSUME j <= Pos(g, n) PROVE v < ValueOf(t, n)
    <3>1. j <= Size(g) /\ v < ValueOf(t, At(g, j))
      BY <1>0, <1>2, <1>3, <2>1, <2>3
    <3>2. At(g, j) \in Nodes /\ In(g, At(g, j)) /\ Pos(g, At(g, j)) = j
      BY <1>3, <3>1, NodeFacts
    <3>3. ValueOf(t, At(g, j)) \in Int /\ ValueOf(t, n) \in Int /\ v \in Int
      BY <1>0, <1>4, <3>2 DEF Ordered
    <3>4. CASE j = Pos(g, n)
      BY <2>1, <3>1, <3>4
    <3>5. CASE j # Pos(g, n)
      <4>1. ValueOf(t, At(g, j)) <= ValueOf(t, n)
        BY <1>3, <1>4, <2>1, <2>3, <3>2, <3>5 DEF Ordered
      <4> QED BY <3>1, <3>3, <4>1
    <3> QED BY <3>4, <3>5
  <2> QED BY <1>3, <2>1, <2>2, <2>3
<1>5. j - 1 \in Nat /\ j - 1 <= Size(g)
  BY <1>0, <1>3
<1> QED BY <1>4, <1>5 DEF Gap

LEMMA WayIs ==
  ASSUME NEW t, NEW g, NEW v, NEW k, Gap(t, g, v, k), NEW m \in Nodes, In(g, m)
  PROVE  Way(t, m, v) = IF k < Pos(g, m) THEN 0 ELSE 1
  BY DEF Gap, Way

\* The search last goes right at the k-th node and last left at the next one.
LEMMA LastTurnIs ==
  ASSUME NEW t, NEW g, Shape(t, g), NEW v, NEW k, Gap(t, g, v, k), NEW d \in Dirs
  PROVE  LastTurn(t, v, d) = IF d = 1 THEN (IF k = 0 THEN Nil ELSE At(g, k))
                             ELSE IF k = Size(g) THEN Nil ELSE At(g, k + 1)
<1> DEFINE K(m) == IF k <= Hi(g, m) THEN k ELSE Hi(g, m)
           L(m) == IF Lo(g, m) <= k + 1 THEN k + 1 ELSE Lo(g, m)
           B(m) == IF d = 1 THEN (IF K(m) < Lo(g, m) THEN Nil ELSE At(g, K(m)))
                   ELSE IF Hi(g, m) < L(m) THEN Nil ELSE At(g, L(m))
           C(m) == Child(t, m, Way(t, m, v))
           G(b, m) == IF b = Nil /\ Way(t, m, v) = d THEN m ELSE b
           H(m) == IF m = Nil THEN Nil ELSE B(m)
           F == [m \in Ref |-> IF m = Nil THEN Nil ELSE IF In(g, m) THEN B(m) ELSE G(H(C(m)), m)]
           Q(f) == f = [m \in Ref |-> IF m = Nil THEN Nil ELSE G(f[C(m)], m)]
<1>0. \A m \in Nodes : C(m) \in Ref /\ Way(t, m, v) \in Dirs
  BY FieldTypes DEF Shape, Way, Dirs
<1>1. ASSUME NEW m \in Nodes PROVE F[m] = G(F[C(m)], m)
  <2>0. m \in Ref /\ m # Nil
    BY NilIsNoNode DEF Ref
  <2>1. F[C(m)] = H(C(m))
    BY <1>0, ChildTypes
  <2>2. CASE In(g, m)
    <3>1. Way(t, m, v) = IF k < Pos(g, m) THEN 0 ELSE 1
      BY <2>2, WayIs
    <3>2. k \in Nat /\ \A i \in Int : 1 <= i /\ i <= Size(g) => At(g, i) \in Nodes
      BY NodeFacts DEF Gap
    <3>3. B(m) = G(H(C(m)), m)
      BY <2>2, <3>1, <3>2, ChildFacts, NodeFacts, NilIsNoNode DEF Dirs
    <3> HIDE DEF B, G, H, C
    <3> QED BY <2>0, <2>1, <2>2, <3>3
  <2>3. CASE ~In(g, m)
    BY <2>0, <2>1, <2>3
  <2> QED BY <2>2, <2>3
<1>2. Q(F)
  <2>1. \A m \in Ref : F[m] = IF m = Nil THEN Nil ELSE G(F[C(m)], m)
    <3> HIDE DEF G, C
    <3>1. F[Nil] = Nil
      BY DEF Ref
    <3> HIDE DEF F
    <3> QED BY <1>1, <3>1, NilIsNoNode
  <2>2. F = [m \in Ref |-> F[m]]
    OBVIOUS
  <2> HIDE DEF F, G, C
  <2> QED BY <2>1, <2>2
<1>3. ASSUME NEW f, Q(f) PROVE f = F
  <2>0. F[Nil] = Nil
    BY DEF Ref
  <2>1. F = [m \in Ref |-> F[m]]
    OBVIOUS
  <2> HIDE DEF F, G, C
  <2>2. \A m \in Ref : f[m] = IF m = Nil THEN Nil ELSE G(f[C(m)], m)
    BY <1>3
  <2>3. DOMAIN f = Ref /\ f = [m \in Ref |-> f[m]]
    BY <1>3
  <2>4. ASSUME NEW m \in Nodes,
               \A e \in Dirs : Child(t, m, e) # Nil => f[Child(t, m, e)] = F[Child(t, m, e)]
        PROVE  f[m] = F[m]
    <3>1. f[Nil] = Nil
      BY <2>2 DEF Ref
    <3>2. f[C(m)] = F[C(m)]
      BY <1>0, <2>0, <2>4, <3>1 DEF C
    <3>3. m \in Ref /\ m # Nil
      BY NilIsNoNode DEF Ref
    <3> QED BY <1>1, <2>2, <3>2, <3>3
  <2>5. \A m \in Nodes : f[m] = F[m]
    BY <2>4, Agree
  <2>6. f[Nil] = F[Nil]
    BY <2>0, <2>2 DEF Ref
  <2> QED BY <2>1, <2>3, <2>5, <2>6 DEF Ref
<1>4. F[t.Root] = IF d = 1 THEN (IF k = 0 THEN Nil ELSE At(g, k))
                  ELSE IF k = Size(g) THEN Nil ELSE At(g, k + 1)
  BY RootFacts, NodeFacts DEF Gap, Dirs
<1>5. LastTurn(t, v, d) = (CHOOSE f : Q(f))[t.Root]
  BY DEF LastTurn
<1> HIDE DEF Q, F
<1>6. (CHOOSE f : Q(f)) = F
  BY <1>2, <1>3
<1> QED BY <1>4, <1>5, <1>6

\* The node at which the search ends has no child on the side of v.
LEMMA SearchEndIs ==
  ASSUME NEW t, NEW g, Shape(t, g), NEW v, NEW k, Gap(t, g, v, k), t.Root # Nil,
         NEW n, n = SearchEnd(t, v)
  PROVE  /\ n \in Nodes /\ In(g, n) /\ Child(t, n, Way(t, n, v)) = Nil
         /\ Way(t, n, v) \in Dirs
         /\ Way(t, n, v) = 1 => Pos(g, n) = k
         /\ Way(t, n, v) = 0 => Pos(g, n) = k + 1
<1> DEFINE K(m) == IF k <= Hi(g, m) THEN k ELSE Hi(g, m)
           L(m) == IF Lo(g, m) <= k + 1 THEN k + 1 ELSE Lo(g, m)
           B(m) == IF K(m) >= Lo(g, m) /\ Child(t, At(g, K(m)), 1) = Nil THEN At(g, K(m))
                   ELSE At(g, L(m))
           C(m) == Child(t, m, Way(t, m, v))
           F == [m \in Nodes |-> IF In(g, m) THEN B(m) ELSE IF C(m) = Nil THEN m ELSE B(C(m))]
           Q(f) == f = [m \in Nodes |-> IF C(m) = Nil THEN m ELSE f[C(m)]]
<1>0. \A m \in Nodes : Way(t, m, v) \in Dirs /\ (C(m) # Nil => C(m) \in Nodes /\ In(g, C(m)))
  BY ChildTypes DEF Way, Dirs
<1>1. ASSUME NEW m \in Nodes PROVE F[m] = IF C(m) = Nil THEN m ELSE F[C(m)]
  <2>1. CASE In(g, m)
    <3>1. Way(t, m, v) = IF k < Pos(g, m) THEN 0 ELSE 1
      BY <2>1, WayIs
    <3>2. k \in Nat
      BY DEF Gap
    <3>3. C(m) = Nil => B(m) = m
      BY <2>1, <3>1, <3>2, ChildFacts, NodeFacts
    <3>4. C(m) # Nil => B(m) = B(C(m))
      BY <2>1, <3>1, <3>2, ChildFacts, NodeFacts
    <3> HIDE DEF B, C
    <3> QED BY <1>0, <2>1, <3>3, <3>4
  <2>2. CASE ~In(g, m)
    <3> HIDE DEF B, C
    <3> QED BY <1>0, <2>2
  <2> QED BY <2>1, <2>2
<1>2. Q(F)
  <2>1. F = [m \in Nodes |-> F[m]]
    OBVIOUS
  <2> HIDE DEF F, C
  <2> QED BY <1>1, <2>1
<1>3. ASSUME NEW f, Q(f) PROVE f = F
  <2>1. F = [m \in Nodes |-> F[m]]
    OBVIOUS
  <2> HIDE DEF F, C
  <2>2. \A m \in Nodes : f[m] = IF C(m) = Nil THEN m ELSE f[C(m)]
    BY <1>3
  <2>3. DOMAIN f = Nodes /\ f = [m \in Nodes |-> f[m]]
    BY <1>3
  <2>4. ASSUME NEW m \in Nodes,
               \A d \in Dirs : Child(t, m, d) # Nil => f[Child(t, m, d)] = F[Child(t, m, d)]
        PROVE  f[m] = F[m]
    <3>1. C(m) # Nil => f[C(m)] = F[C(m)]
      BY <1>0, <2>4 DEF C
    <3> QED BY <1>1, <2>2, <3>1
  <2>5. \A m \in Nodes : f[m] = F[m]
    BY <2>4, Agree
  <2> QED BY <2>1, <2>3, <2>5
<1> PICK r : r = t.Root
  OBVIOUS
<1>4. /\ r \in Nodes /\ In(g, r) /\ Lo(g, r) = 1 /\ Hi(g, r) = Size(g)
      /\ k \in Nat /\ k <= Size(g) /\ Size(g) \in Nat /\ 1 <= Size(g)
  BY RootFacts, NodeFacts DEF Gap
<1>5. SearchEnd(t, v) = (CHOOSE f : Q(f))[r]
  BY DEF SearchEnd
<1>6. F[r] = B(r)
  BY <1>4
<1> HIDE DEF Q, F
<1>7. (CHOOSE f : Q(f)) = F
  BY <1>2, <1>3
<1>8. n = IF k >= 1 /\ Child(t, At(g, k), 1) = Nil THEN At(g, k) ELSE At(g, k + 1)
  <2>1. n = B(r)
    <3> HIDE DEF B
    <3> QED BY <1>5, <1>6, <1>7
  <2>2. K(r) = k /\ L(r) = k + 1
    BY <1>4
  <2> QED BY <1>4, <2>1, <2>2
<1> HIDE DEF B, C
<1>9. CASE k >= 1 /\ Child(t, At(g, k), 1) = Nil
  <2>1. n \in Nodes /\ In(g, n) /\ Pos(g, n) = k
    BY <1>4, <1>8, <1>9, NodeFacts
  <2>2. Way(t, n, v) = 1
    BY <1>4, <2>1, WayIs
  <2> QED BY <1>8, <1>9, <2>1, <2>2 DEF Dirs
<1>10. CASE ~(k >= 1 /\ Child(t, At(g, k), 1) = Nil)
  <2>1. k + 1 <= Size(g)
    <3> SUFFICES ASSUME k = Size(g) PROVE FALSE
      BY <1>4
    <3> PICK a : a = At(g, k)
      OBVIOUS
    <3>1. a \in Nodes /\ In(g, a) /\ Pos(g, a) = k /\ Child(t, a, 1) # Nil
      BY <1>4, <1>10, NodeFacts
    <3> QED BY <1>4, <3>1, ChildFacts, NodeFacts
  <2>2. n = At(g, k + 1)
    BY <1>8, <1>10
  <2>3. n \in Nodes /\ In(g, n) /\ Pos(g, n) = k + 1
    BY <1>4, <2>1, <2>2, NodeFacts
  <2>4. Way(t, n, v) = 0
    BY <1>4, <2>3, WayIs
  <2>5. Child(t, n, 0) = Nil
    <3>1. CASE k = 0
      BY <2>3, <3>1, ChildFacts, NodeFacts
    <3>2. CASE k >= 1
      <4> PICK a : a = At(g, k)
        OBVIOUS
      <4>1. a \in Nodes /\ In(g, a) /\ Pos(g, a) = k /\ Child(t, a, 1) # Nil
        BY <1>4, <1>10, <3>2, NodeFacts
      <4>2. Hi(g, a) >= k + 1 /\ Lo(g, a) <= k
        BY <1>4, <4>1, ChildFacts, NodeFacts
      <4>3. a # n /\ Apart(g, n, a)
        BY <1>4, <2>3, <4>1, Nested
      <4>4. Lo(g, n) >= k + 1
        BY <1>4, <2>3, <4>1, <4>2, <4>3, NodeFacts DEF Apart, Within
      <4> QED BY <1>4, <2>3, <4>4, ChildFacts, NodeFacts
    <3> QED BY <1>4, <3>1, <3>2
  <2> QED BY <2>3, <2>4, <2>5 DEF Dirs
<1> QED BY <1>9, <1>10

\* The nodes below m with the value v.
Holders(t, g, v, m) ==
  {n \in Nodes : In(g, n) /\ Within(g, Pos(g, n), m) /\ ValueOf(t, n) = v}

\* The node of S that all of S is below.
Top(g, S) ==
  IF S = {} THEN Nil ELSE CHOOSE n \in S : \A j \in S : Within(g, Pos(g, j), n)

\* Find finds v exactly if some node holds it.
LEMMA FindIs ==
  ASSUME NEW t, NEW g, Shape(t, g), Ordered(t, g), NEW v \in Keys
  PROVE  IF \E n \in Nodes : In(g, n) /\ ValueOf(t, n) = v
         THEN Find(t, v) # Nil /\ ValueOf(t, Find(t, v)) = v
         ELSE Find(t, v) = Nil
<1> DEFINE V(m) == Holders(t, g, v, m)
           B(m) == Top(g, V(m))
           R(f, m) == IF m = Nil THEN Nil
                      ELSE IF v < ValueOf(t, m) THEN f[Child(t, m, 0)]
                      ELSE IF ValueOf(t, m) < v THEN f[Child(t, m, 1)] ELSE m
           C(m, d) == IF Child(t, m, d) = Nil THEN Nil ELSE B(Child(t, m, d))
           F == [m \in Ref |-> IF m = Nil THEN Nil
                               ELSE IF In(g, m) THEN B(m)
                               ELSE IF v < ValueOf(t, m) THEN C(m, 0)
                               ELSE IF ValueOf(t, m) < v THEN C(m, 1) ELSE m]
           Q(f) == f = [m \in Ref |-> R(f, m)]
<1>0. /\ v \in Int
      /\ \A n \in Nodes : In(g, n) => ValueOf(t, n) \in Int
      /\ \A m, n \in Nodes : In(g, m) /\ In(g, n) /\ Pos(g, m) < Pos(g, n) =>
           ValueOf(t, m) <= ValueOf(t, n)
      /\ \A m \in Nodes : Child(t, m, 0) \in Ref /\ Child(t, m, 1) \in Ref
      /\ \A m \in Nodes, d \in Dirs : Child(t, m, d) # Nil =>
           Child(t, m, d) \in Nodes /\ In(g, Child(t, m, d))
  BY RBTreeAssumption, FieldTypes, ChildTypes DEF Ordered, Shape, Dirs
<1>1. ASSUME NEW m \in Nodes, In(g, m)
      PROVE  /\ v < ValueOf(t, m) => B(m) = C(m, 0)
             /\ ValueOf(t, m) < v => B(m) = C(m, 1)
             /\ ValueOf(t, m) = v => B(m) = m /\ m \in V(m)
             /\ v < ValueOf(t, m) /\ V(m) # {} => Child(t, m, 0) # Nil /\ V(m) = V(Child(t, m, 0))
             /\ ValueOf(t, m) < v /\ V(m) # {} => Child(t, m, 1) # Nil /\ V(m) = V(Child(t, m, 1))
  <2>0. /\ Lo(g, m) <= Pos(g, m) /\ Pos(g, m) <= Hi(g, m)
        /\ Lo(g, m) \in Int /\ Pos(g, m) \in Int /\ Hi(g, m) \in Int
    BY <1>1, NodeFacts
  <2>1. ASSUME v < ValueOf(t, m)
        PROVE  IF Child(t, m, 0) = Nil THEN V(m) = {} ELSE V(m) = V(Child(t, m, 0))
    <3>1. \A n \in V(m) : Pos(g, n) < Pos(g, m)
      BY <1>0, <1>1, <2>0, <2>1, NodeFacts, SamePos DEF Holders
    <3>2. CASE Child(t, m, 0) = Nil
      BY <1>1, <2>0, <3>1, <3>2, ChildFacts, NodeFacts DEF Holders, Within
    <3>3. CASE Child(t, m, 0) # Nil
      <4> PICK c : c = Child(t, m, 0)
        OBVIOUS
      <4>1. Lo(g, c) = Lo(g, m) /\ Hi(g, c) = Pos(g, m) - 1
        BY <1>1, <3>3, ChildFacts
      <4>2. V(m) = V(c)
        BY <2>0, <3>1, <4>1, NodeFacts DEF Holders, Within
      <4> QED BY <3>3, <4>2
    <3> QED BY <3>2, <3>3
  <2>2. ASSUME ValueOf(t, m) < v
        PROVE  IF Child(t, m, 1) = Nil THEN V(m) = {} ELSE V(m) = V(Child(t, m, 1))
    <3>1. \A n \in V(m) : Pos(g, m) < Pos(g, n)
      BY <1>0, <1>1, <2>0, <2>2, NodeFacts, SamePos DEF Holders
    <3>2. CASE Child(t, m, 1) = Nil
      BY <1>1, <2>0, <3>1, <3>2, ChildFacts, NodeFacts DEF Holders, Within
    <3>3. CASE Child(t, m, 1) # Nil
      <4> PICK c : c = Child(t, m, 1)
        OBVIOUS
      <4>1. Lo(g, c) = Pos(g, m) + 1 /\ Hi(g, c) = Hi(g, m)
        BY <1>1, <3>3, ChildFacts
      <4>2. V(m) = V(c)
        BY <2>0, <3>1, <4>1, NodeFacts DEF Holders, Within
      <4> QED BY <3>3, <4>2
    <3> QED BY <3>2, <3>3
  <2>3. ASSUME ValueOf(t, m) = v PROVE B(m) = m /\ m \in V(m)
    <3>1. m \in V(m) /\ \A j \in V(m) : Within(g, Pos(g, j), m)
      BY <1>1, <2>0, <2>3 DEF Holders, Within
    <3>2. ASSUME NEW n \in V(m), \A j \in V(m) : Within(g, Pos(g, j), n) PROVE n = m
      <4>1. Within(g, Pos(g, m), n) /\ Within(g, Pos(g, n), m) /\ n \in Nodes /\ In(g, n)
        BY <3>1, <3>2 DEF Holders
      <4>2. n # m => Apart(g, n, m)
        BY <1>1, <4>1, Nested
      <4> QED BY <2>0, <4>1, <4>2, NodeFacts DEF Apart, Within
    <3>3. V(m) # {}
      BY <3>1
    <3>4. (CHOOSE n \in V(m) : \A j \in V(m) : Within(g, Pos(g, j), n)) = m
      <4> HIDE DEF V
      <4> QED BY <3>1, <3>2
    <3> QED BY <3>1, <3>3, <3>4 DEF Top
  <2> HIDE DEF V
  <2>4. ASSUME NEW d \in Dirs,
               IF Child(t, m, d) = Nil THEN V(m) = {} ELSE V(m) = V(Child(t, m, d))
        PROVE  B(m) = C(m, d)
    <3>1. CASE Child(t, m, d) = Nil
      BY <2>4, <3>1 DEF Top
    <3>2. CASE Child(t, m, d) # Nil
      BY <2>4, <3>2
    <3> QED BY <3>1, <3>2
  <2>5. V(m) # {} /\ v < ValueOf(t, m) => Child(t, m, 0) # Nil /\ V(m) = V(Child(t, m, 0))
    BY <2>1
  <2>6. V(m) # {} /\ ValueOf(t, m) < v => Child(t, m, 1) # Nil /\ V(m) = V(Child(t, m, 1))
    BY <2>2
  <2>7. v < ValueOf(t, m) => B(m) = C(m, 0)
    BY <2>1, <2>4 DEF Dirs
  <2>8. ValueOf(t, m) < v => B(m) = C(m, 1)
    BY <2>2, <2>4 DEF Dirs
  <2> HIDE DEF B, C
  <2> QED BY <2>3, <2>5, <2>6, <2>7, <2>8
<1> HIDE DEF V, B
<1>2. ASSUME NEW m \in Ref PROVE F[m] = R(F, m)
  <2>1. CASE m = Nil
    BY <2>1
  <2>2. CASE m # Nil
    <3>1. m \in Nodes
      BY <2>2, NilIsNoNode
    <3>2. F[Child(t, m, 0)] = C(m, 0) /\ F[Child(t, m, 1)] = C(m, 1)
      BY <1>0, <3>1 DEF Dirs
    <3>3. CASE In(g, m)
      <4>1. F[m] = B(m)
        BY <2>2, <3>3
      <4>2. v < ValueOf(t, m) \/ ValueOf(t, m) < v \/ ValueOf(t, m) = v
        BY <1>0, <3>1, <3>3
      <4>3. ~(v < ValueOf(t, m) /\ ValueOf(t, m) < v) /\ ~(v < v)
        BY <1>0, <3>1, <3>3
      <4> HIDE DEF F, C
      <4> QED BY <1>1, <2>2, <3>1, <3>2, <3>3, <4>1, <4>2, <4>3
    <3>4. CASE ~In(g, m)
      <4>1. F[m] = IF v < ValueOf(t, m) THEN C(m, 0)
                   ELSE IF ValueOf(t, m) < v THEN C(m, 1) ELSE m
        BY <2>2, <3>4
      <4> HIDE DEF F, C
      <4> QED BY <2>2, <3>2, <4>1
    <3> QED BY <3>3, <3>4
  <2> QED BY <2>1, <2>2
<1>3. Q(F)
  <2>1. F = [m \in Ref |-> F[m]]
    OBVIOUS
  <2> HIDE DEF F, R
  <2> QED BY <1>2, <2>1
<1>4. ASSUME NEW f, Q(f) PROVE f = F
  <2>1. F = [m \in Ref |-> F[m]]
    OBVIOUS
  <2> HIDE DEF F
  <2>2. \A m \in Ref : f[m] = R(f, m)
    <3> HIDE DEF R
    <3> QED BY <1>4
  <2>3. DOMAIN f = Ref /\ f = [m \in Ref |-> f[m]]
    BY <1>4
  <2>4. f[Nil] = F[Nil]
    BY <1>2, <2>2 DEF Ref
  <2>5. ASSUME NEW m \in Nodes,
               \A e \in Dirs : Child(t, m, e) # Nil => f[Child(t, m, e)] = F[Child(t, m, e)]
        PROVE  f[m] = F[m]
    <3>1. f[Child(t, m, 0)] = F[Child(t, m, 0)] /\ f[Child(t, m, 1)] = F[Child(t, m, 1)]
      BY <2>4, <2>5 DEF Dirs
    <3>2. m \in Ref
      BY DEF Ref
    <3>3. R(f, m) = R(F, m)
      BY <3>1
    <3> QED BY <1>2, <2>2, <3>2, <3>3
  <2>6. \A m \in Nodes : f[m] = F[m]
    BY <2>5, Agree
  <2> QED BY <2>1, <2>3, <2>4, <2>6 DEF Ref
<1>5. Find(t, v) = (CHOOSE f : Q(f))[t.Root]
  BY DEF Find
\* the topmost holder is a holder
<1>6. \A m \in Nodes : In(g, m) /\ V(m) # {} => B(m) \in V(m)
  <2> DEFINE f == [m \in Nodes |-> In(g, m) /\ V(m) # {} => B(m) \in V(m)]
             h == [m \in Nodes |-> TRUE]
  <2>1. ASSUME NEW m \in Nodes,
               \A d \in Dirs : Child(t, m, d) # Nil => f[Child(t, m, d)] = h[Child(t, m, d)]
        PROVE  f[m] = h[m]
    <3>1. \A d \in Dirs : Child(t, m, d) # Nil /\ V(Child(t, m, d)) # {} =>
                            B(Child(t, m, d)) \in V(Child(t, m, d))
      BY <1>0, <2>1
    <3>2. ASSUME In(g, m), V(m) # {} PROVE B(m) \in V(m)
      <4>1. v < ValueOf(t, m) \/ ValueOf(t, m) < v \/ ValueOf(t, m) = v
        BY <1>0, <3>2
      <4>2. CASE v < ValueOf(t, m)
        BY <1>1, <3>1, <3>2, <4>2 DEF Dirs
      <4>3. CASE ValueOf(t, m) < v
        BY <1>1, <3>1, <3>2, <4>3 DEF Dirs
      <4>4. CASE ValueOf(t, m) = v
        BY <1>1, <3>2, <4>4
      <4> QED BY <4>1, <4>2, <4>3, <4>4
    <3> QED BY <3>2
  <2> HIDE DEF f, h
  <2>2. \A m \in Nodes : f[m] = h[m]
    BY <2>1, Agree
  <2> QED BY <2>2 DEF f, h
<1>7. F[t.Root] = IF t.Root = Nil THEN Nil ELSE B(t.Root)
  BY RootFacts
<1> HIDE DEF Q, F, R
<1>8. (CHOOSE f : Q(f)) = F
  BY <1>3, <1>4
<1>9. CASE t.Root = Nil
  <2>1. \A n \in Nodes : ~In(g, n)
    BY <1>9, RootFacts, NodeFacts DEF In
  <2> QED BY <1>5, <1>7, <1>8, <1>9, <2>1
<1>10. CASE t.Root # Nil
  <2>1. t.Root \in Nodes /\ In(g, t.Root)
    BY <1>10, RootFacts
  <2>2. V(t.Root) = {n \in Nodes : In(g, n) /\ ValueOf(t, n) = v}
    BY <1>10, RootFacts, NodeFacts DEF V, Holders, Within, In
  <2>3. Find(t, v) = B(t.Root)
    BY <1>5, <1>7, <1>8, <1>10
  <2>4. CASE V(t.Root) = {}
    BY <2>2, <2>3, <2>4 DEF B, Top
  <2>5. CASE V(t.Root) # {}
    <3>1. Find(t, v) \in V(t.Root)
      BY <1>6, <2>1, <2>3, <2>5
    <3> QED BY <2>2, <2>5, <3>1, NilIsNoNode
  <2> QED BY <2>4, <2>5
<1> QED BY <1>9, <1>10

(***************************************************************************)
(* The walks from left to right, and the count of the blacks.              *)
(***************************************************************************)

\* What the nodes with the numbers a to b yield.
Stretch(g, val, a, b) == [i \in 1 .. b - a + 1 |-> val[At(g, a + i - 1)]]

Below(g, val, n) == IF n = Nil THEN <<>> ELSE Stretch(g, val, Lo(g, n), Hi(g, n))

Around(p, x, q) == p \o <<x>> \o q

Walks(t, val, f) ==
  f = [m \in Ref |-> IF m = Nil THEN <<>>
                     ELSE Around(f[Child(t, m, 0)], val[m], f[Child(t, m, 1)])]

LEMMA ListOf ==
  ASSUME NEW S, NEW n \in Nat, NEW f \in [1 .. n -> S]
  PROVE  f \in Seq(S) /\ Len(f) = n
<1>1. f \in Seq(S)
  BY SeqDef
<1>2. Len(f) \in Nat /\ DOMAIN f = 1 .. Len(f) /\ DOMAIN f = 1 .. n
  BY <1>1, LenProperties
<1>3. \A i \in Int : (1 <= i /\ i <= Len(f)) <=> (1 <= i /\ i <= n)
  BY <1>2
<1>4. Len(f) <= n /\ n <= Len(f)
  BY <1>2, <1>3
<1> QED BY <1>1, <1>2, <1>4

LEMMA Glue ==
  ASSUME NEW S, NEW p \in Seq(S), NEW x \in S, NEW q \in Seq(S), NEW s, s = p \o <<x>> \o q
  PROVE  /\ s \in Seq(S)
         /\ Len(s) = Len(p) + 1 + Len(q)
         /\ \A i \in 1 .. Len(s) : s[i] = IF i <= Len(p) THEN p[i]
                                          ELSE IF i = Len(p) + 1 THEN x ELSE q[i - (Len(p) + 1)]
<1>1. <<x>> \in Seq(S) /\ Len(<<x>>) = 1 /\ <<x>>[1] = x
  OBVIOUS
<1>2. PICK u : u = <<x>>
  OBVIOUS
<1>3. u \in Seq(S) /\ Len(u) = 1 /\ u[1] = x /\ s = p \o u \o q
  BY <1>1, <1>2
<1>4. PICK r : r = p \o u
  OBVIOUS
<1>5. /\ r \in Seq(S)
      /\ Len(r) = Len(p) + Len(u)
      /\ \A i \in 1 .. Len(p) + Len(u) : r[i] = IF i <= Len(p) THEN p[i] ELSE u[i - Len(p)]
  BY <1>3, <1>4, ConcatProperties
<1>6. s = r \o q
  BY <1>3, <1>4
<1>7. /\ s \in Seq(S)
      /\ Len(s) = Len(r) + Len(q)
      /\ \A i \in 1 .. Len(r) + Len(q) : s[i] = IF i <= Len(r) THEN r[i] ELSE q[i - Len(r)]
  <2>1. r \in Seq(S)
    BY <1>5
  <2> HIDE <1>4
  <2> QED BY <1>6, <2>1, ConcatProperties
<1>8. Len(p) \in Nat /\ Len(q) \in Nat /\ Len(r) = Len(p) + 1
  BY <1>3, <1>5, LenProperties
<1>9. ASSUME NEW i \in 1 .. Len(s)
      PROVE  s[i] = IF i <= Len(p) THEN p[i]
                    ELSE IF i = Len(p) + 1 THEN x ELSE q[i - (Len(p) + 1)]
  <2>1. s[i] = IF i <= Len(r) THEN r[i] ELSE q[i - Len(r)]
    BY <1>7
  <2>2. i <= Len(r) => r[i] = IF i <= Len(p) THEN p[i] ELSE u[i - Len(p)]
    BY <1>3, <1>5, <1>8
  <2>3. i = Len(p) + 1 => i - Len(p) = 1
    BY <1>8
  <2> QED BY <1>3, <1>8, <2>1, <2>2, <2>3
<1> QED BY <1>7, <1>8, <1>9

Yields(g, val) == {val[At(g, i)] : i \in Int}

LEMMA StretchIs ==
  ASSUME NEW g, NEW val, NEW a \in Int, NEW b \in Int, a <= b + 1,
         NEW n, n = b - a + 1, NEW w, w = Stretch(g, val, a, b)
  PROVE  /\ w \in Seq(Yields(g, val))
         /\ Len(w) = n
         /\ \A i \in 1 .. n : w[i] = val[At(g, a + i - 1)]
<1>1. n \in Nat
  OBVIOUS
<1>2. \A i \in 1 .. n : val[At(g, a + i - 1)] \in Yields(g, val)
  BY <1>1 DEF Yields
<1>3. w = [i \in 1 .. n |-> val[At(g, a + i - 1)]]
  BY DEF Stretch
<1>4. w \in [1 .. n -> Yields(g, val)]
  BY <1>2, <1>3
<1>5. w \in Seq(Yields(g, val)) /\ Len(w) = n
  BY <1>1, <1>4, ListOf
<1> QED BY <1>3, <1>5

LEMMA Joined ==
  ASSUME NEW g, NEW val, NEW a \in Int, NEW k \in Int, NEW b \in Int, a <= k, k <= b,
         NEW c, NEW d, c = k - 1, d = k + 1, NEW x, x = val[At(g, k)]
  PROVE  Stretch(g, val, a, b) = Around(Stretch(g, val, a, c), x, Stretch(g, val, d, b))
<1> DEFINE S == Yields(g, val)
<1>1. PICK p : p = Stretch(g, val, a, c)
  OBVIOUS
<1>2. PICK q : q = Stretch(g, val, d, b)
  OBVIOUS
<1>3. PICK w : w = Stretch(g, val, a, b)
  OBVIOUS
<1>4. x \in S
  BY DEF Yields
<1> HIDE DEF S
<1>5. PICK s : s = p \o <<x>> \o q
  OBVIOUS
<1>6. /\ p \in Seq(S) /\ Len(p) = k - a
      /\ \A i \in 1 .. k - a : p[i] = val[At(g, a + i - 1)]
  <2>1. c - a + 1 = k - a /\ c \in Int /\ a <= c + 1
    OBVIOUS
  <2> QED BY <1>1, <2>1, StretchIs DEF S
<1>7. /\ q \in Seq(S) /\ Len(q) = b - k
      /\ \A i \in 1 .. b - k : q[i] = val[At(g, d + i - 1)]
  <2>1. b - d + 1 = b - k /\ d \in Int /\ d <= b + 1
    OBVIOUS
  <2> QED BY <1>2, <2>1, StretchIs DEF S
<1>8. /\ w \in Seq(S) /\ Len(w) = b - a + 1
      /\ \A i \in 1 .. b - a + 1 : w[i] = val[At(g, a + i - 1)]
  <2>1. a <= b + 1
    OBVIOUS
  <2> QED BY <1>3, <2>1, StretchIs DEF S
<1>9. /\ s \in Seq(S)
      /\ Len(s) = Len(p) + 1 + Len(q)
      /\ \A i \in 1 .. Len(s) : s[i] = IF i <= Len(p) THEN p[i]
                                       ELSE IF i = Len(p) + 1 THEN x ELSE q[i - (Len(p) + 1)]
  <2>1. p \in Seq(S) /\ q \in Seq(S)
    BY <1>6, <1>7
  <2> QED BY <1>4, <1>5, <2>1, Glue
<1>10. Len(s) = b - a + 1 /\ Len(p) = k - a
  BY <1>6, <1>7, <1>9
<1>11. ASSUME NEW i \in 1 .. b - a + 1 PROVE s[i] = w[i]
  <2>0. w[i] = val[At(g, a + i - 1)]
    BY <1>8
  <2>1. s[i] = IF i <= k - a THEN p[i] ELSE IF i = k - a + 1 THEN x ELSE q[i - (k - a + 1)]
    BY <1>9, <1>10
  <2>2. CASE i <= k - a
    <3>1. i \in 1 .. k - a
      BY <2>2
    <3> QED BY <1>6, <2>0, <2>1, <2>2, <3>1
  <2>3. CASE i = k - a + 1
    <3>1. a + i - 1 = k /\ ~(i <= k - a)
      BY <2>3
    <3> QED BY <2>0, <2>1, <2>3, <3>1
  <2>4. CASE i > k - a + 1
    <3>1. /\ i - (k - a + 1) \in 1 .. b - k /\ d + (i - (k - a + 1)) - 1 = a + i - 1
          /\ ~(i <= k - a) /\ i # k - a + 1
      BY <2>4
    <3> QED BY <1>7, <2>0, <2>1, <3>1
  <2> QED BY <2>2, <2>3, <2>4
<1>12. s = w
  <2>1. s \in Seq(S) /\ w \in Seq(S) /\ Len(s) = Len(w) /\ Len(s) = b - a + 1
    BY <1>8, <1>9, <1>10
  <2> QED BY <1>11, <2>1, SeqEqual
<1> QED BY <1>1, <1>2, <1>3, <1>5, <1>12 DEF Around

\* A walk has one result, and from the root it yields every node in order.
LEMMA WalkIs ==
  ASSUME NEW t, NEW g, Shape(t, g), NEW val
  PROVE  \E F : /\ Walks(t, val, F)
                /\ \A f : Walks(t, val, f) => f = F
                /\ F[t.Root] = Stretch(g, val, 1, Size(g))
<1> DEFINE B(m) == Below(g, val, m)
           F == [m \in Ref |-> IF m = Nil \/ In(g, m) THEN B(m)
                               ELSE Around(B(Child(t, m, 0)), val[m], B(Child(t, m, 1)))]
           R(f, m) == IF m = Nil THEN <<>>
                      ELSE Around(f[Child(t, m, 0)], val[m], f[Child(t, m, 1)])
<1>0. /\ \A m \in Nodes : Child(t, m, 0) \in Ref /\ Child(t, m, 1) \in Ref
      /\ \A m \in Nodes, d \in Dirs : Child(t, m, d) # Nil => In(g, Child(t, m, d))
  BY FieldTypes, ChildTypes DEF Shape, Dirs
<1>1. \A a, b \in Int : a > b => Stretch(g, val, a, b) = <<>>
  <2>1. ASSUME NEW a \in Int, NEW b \in Int, a > b PROVE Stretch(g, val, a, b) = <<>>
    <3>1. 1 .. b - a + 1 = {}
      BY <2>1
    <3> QED BY <3>1 DEF Stretch
  <2> QED BY <2>1
<1>2. ASSUME NEW m \in Ref PROVE F[m] = R(F, m)
  <2>1. CASE m = Nil
    BY <2>1 DEF Below
  <2>2. CASE m # Nil
    <3>1. m \in Nodes
      BY <2>2, NilIsNoNode
    <3>2. F[Child(t, m, 0)] = B(Child(t, m, 0)) /\ F[Child(t, m, 1)] = B(Child(t, m, 1))
      BY <1>0, <3>1 DEF Dirs
    <3>3. CASE In(g, m)
      <4>k. PICK k, a, b : k = Pos(g, m) /\ a = Lo(g, m) /\ b = Hi(g, m)
        OBVIOUS
      <4>1. /\ k \in Int /\ a \in Int /\ b \in Int /\ At(g, k) = m
            /\ 1 <= a /\ a <= k /\ k <= b /\ b <= Size(g) /\ Size(g) \in Int
        BY <3>1, <3>3, <4>k, NodeFacts
      <4>c. PICK c, d, x : c = k - 1 /\ d = k + 1 /\ x = val[At(g, k)]
        OBVIOUS
      <4>d. c \in Int /\ d \in Int
        BY <4>1, <4>c
      <4>2. B(Child(t, m, 0)) = Stretch(g, val, a, c)
        BY <1>1, <3>1, <3>3, <4>k, <4>1, <4>c, <4>d, ChildFacts DEF Below
      <4>3. B(Child(t, m, 1)) = Stretch(g, val, d, b)
        BY <1>1, <3>1, <3>3, <4>k, <4>1, <4>c, <4>d, ChildFacts DEF Below
      <4>4. B(m) = Stretch(g, val, a, b)
        BY <2>2, <4>k DEF Below
      <4>5. B(m) = Around(B(Child(t, m, 0)), val[m], B(Child(t, m, 1)))
        <5>1. Stretch(g, val, a, b) = Around(Stretch(g, val, a, c), x, Stretch(g, val, d, b))
          <6>1. k \in Int /\ a \in Int /\ b \in Int /\ a <= k /\ k <= b
            BY <4>1
          <6>2. c = k - 1 /\ d = k + 1 /\ x = val[At(g, k)]
            BY <4>c
          <6> QED BY <6>1, <6>2, Joined
        <5>2. x = val[m]
          BY <4>1, <4>c
        <5> HIDE DEF B
        <5> QED BY <4>2, <4>3, <4>4, <5>1, <5>2
      <4>6. F[m] = B(m)
        BY <3>3
      <4> HIDE DEF F, B
      <4> QED BY <2>2, <3>2, <4>5, <4>6
    <3>4. CASE ~In(g, m)
      <4>1. F[m] = Around(B(Child(t, m, 0)), val[m], B(Child(t, m, 1)))
        BY <2>2, <3>4
      <4> HIDE DEF F, B
      <4> QED BY <2>2, <3>2, <4>1
    <3> QED BY <3>3, <3>4
  <2> QED BY <2>1, <2>2
<1>3. F = [m \in Ref |-> F[m]]
  OBVIOUS
<1>4. F[t.Root] = Stretch(g, val, 1, Size(g))
  <2>1. CASE t.Root = Nil
    <3>1. Size(g) = 0
      BY <2>1, RootFacts
    <3>2. Stretch(g, val, 1, Size(g)) = <<>>
      BY <1>1, <3>1
    <3> QED BY <2>1, <3>2, RootFacts DEF Below
  <2>2. CASE t.Root # Nil
    BY <2>2, RootFacts DEF Below
  <2> QED BY <2>1, <2>2
<1> HIDE DEF F
<1>5. Walks(t, val, F)
  BY <1>2, <1>3 DEF Walks
<1>6. ASSUME NEW f, Walks(t, val, f) PROVE f = F
  <2>1. DOMAIN f = Ref /\ f = [m \in Ref |-> f[m]] /\ \A m \in Ref : f[m] = R(f, m)
    BY <1>6 DEF Walks
  <2>2. f[Nil] = F[Nil]
    BY <1>2, <2>1 DEF Ref
  <2>3. ASSUME NEW m \in Nodes,
               \A e \in Dirs : Child(t, m, e) # Nil => f[Child(t, m, e)] = F[Child(t, m, e)]
        PROVE  f[m] = F[m]
    <3>1. f[Child(t, m, 0)] = F[Child(t, m, 0)] /\ f[Child(t, m, 1)] = F[Child(t, m, 1)]
      BY <2>2, <2>3 DEF Dirs
    <3>2. m \in Ref
      BY DEF Ref
    <3>3. R(f, m) = R(F, m)
      BY <3>1
    <3> HIDE DEF R
    <3> QED BY <1>2, <2>1, <3>2, <3>3
  <2>4. \A m \in Nodes : f[m] = F[m]
    BY <2>3, Agree
  <2> QED BY <1>3, <2>1, <2>2, <2>4 DEF Ref
<1> QED BY <1>4, <1>5, <1>6

LEMMA InOrderIs ==
  ASSUME NEW g, Shape(tree, g)
  PROVE  /\ InOrder = [i \in 1 .. Size(g) |-> At(g, i)]
         /\ \A n \in Nodes : In(g, n) => Place(n) = Pos(g, n)
<1> DEFINE val == [n \in Nodes |-> n]
           Q(f) == f = [m \in Ref |-> IF m = Nil THEN <<>>
                           ELSE f[Child(tree, m, 0)] \o <<m>> \o f[Child(tree, m, 1)]]
<1>1. PICK F : /\ Walks(tree, val, F)
               /\ \A f : Walks(tree, val, f) => f = F
               /\ F[tree.Root] = Stretch(g, val, 1, Size(g))
  <2> HIDE DEF val
  <2> QED BY WalkIs
<1>2. \A f : Walks(tree, val, f) <=> Q(f)
  <2>1. \A m \in Ref : m # Nil => val[m] = m
    BY NilIsNoNode
  <2> HIDE DEF val
  <2> QED BY <2>1 DEF Walks, Around
<1>3. InOrder = (CHOOSE f : Q(f))[tree.Root]
  BY DEF InOrder
<1> HIDE DEF Q
<1>4. (CHOOSE f : Q(f)) = F
  BY <1>1, <1>2
<1>5. InOrder = [i \in 1 .. Size(g) |-> At(g, i)]
  <2>1. Size(g) \in Nat /\ \A i \in 1 .. Size(g) : At(g, i) \in Nodes
    BY NodeFacts
  <2>2. InOrder = Stretch(g, val, 1, Size(g))
    BY <1>1, <1>3, <1>4
  <2>3. Size(g) - 1 + 1 = Size(g) /\ \A i \in 1 .. Size(g) : 1 + i - 1 = i
    BY <2>1
  <2> QED BY <2>1, <2>2, <2>3 DEF Stretch
<1>6. ASSUME NEW n \in Nodes, In(g, n) PROVE Place(n) = Pos(g, n)
  <2> PICK s : s = InOrder
    OBVIOUS
  <2>1. DOMAIN s = 1 .. Size(g) /\ \A i \in 1 .. Size(g) : s[i] = At(g, i)
    BY <1>5
  <2>2. Pos(g, n) \in DOMAIN s /\ s[Pos(g, n)] = n
    BY <1>6, <2>1, NodeFacts
  <2>3. \A i \in DOMAIN s : s[i] = n => i = Pos(g, n)
    BY <2>1, NodeFacts
  <2>4. Place(n) = CHOOSE i \in DOMAIN s : s[i] = n
    BY DEF Place
  <2> QED BY <2>2, <2>3, <2>4
<1> QED BY <1>5, <1>6

ContentsOf(t) ==
  LET walk[m \in Ref] ==
        IF m = Nil THEN <<>>
        ELSE walk[Child(t, m, 0)] \o <<ValueOf(t, m)>> \o walk[Child(t, m, 1)]
  IN walk[t.Root]

LEMMA ContentsIs ==
  ASSUME NEW t, NEW g, Shape(t, g)
  PROVE  ContentsOf(t) = [i \in 1 .. Size(g) |-> ValueOf(t, At(g, i))]
<1> DEFINE val == [n \in Nodes |-> ValueOf(t, n)]
           Q(f) == f = [m \in Ref |-> IF m = Nil THEN <<>>
                           ELSE f[Child(t, m, 0)] \o <<ValueOf(t, m)>> \o f[Child(t, m, 1)]]
<1>1. PICK F : /\ Walks(t, val, F)
               /\ \A f : Walks(t, val, f) => f = F
               /\ F[t.Root] = Stretch(g, val, 1, Size(g))
  <2> HIDE DEF val
  <2> QED BY WalkIs
<1>2. \A f : Walks(t, val, f) <=> Q(f)
  <2>1. \A m \in Ref : m # Nil => val[m] = ValueOf(t, m)
    BY NilIsNoNode
  <2> HIDE DEF val
  <2> QED BY <2>1 DEF Walks, Around
<1>3. ContentsOf(t) = (CHOOSE f : Q(f))[t.Root]
  BY DEF ContentsOf
<1> HIDE DEF Q
<1>4. (CHOOSE f : Q(f)) = F
  BY <1>1, <1>2
<1>5. Size(g) \in Nat /\ \A i \in 1 .. Size(g) : At(g, i) \in Nodes
  BY NodeFacts
<1>6. ContentsOf(t) = Stretch(g, val, 1, Size(g))
  BY <1>1, <1>3, <1>4
<1>7. Size(g) - 1 + 1 = Size(g) /\ \A i \in 1 .. Size(g) : 1 + i - 1 = i
  BY <1>5
<1>8. \A i \in 1 .. Size(g) : val[At(g, i)] = ValueOf(t, At(g, i))
  BY <1>5
<1> HIDE DEF val
<1> QED BY <1>6, <1>7, <1>8 DEF Stretch

\* In a level tree that lacks nothing all ways down count the same blacks.
LEMMA BlacksAre ==
  ASSUME NEW t, NEW g, Shape(t, g), NEW h, Level(t, g, h, Nil, 0)
  PROVE  (CHOOSE f : f = [m \in Ref |->
            IF m = Nil THEN {0}
            ELSE {b + (IF IsBlack(t, m) THEN 1 ELSE 0) :
                    b \in f[Child(t, m, 0)] \cup f[Child(t, m, 1)]}])[t.Root]
           = {Height(h, t.Root)}
<1> DEFINE B(m) == {Height(h, m)}
           Up(m, S) == {b + (IF IsBlack(t, m) THEN 1 ELSE 0) : b \in S}
           R(f, m) == IF m = Nil THEN {0}
                      ELSE {b + (IF IsBlack(t, m) THEN 1 ELSE 0) :
                              b \in f[Child(t, m, 0)] \cup f[Child(t, m, 1)]}
           F == [m \in Ref |-> IF m = Nil \/ In(g, m) THEN B(m)
                               ELSE Up(m, B(Child(t, m, 0)) \cup B(Child(t, m, 1)))]
           Q(f) == f = [m \in Ref |-> R(f, m)]
<1>0. /\ \A m \in Nodes : Child(t, m, 0) \in Ref /\ Child(t, m, 1) \in Ref
      /\ \A m \in Nodes, d \in Dirs : Child(t, m, d) # Nil => In(g, Child(t, m, d))
  BY FieldTypes, ChildTypes DEF Shape, Dirs
<1>1. ASSUME NEW m \in Ref PROVE F[m] = R(F, m)
  <2>1. CASE m = Nil
    BY <2>1 DEF Height
  <2>2. CASE m # Nil
    <3>1. m \in Nodes
      BY <2>2, NilIsNoNode
    <3>2. F[Child(t, m, 0)] = B(Child(t, m, 0)) /\ F[Child(t, m, 1)] = B(Child(t, m, 1))
      BY <1>0, <3>1 DEF Dirs
    <3>3. R(F, m) = Up(m, B(Child(t, m, 0)) \cup B(Child(t, m, 1)))
      <4> HIDE DEF F, B
      <4> QED BY <2>2, <3>2
    <3>4. CASE In(g, m)
      <4> PICK x : x = Height(h, Child(t, m, 0))
        OBVIOUS
      <4>1. h[m] \in Nat /\ x \in Int /\ Height(h, Child(t, m, 1)) = x
            /\ h[m] = x + (IF IsBlack(t, m) THEN 1 ELSE 0)
        <5>1. /\ h[m] = Height(h, Child(t, m, 0)) + Lack(m, 0, Nil, 0) + Mark(t, m)
              /\ h[m] = Height(h, Child(t, m, 1)) + Lack(m, 1, Nil, 0) + Mark(t, m)
              /\ h \in [Nodes -> Nat]
          BY <3>1, <3>4 DEF Level, Dirs
        <5>2. Height(h, Child(t, m, 0)) \in Nat /\ Height(h, Child(t, m, 1)) \in Nat
          BY <1>0, <3>1, <5>1, NilIsNoNode DEF Height
        <5> QED BY <2>2, <3>1, <5>1, <5>2 DEF Mark, Lack
      <4>2. B(Child(t, m, 0)) \cup B(Child(t, m, 1)) = {x}
        BY <4>1
      <4>3. Up(m, {x}) = {h[m]}
        BY <4>1
      <4>4. F[m] = {h[m]}
        BY <2>2, <3>4 DEF Height
      <4> QED BY <3>3, <4>2, <4>3, <4>4
    <3>5. CASE ~In(g, m)
      <4>1. F[m] = Up(m, B(Child(t, m, 0)) \cup B(Child(t, m, 1)))
        BY <2>2, <3>5
      <4> QED BY <3>3, <4>1
    <3> QED BY <3>4, <3>5
  <2> QED BY <2>1, <2>2
<1>2. F = [m \in Ref |-> F[m]]
  OBVIOUS
<1>3. F[t.Root] = {Height(h, t.Root)}
  BY RootFacts
<1> HIDE DEF F
<1>4. Q(F)
  <2> HIDE DEF R
  <2> QED BY <1>1, <1>2
<1>5. ASSUME NEW f, Q(f) PROVE f = F
  <2>1. DOMAIN f = Ref /\ f = [m \in Ref |-> f[m]]
    BY <1>5
  <2>2. \A m \in Ref : f[m] = R(f, m)
    <3> HIDE DEF R
    <3> QED BY <1>5
  <2>3. f[Nil] = F[Nil]
    BY <1>1, <2>2 DEF Ref
  <2>4. ASSUME NEW m \in Nodes,
               \A e \in Dirs : Child(t, m, e) # Nil => f[Child(t, m, e)] = F[Child(t, m, e)]
        PROVE  f[m] = F[m]
    <3>1. f[Child(t, m, 0)] = F[Child(t, m, 0)] /\ f[Child(t, m, 1)] = F[Child(t, m, 1)]
      BY <2>3, <2>4 DEF Dirs
    <3>2. m \in Ref
      BY DEF Ref
    <3>3. R(f, m) = R(F, m)
      BY <3>1
    <3> HIDE DEF R
    <3> QED BY <1>1, <2>2, <3>2, <3>3
  <2>5. \A m \in Nodes : f[m] = F[m]
    BY <2>4, Agree
  <2> QED BY <1>2, <2>1, <2>3, <2>5 DEF Ref
<1>6. (CHOOSE f : f = [m \in Ref |-> R(f, m)]) = F
  <2> HIDE DEF Q
  <2>1. (CHOOSE f : Q(f)) = F
    BY <1>4, <1>5
  <2> QED BY <2>1 DEF Q
<1> QED BY <1>3, <1>6

(***************************************************************************)
(* Steps that keep the nodes of the tree: painting, and rotating.          *)
(***************************************************************************)

SameLinks(t, u) ==
  /\ u.Root = t.Root
  /\ \A n \in Nodes : ParentOf(u, n) = ParentOf(t, n)
  /\ \A n \in Nodes, d \in Dirs : Child(u, n, d) = Child(t, n, d)

LEMMA SameShape ==
  ASSUME NEW t, NEW g, Shape(t, g), NEW u \in Trees, SameLinks(t, u)
  PROVE  Shape(u, g)
<1>1. /\ t \in Trees /\ t.Root \in Ref
      /\ \A n \in Nodes : ParentOf(t, n) \in Ref
      /\ \A n \in Nodes, d \in Dirs : Child(t, n, d) \in Ref
  BY FieldTypes DEF Shape
<1>2. Numbered(g)
  BY DEF Shape
<1>3. RootRight(u, g)
  BY <1>1, NilIsNoNode DEF Shape, RootRight, SameLinks
<1>4. ASSUME NEW n \in Nodes, In(g, n) PROVE ParentRight(u, g, n)
  <2>1. ParentRight(t, g, n)
    BY <1>4 DEF Shape
  <2>2. ParentOf(t, n) # Nil => ParentOf(t, n) \in Nodes
    BY <1>1, NilIsNoNode
  <2> QED BY <2>1, <2>2 DEF ParentRight, SameLinks, Dirs
<1>5. ASSUME NEW n \in Nodes, NEW d \in Dirs, In(g, n) PROVE ChildRight(u, g, n, d)
  <2>1. ChildRight(t, g, n, d)
    BY <1>5 DEF Shape
  <2>2. Child(t, n, d) # Nil => Child(t, n, d) \in Nodes
    BY <1>1, NilIsNoNode
  <2> QED BY <2>1, <2>2 DEF ChildRight, SameLinks
<1>6. \A n \in Nodes, d \in Dirs :
        ~In(g, n) /\ Child(u, n, d) # Nil => In(g, Child(u, n, d))
  BY DEF Shape, SameLinks
<1> QED BY <1>2, <1>3, <1>4, <1>5, <1>6 DEF Shape

\* A blank node is one whose fields are.
LEMMA BlankIs ==
  ASSUME NEW t \in Trees, NEW n \in Nodes
  PROVE  t.at[n] = Blank <=>
           /\ ColorOf(t, n) = Red /\ ParentOf(t, n) = Nil /\ ValueOf(t, n) = Nil
           /\ Child(t, n, 0) = Nil /\ Child(t, n, 1) = Nil
<1>1. t.at[n] \in [Color : {Red, Black}, Parent : Ref, Childs : [Dirs -> Ref],
                   Value : Keys \cup {Nil}]
  BY DEF Trees
<1>2. ASSUME /\ ColorOf(t, n) = Red /\ ParentOf(t, n) = Nil /\ ValueOf(t, n) = Nil
             /\ Child(t, n, 0) = Nil /\ Child(t, n, 1) = Nil
      PROVE  t.at[n] = Blank
  <2>1. t.at[n].Childs = [d \in Dirs |-> Nil]
    BY <1>1, <1>2 DEF Child, Dirs
  <2> QED BY <1>1, <1>2, <2>1 DEF Blank, ColorOf, ParentOf, ValueOf
<1>3. ASSUME t.at[n] = Blank
      PROVE  /\ ColorOf(t, n) = Red /\ ParentOf(t, n) = Nil /\ ValueOf(t, n) = Nil
             /\ Child(t, n, 0) = Nil /\ Child(t, n, 1) = Nil
  BY <1>3 DEF Blank, ColorOf, ParentOf, ValueOf, Child, Dirs
<1> QED BY <1>2, <1>3

\* A fixup moves and paints nodes; it leaves the rest as it was.
Moved(t, g, u, k) ==
  /\ Shape(u, k)
  /\ k.node = g.node /\ k.pos = g.pos
  /\ \A n \in Nodes : ValueOf(u, n) = ValueOf(t, n)
  /\ \A n \in Nodes : ~In(g, n) =>
       /\ ColorOf(u, n) = ColorOf(t, n) /\ ParentOf(u, n) = ParentOf(t, n)
       /\ Child(u, n, 0) = Child(t, n, 0) /\ Child(u, n, 1) = Child(t, n, 1)

LEMMA MovedTwice ==
  ASSUME NEW t, NEW g, NEW u, NEW k, Moved(t, g, u, k), NEW w, NEW l, Moved(u, k, w, l)
  PROVE  Moved(t, g, w, l)
<1>1. \A n \in Nodes : In(k, n) <=> In(g, n)
  BY DEF Moved, In, Pos
<1> QED BY <1>1 DEF Moved

LEMMA PaintMoves ==
  ASSUME NEW t, NEW g, Shape(t, g), NEW n \in Ref, n # Nil => In(g, n),
         NEW c \in {Red, Black}, NEW u, u = Paint(t, n, c)
  PROVE  /\ Moved(t, g, u, g)
         /\ SameLinks(t, u)
         /\ \A m \in Nodes : ColorOf(u, m) = IF m = n THEN c ELSE ColorOf(t, m)
<1>1. t \in Trees
  BY DEF Shape
<1>2. /\ u \in Trees
      /\ u.Root = t.Root
      /\ \A m \in Nodes : /\ ColorOf(u, m) = IF m = n THEN c ELSE ColorOf(t, m)
                          /\ ValueOf(u, m) = ValueOf(t, m)
                          /\ ParentOf(u, m) = ParentOf(t, m)
      /\ \A m \in Nodes, e \in Dirs : Child(u, m, e) = Child(t, m, e)
  BY <1>1, PaintFields
<1>3. SameLinks(t, u)
  BY <1>2 DEF SameLinks
<1>4. Shape(u, g)
  BY <1>2, <1>3, SameShape
<1>5. \A m \in Nodes : ~In(g, m) => m # n
  BY NilIsNoNode
<1> QED BY <1>2, <1>3, <1>4, <1>5 DEF Moved, Dirs

LEMMA MovedKeeps ==
  ASSUME NEW t, NEW g, NEW u, NEW k, Shape(t, g), Moved(t, g, u, k)
  PROVE  /\ Shape(u, k)
         /\ \A n \in Nodes : In(k, n) <=> In(g, n)
         /\ Outside(t, g) => Outside(u, k)
         /\ Ordered(t, g) => Ordered(u, k)
         /\ \A cu, pe : Iterating(g, cu, pe) => Iterating(k, cu, pe)
<1>1. \A n \in Nodes : Pos(k, n) = Pos(g, n) /\ (In(k, n) <=> In(g, n))
  BY DEF Moved, Pos, In
<1>2. t \in Trees /\ u \in Trees /\ Shape(u, k)
  BY DEF Shape, Moved
<1>3. ASSUME Outside(t, g), NEW n \in Nodes, ~In(k, n) PROVE u.at[n] = Blank
  <2>1. t.at[n] = Blank /\ ~In(g, n)
    BY <1>1, <1>3 DEF Outside
  <2>2. /\ ColorOf(t, n) = Red /\ ParentOf(t, n) = Nil /\ ValueOf(t, n) = Nil
        /\ Child(t, n, 0) = Nil /\ Child(t, n, 1) = Nil
    BY <1>2, <2>1, BlankIs
  <2>3. /\ ColorOf(u, n) = Red /\ ParentOf(u, n) = Nil /\ ValueOf(u, n) = Nil
        /\ Child(u, n, 0) = Nil /\ Child(u, n, 1) = Nil
    BY <2>1, <2>2 DEF Moved
  <2> QED BY <1>2, <2>3, BlankIs
<1>4. Ordered(t, g) => Ordered(u, k)
  BY <1>1 DEF Ordered, Moved
<1>5. ASSUME NEW cu, NEW pe, Iterating(g, cu, pe) PROVE Iterating(k, cu, pe)
  <2>1. CASE cu = NoCursor
    BY <1>5, <2>1 DEF Iterating
  <2>2. CASE cu # NoCursor
    BY <1>1, <1>5, <2>2 DEF Iterating
  <2> QED BY <2>1, <2>2
<1> QED BY <1>1, <1>2, <1>3, <1>4, <1>5 DEF Outside

LEMMA SideIs ==
  ASSUME NEW t, NEW g, Shape(t, g), NEW n \in Nodes, In(g, n), NEW p, p = ParentOf(t, n),
         NEW e, e = Side(t, n)
  PROVE  /\ e \in Dirs /\ p \in Ref
         /\ p = Nil <=> n = t.Root
         /\ p # Nil => p \in Nodes /\ In(g, p) /\ p # n /\ Child(t, p, e) = n
                       /\ Child(t, p, 1 - e) # n
<1>1. CASE n = t.Root
  BY <1>1, RootFacts, NilIsNoNode DEF Side, Dirs, Ref
<1>2. CASE n # t.Root
  <2>1. /\ p \in Nodes /\ In(g, p) /\ p # n /\ p # Nil
        /\ \/ Child(t, p, 0) = n /\ Child(t, p, 1) # n
           \/ Child(t, p, 1) = n /\ Child(t, p, 0) # n
    BY <1>2, ParentFacts, NilIsNoNode
  <2> QED BY <1>2, <2>1 DEF Side, Dirs, Ref
<1> QED BY <1>1, <1>2

LEMMA KidFacts ==
  ASSUME NEW t, NEW g, Shape(t, g), NEW n \in Nodes, In(g, n), NEW d \in Dirs,
         NEW c, c = Child(t, n, d), c # Nil
  PROVE  /\ c \in Nodes /\ In(g, c) /\ ParentOf(t, c) = n /\ c # n /\ c # t.Root
         /\ \A f \in Dirs : f # d => c # Child(t, n, f)
<1>1. c \in Nodes /\ In(g, c)
  BY ChildTypes
<1>2. ParentOf(t, c) = n /\ c # n /\ \A f \in Dirs : f # d => c # Child(t, n, f)
  BY ChildFacts, NodeFacts DEF Dirs
<1>3. c # t.Root
  BY <1>1, <1>2, RootFacts, NilIsNoNode
<1> QED BY <1>1, <1>2, <1>3

\* What a rotation leaves, field by field.
Rotated(t, n, d, c, b, p, e, u) ==
  /\ u.Root = IF p = Nil THEN c ELSE t.Root
  /\ \A m \in Nodes : /\ ColorOf(u, m) = ColorOf(t, m)
                      /\ ParentOf(u, m) = IF m = n THEN c ELSE IF m = c THEN p
                                          ELSE IF m = b THEN n ELSE ParentOf(t, m)
  /\ \A m \in Nodes, f \in Dirs :
       Child(u, m, f) = IF m = c /\ f = d THEN n
                        ELSE IF m = p /\ f = e THEN c
                        ELSE IF m = n /\ f = 1 - d THEN b ELSE Child(t, m, f)

LEMMA RotateMoves ==
  ASSUME NEW t, NEW g, Shape(t, g), NEW n \in Nodes, In(g, n), NEW d \in Dirs,
         NEW c, c = Child(t, n, 1 - d), c # Nil, NEW b, b = Child(t, c, d),
         NEW p, p = ParentOf(t, n), NEW e, e = Side(t, n), NEW u, u = Rotate(t, n, d)
  PROVE  /\ \E k : Moved(t, g, u, k)
         /\ Rotated(t, n, d, c, b, p, e, u)
<1> DEFINE k == [node |-> g.node, pos |-> g.pos,
                 lo |-> [m \in Nodes |-> IF m = c THEN Lo(g, n)
                                         ELSE IF m = n /\ d = 1 THEN Pos(g, c) + 1 ELSE Lo(g, m)],
                 hi |-> [m \in Nodes |-> IF m = c THEN Hi(g, n)
                                         ELSE IF m = n /\ d = 0 THEN Pos(g, c) - 1 ELSE Hi(g, m)]]
<1>k. /\ k.node = g.node /\ k.pos = g.pos /\ Size(k) = Size(g)
      /\ \A i : At(k, i) = At(g, i)
      /\ \A m : Pos(k, m) = Pos(g, m) /\ (In(k, m) <=> In(g, m))
      /\ \A m \in Nodes : /\ Lo(k, m) = IF m = c THEN Lo(g, n)
                                        ELSE IF m = n /\ d = 1 THEN Pos(g, c) + 1 ELSE Lo(g, m)
                          /\ Hi(k, m) = IF m = c THEN Hi(g, n)
                                        ELSE IF m = n /\ d = 0 THEN Pos(g, c) - 1 ELSE Hi(g, m)
  BY DEF Size, At, Pos, In, Lo, Hi
<1> HIDE DEF k
<1>0. /\ t \in Trees /\ 1 - d \in Dirs /\ 1 - (1 - d) = d
      /\ \A m \in Nodes : m # Nil
  BY NilIsNoNode DEF Shape, Dirs
\* the nodes about
<1>1. /\ c \in Nodes /\ In(g, c) /\ ParentOf(t, c) = n /\ c # n
      /\ Lo(g, c) = (IF d = 1 THEN Lo(g, n) ELSE Pos(g, n) + 1)
      /\ Hi(g, c) = (IF d = 1 THEN Pos(g, n) - 1 ELSE Hi(g, n))
  <2>1. c \in Nodes /\ In(g, c)
    BY <1>0, ChildTypes
  <2> QED BY <2>1, ChildFacts, NodeFacts DEF Dirs
<1>2. /\ b \in Ref /\ b # c /\ b # n
      /\ b # Nil => /\ b \in Nodes /\ In(g, b) /\ ParentOf(t, b) = c
                    /\ Lo(g, b) = (IF d = 0 THEN Lo(g, c) ELSE Pos(g, c) + 1)
                    /\ Hi(g, b) = (IF d = 0 THEN Pos(g, c) - 1 ELSE Hi(g, c))
      /\ b = Nil => IF d = 0 THEN Lo(g, c) = Pos(g, c) ELSE Hi(g, c) = Pos(g, c)
  <2>1. b # Nil => b \in Nodes /\ In(g, b)
    BY <1>1, ChildTypes
  <2>2. b \in Ref
    BY <1>0, <1>1, FieldTypes
  <2> QED BY <1>0, <1>1, <2>1, <2>2, ChildFacts, NodeFacts DEF Dirs
<1>3. /\ e \in Dirs /\ p \in Ref
      /\ p = Nil <=> n = t.Root
      /\ p # Nil => p \in Nodes /\ In(g, p) /\ p # n /\ Child(t, p, e) = n
                    /\ Child(t, p, 1 - e) # n
  BY SideIs
<1>4. p # n /\ p # c /\ (p # Nil => p # b)
  <2>1. p # n
    BY <1>0, <1>3
  <2>2. p # Nil => \/ Lo(g, n) = Lo(g, p) /\ Hi(g, n) = Pos(g, p) - 1
                   \/ Lo(g, n) = Pos(g, p) + 1 /\ Hi(g, n) = Hi(g, p)
    BY <1>0, <1>3, ChildFacts DEF Dirs
  <2>3. p # c
    BY <1>1, <1>3, <2>2, NodeFacts, NilIsNoNode DEF Dirs
  <2>4. p # Nil => p # b
    BY <1>1, <1>2, <1>3, <2>2, NodeFacts, NilIsNoNode DEF Dirs
  <2> QED BY <2>1, <2>3, <2>4
<1>u. /\ u \in Trees
      /\ \A m \in Nodes : ValueOf(u, m) = ValueOf(t, m)
      /\ Rotated(t, n, d, c, b, p, e, u)
  BY <1>0, <1>1, <1>2, <1>4, RotateFields DEF Rotated
\* the shape
<1>5. Numbered(k)
  <2>1. g.node \in Seq(Nodes) /\ Numbered(g)
    BY DEF Shape, Numbered
  <2>2. \A m \in Nodes : Lo(k, m) \in Int /\ Hi(k, m) \in Int
    BY <1>k, <1>1, NodeFacts
  <2>3. ASSUME NEW m \in Nodes, In(g, m)
        PROVE  Within(k, Pos(g, m), m) /\ 1 <= Lo(k, m) /\ Hi(k, m) <= Size(g)
    BY <1>k, <1>1, <2>3, NodeFacts DEF Within, Dirs
  <2> QED BY <1>k, <2>1, <2>2, <2>3 DEF Numbered
<1>6. RootRight(u, k)
  <2>1. t.Root # Nil /\ In(g, t.Root) /\ t.Root \in Nodes /\ ParentOf(t, t.Root) = Nil
        /\ Lo(g, t.Root) = 1 /\ Hi(g, t.Root) = Size(g)
    <3>1. t.Root = Nil => Size(g) = 0
      BY RootFacts
    <3> QED BY <3>1, RootFacts, NodeFacts
  <2>2. CASE p = Nil
    <3>1. u.Root = c /\ ParentOf(u, c) = Nil
      BY <1>u, <1>1, <2>2 DEF Rotated
    <3> QED BY <1>k, <1>1, <1>3, <2>1, <2>2, <3>1 DEF RootRight
  <2>3. CASE p # Nil
    <3>1. t.Root # n /\ t.Root # c /\ t.Root # b
      BY <1>0, <1>1, <1>2, <1>3, <2>1, <2>3
    <3>2. u.Root = t.Root /\ ParentOf(u, t.Root) = Nil
      BY <1>u, <2>1, <2>3, <3>1 DEF Rotated
    <3> QED BY <1>k, <2>1, <3>1, <3>2 DEF RootRight
  <2> QED BY <2>2, <2>3
<1>7. ASSUME NEW m \in Nodes, In(g, m) PROVE ParentRight(u, k, m)
  <2>u. /\ ParentOf(u, m) = IF m = n THEN c ELSE IF m = c THEN p
                            ELSE IF m = b THEN n ELSE ParentOf(t, m)
        /\ Child(u, c, d) = n
        /\ Child(u, n, 1 - d) = b
        /\ p # Nil => Child(u, p, e) = c
        /\ u.Root = IF p = Nil THEN c ELSE t.Root
    BY <1>u, <1>0, <1>1, <1>3, <1>4 DEF Rotated
  <2>1. CASE m = n
    BY <1>k, <1>0, <1>1, <2>u, <2>1 DEF ParentRight, Dirs
  <2>2. CASE m = c
    BY <1>k, <1>0, <1>1, <1>3, <2>u, <2>2 DEF ParentRight, Dirs
  <2>3. CASE m = b
    BY <1>k, <1>0, <1>2, <1>1, <2>u, <2>3 DEF ParentRight, Dirs
  <2>4. CASE m # n /\ m # c /\ m # b
    <3>q. PICK q : q = ParentOf(t, m)
      OBVIOUS
    <3>1. ParentOf(u, m) = q
      BY <2>u, <2>4, <3>q
    <3>2. CASE m = t.Root
      <4>1. q = Nil /\ u.Root = m
        <5>1. q = Nil
          BY <1>0, <3>2, <3>q, RootFacts
        <5>2. p # Nil
          BY <1>3, <2>4, <3>2
        <5> QED BY <2>u, <3>2, <5>1, <5>2
      <4> QED BY <3>1, <4>1 DEF ParentRight
    <3>3. CASE m # t.Root
      <4>1. q \in Nodes /\ In(g, q) /\ q # Nil /\ (Child(t, q, 0) = m \/ Child(t, q, 1) = m)
        BY <1>0, <1>7, <3>3, <3>q, ParentFacts
      <4>2. PICK f \in Dirs : Child(t, q, f) = m
        BY <4>1 DEF Dirs
      <4>3. Child(u, q, f) = m
        <5>1. Child(u, q, f) = IF q = c /\ f = d THEN n
                               ELSE IF q = p /\ f = e THEN c
                               ELSE IF q = n /\ f = 1 - d THEN b ELSE Child(t, q, f)
          BY <1>u, <4>1 DEF Rotated
        <5> QED BY <1>3, <2>4, <4>1, <4>2, <5>1
      <4> QED BY <1>k, <3>1, <4>1, <4>2, <4>3 DEF ParentRight, Dirs
    <3> QED BY <3>2, <3>3
  <2> QED BY <2>1, <2>2, <2>3, <2>4
<1>8. ASSUME NEW m \in Nodes, NEW f \in Dirs, In(g, m) PROVE ChildRight(u, k, m, f)
  <2>u. Child(u, m, f) = IF m = c /\ f = d THEN n
                         ELSE IF m = p /\ f = e THEN c
                         ELSE IF m = n /\ f = 1 - d THEN b ELSE Child(t, m, f)
    BY <1>u DEF Rotated
  <2>p. \A x \in Nodes : ParentOf(u, x) = IF x = n THEN c ELSE IF x = c THEN p
                                          ELSE IF x = b THEN n ELSE ParentOf(t, x)
    BY <1>u DEF Rotated
  <2>1. CASE m = c /\ f = d
    BY <1>k, <1>0, <1>1, <2>u, <2>p, <2>1 DEF ChildRight, Dirs
  <2>2. CASE m = p /\ f = e
    <3>1. Child(u, m, f) = c /\ ParentOf(u, c) = p /\ m # n /\ m # c
      BY <1>1, <1>3, <1>4, <2>u, <2>p, <2>2
    <3>2. ChildRight(t, g, m, f)
      BY <1>8 DEF Shape
    <3>3. n = Child(t, m, f)
      BY <1>0, <1>3, <2>2
    <3>4. /\ Lo(g, n) = (IF f = 0 THEN Lo(g, m) ELSE Pos(g, m) + 1)
          /\ Hi(g, n) = (IF f = 0 THEN Pos(g, m) - 1 ELSE Hi(g, m))
      BY <1>0, <3>2, <3>3 DEF ChildRight
    <3> QED BY <1>k, <1>0, <1>1, <2>2, <3>1, <3>4 DEF ChildRight
  <2>3. CASE m = n /\ f = 1 - d
    <3>1. Child(u, m, f) = b /\ (b # Nil => ParentOf(u, b) = n)
      BY <1>2, <1>4, <2>u, <2>p, <2>3
    <3>2. /\ Lo(k, n) = (IF d = 1 THEN Pos(g, c) + 1 ELSE Lo(g, n))
          /\ Hi(k, n) = (IF d = 0 THEN Pos(g, c) - 1 ELSE Hi(g, n))
          /\ b # Nil => Lo(k, b) = Lo(g, b) /\ Hi(k, b) = Hi(g, b) /\ In(k, b)
      BY <1>k, <1>1, <1>2
    <3>3. Pos(g, n) \in Int /\ Pos(g, c) \in Int /\ Lo(g, c) \in Int /\ Hi(g, c) \in Int
      BY <1>1, NodeFacts
    <3>4. Pos(k, n) = Pos(g, n)
      BY <1>k
    <3> QED BY <1>0, <1>1, <1>2, <2>3, <3>1, <3>2, <3>3, <3>4 DEF ChildRight, Dirs
  <2>4. CASE ~(m = c /\ f = d) /\ ~(m = p /\ f = e) /\ ~(m = n /\ f = 1 - d)
    <3>x. PICK x : x = Child(t, m, f)
      OBVIOUS
    <3>1. ChildRight(t, g, m, f) /\ Child(u, m, f) = x
      BY <1>8, <2>u, <2>4, <3>x DEF Shape
    <3>2. /\ x = Nil => (IF f = 0 THEN Lo(g, m) > Pos(g, m) - 1 ELSE Pos(g, m) + 1 > Hi(g, m))
          /\ x # Nil => /\ In(g, x) /\ ParentOf(t, x) = m /\ x \in Nodes
                        /\ Lo(g, x) = (IF f = 0 THEN Lo(g, m) ELSE Pos(g, m) + 1)
                        /\ Hi(g, x) = (IF f = 0 THEN Pos(g, m) - 1 ELSE Hi(g, m))
      BY <1>8, <3>1, <3>x, ChildTypes DEF ChildRight
    <3>3. f = 0 \/ f = 1
      BY DEF Dirs
    <3>4. x # n /\ x # c /\ (x # Nil => x # b)
      <4>1. x = n => m = p /\ f = e
        <5>1. x = n => m = p
          BY <1>0, <3>2
        <5>2. f = e \/ f = 1 - e
          BY <1>3 DEF Dirs
        <5> QED BY <1>0, <1>3, <3>x, <5>1, <5>2
      <4>2. x = c => m = n /\ f = 1 - d
        BY <1>0, <1>1, <3>2, <3>x, <3>3, <1>8, ChildFacts, NodeFacts DEF Dirs
      <4>3. x = b /\ x # Nil => m = c /\ f = d
        BY <1>0, <1>1, <1>2, <3>2, <3>x, <3>3, <1>8, ChildFacts, NodeFacts DEF Dirs
      <4> QED BY <2>4, <4>1, <4>2, <4>3
    <3>5. x # Nil => /\ ParentOf(u, x) = m /\ In(k, x)
                     /\ Lo(k, x) = Lo(g, x) /\ Hi(k, x) = Hi(g, x)
      BY <1>k, <2>p, <3>2, <3>4
    <3>6. CASE m # c /\ m # n
      <4>1. Lo(k, m) = Lo(g, m) /\ Hi(k, m) = Hi(g, m) /\ Pos(k, m) = Pos(g, m)
        BY <1>k, <3>6
      <4> QED BY <3>1, <3>2, <3>5, <4>1 DEF ChildRight
    <3>7. CASE m = c
      <4>1. f # d /\ Lo(k, m) = Lo(g, n) /\ Hi(k, m) = Hi(g, n) /\ Pos(k, m) = Pos(g, m)
        BY <1>k, <1>1, <2>4, <3>7
      <4> QED BY <1>1, <3>1, <3>2, <3>3, <3>5, <3>7, <4>1 DEF ChildRight, Dirs
    <3>8. CASE m = n
      <4>1. f = d /\ Pos(k, m) = Pos(g, m) /\ (d = 0 => Lo(k, m) = Lo(g, m))
            /\ (d = 1 => Hi(k, m) = Hi(g, m))
        BY <1>k, <1>1, <2>4, <3>3, <3>8 DEF Dirs
      <4> QED BY <3>1, <3>2, <3>3, <3>5, <3>8, <4>1 DEF ChildRight
    <3> QED BY <3>6, <3>7, <3>8
  <2> QED BY <2>1, <2>2, <2>3, <2>4
<1>9. ASSUME NEW m \in Nodes, ~In(g, m) PROVE \A f \in Dirs : Child(u, m, f) = Child(t, m, f)
  <2>1. m # n /\ m # c /\ m # p
    BY <1>0, <1>1, <1>3, <1>9
  <2> QED BY <1>u, <2>1 DEF Rotated
<1>10. Shape(u, k)
  <2>1. \A m \in Nodes, f \in Dirs : ~In(k, m) /\ Child(u, m, f) # Nil => In(k, Child(u, m, f))
    BY <1>k, <1>9 DEF Shape
  <2> QED BY <1>k, <1>u, <1>5, <1>6, <1>7, <1>8, <2>1 DEF Shape
<1>11. ASSUME NEW m \in Nodes, ~In(g, m)
       PROVE  ColorOf(u, m) = ColorOf(t, m) /\ ParentOf(u, m) = ParentOf(t, m)
  <2>1. m # n /\ m # c /\ m # b
    BY <1>0, <1>1, <1>2, <1>11
  <2> QED BY <1>u, <2>1 DEF Rotated
<1>12. Moved(t, g, u, k)
  BY <1>k, <1>u, <1>9, <1>10, <1>11 DEF Moved, Dirs
<1> QED BY <1>u, <1>12

(***************************************************************************)
(* The balance: what Level and Coloured say of each node.                  *)
(***************************************************************************)

Fine(t, h, n, d, p, e, x, y) ==
  /\ h[n] = Height(h, Child(t, n, d)) + Lack(n, d, p, e) + Mark(t, n)
  /\ IsRed(t, n) /\ n # y /\ Child(t, n, d) # x => IsBlack(t, Child(t, n, d))

Balanced(t, g, h, p, e, x, y) ==
  /\ h \in [Nodes -> Nat]
  /\ \A n \in Nodes, d \in Dirs : In(g, n) => Fine(t, h, n, d, p, e, x, y)
  /\ t.Root # x => IsBlack(t, t.Root)

LEMMA BalancedIs ==
  ASSUME NEW t, NEW g, NEW h, NEW p, NEW e, NEW x, NEW y
  PROVE  Balanced(t, g, h, p, e, x, y) <=> Level(t, g, h, p, e) /\ Coloured(t, g, x, y)
  BY DEF Balanced, Fine, Level, Coloured

LEMMA ColorIs ==
  ASSUME NEW t \in Trees
  PROVE  /\ IsBlack(t, Nil)
         /\ \A n \in Nodes : /\ IsBlack(t, n) <=> ColorOf(t, n) = Black
                             /\ IsRed(t, n) <=> ColorOf(t, n) = Red
                             /\ Mark(t, n) = IF ColorOf(t, n) = Black THEN 1 ELSE 0
         /\ \A n : IsRed(t, n) => n # Nil
         /\ \A n : IsRed(t, n) <=> ~IsBlack(t, n)
  BY FieldTypes, NilIsNoNode DEF IsBlack, IsRed, Mark, ColorOf, Red, Black

LEMMA HeightIs ==
  ASSUME NEW h \in [Nodes -> Nat]
  PROVE  /\ Height(h, Nil) = 0
         /\ \A n \in Nodes : Height(h, n) = h[n] /\ h[n] \in Nat
         /\ \A n \in Ref : Height(h, n) \in Nat
  BY NilIsNoNode DEF Height

LEMMA LackIs ==
  /\ \A n, d, p, e : Lack(n, d, p, e) = IF n = p /\ d = e THEN 1 ELSE 0
  /\ \A n \in Nodes : \A d, e : Lack(n, d, Nil, e) = 0
  BY NilIsNoNode DEF Lack

LEMMA RedIsNotBlack == Red # Black
  BY DEF Red, Black

\* A rotation of n, with the colors and heights of n, its child c that comes
\* up and perhaps the outer child o of c changed, leaves the others fine.
Else(m, n, c, o) == m # n /\ m # c /\ m # o

Repainted(t, w, n, c, o) ==
  \A m \in Nodes : Else(m, n, c, o) => ColorOf(w, m) = ColorOf(t, m)

Relevelled(h, k, n, c, o) ==
  /\ k \in [Nodes -> Nat] /\ k[c] = h[n]
  /\ \A m \in Nodes : Else(m, n, c, o) => k[m] = h[m]

SameLack(n, c, o, pt, et, pu, eu) ==
  \A m \in Nodes, f \in Dirs : Else(m, n, c, o) => Lack(m, f, pu, eu) = Lack(m, f, pt, et)

StillBlack(t, g, n, c, o, xu, yu) ==
  \A m \in Nodes, f \in Dirs :
    In(g, m) /\ IsRed(t, m) /\ Else(m, n, c, o) /\ m # yu /\ Child(t, m, f) # xu /\ Child(t, m, f) # n
      => IsBlack(t, Child(t, m, f))

LEMMA Elsewhere ==
  ASSUME NEW t, NEW g, Shape(t, g), NEW h, NEW pt, NEW et, NEW xt, NEW yt,
         Balanced(t, g, h, pt, et, xt, yt),
         NEW n \in Nodes, In(g, n), NEW d \in Dirs,
         NEW c, c = Child(t, n, 1 - d), c # Nil, NEW b, b = Child(t, c, d),
         NEW p, p = ParentOf(t, n), NEW e, e = Side(t, n),
         NEW o, o = Nil \/ o = Child(t, c, 1 - d),
         NEW w \in Trees, SameLinks(t, w), NEW u \in Trees, Rotated(w, n, d, c, b, p, e, u),
         Repainted(t, w, n, c, o), NEW k, Relevelled(h, k, n, c, o),
         NEW pu, NEW eu, NEW xu, NEW yu, SameLack(n, c, o, pt, et, pu, eu),
         StillBlack(t, g, n, c, o, xu, yu),
         p # Nil /\ IsRed(t, p) /\ p # yu /\ c # xu => IsBlack(w, c)
  PROVE  \A m \in Nodes, f \in Dirs : In(g, m) /\ Else(m, n, c, o) =>
           Fine(u, k, m, f, pu, eu, xu, yu)
<1> SUFFICES ASSUME NEW m \in Nodes, NEW f \in Dirs, In(g, m), Else(m, n, c, o)
             PROVE  Fine(u, k, m, f, pu, eu, xu, yu)
  OBVIOUS
<1>e. m # n /\ m # c /\ m # o
  BY DEF Else
<1>0. /\ t \in Trees /\ c \in Nodes /\ In(g, c) /\ 1 - d \in Dirs
      /\ \A i \in Nodes : i # Nil
      /\ h \in [Nodes -> Nat] /\ k \in [Nodes -> Nat] /\ k[c] = h[n]
  BY ChildTypes, NilIsNoNode DEF Shape, Dirs, Balanced, Relevelled
<1>1. PICK z : z = Child(t, m, f)
  OBVIOUS
<1>2. z # Nil => z \in Nodes /\ In(g, z) /\ ParentOf(t, z) = m
  BY <1>1, ChildTypes, ChildFacts DEF Dirs
<1>3. ParentOf(t, c) = n /\ (b # Nil => ParentOf(t, b) = c) /\ (o # Nil => ParentOf(t, o) = c)
  BY <1>0, ChildFacts DEF Dirs
<1>4. /\ p # Nil => p \in Nodes /\ Child(t, p, e) = n /\ Child(t, p, 1 - e) # n
      /\ e \in Dirs
  BY SideIs
<1>5. /\ h[m] = Height(h, z) + Lack(m, f, pt, et) + Mark(t, m)
      /\ Lack(m, f, pt, et) = Lack(m, f, pu, eu)
  BY <1>1 DEF Balanced, Fine, SameLack
<1>6. /\ ColorOf(u, m) = ColorOf(t, m) /\ k[m] = h[m]
      /\ Child(u, m, f) = IF m = c /\ f = d THEN n
                          ELSE IF m = p /\ f = e THEN c
                          ELSE IF m = n /\ f = 1 - d THEN b ELSE z
      /\ \A i \in Nodes : ColorOf(u, i) = ColorOf(w, i)
      /\ \A i \in Nodes : Else(i, n, c, o) => ColorOf(w, i) = ColorOf(t, i) /\ k[i] = h[i]
  BY <1>1 DEF Rotated, SameLinks, Repainted, Relevelled
<1>7. /\ Mark(u, m) = Mark(t, m)
      /\ IsRed(u, m) <=> IsRed(t, m)
      /\ IsBlack(u, Nil)
  BY <1>0, <1>6, ColorIs
<1>8. CASE z = n
  <2>1. m = p /\ f = e
    <3>1. m = p
      BY <1>0, <1>2, <1>8
    <3>2. f = e \/ f = 1 - e
      BY <1>4 DEF Dirs
    <3> QED BY <1>0, <1>1, <1>4, <1>8, <3>1, <3>2
  <2>2. Child(u, m, f) = c
    BY <1>6, <1>e, <2>1
  <2>3. Height(k, c) = Height(h, z)
    BY <1>0, <1>8, HeightIs
  <2>4. IsRed(t, m) /\ m # yu /\ c # xu => IsBlack(u, c)
    BY <1>0, <1>6, <2>1, ColorIs
  <2> QED BY <1>5, <1>6, <1>7, <2>2, <2>3, <2>4 DEF Fine
<1>9. CASE z # n
  <2>1. ~(m = p /\ f = e)
    BY <1>0, <1>1, <1>4, <1>9
  <2>2. Child(u, m, f) = z
    BY <1>6, <1>e, <2>1
  <2>3. z # Nil => z # c /\ z # o
    BY <1>2, <1>3, <1>e
  <2>4. Height(k, z) = Height(h, z)
    BY <1>0, <1>2, <1>6, <1>9, <2>3, HeightIs DEF Else
  <2>5. z = Nil \/ ColorOf(u, z) = ColorOf(t, z)
    BY <1>2, <1>6, <1>9, <2>3 DEF Else
  <2>6. IsBlack(t, z) => IsBlack(u, z)
    BY <1>0, <1>2, <1>7, <2>5, ColorIs
  <2>7. IsRed(t, m) /\ m # yu /\ z # xu => IsBlack(u, z)
    BY <1>1, <1>9, <2>6 DEF StillBlack
  <2> QED BY <1>5, <1>6, <1>7, <2>2, <2>4, <2>7 DEF Fine
<1> QED BY <1>8, <1>9

\* The same for painting alone: s holds the nodes painted.
LEMMA Untouched ==
  ASSUME NEW t \in Trees, NEW g, NEW s, NEW u \in Trees, SameLinks(t, u),
         \A m \in Nodes : m \notin s => ColorOf(u, m) = ColorOf(t, m),
         NEW k, NEW pu, NEW eu, NEW xu, NEW yu,
         \A m \in Nodes, f \in Dirs : In(g, m) /\ m \notin s =>
           /\ k[m] = Height(k, Child(t, m, f)) + Lack(m, f, pu, eu) + Mark(t, m)
           /\ IsRed(t, m) /\ m # yu /\ Child(t, m, f) # xu => IsBlack(u, Child(t, m, f))
  PROVE  \A m \in Nodes, f \in Dirs : In(g, m) /\ m \notin s =>
           Fine(u, k, m, f, pu, eu, xu, yu)
<1> SUFFICES ASSUME NEW m \in Nodes, NEW f \in Dirs, In(g, m), m \notin s
             PROVE  Fine(u, k, m, f, pu, eu, xu, yu)
  OBVIOUS
<1>1. Mark(u, m) = Mark(t, m) /\ (IsRed(u, m) <=> IsRed(t, m))
  BY ColorIs
<1>2. Child(u, m, f) = Child(t, m, f)
  BY DEF SameLinks
<1> QED BY <1>1, <1>2 DEF Fine

(***************************************************************************)
(* insertFixup                                                             *)
(***************************************************************************)

\* A red parent is not the root.
LEMMA RedParentIs ==
  ASSUME NEW t, NEW g, Shape(t, g), NEW h, NEW n \in Nodes, In(g, n),
         Balanced(t, g, h, Nil, 0, n, Nil),
         NEW p, p = ParentOf(t, n), p # Nil, IsRed(t, p), NEW q, q = ParentOf(t, p)
  PROVE  /\ p \in Nodes /\ In(g, p) /\ p # n
         /\ q \in Nodes /\ In(g, q) /\ q # p /\ q # n /\ IsBlack(t, q)
         /\ Child(t, q, Side(t, p)) = p /\ Side(t, p) \in Dirs
         /\ n # t.Root /\ p # t.Root
<1>0. t \in Trees /\ \A m \in Nodes : m # Nil
  BY NilIsNoNode DEF Shape
<1>1. n # t.Root
  BY <1>0, RootFacts
<1>2. p \in Nodes /\ In(g, p) /\ p # n
  BY <1>1, ParentFacts
<1>3. p # t.Root
  BY <1>0, <1>1, ColorIs DEF Balanced
<1>4. q \in Nodes /\ In(g, q) /\ q # p
  BY <1>2, <1>3, ParentFacts
<1>5. Side(t, p) \in Dirs /\ Child(t, q, Side(t, p)) = p
  BY <1>0, <1>2, <1>4, SideIs
<1>6. IsBlack(t, q)
  BY <1>0, <1>2, <1>4, <1>5, ColorIs DEF Balanced, Fine
<1>7. q # n
  BY <1>0, <1>2, <1>4, <1>5, ColorIs, ParentFacts, ChildFacts, NodeFacts, <1>1, <1>3
<1> QED BY <1>1, <1>2, <1>3, <1>4, <1>5, <1>6, <1>7

LEMMA RecolorRight ==
  ASSUME NEW t, NEW g, Shape(t, g), NEW h, NEW n \in Nodes, In(g, n),
         Balanced(t, g, h, Nil, 0, n, Nil),
         NEW p, p = ParentOf(t, n), p # Nil, IsRed(t, p), NEW q, q = ParentOf(t, p),
         NEW r, r = Child(t, q, 1 - Side(t, p)), IsRed(t, r),
         NEW u, u = Paint(Paint(Paint(t, p, Black), r, Black), q, Red)
  PROVE  /\ q \in Nodes /\ In(g, q) /\ IsRed(u, q)
         /\ Moved(t, g, u, g)
         /\ \E k : Balanced(u, g, k, Nil, 0, q, Nil)
<1>0. t \in Trees /\ \A m \in Nodes : m # Nil
  BY NilIsNoNode DEF Shape
<1>1. /\ p \in Nodes /\ In(g, p) /\ p # n
      /\ q \in Nodes /\ In(g, q) /\ q # p /\ q # n /\ IsBlack(t, q)
      /\ Child(t, q, Side(t, p)) = p /\ Side(t, p) \in Dirs
      /\ n # t.Root /\ p # t.Root
  BY RedParentIs
<1>2. /\ 1 - Side(t, p) \in Dirs /\ Side(t, p) \in {0, 1} /\ r # Nil
      /\ r \in Nodes /\ In(g, r) /\ ParentOf(t, r) = q /\ r # p
  <2>1. 1 - Side(t, p) \in Dirs /\ r # Nil
    BY <1>0, <1>1, ColorIs DEF Dirs
  <2>2. r \in Nodes /\ In(g, r)
    BY <1>1, <2>1, ChildTypes
  <2>3. r # p /\ ParentOf(t, r) = q
    BY <1>0, <1>1, <2>1, ChildFacts, NodeFacts DEF Dirs
  <2> QED BY <1>1, <2>1, <2>2, <2>3 DEF Dirs
<1>3. r # n /\ r # q /\ r # t.Root
  BY <1>0, <1>1, <1>2, RootFacts, ParentFacts
<1>a. PICK u1 : u1 = Paint(t, p, Black)
  OBVIOUS
<1>b. PICK u2 : u2 = Paint(u1, r, Black)
  OBVIOUS
<1>c. u = Paint(u2, q, Red)
  BY <1>a, <1>b
<1>4. /\ Moved(t, g, u1, g) /\ SameLinks(t, u1)
      /\ \A m \in Nodes : ColorOf(u1, m) = IF m = p THEN Black ELSE ColorOf(t, m)
  BY <1>a, <1>1, PaintMoves DEF Ref
<1>5. /\ Moved(u1, g, u2, g) /\ SameLinks(u1, u2)
      /\ \A m \in Nodes : ColorOf(u2, m) = IF m = r THEN Black ELSE ColorOf(u1, m)
  BY <1>b, <1>2, <1>4, PaintMoves DEF Ref, Moved
<1>6. /\ Moved(u2, g, u, g) /\ SameLinks(u2, u)
      /\ \A m \in Nodes : ColorOf(u, m) = IF m = q THEN Red ELSE ColorOf(u2, m)
  <2>1. Shape(u2, g) /\ q \in Ref
    BY <1>1, <1>5 DEF Moved, Ref
  <2> QED BY <1>c, <1>1, <2>1, PaintMoves
<1>7. Moved(t, g, u, g)
  BY <1>4, <1>5, <1>6, MovedTwice
<1>8. /\ SameLinks(t, u) /\ u \in Trees
      /\ \A m \in Nodes : ColorOf(u, m) = IF m = q THEN Red ELSE IF m = r \/ m = p THEN Black
                                          ELSE ColorOf(t, m)
  BY <1>4, <1>5, <1>6 DEF SameLinks, Moved, Shape
<1> DEFINE k == [m \in Nodes |-> IF m = p \/ m = r THEN h[m] + 1 ELSE h[m]]
<1>9. /\ k \in [Nodes -> Nat] /\ h \in [Nodes -> Nat]
      /\ \A m \in Nodes : k[m] = IF m = p \/ m = r THEN h[m] + 1 ELSE h[m]
  BY DEF Balanced
<1> HIDE DEF k
<1>10. ASSUME NEW m \in Nodes, NEW f \in Dirs, In(g, m), m # p, m # r, m # q
       PROVE  /\ k[m] = Height(k, Child(t, m, f)) + Lack(m, f, Nil, 0) + Mark(t, m)
              /\ IsRed(t, m) /\ m # Nil /\ Child(t, m, f) # q => IsBlack(u, Child(t, m, f))
  <2>1. PICK z : z = Child(t, m, f)
    OBVIOUS
  <2>2. z # Nil => z \in Nodes /\ ParentOf(t, z) = m
    BY <1>10, <2>1, ChildTypes, ChildFacts DEF Dirs
  <2>3. z # Nil => z # p /\ z # r /\ z # n
    BY <1>10, <1>2, <1>1, <2>2
  <2>4. Height(k, z) = Height(h, z)
    BY <1>9, <2>2, <2>3, HeightIs
  <2>5. /\ h[m] = Height(h, z) + Lack(m, f, Nil, 0) + Mark(t, m)
        /\ IsRed(t, m) /\ m # Nil /\ z # n => IsBlack(t, z)
    BY <1>10, <2>1 DEF Balanced, Fine
  <2>6. z # q /\ IsBlack(t, z) => IsBlack(u, z)
    BY <1>0, <1>8, <2>2, ColorIs
  <2>7. z = Nil => IsBlack(u, z)
    BY <1>8, ColorIs
  <2>8. k[m] = Height(k, z) + Lack(m, f, Nil, 0) + Mark(t, m)
    BY <1>9, <1>10, <2>4, <2>5
  <2>9. IsRed(t, m) /\ z # q => IsBlack(u, z)
    BY <1>0, <2>3, <2>5, <2>6, <2>7
  <2> QED BY <2>1, <2>8, <2>9
<1>11. \A m \in Nodes, f \in Dirs : In(g, m) /\ m \notin {p, r, q} =>
         Fine(u, k, m, f, Nil, 0, q, Nil)
  <2>1. \A m \in Nodes : m \notin {p, r, q} => ColorOf(u, m) = ColorOf(t, m)
    BY <1>8
  <2>2. \A m \in Nodes, f \in Dirs : In(g, m) /\ m \notin {p, r, q} =>
          /\ k[m] = Height(k, Child(t, m, f)) + Lack(m, f, Nil, 0) + Mark(t, m)
          /\ IsRed(t, m) /\ m # Nil /\ Child(t, m, f) # q => IsBlack(u, Child(t, m, f))
    BY <1>10
  <2> QED BY <1>0, <1>8, <2>1, <2>2, Untouched
<1>12. ASSUME NEW m \in Nodes, NEW f \in Dirs, m = p \/ m = r
       PROVE  Fine(u, k, m, f, Nil, 0, q, Nil)
  <2>1. PICK z : z = Child(t, m, f)
    OBVIOUS
  <2>0. Child(u, m, f) = z
    BY <1>8, <2>1 DEF SameLinks
  <2>2. In(g, m) /\ ColorOf(t, m) = Red /\ ColorOf(u, m) = Black /\ ParentOf(t, m) = q
    BY <1>0, <1>1, <1>2, <1>8, ColorIs, <1>12
  <2>3. z # Nil => z \in Nodes /\ ParentOf(t, z) = m
    BY <2>1, <2>2, ChildTypes, ChildFacts DEF Dirs
  <2>4. z # Nil => z # p /\ z # r
    BY <1>1, <1>2, <1>3, <1>12, <2>2, <2>3
  <2>5. Height(k, z) = Height(h, z) /\ Height(h, z) \in Nat
    BY <1>9, <2>3, <2>4, HeightIs
  <2>6. h[m] = Height(h, z) + 0 + Mark(t, m)
    BY <1>12, <2>1, <2>2, LackIs DEF Balanced, Fine
  <2>7. Mark(t, m) = 0 /\ Mark(u, m) = 1 /\ ~IsRed(u, m)
    BY <1>0, <1>8, <2>2, ColorIs
  <2>8. Lack(m, f, Nil, 0) = 0
    BY LackIs
  <2> QED BY <1>9, <1>12, <2>0, <2>5, <2>6, <2>7, <2>8 DEF Fine
<1>13. ASSUME NEW f \in Dirs PROVE Fine(u, k, q, f, Nil, 0, q, Nil)
  <2>1. PICK z : z = Child(t, q, f) /\ z = Child(u, q, f)
    BY <1>1, <1>8 DEF SameLinks
  <2>2. z = p \/ z = r
    BY <1>1, <1>2, <2>1 DEF Dirs
  <2>3. Height(k, z) = Height(h, z) + 1 /\ Height(h, z) \in Nat
    BY <1>1, <1>2, <1>9, <2>2, HeightIs
  <2>4. h[q] = Height(h, z) + 0 + Mark(t, q)
    BY <1>1, <2>1, LackIs DEF Balanced, Fine
  <2>5. Mark(t, q) = 1 /\ Mark(u, q) = 0 /\ IsBlack(u, z)
    BY <1>0, <1>1, <1>2, <1>3, <1>8, <2>2, ColorIs
  <2>6. Lack(q, f, Nil, 0) = 0
    BY <1>1, LackIs
  <2> QED BY <1>1, <1>3, <1>9, <2>1, <2>3, <2>4, <2>5, <2>6 DEF Fine
<1>14. u.Root # q => IsBlack(u, u.Root)
  <2>1. IsBlack(t, t.Root) /\ u.Root = t.Root /\ t.Root \in Ref
    BY <1>1, <1>8, RootFacts DEF Balanced, SameLinks
  <2> QED BY <1>0, <1>8, <2>1, ColorIs DEF Ref
<1>15. Balanced(u, g, k, Nil, 0, q, Nil)
  BY <1>9, <1>11, <1>12, <1>13, <1>14 DEF Balanced
<1> QED BY <1>0, <1>1, <1>7, <1>8, <1>15, ColorIs

\* What the fixup knows after the inner rotation: a red node m, its red
\* parent r and its grandparent q lie on one line in direction d.
InLine(w, g, m, r, q, d) ==
  /\ m \in Nodes /\ In(g, m) /\ IsRed(w, m)
  /\ r \in Nodes /\ In(g, r) /\ IsRed(w, r) /\ ParentOf(w, m) = r /\ Child(w, r, d) = m
  /\ q \in Nodes /\ In(g, q) /\ IsBlack(w, q) /\ ParentOf(w, r) = q /\ Child(w, q, d) = r
  /\ d \in Dirs /\ IsBlack(w, Child(w, q, 1 - d)) /\ r # q /\ m # r /\ m # q
  /\ m # w.Root

\* Before it they do not.
Bent(t, g, n, p, q, d) ==
  /\ n \in Nodes /\ In(g, n) /\ IsRed(t, n)
  /\ p = ParentOf(t, n) /\ p # Nil /\ IsRed(t, p) /\ q = ParentOf(t, p) /\ d = Side(t, p)
  /\ IsBlack(t, Child(t, q, 1 - d)) /\ n = Child(t, p, 1 - d)

LEMMA InnerRight ==
  ASSUME NEW t, NEW g, Shape(t, g), NEW h, NEW n, NEW p, NEW q, NEW d, Bent(t, g, n, p, q, d),
         Balanced(t, g, h, Nil, 0, n, Nil), NEW u, u = Rotate(t, p, d)
  PROVE  /\ \E k : Moved(t, g, u, k)
         /\ Balanced(u, g, h, Nil, 0, p, Nil)
         /\ InLine(u, g, p, n, q, d)
<1>0. t \in Trees /\ (\A m \in Nodes : m # Nil) /\ h \in [Nodes -> Nat]
  BY NilIsNoNode DEF Shape, Balanced
<1>1. /\ p \in Nodes /\ In(g, p) /\ p # n
      /\ q \in Nodes /\ In(g, q) /\ q # p /\ q # n /\ IsBlack(t, q)
      /\ Child(t, q, d) = p /\ d \in Dirs
      /\ n # t.Root /\ p # t.Root
  BY RedParentIs DEF Bent
<1>n. n \in Nodes /\ In(g, n) /\ IsRed(t, n) /\ IsRed(t, p)
  BY DEF Bent
<1>l. n = Child(t, p, 1 - d) /\ n # Nil
  BY <1>0, <1>n DEF Bent
<1>m. q = ParentOf(t, p) /\ d = Side(t, p)
  BY DEF Bent
<1>2. 1 - d \in Dirs /\ 1 - (1 - d) = d /\ d # 1 - d /\ (\A f \in Dirs : f = d \/ f = 1 - d)
  BY <1>1 DEF Dirs
<1>b. PICK b : b = Child(t, n, d)
  OBVIOUS
<1>o. PICK o : o = Child(t, n, 1 - d)
  OBVIOUS
<1>a. PICK a : a = Child(t, p, d)
  OBVIOUS
<1>3. (\E k : Moved(t, g, u, k)) /\ Rotated(t, p, d, n, b, q, d, u)
  BY <1>0, <1>1, <1>b, <1>l, <1>m, RotateMoves
<1>4. u \in Trees
  BY <1>3 DEF Moved, Shape
<1>5. /\ a # Nil => a \in Nodes /\ ParentOf(t, a) = p
      /\ b # Nil => b \in Nodes /\ ParentOf(t, b) = n
      /\ o # Nil => o \in Nodes /\ ParentOf(t, o) = n
      /\ a # Nil => a # n
  <2>1. p \in Nodes /\ In(g, p) /\ d \in Dirs
    BY <1>1
  <2>2. 1 - d \in Dirs /\ 1 - d # d
    BY <1>2
  <2>3. a # Nil => a \in Nodes /\ ParentOf(t, a) = p /\ \A f \in Dirs : f # d => a # Child(t, p, f)
    BY <1>a, <2>1, KidFacts
  <2>4. a # Nil => a # n
    BY <1>l, <2>2, <2>3
  <2>5. b # Nil => b \in Nodes /\ ParentOf(t, b) = n
    BY <1>b, <1>n, <2>1, KidFacts
  <2>6. o # Nil => o \in Nodes /\ ParentOf(t, o) = n
    BY <1>o, <1>n, <2>2, KidFacts
  <2> QED BY <2>3, <2>4, <2>5, <2>6
<1>6. /\ \A m \in Nodes : ColorOf(u, m) = ColorOf(t, m)
      /\ u.Root = t.Root
      /\ ParentOf(u, p) = n /\ ParentOf(u, n) = q
      /\ Child(u, n, d) = p /\ Child(u, q, d) = n
      /\ Child(u, p, 1 - d) = b /\ Child(u, p, d) = a
      /\ Child(u, n, 1 - d) = o
      /\ Child(u, q, 1 - d) = Child(t, q, 1 - d)
  BY <1>0, <1>1, <1>n, <1>2, <1>3, <1>a, <1>o DEF Rotated
<1>7. \A m \in Ref : IsBlack(u, m) <=> IsBlack(t, m)
  BY <1>0, <1>4, <1>6, ColorIs DEF Ref
<1>8. /\ h[p] = Height(h, n) + 0 + 0 /\ h[p] = Height(h, a) + 0 + 0
      /\ h[n] = Height(h, b) + 0 + 0 /\ h[n] = Height(h, o) + 0 + 0
      /\ Height(h, n) = h[n] /\ h[n] \in Nat
      /\ Height(h, a) \in Nat /\ Height(h, b) \in Nat /\ Height(h, o) \in Nat
      /\ a # n => IsBlack(t, a)
      /\ b # n => IsBlack(t, b)
      /\ o # n => IsBlack(t, o)
  <2>1. \A i \in Nodes, f \in Dirs : In(g, i) => Fine(t, h, i, f, Nil, 0, n, Nil)
    BY DEF Balanced
  <2>2. \A i \in Nodes : \A f : Lack(i, f, Nil, 0) = 0
    BY LackIs
  <2>3. Mark(t, p) = 0 /\ Mark(t, n) = 0
    BY <1>0, <1>1, <1>n, ColorIs
  <2>4. Height(h, a) \in Nat /\ Height(h, b) \in Nat /\ Height(h, o) \in Nat
    BY <1>0, <1>5, HeightIs DEF Ref
  <2>5. /\ h[p] = Height(h, n) + 0 + 0 /\ h[p] = Height(h, a) + 0 + 0
        /\ a # n => IsBlack(t, a)
    <3>1. Fine(t, h, p, d, Nil, 0, n, Nil) /\ Fine(t, h, p, 1 - d, Nil, 0, n, Nil)
      BY <1>1, <1>2, <2>1
    <3>2. h[p] = Height(h, Child(t, p, d)) + Lack(p, d, Nil, 0) + Mark(t, p)
      BY <3>1 DEF Fine
    <3>3. h[p] = Height(h, Child(t, p, 1 - d)) + Lack(p, 1 - d, Nil, 0) + Mark(t, p)
      BY <3>1 DEF Fine
    <3>4. IsRed(t, p) /\ p # Nil /\ Child(t, p, d) # n => IsBlack(t, Child(t, p, d))
      BY <3>1 DEF Fine
    <3>5. Lack(p, d, Nil, 0) = 0 /\ Lack(p, 1 - d, Nil, 0) = 0
      BY <1>1, <2>2
    <3>6. h[p] = Height(h, n) + 0 + 0
      BY <1>l, <2>3, <3>3, <3>5
    <3>7. h[p] = Height(h, a) + 0 + 0
      BY <1>a, <2>3, <3>2, <3>5
    <3> QED BY <1>0, <1>1, <1>n, <1>a, <3>4, <3>6, <3>7
  <2>6. /\ h[n] = Height(h, b) + 0 + 0 /\ h[n] = Height(h, o) + 0 + 0
        /\ b # n => IsBlack(t, b)
        /\ o # n => IsBlack(t, o)
    <3>1. Fine(t, h, n, d, Nil, 0, n, Nil) /\ Fine(t, h, n, 1 - d, Nil, 0, n, Nil)
      BY <1>1, <1>n, <1>2, <2>1
    <3> QED BY <1>0, <1>1, <1>n, <1>b, <1>o, <2>2, <2>3, <3>1 DEF Fine
  <2> QED BY <1>0, <1>n, <2>4, <2>5, <2>6, HeightIs
<1>r. a \in Ref /\ b \in Ref /\ o \in Ref /\ a # n /\ b # n /\ o # n
  <2>1. ParentOf(t, n) = p
    BY DEF Bent
  <2> QED BY <1>0, <1>1, <1>n, <1>5, <2>1 DEF Ref
<1>9. \A m \in Nodes, f \in Dirs : In(g, m) /\ m # p /\ m # n => Fine(u, h, m, f, Nil, 0, p, Nil)
  <2>1. StillBlack(t, g, p, n, Nil, p, Nil)
    <3>1. \A m \in Nodes, f \in Dirs : In(g, m) /\ Child(t, m, f) = n => m = p
      BY <1>0, <1>l, <1>1, <1>2, KidFacts
    <3> QED BY <3>1 DEF Balanced, Fine, StillBlack, Else
  <2>2. Relevelled(h, h, p, n, Nil)
    BY <1>0, <1>8 DEF Relevelled
  <2>3. SameLinks(t, t) /\ Repainted(t, t, p, n, Nil) /\ SameLack(p, n, Nil, Nil, 0, Nil, 0)
    BY DEF SameLinks, Repainted, SameLack
  <2>4. ~IsRed(t, q)
    BY <1>0, <1>1, <1>n, ColorIs
  <2>5. \A m \in Nodes, f \in Dirs : In(g, m) /\ Else(m, p, n, Nil) => Fine(u, h, m, f, Nil, 0, p, Nil)
    BY <1>0, <1>1, <1>l, <1>m, <1>3, <1>4, <1>b, <2>1, <2>2, <2>3, <2>4, Elsewhere
  <2> QED BY <1>0, <2>5 DEF Else
<1>10. ASSUME NEW f \in Dirs PROVE Fine(u, h, p, f, Nil, 0, p, Nil)
  <2>1. PICK z : z = Child(u, p, f) /\ (z = a \/ z = b)
    BY <1>2, <1>6
  <2>2. h[p] = Height(h, z) + 0 + 0 /\ IsBlack(t, z) /\ z \in Ref
    BY <1>8, <1>r, <2>1
  <2>3. Mark(u, p) = 0 /\ Lack(p, f, Nil, 0) = 0
    BY <1>0, <1>1, <1>n, <1>4, <1>6, ColorIs, LackIs, RedIsNotBlack
  <2> QED BY <1>7, <2>1, <2>2, <2>3 DEF Fine
<1>11. ASSUME NEW f \in Dirs PROVE Fine(u, h, n, f, Nil, 0, p, Nil)
  <2>1. PICK z : z = Child(u, n, f) /\ (z = p \/ z = o)
    BY <1>2, <1>6
  <2>2. h[n] = Height(h, z) + 0 + 0 /\ (z # p => IsBlack(t, z)) /\ z \in Ref
    <3>1. p \in Ref /\ h[n] = Height(h, p) + 0 + 0
      BY <1>0, <1>1, <1>8, HeightIs DEF Ref
    <3> QED BY <1>8, <1>r, <2>1, <3>1
  <2>3. Mark(u, n) = 0 /\ Lack(n, f, Nil, 0) = 0
    BY <1>0, <1>1, <1>n, <1>4, <1>6, ColorIs, LackIs, RedIsNotBlack
  <2> QED BY <1>7, <2>1, <2>2, <2>3 DEF Fine
<1>12. IsBlack(u, u.Root)
  BY <1>0, <1>1, <1>6, <1>7, RootFacts DEF Balanced
<1>13. Balanced(u, g, h, Nil, 0, p, Nil)
  BY <1>0, <1>9, <1>10, <1>11, <1>12 DEF Balanced
<1>14. InLine(u, g, p, n, q, d)
  <2>1. Child(t, q, 1 - d) \in Ref
    BY <1>0, <1>1, <1>2, FieldTypes
  <2>2. IsRed(u, p) /\ IsRed(u, n) /\ IsBlack(u, q)
    BY <1>0, <1>1, <1>n, <1>4, <1>6, ColorIs
  <2>3. IsBlack(u, Child(u, q, 1 - d))
    <3>1. IsBlack(t, Child(t, q, 1 - d))
      BY DEF Bent
    <3> QED BY <1>6, <1>7, <2>1, <3>1
  <2> QED BY <1>1, <1>n, <1>6, <2>2, <2>3 DEF InLine
<1> QED BY <1>3, <1>13, <1>14

LEMMA OuterRight ==
  ASSUME NEW t, NEW g, Shape(t, g), NEW h, NEW m, NEW r, NEW q, NEW d, InLine(t, g, m, r, q, d),
         Balanced(t, g, h, Nil, 0, m, Nil),
         NEW u, u = Rotate(Paint(Paint(t, r, Black), q, Red), q, 1 - d)
  PROVE  /\ \E k : Moved(t, g, u, k)
         /\ \E k : Balanced(u, g, k, Nil, 0, m, Nil)
         /\ IsRed(u, m)
<1>0. t \in Trees /\ (\A i \in Nodes : i # Nil) /\ h \in [Nodes -> Nat]
  BY NilIsNoNode DEF Shape, Balanced
<1>1. /\ m \in Nodes /\ In(g, m) /\ IsRed(t, m)
      /\ r \in Nodes /\ In(g, r) /\ IsRed(t, r) /\ ParentOf(t, m) = r /\ Child(t, r, d) = m
      /\ q \in Nodes /\ In(g, q) /\ IsBlack(t, q) /\ ParentOf(t, r) = q /\ Child(t, q, d) = r
      /\ d \in Dirs /\ IsBlack(t, Child(t, q, 1 - d)) /\ r # q /\ m # r /\ m # q
      /\ m # t.Root
  BY DEF InLine
<1>2. 1 - d \in Dirs /\ 1 - (1 - d) = d /\ d # 1 - d /\ (\A f \in Dirs : f = d \/ f = 1 - d)
  BY <1>1 DEF Dirs
<1>v. PICK v1 : v1 = Paint(t, r, Black)
  OBVIOUS
<1>w. PICK v : v = Paint(v1, q, Red)
  OBVIOUS
<1>3. /\ Moved(t, g, v1, g) /\ SameLinks(t, v1)
      /\ \A i \in Nodes : ColorOf(v1, i) = IF i = r THEN Black ELSE ColorOf(t, i)
  BY <1>v, <1>1, PaintMoves DEF Ref
<1>4. /\ Moved(v1, g, v, g) /\ SameLinks(v1, v)
      /\ \A i \in Nodes : ColorOf(v, i) = IF i = q THEN Red ELSE ColorOf(v1, i)
  <2>1. Shape(v1, g) /\ q \in Ref
    BY <1>1, <1>3 DEF Moved, Ref
  <2> QED BY <1>w, <1>1, <2>1, PaintMoves
<1>5. /\ Moved(t, g, v, g) /\ SameLinks(t, v) /\ v \in Trees /\ Shape(v, g)
      /\ \A i \in Nodes : ColorOf(v, i) = IF i = q THEN Red ELSE IF i = r THEN Black
                                          ELSE ColorOf(t, i)
  <2>1. Moved(t, g, v, g)
    BY <1>3, <1>4, MovedTwice
  <2> QED BY <1>3, <1>4, <2>1 DEF SameLinks, Moved, Shape
<1>p. PICK p : p = ParentOf(t, q)
  OBVIOUS
<1>e. PICK e : e = Side(t, q)
  OBVIOUS
<1>b. PICK b : b = Child(t, r, 1 - d)
  OBVIOUS
<1>s. PICK s : s = Child(t, q, 1 - d)
  OBVIOUS
<1>6. /\ p = ParentOf(v, q) /\ e = Side(v, q) /\ b = Child(v, r, 1 - d)
      /\ r = Child(v, q, 1 - (1 - d)) /\ s = Child(v, q, 1 - d)
  <2>1. p \in Ref
    BY <1>0, <1>1, <1>p, FieldTypes
  <2>2. p = ParentOf(v, q) /\ (p # Nil => Child(v, p, 0) = Child(t, p, 0))
    BY <1>1, <1>5, <1>p, <2>1, NilIsNoNode DEF SameLinks, Dirs
  <2> QED BY <1>1, <1>2, <1>5, <1>p, <1>e, <1>b, <1>s, <2>2 DEF SameLinks, Side
<1>7. (\E k : Moved(v, g, u, k)) /\ Rotated(v, q, 1 - d, r, b, p, e, u)
  <2>1. u = Rotate(v, q, 1 - d)
    BY <1>v, <1>w
  <2> QED BY <1>0, <1>1, <1>2, <1>5, <1>6, <2>1, RotateMoves
<1>8. u \in Trees /\ \E k : Moved(t, g, u, k)
  <2>1. PICK k : Moved(v, g, u, k)
    BY <1>7
  <2>2. Moved(t, g, u, k)
    BY <1>5, <2>1, MovedTwice
  <2> QED BY <2>1, <2>2 DEF Moved, Shape
<1>9. /\ b # Nil => b \in Nodes /\ ParentOf(t, b) = r /\ b # m
      /\ s # Nil => s \in Nodes /\ ParentOf(t, s) = q /\ s # r
  BY <1>1, <1>2, <1>b, <1>s, KidFacts
<1>10. /\ e \in Dirs /\ p \in Ref
       /\ p = Nil <=> q = t.Root
       /\ p # Nil => p \in Nodes /\ In(g, p) /\ p # q /\ Child(t, p, e) = q
  BY <1>1, <1>p, <1>e, SideIs
<1>11. p # r
  BY <1>0, <1>1, <1>10, ChildFacts, NodeFacts DEF Dirs
<1>12. /\ Child(u, r, 1 - d) = q /\ Child(u, r, d) = m
       /\ Child(u, q, d) = b /\ Child(u, q, 1 - d) = s
       /\ u.Root = IF p = Nil THEN r ELSE t.Root
       /\ \A i \in Nodes : ColorOf(u, i) = IF i = q THEN Red ELSE IF i = r THEN Black
                                           ELSE ColorOf(t, i)
  <2>1. \A i \in Nodes : ColorOf(u, i) = IF i = q THEN Red ELSE IF i = r THEN Black
                                           ELSE ColorOf(t, i)
    BY <1>5, <1>7 DEF Rotated
  <2>2. u.Root = IF p = Nil THEN r ELSE t.Root
    BY <1>5, <1>7 DEF Rotated, SameLinks
  <2>3. \A i \in Nodes, f \in Dirs :
          Child(u, i, f) = IF i = r /\ f = 1 - d THEN q
                           ELSE IF i = p /\ f = e THEN r
                           ELSE IF i = q /\ f = 1 - (1 - d) THEN b ELSE Child(t, i, f)
    BY <1>5, <1>7 DEF Rotated, SameLinks
  <2>4. p # q
    BY <1>0, <1>1, <1>10
  <2> QED BY <1>1, <1>2, <1>s, <1>11, <2>1, <2>2, <2>3, <2>4
<1> DEFINE k == [i \in Nodes |-> IF i = r THEN h[q] ELSE IF i = q THEN h[r] ELSE h[i]]
<1>13. /\ k \in [Nodes -> Nat]
       /\ k[r] = h[q] /\ k[q] = h[r]
       /\ \A i \in Nodes : i # q /\ i # r => k[i] = h[i]
  BY <1>0, <1>1
<1> HIDE DEF k
<1>14. /\ h[q] = h[r] + 1 /\ h[q] = Height(h, s) + 1
       /\ h[r] = h[m] /\ h[r] = Height(h, b)
       /\ h[q] \in Nat /\ h[r] \in Nat
       /\ IsBlack(t, b) /\ IsBlack(t, s)
  <2>1. \A i \in Nodes, f \in Dirs : In(g, i) => Fine(t, h, i, f, Nil, 0, m, Nil)
    BY DEF Balanced
  <2>2. \A i \in Nodes : \A f : Lack(i, f, Nil, 0) = 0
    BY LackIs
  <2>3. Mark(t, q) = 1 /\ Mark(t, r) = 0
    BY <1>0, <1>1, ColorIs
  <2>4. Height(h, b) \in Nat /\ Height(h, s) \in Nat /\ Height(h, r) = h[r] /\ Height(h, m) = h[m]
        /\ h[r] \in Nat /\ h[q] \in Nat /\ h[m] \in Nat
    BY <1>0, <1>1, <1>9, HeightIs DEF Ref
  <2>5. h[q] = Height(h, r) + 0 + 1 /\ h[q] = Height(h, s) + 0 + 1
    BY <1>1, <1>2, <1>s, <2>1, <2>2, <2>3 DEF Fine
  <2>6. h[r] = Height(h, m) + 0 + 0 /\ h[r] = Height(h, b) + 0 + 0
    BY <1>1, <1>2, <1>b, <2>1, <2>2, <2>3 DEF Fine
  <2>7. IsBlack(t, b)
    <3>1. CASE b = Nil
      BY <1>0, <3>1, ColorIs
    <3>2. CASE b # Nil
      BY <1>0, <1>1, <1>2, <1>b, <1>9, <2>1, <3>2 DEF Fine
    <3> QED BY <3>1, <3>2
  <2> QED BY <1>1, <1>s, <2>4, <2>5, <2>6, <2>7
<1>15. \A i \in Nodes, f \in Dirs : In(g, i) /\ i # q /\ i # r => Fine(u, k, i, f, Nil, 0, m, Nil)
  <2>1. StillBlack(t, g, q, r, Nil, m, Nil)
    BY DEF Balanced, Fine, StillBlack
  <2>2. Relevelled(h, k, q, r, Nil)
    BY <1>13 DEF Relevelled, Else
  <2>3. Repainted(t, v, q, r, Nil)
    BY <1>5 DEF Repainted, Else
  <2>4. SameLack(q, r, Nil, Nil, 0, Nil, 0)
    BY DEF SameLack
  <2>5. IsBlack(v, r)
    BY <1>1, <1>5, ColorIs
  <2>6. r = Child(t, q, 1 - (1 - d)) /\ r # Nil
    BY <1>0, <1>1, <1>2
  <2>7. \A i \in Nodes, f \in Dirs : In(g, i) /\ Else(i, q, r, Nil) => Fine(u, k, i, f, Nil, 0, m, Nil)
    BY <1>1, <1>2, <1>5, <1>7, <1>8, <1>b, <1>p, <1>e, <2>1, <2>2, <2>3, <2>4, <2>5, <2>6, Elsewhere
  <2> QED BY <1>0, <2>7 DEF Else
<1>16. ASSUME NEW f \in Dirs PROVE Fine(u, k, q, f, Nil, 0, m, Nil)
  <2>1. PICK z : z = Child(u, q, f) /\ (z = b \/ z = s)
    BY <1>2, <1>12
  <2>2. z \in Ref /\ z # q /\ z # r /\ IsBlack(t, z) /\ h[r] = Height(h, z)
    <3>1. r # Nil /\ q # Nil
      BY <1>0, <1>1
    <3>2. b # q /\ b # r
      BY <1>0, <1>1, <1>9, <1>10, <1>11, <1>p, <3>1
    <3>3. s # q /\ s # r
      BY <1>0, <1>1, <1>9, <1>10, <1>p, <3>1
    <3>4. Height(h, s) = h[r]
      <4>1. Height(h, s) \in Nat
        BY <1>0, <1>9, HeightIs DEF Ref
      <4> QED BY <1>14, <4>1
    <3> QED BY <1>9, <1>14, <2>1, <3>2, <3>3, <3>4 DEF Ref
  <2>3. Height(k, z) = Height(h, z) /\ Height(k, z) \in Nat
    BY <1>0, <1>13, <2>2, HeightIs DEF Ref
  <2>4. IsBlack(u, z)
    BY <1>0, <1>8, <1>12, <2>2, ColorIs DEF Ref
  <2>5. Mark(u, q) = 0 /\ Lack(q, f, Nil, 0) = 0
    BY <1>1, <1>8, <1>12, ColorIs, LackIs DEF Red, Black
  <2> QED BY <1>13, <2>1, <2>2, <2>3, <2>4, <2>5 DEF Fine
<1>17. ASSUME NEW f \in Dirs PROVE Fine(u, k, r, f, Nil, 0, m, Nil)
  <2>1. PICK z : z = Child(u, r, f) /\ (z = q \/ z = m)
    BY <1>2, <1>12
  <2>2. Height(k, z) = h[r]
    BY <1>1, <1>13, <1>14, <2>1, HeightIs
  <2>3. Mark(u, r) = 1 /\ ~IsRed(u, r) /\ Lack(r, f, Nil, 0) = 0
    BY <1>1, <1>8, <1>12, ColorIs, LackIs
  <2> QED BY <1>13, <1>14, <2>1, <2>2, <2>3 DEF Fine
<1>18. IsBlack(u, u.Root)
  <2>1. CASE p = Nil
    BY <1>1, <1>8, <1>12, <2>1, ColorIs
  <2>2. CASE p # Nil
    <3>1. t.Root \in Nodes /\ t.Root # q /\ t.Root # r /\ IsBlack(t, t.Root)
      <4>1. t.Root # Nil
        BY <1>0, <1>1, RootFacts, NodeFacts
      <4>2. ParentOf(t, t.Root) = Nil /\ t.Root \in Nodes
        BY <4>1, RootFacts
      <4> QED BY <1>0, <1>1, <1>10, <2>2, <4>2 DEF Balanced
    <3> QED BY <1>0, <1>8, <1>12, <2>2, <3>1, ColorIs
  <2> QED BY <2>1, <2>2
<1>19. Balanced(u, g, k, Nil, 0, m, Nil)
  BY <1>13, <1>15, <1>16, <1>17, <1>18 DEF Balanced
<1>20. IsRed(u, m)
  BY <1>0, <1>1, <1>8, <1>12, ColorIs
<1> QED BY <1>8, <1>19, <1>20


\* What the exemptions of Balanced cost when there is nothing to exempt.
LEMMA Drop ==
  ASSUME NEW t \in Trees, NEW g, NEW h, NEW p, NEW e, NEW x, NEW y, Balanced(t, g, h, p, e, x, y),
         y = Nil \/ IsBlack(t, y),
         \/ IsBlack(t, x)
         \/ /\ x # t.Root
            /\ \A m \in Nodes, f \in Dirs : In(g, m) /\ Child(t, m, f) = x => IsBlack(t, m)
  PROVE  Balanced(t, g, h, p, e, Nil, Nil)
<1>1. ASSUME NEW m \in Nodes, NEW f \in Dirs, In(g, m)
      PROVE  Fine(t, h, m, f, p, e, Nil, Nil)
  <2>1. Fine(t, h, m, f, p, e, x, y)
    BY <1>1 DEF Balanced
  <2>2. IsRed(t, m) => m # y
    BY <1>1, NilIsNoNode, ColorIs
  <2>3. IsRed(t, m) /\ Child(t, m, f) = x => IsBlack(t, x)
    BY <1>1, ColorIs
  <2> QED BY <2>1, <2>2, <2>3 DEF Fine
<1>2. IsBlack(t, t.Root)
  BY DEF Balanced
<1> QED BY <1>1, <1>2 DEF Balanced

LEMMA Weaken ==
  ASSUME NEW t \in Trees, NEW g, NEW h, NEW p, NEW e, Balanced(t, g, h, p, e, Nil, Nil),
         NEW x, NEW y
  PROVE  Balanced(t, g, h, p, e, x, y)
<1>1. ASSUME NEW m \in Nodes, NEW f \in Dirs, In(g, m)
      PROVE  Fine(t, h, m, f, p, e, x, y)
  <2>1. Fine(t, h, m, f, p, e, Nil, Nil)
    BY <1>1 DEF Balanced
  <2>2. m # Nil /\ IsBlack(t, Nil)
    BY <1>1, NilIsNoNode, ColorIs
  <2> QED BY <2>1, <2>2 DEF Fine
<1>2. IsBlack(t, t.Root)
  BY ColorIs DEF Balanced
<1> QED BY <1>1, <1>2 DEF Balanced

LEMMA SameColors ==
  ASSUME NEW t \in Trees, NEW g, NEW h, NEW p, NEW e, NEW x, NEW y, Balanced(t, g, h, p, e, x, y),
         NEW u \in Trees, SameLinks(t, u), \A m \in Nodes : ColorOf(u, m) = ColorOf(t, m)
  PROVE  Balanced(u, g, h, p, e, x, y)
<1>0. \A m \in Ref : IsBlack(u, m) <=> IsBlack(t, m)
  BY ColorIs DEF Ref
<1>1. ASSUME NEW m \in Nodes, NEW f \in Dirs, In(g, m)
      PROVE  Fine(u, h, m, f, p, e, x, y)
  <2>1. Fine(t, h, m, f, p, e, x, y)
    BY <1>1 DEF Balanced
  <2>2. Child(u, m, f) = Child(t, m, f) /\ Child(t, m, f) \in Ref
    BY FieldTypes DEF SameLinks
  <2>3. Mark(u, m) = Mark(t, m) /\ (IsRed(u, m) <=> IsRed(t, m))
    BY ColorIs
  <2> QED BY <1>0, <2>1, <2>2, <2>3 DEF Fine
<1>2. u.Root # x => IsBlack(u, u.Root)
  BY <1>0, FieldTypes DEF Balanced, SameLinks
<1> QED BY <1>1, <1>2 DEF Balanced

\* A red node one black short, or the root, is painted black.
LEMMA BlackenRight ==
  ASSUME NEW t, NEW g, Shape(t, g), NEW h, NEW x \in Nodes, In(g, x), IsRed(t, x),
         NEW p, p = ParentOf(t, x), NEW e \in Dirs, p # Nil => Child(t, p, e) = x,
         NEW y, y = Nil \/ y = x, Balanced(t, g, h, p, e, x, y),
         NEW u \in Trees, SameLinks(t, u),
         \A m \in Nodes : ColorOf(u, m) = IF m = x THEN Black ELSE ColorOf(t, m)
  PROVE  \E k : Balanced(u, g, k, Nil, 0, Nil, Nil)
<1>0. t \in Trees /\ (\A m \in Nodes : m # Nil) /\ h \in [Nodes -> Nat]
  BY NilIsNoNode DEF Shape, Balanced
<1>1. p # Nil => p \in Nodes /\ In(g, p) /\ p # x
  BY SideIs
<1> DEFINE k == [m \in Nodes |-> IF m = x THEN h[m] + 1 ELSE h[m]]
<1>2. /\ k \in [Nodes -> Nat]
      /\ \A m \in Nodes : k[m] = IF m = x THEN h[m] + 1 ELSE h[m]
  BY <1>0
<1> HIDE DEF k
<1>3. ASSUME NEW m \in Nodes, NEW f \in Dirs, In(g, m)
      PROVE  Fine(u, k, m, f, Nil, 0, Nil, Nil)
  <2>1. PICK z : z = Child(t, m, f)
    OBVIOUS
  <2>2. z # Nil => z \in Nodes /\ ParentOf(t, z) = m /\ z # m
                   /\ \A c \in Dirs : c # f => z # Child(t, m, c)
    BY <1>3, <2>1, KidFacts
  <2>3. Child(u, m, f) = z
    BY <2>1 DEF SameLinks
  <2>4. /\ h[m] = Height(h, z) + Lack(m, f, p, e) + Mark(t, m)
        /\ IsRed(t, m) /\ m # y /\ z # x => IsBlack(t, z)
    BY <1>3, <2>1 DEF Balanced, Fine
  <2>5. Height(h, z) \in Nat /\ Lack(m, f, Nil, 0) = 0 /\ h[m] \in Nat
    BY <1>0, <2>2, HeightIs, LackIs
  <2>6. z # x /\ IsBlack(t, z) => IsBlack(u, z)
    BY <1>0, <2>2, ColorIs
  <2>7. IsBlack(u, x) /\ (m # x => (IsRed(u, m) <=> IsRed(t, m)) /\ Mark(u, m) = Mark(t, m))
    BY <1>0, ColorIs
  <2>8. CASE z = x
    <3>1. m = p /\ f = e
      BY <1>0, <2>1, <2>2, <2>8
    <3>2. Lack(m, f, p, e) = 1
      BY <3>1, LackIs
    <3>3. Height(k, z) = Height(h, z) + 1 /\ Mark(u, m) = Mark(t, m) /\ k[m] = h[m]
      BY <1>0, <1>1, <1>2, <2>2, <2>7, <2>8, HeightIs
    <3>4. k[m] = Height(k, z) + 0 + Mark(u, m)
      <4>1. Mark(t, m) \in {0, 1}
        BY DEF Mark
      <4> QED BY <2>4, <2>5, <3>2, <3>3, <4>1
    <3> QED BY <2>3, <2>5, <2>7, <2>8, <3>4 DEF Fine
  <2>9. CASE z # x
    <3>1. Lack(m, f, p, e) = 0
      BY <1>0, <2>1, <2>9, LackIs
    <3>2. Height(k, z) = Height(h, z)
      BY <1>0, <1>2, <2>2, <2>9, HeightIs
    <3>3. Mark(t, m) \in {0, 1} /\ (m = x => Mark(t, m) = 0 /\ Mark(u, m) = 1 /\ ~IsRed(u, m))
      BY <1>0, ColorIs
    <3>4. k[m] = Height(k, z) + 0 + Mark(u, m)
      BY <1>2, <2>4, <2>5, <2>7, <3>1, <3>2, <3>3
    <3>5. IsRed(u, m) => IsBlack(u, z)
      BY <1>0, <2>4, <2>6, <2>7, <2>9, <3>3
    <3> QED BY <2>3, <2>5, <3>4, <3>5 DEF Fine
  <2> QED BY <2>8, <2>9
<1>4. IsBlack(u, u.Root)
  <2>1. u.Root = t.Root /\ t.Root \in Ref
    BY <1>0, FieldTypes DEF SameLinks
  <2>2. t.Root # x => IsBlack(t, t.Root)
    BY DEF Balanced
  <2> QED BY <1>0, <2>1, <2>2, ColorIs DEF Ref
<1>5. Balanced(u, g, k, Nil, 0, Nil, Nil)
  BY <1>2, <1>3, <1>4 DEF Balanced
<1> QED BY <1>5

LEMMA InsertDoneRight ==
  ASSUME NEW t, NEW g, Shape(t, g), NEW h, NEW n \in Nodes, In(g, n), IsRed(t, n),
         Balanced(t, g, h, Nil, 0, n, Nil),
         NEW p, p = ParentOf(t, n), ~(p # Nil /\ IsRed(t, p)),
         NEW u, u = Paint(t, t.Root, Black)
  PROVE  Moved(t, g, u, g) /\ \E k : Balanced(u, g, k, Nil, 0, Nil, Nil)
<1>0. t \in Trees /\ (\A m \in Nodes : m # Nil)
  BY NilIsNoNode DEF Shape
<1>1. /\ Moved(t, g, u, g) /\ SameLinks(t, u)
      /\ \A m \in Nodes : ColorOf(u, m) = IF m = t.Root THEN Black ELSE ColorOf(t, m)
  <2>1. t.Root \in Ref /\ (t.Root # Nil => In(g, t.Root))
    BY RootFacts
  <2> QED BY <2>1, PaintMoves
<1>2. u \in Trees
  BY <1>1 DEF Moved, Shape
<1>3. p = Nil <=> n = t.Root
  BY SideIs
<1>4. CASE p = Nil
  <2>1. \A m \in Nodes : ColorOf(u, m) = IF m = n THEN Black ELSE ColorOf(t, m)
    BY <1>1, <1>3, <1>4
  <2>2. 0 \in Dirs
    BY DEF Dirs
  <2> QED BY <1>1, <1>2, <1>4, <2>1, <2>2, BlackenRight
<1>5. CASE p # Nil
  <2>1. IsBlack(t, p)
    BY <1>5 DEF IsRed
  <2>2. \A m \in Nodes, f \in Dirs : In(g, m) /\ Child(t, m, f) = n => IsBlack(t, m)
    BY <1>0, <2>1, KidFacts
  <2>3. Balanced(t, g, h, Nil, 0, Nil, Nil)
    BY <1>0, <1>3, <1>5, <2>2, Drop
  <2>4. \A m \in Nodes : ColorOf(u, m) = ColorOf(t, m)
    <3>1. t.Root \in Nodes => ColorOf(t, t.Root) = Black
      BY <1>0, <2>3, ColorIs DEF Balanced
    <3> QED BY <1>1, <3>1
  <2> QED BY <1>0, <1>1, <1>2, <2>3, <2>4, SameColors
<1> QED BY <1>1, <1>4, <1>5

LEMMA DeleteDoneRight ==
  ASSUME NEW t, NEW g, Shape(t, g), NEW h, NEW x \in Ref, NEW p \in Ref, NEW e \in Dirs,
         Balanced(t, g, h, p, e, x, x),
         IF p = Nil THEN x = t.Root ELSE In(g, p) /\ Child(t, p, e) = x,
         ~(x # t.Root /\ IsBlack(t, x) /\ p # Nil),
         NEW v, v = Paint(t, x, Black), NEW u, u = Paint(v, v.Root, Black)
  PROVE  Moved(t, g, u, g) /\ \E k : Balanced(u, g, k, Nil, 0, Nil, Nil)
<1>0. t \in Trees /\ (\A m \in Nodes : m # Nil) /\ (p # Nil => p \in Nodes) /\ (x # Nil => x \in Nodes)
  BY NilIsNoNode DEF Shape
<1>1. /\ x # Nil => In(g, x) /\ ParentOf(t, x) = p
      /\ x = t.Root \/ IsRed(t, x)
      /\ x = t.Root => p = Nil
  <2>1. t.Root # Nil => In(g, t.Root) /\ ParentOf(t, t.Root) = Nil
    BY RootFacts
  <2>2. p # Nil /\ x # Nil => In(g, x) /\ ParentOf(t, x) = p /\ x # t.Root
    BY <1>0, KidFacts
  <2>3. p # Nil => t.Root # Nil
    BY <1>0, RootFacts, NodeFacts
  <2>4. x = t.Root \/ IsRed(t, x)
    BY <2>1 DEF IsRed
  <2> QED BY <2>1, <2>2, <2>3, <2>4
<1>2. /\ Moved(t, g, v, g) /\ SameLinks(t, v)
      /\ \A m \in Nodes : ColorOf(v, m) = IF m = x THEN Black ELSE ColorOf(t, m)
  BY <1>1, PaintMoves
<1>3. /\ Moved(v, g, u, g) /\ SameLinks(v, u)
      /\ \A m \in Nodes : ColorOf(u, m) = IF m = t.Root THEN Black ELSE ColorOf(v, m)
  <2>1. Shape(v, g) /\ v.Root = t.Root
    BY <1>2 DEF Moved, SameLinks
  <2>2. t.Root \in Ref /\ (t.Root # Nil => In(g, t.Root))
    BY RootFacts
  <2> QED BY <2>1, <2>2, PaintMoves
<1>4. Moved(t, g, u, g) /\ SameLinks(t, u) /\ u \in Trees
  <2>1. Moved(t, g, u, g)
    BY <1>2, <1>3, MovedTwice
  <2> QED BY <1>2, <1>3, <2>1 DEF SameLinks, Moved, Shape
<1>5. \A m \in Nodes : ColorOf(u, m) = IF m = x THEN Black ELSE ColorOf(t, m)
  <2>1. t.Root \in Nodes /\ t.Root # x => ColorOf(t, t.Root) = Black
    BY <1>0, ColorIs DEF Balanced
  <2> QED BY <1>2, <1>3, <2>1
<1>6. CASE IsRed(t, x)
  <2>1. x \in Nodes /\ In(g, x) /\ p = ParentOf(t, x)
    BY <1>0, <1>1, <1>6, ColorIs
  <2> QED BY <1>4, <1>5, <1>6, <2>1, BlackenRight
<1>7. CASE ~IsRed(t, x)
  <2>1. IsBlack(t, x) /\ p = Nil
    BY <1>1, <1>7 DEF IsRed
  <2>2. Balanced(t, g, h, p, e, Nil, Nil)
    BY <1>0, <2>1, Drop
  <2>3. Balanced(t, g, h, Nil, 0, Nil, Nil)
    <3>1. \A m \in Nodes, f \in Dirs : Fine(t, h, m, f, Nil, e, Nil, Nil) => Fine(t, h, m, f, Nil, 0, Nil, Nil)
      BY LackIs DEF Fine
    <3> QED BY <2>1, <2>2, <3>1 DEF Balanced
  <2>4. \A m \in Nodes : ColorOf(u, m) = ColorOf(t, m)
    BY <1>0, <1>5, <2>1, ColorIs
  <2> QED BY <1>0, <1>4, <2>3, <2>4, SameColors
<1> QED BY <1>4, <1>6, <1>7

(***************************************************************************)
(* deleteFixup                                                             *)
(***************************************************************************)

\* A rotation of a tree that was painted first.
LEMMA RotatePainted ==
  ASSUME NEW t, NEW g, Shape(t, g), NEW n \in Nodes, In(g, n), NEW d \in Dirs,
         NEW c, c = Child(t, n, 1 - d), c # Nil, NEW b, b = Child(t, c, d),
         NEW p, p = ParentOf(t, n), NEW e, e = Side(t, n),
         NEW w, Moved(t, g, w, g), SameLinks(t, w), NEW u, u = Rotate(w, n, d)
  PROVE  /\ w \in Trees /\ u \in Trees /\ \E k : Moved(t, g, u, k)
         /\ Rotated(w, n, d, c, b, p, e, u)
<1>0. t \in Trees /\ w \in Trees /\ Shape(w, g) /\ 1 - d \in Dirs
  BY DEF Shape, Moved, Dirs
<1>1. c \in Nodes
  BY <1>0, KidFacts
<1>2. p = ParentOf(w, n) /\ c = Child(w, n, 1 - d) /\ b = Child(w, c, d)
  BY <1>0, <1>1 DEF SameLinks
<1>3. e = Side(w, n)
  <2>1. p # Nil => Child(w, p, 0) = Child(t, p, 0)
    BY <1>0, FieldTypes, NilIsNoNode DEF SameLinks, Dirs
  <2> QED BY <1>2, <2>1 DEF Side
<1>4. (\E k : Moved(w, g, u, k)) /\ Rotated(w, n, d, c, b, p, e, u)
  BY <1>0, <1>2, <1>3, RotateMoves
<1>5. PICK k : Moved(w, g, u, k)
  BY <1>4
<1>6. Moved(t, g, u, k) /\ u \in Trees
  BY <1>5, MovedTwice DEF Moved, Shape
<1> QED BY <1>0, <1>4, <1>6

\* The nodes about the rotation.
LEMMA AboutRotation ==
  ASSUME NEW t, NEW g, Shape(t, g), NEW n \in Nodes, In(g, n), NEW d \in Dirs,
         NEW c, c = Child(t, n, 1 - d), c # Nil, NEW b, b = Child(t, c, d),
         NEW p, p = ParentOf(t, n), NEW e, e = Side(t, n),
         NEW a, a = Child(t, n, d), NEW o, o = Child(t, c, 1 - d),
         NEW w, SameLinks(t, w), NEW u, Rotated(w, n, d, c, b, p, e, u)
  PROVE  /\ c \in Nodes /\ In(g, c) /\ c # n /\ p # c /\ ParentOf(t, c) = n /\ c # t.Root
         /\ a # Nil => a \in Nodes /\ ParentOf(t, a) = n /\ a # n /\ a # c
         /\ b # Nil => b \in Nodes /\ ParentOf(t, b) = c /\ b # n /\ b # c /\ b # a
         /\ o # Nil => o \in Nodes /\ In(g, o) /\ ParentOf(t, o) = c /\ o # n /\ o # c /\ o # a
                       /\ o # b /\ o # t.Root
         /\ Child(u, c, d) = n /\ Child(u, c, 1 - d) = o
         /\ Child(u, n, d) = a /\ Child(u, n, 1 - d) = b
         /\ \A f \in Dirs : f = d \/ f = 1 - d
         /\ 1 - d \in Dirs /\ d # 1 - d
<1>1. t \in Trees /\ (\A m \in Nodes : m # Nil) /\ 1 - d \in Dirs /\ d # 1 - d
      /\ \A f \in Dirs : f = d \/ f = 1 - d
  BY NilIsNoNode DEF Shape, Dirs
<1>2. /\ c \in Nodes /\ In(g, c) /\ c # n /\ ParentOf(t, c) = n /\ c # t.Root
      /\ c # Child(t, n, d)
  BY <1>1, KidFacts
<1>3. p # c
  <2>1. p # Nil => Child(t, p, e) = n /\ p \in Nodes /\ In(g, p) /\ e \in Dirs
    BY <1>1, SideIs
  <2>2. CASE p = c
    <3>1. Child(t, c, 0) = n \/ Child(t, c, 1) = n
      BY <1>2, <1>1, <2>1, <2>2 DEF Dirs
    <3>2. Lo(g, n) >= Lo(g, c) /\ Hi(g, n) <= Hi(g, c) /\ ~Within(g, Pos(g, c), n)
      BY <1>2, <1>1, <3>1, ChildFacts, NodeFacts DEF Within
    <3>3. Lo(g, c) >= Lo(g, n) /\ Hi(g, c) <= Hi(g, n)
      BY <1>2, <1>1, ChildFacts, NodeFacts DEF Dirs
    <3> QED BY <1>2, <3>2, <3>3, NodeFacts DEF Within
  <2> QED BY <2>2
<1>4. /\ a # Nil => a \in Nodes /\ ParentOf(t, a) = n /\ a # n /\ a # c
  BY <1>1, <1>2, KidFacts
<1>5. b # Nil => b \in Nodes /\ ParentOf(t, b) = c /\ b # c /\ b # n /\ b # a
  BY <1>1, <1>2, <1>3, <1>4, KidFacts
<1>6. o # Nil => o \in Nodes /\ In(g, o) /\ ParentOf(t, o) = c /\ o # c /\ o # n /\ o # a /\ o # b
                 /\ o # t.Root
  BY <1>1, <1>2, <1>3, <1>4, KidFacts
<1>7. p = Nil \/ p # n
  BY <1>1, SideIs
<1>8. /\ Child(u, c, d) = n /\ Child(u, n, 1 - d) = b
  BY <1>1, <1>2, <1>3, <1>7 DEF Rotated
<1>9. Child(u, c, 1 - d) = o /\ Child(u, n, d) = a
  BY <1>1, <1>2, <1>3, <1>7 DEF Rotated, SameLinks
<1> QED BY <1>1, <1>2, <1>3, <1>4, <1>5, <1>6, <1>8, <1>9

\* It is balanced when the nodes whose color or height changes are.
LEMMA Turned ==
  ASSUME NEW t, NEW g, Shape(t, g), NEW h, NEW pt, NEW et, Balanced(t, g, h, pt, et, Nil, Nil),
         NEW n \in Nodes, In(g, n), NEW d \in Dirs,
         NEW c, c = Child(t, n, 1 - d), c # Nil, NEW b, b = Child(t, c, d),
         NEW p, p = ParentOf(t, n), NEW e, e = Side(t, n),
         NEW o, o = Nil \/ o = Child(t, c, 1 - d),
         NEW w \in Trees, SameLinks(t, w), NEW u \in Trees, Rotated(w, n, d, c, b, p, e, u),
         Repainted(t, w, n, c, o), NEW k, Relevelled(h, k, n, c, o),
         NEW pu, NEW eu, SameLack(n, c, o, pt, et, pu, eu),
         p = Nil \/ IsRed(t, p) => IsBlack(w, c),
         \A m \in Nodes, f \in Dirs : m = n \/ m = c \/ m = o => Fine(u, k, m, f, pu, eu, Nil, Nil)
  PROVE  Balanced(u, g, k, pu, eu, Nil, Nil)
<1>0. t \in Trees /\ (\A i \in Nodes : i # Nil) /\ 1 - d \in Dirs
  BY NilIsNoNode DEF Shape, Dirs
<1>1. StillBlack(t, g, n, c, o, Nil, Nil)
  <2>1. IsBlack(t, Nil)
    BY <1>0, ColorIs
  <2>2. \A m \in Nodes, f \in Dirs : In(g, m) => Fine(t, h, m, f, pt, et, Nil, Nil)
    BY DEF Balanced
  <2> QED BY <1>0, <2>1, <2>2 DEF StillBlack, Fine
<1>2. \A m \in Nodes, f \in Dirs : In(g, m) /\ Else(m, n, c, o) => Fine(u, k, m, f, pu, eu, Nil, Nil)
  BY <1>1, Elsewhere
<1>3. \A m \in Nodes, f \in Dirs : In(g, m) => Fine(u, k, m, f, pu, eu, Nil, Nil)
  BY <1>2 DEF Else
<1>4. IsBlack(u, u.Root)
  <2>1. /\ u.Root = IF p = Nil THEN c ELSE t.Root
        /\ \A m \in Nodes : ColorOf(u, m) = ColorOf(w, m)
    BY DEF Rotated, SameLinks
  <2>2. c \in Nodes /\ In(g, c) /\ c # t.Root
    BY <1>0, KidFacts
  <2>3. CASE p = Nil
    BY <1>0, <2>1, <2>2, <2>3, ColorIs
  <2>4. CASE p # Nil
    <3>1. t.Root # n /\ t.Root \in Ref /\ IsBlack(t, t.Root)
      BY <2>4, SideIs, RootFacts, ColorIs, <1>0 DEF Balanced
    <3>2. o # Nil => t.Root # o
      BY <1>0, <2>2, KidFacts
    <3>3. t.Root # Nil => ColorOf(w, t.Root) = ColorOf(t, t.Root)
      BY <2>2, <3>1, <3>2, NilIsNoNode DEF Repainted, Else
    <3> QED BY <1>0, <2>1, <2>4, <3>1, <3>3, ColorIs, NilIsNoNode
  <2> QED BY <2>3, <2>4
<1>5. k \in [Nodes -> Nat]
  BY DEF Relevelled
<1> QED BY <1>3, <1>4, <1>5 DEF Balanced

\* The state of the loop: the child x of p in direction d is black, perhaps
\* nil, and one black short.
ShortAt(t, g, h, p, d) ==
  /\ p \in Nodes /\ In(g, p) /\ d \in Dirs
  /\ IsBlack(t, Child(t, p, d))
  /\ Balanced(t, g, h, p, d, Nil, Nil)

\* Two nodes are painted.
LEMMA PaintTwice ==
  ASSUME NEW t, NEW g, Shape(t, g), NEW m \in Nodes, In(g, m), NEW c \in {Red, Black},
         NEW n \in Nodes, In(g, n), NEW f \in {Red, Black},
         NEW u, u = Paint(Paint(t, m, c), n, f)
  PROVE  /\ Moved(t, g, u, g) /\ SameLinks(t, u)
         /\ \A i \in Nodes : ColorOf(u, i) = IF i = n THEN f ELSE IF i = m THEN c
                                             ELSE ColorOf(t, i)
<1>1. PICK v : v = Paint(t, m, c)
  OBVIOUS
<1>2. /\ Moved(t, g, v, g) /\ SameLinks(t, v)
      /\ \A i \in Nodes : ColorOf(v, i) = IF i = m THEN c ELSE ColorOf(t, i)
  BY <1>1, PaintMoves DEF Ref
<1>3. /\ Moved(v, g, u, g) /\ SameLinks(v, u)
      /\ \A i \in Nodes : ColorOf(u, i) = IF i = n THEN f ELSE ColorOf(v, i)
  <2>1. Shape(v, g) /\ n \in Ref /\ u = Paint(v, n, f)
    BY <1>1, <1>2 DEF Moved, Ref
  <2> QED BY <2>1, PaintMoves
<1>4. Moved(t, g, u, g)
  BY <1>2, <1>3, MovedTwice
<1> QED BY <1>2, <1>3, <1>4 DEF SameLinks

LEMMA BlackSiblingRight ==
  ASSUME NEW t, NEW g, Shape(t, g), NEW h, NEW n, NEW d, ShortAt(t, g, h, n, d),
         NEW c, c = Child(t, n, 1 - d),
         NEW u, u = IF IsRed(t, c) THEN Rotate(Paint(Paint(t, c, Black), n, Red), n, d) ELSE t
  PROVE  /\ \E k : Moved(t, g, u, k)
         /\ \E k : ShortAt(u, g, k, n, d)
         /\ Child(u, n, d) = Child(t, n, d)
         /\ IsBlack(u, Child(u, n, 1 - d))
<1>0. t \in Trees /\ (\A i \in Nodes : i # Nil) /\ h \in [Nodes -> Nat]
  BY NilIsNoNode DEF Shape, ShortAt, Balanced
<1>1. /\ n \in Nodes /\ In(g, n) /\ d \in Dirs /\ IsBlack(t, Child(t, n, d))
      /\ Balanced(t, g, h, n, d, Nil, Nil)
  BY DEF ShortAt
<1>2. CASE ~IsRed(t, c)
  <2>1. IsBlack(t, c) /\ u = t
    BY <1>2 DEF IsRed
  <2>2. Moved(t, g, t, g)
    BY DEF Moved
  <2> QED BY <2>1, <2>2
<1>3. CASE IsRed(t, c)
  <2>c. c # Nil /\ c \in Nodes /\ In(g, c) /\ c # n /\ 1 - d \in Dirs
    <3>1. c # Nil /\ 1 - d \in Dirs
      BY <1>0, <1>1, <1>3, ColorIs DEF Dirs
    <3> QED BY <1>1, <3>1, KidFacts
  <2>w. PICK w : w = Paint(Paint(t, c, Black), n, Red)
    OBVIOUS
  <2>b. PICK b : b = Child(t, c, d)
    OBVIOUS
  <2>p. PICK p : p = ParentOf(t, n)
    OBVIOUS
  <2>e. PICK e : e = Side(t, n)
    OBVIOUS
  <2>a. PICK a : a = Child(t, n, d)
    OBVIOUS
  <2>o. PICK o : o = Child(t, c, 1 - d)
    OBVIOUS
  <2>1. /\ Moved(t, g, w, g) /\ SameLinks(t, w)
        /\ \A i \in Nodes : ColorOf(w, i) = IF i = n THEN Red ELSE IF i = c THEN Black
                                            ELSE ColorOf(t, i)
    BY <1>1, <2>c, <2>w, PaintTwice
  <2>2. /\ w \in Trees /\ u \in Trees /\ \E k : Moved(t, g, u, k)
        /\ Rotated(w, n, d, c, b, p, e, u)
    <3>1. u = Rotate(w, n, d)
      BY <1>3, <2>w
    <3> QED BY <1>1, <2>c, <2>b, <2>p, <2>e, <2>1, <3>1, RotatePainted
  <2>3. /\ c \in Nodes /\ In(g, c) /\ c # n /\ p # c /\ ParentOf(t, c) = n /\ c # t.Root
        /\ a # Nil => a \in Nodes /\ ParentOf(t, a) = n /\ a # n /\ a # c
        /\ b # Nil => b \in Nodes /\ ParentOf(t, b) = c /\ b # n /\ b # c /\ b # a
        /\ o # Nil => o \in Nodes /\ In(g, o) /\ ParentOf(t, o) = c /\ o # n /\ o # c /\ o # a
                       /\ o # b /\ o # t.Root
        /\ Child(u, c, d) = n /\ Child(u, c, 1 - d) = o
        /\ Child(u, n, d) = a /\ Child(u, n, 1 - d) = b
        /\ \A f \in Dirs : f = d \/ f = 1 - d
        /\ 1 - d \in Dirs /\ d # 1 - d
    BY <1>1, <2>c, <2>b, <2>p, <2>e, <2>a, <2>o, <2>1, <2>2, AboutRotation
  <2>f. /\ Fine(t, h, n, d, n, d, Nil, Nil) /\ Fine(t, h, n, 1 - d, n, d, Nil, Nil)
        /\ Fine(t, h, c, d, n, d, Nil, Nil) /\ Fine(t, h, c, 1 - d, n, d, Nil, Nil)
    BY <1>1, <2>3 DEF Balanced
  <2>m. /\ IsBlack(t, n) /\ Mark(t, n) = 1 /\ Mark(t, c) = 0
    <3>1. IsBlack(t, n)
      <4>1. IsRed(t, n) => IsBlack(t, c)
        BY <1>0, <1>1, <2>c, <2>f DEF Fine
      <4> QED BY <1>0, <1>1, <1>3, <4>1, ColorIs
    <3> QED BY <1>0, <1>1, <1>3, <2>c, <3>1, ColorIs
  <2>4. /\ h[n] = Height(h, a) + 1 + 1 /\ h[n] = h[c] + 0 + 1
        /\ h[c] = Height(h, b) + 0 + 0 /\ h[c] = Height(h, o) + 0 + 0
        /\ IsBlack(t, a) /\ IsBlack(t, b) /\ IsBlack(t, o)
        /\ Height(h, a) \in Nat /\ Height(h, b) \in Nat /\ Height(h, o) \in Nat /\ h[c] \in Nat
    <3>1. /\ Lack(n, d, n, d) = 1 /\ Lack(n, 1 - d, n, d) = 0
          /\ Lack(c, d, n, d) = 0 /\ Lack(c, 1 - d, n, d) = 0
      BY <2>3, LackIs
    <3>2. h[n] = Height(h, a) + 1 + 1 /\ h[n] = Height(h, c) + 0 + 1
      BY <2>a, <2>f, <2>m, <3>1 DEF Fine
    <3>3. h[c] = Height(h, b) + 0 + 0 /\ h[c] = Height(h, o) + 0 + 0
      BY <2>b, <2>o, <2>f, <2>m, <3>1 DEF Fine
    <3>4. IsBlack(t, b) /\ IsBlack(t, o)
      <4>1. b # Nil => IsBlack(t, b)
        BY <1>0, <1>3, <2>3, <2>b, <2>f DEF Fine
      <4>2. o # Nil => IsBlack(t, o)
        BY <1>0, <1>3, <2>3, <2>o, <2>f DEF Fine
      <4> QED BY <1>0, <4>1, <4>2, ColorIs
    <3>5. Height(h, c) = h[c]
      BY <1>0, <2>3, HeightIs
    <3>6. Height(h, a) \in Nat /\ Height(h, b) \in Nat /\ Height(h, o) \in Nat /\ h[c] \in Nat
      BY <1>0, <2>3, HeightIs DEF Ref
    <3> QED BY <1>1, <2>a, <3>2, <3>3, <3>4, <3>5, <3>6
  <2> DEFINE k == [i \in Nodes |-> IF i = n THEN h[c] ELSE IF i = c THEN h[n] ELSE h[i]]
  <2>5. /\ k \in [Nodes -> Nat] /\ k[n] = h[c] /\ k[c] = h[n]
        /\ \A i \in Nodes : k[i] = IF i = n THEN h[c] ELSE IF i = c THEN h[n] ELSE h[i]
    BY <1>0, <1>1, <2>3
  <2> HIDE DEF k
  <2>6. /\ Height(k, a) = Height(h, a) /\ Height(k, b) = Height(h, b)
        /\ Height(k, o) = Height(h, o) /\ Height(k, n) = h[c]
    BY <1>0, <1>1, <2>3, <2>5, HeightIs
  <2>7. \A i \in Nodes : ColorOf(u, i) = IF i = n THEN Red ELSE IF i = c THEN Black
                                         ELSE ColorOf(t, i)
    BY <2>1, <2>2 DEF Rotated
  <2>8. /\ IsBlack(u, a) /\ IsBlack(u, b) /\ IsBlack(u, o) /\ IsBlack(u, c) /\ ~IsRed(u, c)
        /\ Mark(u, n) = 0 /\ Mark(u, c) = 1
    <3>1. IsBlack(u, c) /\ ~IsRed(u, c) /\ Mark(u, c) = 1 /\ Mark(u, n) = 0
      BY <1>1, <2>2, <2>3, <2>7, ColorIs, RedIsNotBlack
    <3>2. IsBlack(u, a) /\ IsBlack(u, b) /\ IsBlack(u, o)
      BY <1>0, <2>2, <2>3, <2>4, <2>7, ColorIs
    <3> QED BY <3>1, <3>2
  <2>9. ASSUME NEW f \in Dirs PROVE Fine(u, k, n, f, n, d, Nil, Nil)
    <3>1. CASE f = d
      <4>1. Lack(n, f, n, d) = 1
        BY <3>1, LackIs
      <4>2. k[n] = Height(k, a) + 1 + Mark(u, n)
        BY <2>4, <2>5, <2>6, <2>8
      <4> QED BY <2>3, <2>8, <3>1, <4>1, <4>2 DEF Fine
    <3>2. CASE f = 1 - d
      <4>1. Lack(n, f, n, d) = 0
        BY <2>3, <3>2, LackIs
      <4>2. k[n] = Height(k, b) + 0 + Mark(u, n)
        BY <2>4, <2>5, <2>6, <2>8
      <4> QED BY <2>3, <2>8, <3>2, <4>1, <4>2 DEF Fine
    <3> QED BY <2>3, <3>1, <3>2
  <2>10. ASSUME NEW f \in Dirs PROVE Fine(u, k, c, f, n, d, Nil, Nil)
    <3>0. Lack(c, f, n, d) = 0
      BY <2>3, LackIs
    <3>1. k[c] = Height(k, n) + 0 + Mark(u, c) /\ k[c] = Height(k, o) + 0 + Mark(u, c)
      BY <2>4, <2>5, <2>6, <2>8
    <3> QED BY <2>3, <2>8, <3>0, <3>1 DEF Fine
  <2>11. Balanced(u, g, k, n, d, Nil, Nil)
    <3>1. Repainted(t, w, n, c, Nil)
      BY <2>1 DEF Repainted, Else
    <3>2. Relevelled(h, k, n, c, Nil)
      BY <2>5 DEF Relevelled, Else
    <3>3. SameLack(n, c, Nil, n, d, n, d)
      BY DEF SameLack
    <3>4. IsBlack(w, c)
      BY <2>1, <2>2, <2>3, ColorIs
    <3>5. \A m \in Nodes, f \in Dirs : m = n \/ m = c \/ m = Nil => Fine(u, k, m, f, n, d, Nil, Nil)
      BY <1>0, <2>9, <2>10
    <3> QED BY <1>1, <2>c, <2>b, <2>p, <2>e, <2>1, <2>2, <3>1, <3>2, <3>3, <3>4, <3>5, Turned
  <2>12. ShortAt(u, g, k, n, d)
    BY <1>1, <2>3, <2>8, <2>11 DEF ShortAt
  <2> QED BY <2>2, <2>3, <2>8, <2>12, <2>a
<1> QED BY <1>2, <1>3

\* The shortage moves up.
LEMMA MoveUpRight ==
  ASSUME NEW t, NEW g, Shape(t, g), NEW h, NEW n, NEW d, ShortAt(t, g, h, n, d),
         NEW s, s = Child(t, n, 1 - d), IsBlack(t, s), ~RedNephew(t, s),
         NEW u, u = Paint(t, s, Red), NEW p, p = ParentOf(t, n), NEW e, e = Side(t, n)
  PROVE  /\ Moved(t, g, u, g)
         /\ \E k : Balanced(u, g, k, p, e, n, n)
<1>0. t \in Trees /\ (\A i \in Nodes : i # Nil) /\ h \in [Nodes -> Nat]
  BY NilIsNoNode DEF Shape, ShortAt, Balanced
<1>1. /\ n \in Nodes /\ In(g, n) /\ d \in Dirs /\ IsBlack(t, Child(t, n, d))
      /\ 1 - d \in Dirs /\ d # 1 - d /\ \A f \in Dirs : f = d \/ f = 1 - d
  BY DEF ShortAt, Dirs
<1>2. \A i \in Nodes, f \in Dirs : In(g, i) => Fine(t, h, i, f, n, d, Nil, Nil)
  BY DEF ShortAt, Balanced
<1>x. PICK x : x = Child(t, n, d)
  OBVIOUS
<1>3. /\ x # Nil => x \in Nodes /\ ParentOf(t, x) = n /\ x # n /\ x # s
      /\ s # Nil => s \in Nodes /\ In(g, s) /\ ParentOf(t, s) = n /\ s # n /\ s # t.Root
  BY <1>1, <1>x, KidFacts
<1>4. /\ h[n] = Height(h, x) + 1 + Mark(t, n) /\ h[n] = Height(h, s) + 0 + Mark(t, n)
      /\ Mark(t, n) \in {0, 1} /\ Height(h, x) \in Nat /\ Height(h, s) \in Nat
  <2>1. /\ h[n] = Height(h, x) + Lack(n, d, n, d) + Mark(t, n)
        /\ h[n] = Height(h, s) + Lack(n, 1 - d, n, d) + Mark(t, n)
    BY <1>1, <1>2, <1>x DEF Fine
  <2>2. Lack(n, d, n, d) = 1 /\ Lack(n, 1 - d, n, d) = 0
    BY <1>1, LackIs
  <2>3. Height(h, x) \in Nat /\ Height(h, s) \in Nat
    BY <1>0, <1>3, HeightIs DEF Ref
  <2> QED BY <2>1, <2>2, <2>3 DEF Mark
<1>5. Height(h, s) = Height(h, x) + 1
  BY <1>4
<1>6. s # Nil /\ h[s] = Height(h, x) + 1 /\ s \in Nodes
  <2>1. s # Nil
    BY <1>0, <1>4, <1>5, HeightIs
  <2> QED BY <1>0, <1>3, <1>5, <2>1, HeightIs
<1>7. \A f \in Dirs : IsBlack(t, Child(t, s, f))
  BY <1>6 DEF RedNephew, IsRed
<1>8. /\ Moved(t, g, u, g) /\ SameLinks(t, u)
      /\ \A m \in Nodes : ColorOf(u, m) = IF m = s THEN Red ELSE ColorOf(t, m)
  BY <1>3, <1>6, PaintMoves DEF Ref
<1>9. u \in Trees
  BY <1>8 DEF Moved, Shape
<1>10. /\ e \in Dirs
       /\ p # Nil => p \in Nodes /\ p # n /\ Child(t, p, e) = n /\ Child(t, p, 1 - e) # n
       /\ p # s
  <2>1. e \in Dirs /\ (p # Nil => p \in Nodes /\ In(g, p) /\ p # n /\ Child(t, p, e) = n
                                 /\ Child(t, p, 1 - e) # n)
    BY <1>1, SideIs
  <2>2. CASE p = s
    <3>1. n = Child(t, s, e) /\ n # Nil /\ In(g, s)
      BY <1>0, <1>1, <1>6, <2>1, <2>2
    <3>2. Lo(g, n) >= Lo(g, s) /\ Hi(g, n) <= Hi(g, s) /\ ~Within(g, Pos(g, s), n)
      BY <1>0, <1>1, <1>6, <2>1, <3>1, ChildFacts, NodeFacts DEF Within, Dirs
    <3>3. Lo(g, s) >= Lo(g, n) /\ Hi(g, s) <= Hi(g, n)
      BY <1>0, <1>1, <1>6, ChildFacts, NodeFacts DEF Dirs
    <3> QED BY <1>1, <1>3, <1>6, <3>1, <3>2, <3>3, NodeFacts DEF Within
  <2> QED BY <2>1, <2>2
<1> DEFINE k == [i \in Nodes |-> IF i = n \/ i = s THEN h[i] - 1 ELSE h[i]]
<1>11. /\ k \in [Nodes -> Nat] /\ k[n] = h[n] - 1 /\ k[s] = h[s] - 1
       /\ \A i \in Nodes : k[i] = IF i = n \/ i = s THEN h[i] - 1 ELSE h[i]
  BY <1>0, <1>1, <1>4, <1>6
<1> HIDE DEF k
<1>12. ASSUME NEW f \in Dirs PROVE Fine(u, k, n, f, p, e, n, n)
  <2>1. Child(u, n, d) = x /\ Child(u, n, 1 - d) = s
    BY <1>1, <1>8, <1>x DEF SameLinks
  <2>2. Lack(n, f, p, e) = 0
    BY <1>0, <1>1, <1>10, LackIs
  <2>3. Mark(u, n) = Mark(t, n)
    BY <1>0, <1>1, <1>3, <1>6, <1>8, <1>9, ColorIs
  <2>4. Height(k, x) = Height(h, x) /\ Height(k, s) = h[s] - 1
    BY <1>0, <1>3, <1>6, <1>11, HeightIs
  <2>5. k[n] = Height(k, x) + 0 + Mark(u, n) /\ k[n] = Height(k, s) + 0 + Mark(u, n)
    BY <1>4, <1>5, <1>6, <1>11, <2>3, <2>4
  <2> QED BY <1>1, <2>1, <2>2, <2>5 DEF Fine
<1>13. ASSUME NEW f \in Dirs PROVE Fine(u, k, s, f, p, e, n, n)
  <2>1. PICK z : z = Child(t, s, f) /\ z = Child(u, s, f)
    BY <1>6, <1>8 DEF SameLinks
  <2>2. z # Nil => z \in Nodes /\ ParentOf(t, z) = s /\ z # s
    BY <1>3, <1>6, <2>1, KidFacts
  <2>3. z # Nil => z # n
    BY <1>10, <2>2
  <2>4. h[s] = Height(h, z) + 0 + Mark(t, s) /\ Lack(s, f, p, e) = 0
    BY <1>0, <1>2, <1>3, <1>6, <1>10, <2>1, LackIs DEF Fine
  <2>5. Mark(t, s) = 1 /\ Mark(u, s) = 0
    BY <1>0, <1>6, <1>8, <1>9, ColorIs, RedIsNotBlack
  <2>6. Height(k, z) = Height(h, z) /\ Height(h, z) \in Nat
    BY <1>0, <1>11, <2>2, <2>3, HeightIs
  <2>7. k[s] = Height(k, z) + 0 + Mark(u, s)
    BY <1>11, <2>4, <2>5, <2>6
  <2>8. IsBlack(u, z)
    BY <1>0, <1>7, <1>8, <1>9, <2>1, <2>2, ColorIs
  <2> QED BY <2>1, <2>4, <2>7, <2>8 DEF Fine
<1>14. ASSUME NEW m \in Nodes, NEW f \in Dirs, In(g, m), m \notin {n, s}
       PROVE  /\ k[m] = Height(k, Child(t, m, f)) + Lack(m, f, p, e) + Mark(t, m)
              /\ IsRed(t, m) /\ m # n /\ Child(t, m, f) # n => IsBlack(u, Child(t, m, f))
  <2>1. PICK z : z = Child(t, m, f)
    OBVIOUS
  <2>2. z # Nil => z \in Nodes /\ ParentOf(t, z) = m /\ z # s
    BY <1>3, <1>14, <2>1, KidFacts
  <2>3. /\ h[m] = Height(h, z) + 0 + Mark(t, m)
        /\ IsRed(t, m) => IsBlack(t, z)
    <3>1. Lack(m, f, n, d) = 0
      BY <1>14, LackIs
    <3> QED BY <1>0, <1>2, <1>14, <2>1, <3>1, ColorIs DEF Fine
  <2>4. z = n <=> m = p /\ f = e
    <3>1. z = n => m = p
      BY <1>0, <1>1, <2>2
    <3>2. z = n => f = e
      <4>1. f = e \/ f = 1 - e
        BY <1>10 DEF Dirs
      <4> QED BY <1>0, <1>1, <1>10, <2>1, <3>1, <4>1
    <3>3. m = p => p # Nil
      BY <1>0
    <3> QED BY <1>10, <2>1, <3>1, <3>2, <3>3
  <2>5. Lack(m, f, p, e) = IF z = n THEN 1 ELSE 0
    BY <2>4, LackIs
  <2>6. Height(k, z) = Height(h, z) - (IF z = n THEN 1 ELSE 0) /\ Height(h, z) \in Nat
    BY <1>0, <1>1, <1>11, <2>2, HeightIs
  <2>7. k[m] = h[m] /\ Mark(t, m) \in {0, 1}
    BY <1>11, <1>14 DEF Mark
  <2>8. k[m] = Height(k, z) + Lack(m, f, p, e) + Mark(t, m)
    BY <2>3, <2>5, <2>6, <2>7
  <2>9. IsRed(t, m) => IsBlack(u, z)
    BY <1>0, <1>8, <1>9, <2>2, <2>3, ColorIs
  <2> QED BY <2>1, <2>8, <2>9
<1>15. \A m \in Nodes, f \in Dirs : In(g, m) /\ m \notin {n, s} => Fine(u, k, m, f, p, e, n, n)
  <2>1. \A m \in Nodes : m \notin {n, s} => ColorOf(u, m) = ColorOf(t, m)
    BY <1>8
  <2>2. \A m \in Nodes, f \in Dirs : In(g, m) /\ m \notin {n, s} =>
          /\ k[m] = Height(k, Child(t, m, f)) + Lack(m, f, p, e) + Mark(t, m)
          /\ IsRed(t, m) /\ m # n /\ Child(t, m, f) # n => IsBlack(u, Child(t, m, f))
    BY <1>14
  <2> QED BY <1>0, <1>8, <1>9, <2>1, <2>2, Untouched
<1>16. IsBlack(u, u.Root)
  <2>1. u.Root = t.Root /\ t.Root \in Ref /\ t.Root # s /\ IsBlack(t, t.Root)
    BY <1>0, <1>3, <1>6, <1>8, RootFacts, ColorIs DEF SameLinks, ShortAt, Balanced
  <2> QED BY <1>0, <1>8, <1>9, <2>1, ColorIs DEF Ref
<1>17. Balanced(u, g, k, p, e, n, n)
  BY <1>11, <1>12, <1>13, <1>15, <1>16 DEF Balanced
<1> QED BY <1>8, <1>17

\* A red nephew on the inside only is rotated to the outside.
LEMMA OuterRedRight ==
  ASSUME NEW t, NEW g, Shape(t, g), NEW h, NEW p, NEW f, ShortAt(t, g, h, p, f),
         NEW n, n = Child(t, p, 1 - f), IsBlack(t, n), RedNephew(t, n),
         NEW u, u = OuterRed(t, p, f)
  PROVE  /\ \E k : Moved(t, g, u, k)
         /\ \E k : ShortAt(u, g, k, p, f)
         /\ Child(u, p, f) = Child(t, p, f)
         /\ IsBlack(u, Child(u, p, 1 - f)) /\ Child(u, p, 1 - f) # Nil
         /\ IsRed(u, Child(u, Child(u, p, 1 - f), 1 - f))
<1>0. t \in Trees /\ (\A i \in Nodes : i # Nil) /\ h \in [Nodes -> Nat]
  BY NilIsNoNode DEF Shape, ShortAt, Balanced
<1>1. /\ p \in Nodes /\ In(g, p) /\ f \in Dirs /\ IsBlack(t, Child(t, p, f))
      /\ Balanced(t, g, h, p, f, Nil, Nil) /\ n # Nil
      /\ 1 - f \in Dirs /\ f # 1 - f /\ 1 - (1 - f) = f /\ \A i \in Dirs : i = f \/ i = 1 - f
  BY DEF ShortAt, Dirs, RedNephew
<1>n. n \in Nodes /\ In(g, n) /\ ParentOf(t, n) = p /\ n # p
  BY <1>1, KidFacts
<1>2. CASE ~IsBlack(t, Child(t, n, 1 - f))
  <2>1. u = t /\ IsRed(t, Child(t, n, 1 - f))
    BY <1>2 DEF OuterRed, IsRed
  <2>2. Moved(t, g, t, g)
    BY DEF Moved
  <2> QED BY <1>1, <2>1, <2>2
<1>3. CASE IsBlack(t, Child(t, n, 1 - f))
  <2>d. PICK d : d = 1 - f
    OBVIOUS
  <2>0. d \in Dirs /\ 1 - d = f /\ 1 - d \in Dirs
    BY <1>1, <2>d
  <2>c. PICK c : c = Child(t, n, 1 - d)
    OBVIOUS
  <2>r. IsRed(t, c) /\ c # Nil /\ c \in Nodes /\ In(g, c)
    <3>1. IsRed(t, c)
      BY <1>1, <1>3, <2>0, <2>c DEF RedNephew, IsRed
    <3> QED BY <1>0, <1>n, <2>0, <2>c, <3>1, ColorIs, KidFacts
  <2>w. PICK w : w = Paint(Paint(t, c, Black), n, Red)
    OBVIOUS
  <2>b. PICK b : b = Child(t, c, d)
    OBVIOUS
  <2>e. PICK e : e = Side(t, n)
    OBVIOUS
  <2>a. PICK a : a = Child(t, n, d)
    OBVIOUS
  <2>o. PICK o : o = Child(t, c, 1 - d)
    OBVIOUS
  <2>1. /\ Moved(t, g, w, g) /\ SameLinks(t, w)
        /\ \A i \in Nodes : ColorOf(w, i) = IF i = n THEN Red ELSE IF i = c THEN Black
                                            ELSE ColorOf(t, i)
    BY <1>n, <2>r, <2>w, PaintTwice
  <2>2. /\ w \in Trees /\ u \in Trees /\ \E k : Moved(t, g, u, k)
        /\ Rotated(w, n, d, c, b, p, e, u)
    <3>1. u = Rotate(w, n, d)
      BY <1>3, <2>w, <2>c, <2>d, <2>0 DEF OuterRed
    <3> QED BY <1>n, <2>0, <2>r, <2>c, <2>b, <2>e, <2>1, <3>1, RotatePainted
  <2>3. /\ c \in Nodes /\ In(g, c) /\ c # n /\ p # c /\ ParentOf(t, c) = n /\ c # t.Root
        /\ a # Nil => a \in Nodes /\ ParentOf(t, a) = n /\ a # n /\ a # c
        /\ b # Nil => b \in Nodes /\ ParentOf(t, b) = c /\ b # n /\ b # c /\ b # a
        /\ o # Nil => o \in Nodes /\ In(g, o) /\ ParentOf(t, o) = c /\ o # n /\ o # c /\ o # a
                       /\ o # b /\ o # t.Root
        /\ Child(u, c, d) = n /\ Child(u, c, 1 - d) = o
        /\ Child(u, n, d) = a /\ Child(u, n, 1 - d) = b
        /\ \A i \in Dirs : i = d \/ i = 1 - d
        /\ 1 - d \in Dirs /\ d # 1 - d
    BY <1>n, <2>0, <2>r, <2>c, <2>b, <2>e, <2>a, <2>o, <2>1, <2>2, AboutRotation
  <2>f. /\ Fine(t, h, n, d, p, f, Nil, Nil) /\ Fine(t, h, n, 1 - d, p, f, Nil, Nil)
        /\ Fine(t, h, c, d, p, f, Nil, Nil) /\ Fine(t, h, c, 1 - d, p, f, Nil, Nil)
    BY <1>1, <1>n, <2>0, <2>3 DEF Balanced
  <2>m. IsBlack(t, n) /\ Mark(t, n) = 1 /\ Mark(t, c) = 0
    BY <1>0, <1>n, <2>r, ColorIs
  <2>4. /\ h[n] = Height(h, a) + 0 + 1 /\ h[n] = h[c] + 0 + 1
        /\ h[c] = Height(h, b) + 0 + 0 /\ h[c] = Height(h, o) + 0 + 0
        /\ IsBlack(t, a) /\ IsBlack(t, b) /\ IsBlack(t, o)
        /\ Height(h, a) \in Nat /\ Height(h, b) \in Nat /\ Height(h, o) \in Nat /\ h[c] \in Nat
    <3>1. /\ Lack(n, d, p, f) = 0 /\ Lack(n, 1 - d, p, f) = 0
          /\ Lack(c, d, p, f) = 0 /\ Lack(c, 1 - d, p, f) = 0
      BY <1>n, <2>3, LackIs
    <3>2. h[n] = Height(h, a) + 0 + 1 /\ h[n] = Height(h, c) + 0 + 1
      BY <2>a, <2>c, <2>f, <2>m, <3>1 DEF Fine
    <3>3. h[c] = Height(h, b) + 0 + 0 /\ h[c] = Height(h, o) + 0 + 0
      BY <2>b, <2>o, <2>f, <2>m, <3>1 DEF Fine
    <3>4. IsBlack(t, b) /\ IsBlack(t, o)
      <4>1. b # Nil => IsBlack(t, b)
        BY <1>0, <2>r, <2>3, <2>b, <2>f DEF Fine
      <4>2. o # Nil => IsBlack(t, o)
        BY <1>0, <2>r, <2>3, <2>o, <2>f DEF Fine
      <4> QED BY <1>0, <4>1, <4>2, ColorIs
    <3>5. Height(h, c) = h[c]
      BY <1>0, <2>3, HeightIs
    <3>6. Height(h, a) \in Nat /\ Height(h, b) \in Nat /\ Height(h, o) \in Nat /\ h[c] \in Nat
      BY <1>0, <2>3, HeightIs DEF Ref
    <3> QED BY <1>3, <2>d, <2>a, <3>2, <3>3, <3>4, <3>5, <3>6
  <2> DEFINE k == [i \in Nodes |-> IF i = n THEN h[c] ELSE IF i = c THEN h[n] ELSE h[i]]
  <2>5. /\ k \in [Nodes -> Nat] /\ k[n] = h[c] /\ k[c] = h[n]
        /\ \A i \in Nodes : k[i] = IF i = n THEN h[c] ELSE IF i = c THEN h[n] ELSE h[i]
    BY <1>0, <1>n, <2>3
  <2> HIDE DEF k
  <2>6. /\ Height(k, a) = Height(h, a) /\ Height(k, b) = Height(h, b)
        /\ Height(k, o) = Height(h, o) /\ Height(k, n) = h[c]
    BY <1>0, <1>n, <2>3, <2>5, HeightIs
  <2>7. \A i \in Nodes : ColorOf(u, i) = IF i = n THEN Red ELSE IF i = c THEN Black
                                         ELSE ColorOf(t, i)
    BY <2>1, <2>2 DEF Rotated
  <2>8. /\ IsBlack(u, a) /\ IsBlack(u, b) /\ IsBlack(u, o) /\ IsBlack(u, c) /\ ~IsRed(u, c)
        /\ Mark(u, n) = 0 /\ Mark(u, c) = 1 /\ IsRed(u, n)
    <3>1. IsBlack(u, c) /\ ~IsRed(u, c) /\ Mark(u, c) = 1 /\ Mark(u, n) = 0 /\ IsRed(u, n)
      BY <1>n, <2>2, <2>3, <2>7, ColorIs, RedIsNotBlack
    <3>2. IsBlack(u, a) /\ IsBlack(u, b) /\ IsBlack(u, o)
      BY <1>0, <2>2, <2>3, <2>4, <2>7, ColorIs
    <3> QED BY <3>1, <3>2
  <2>9. ASSUME NEW i \in Dirs PROVE Fine(u, k, n, i, p, f, Nil, Nil)
    <3>0. Lack(n, i, p, f) = 0
      BY <1>n, LackIs
    <3>1. k[n] = Height(k, a) + 0 + Mark(u, n) /\ k[n] = Height(k, b) + 0 + Mark(u, n)
      BY <2>4, <2>5, <2>6, <2>8
    <3> QED BY <2>3, <2>8, <3>0, <3>1 DEF Fine
  <2>10. ASSUME NEW i \in Dirs PROVE Fine(u, k, c, i, p, f, Nil, Nil)
    <3>0. Lack(c, i, p, f) = 0
      BY <2>3, LackIs
    <3>1. k[c] = Height(k, n) + 0 + Mark(u, c) /\ k[c] = Height(k, o) + 0 + Mark(u, c)
      BY <2>4, <2>5, <2>6, <2>8
    <3> QED BY <2>3, <2>8, <3>0, <3>1 DEF Fine
  <2>11. Balanced(u, g, k, p, f, Nil, Nil)
    <3>1. Repainted(t, w, n, c, Nil)
      BY <2>1 DEF Repainted, Else
    <3>2. Relevelled(h, k, n, c, Nil)
      BY <2>5 DEF Relevelled, Else
    <3>3. SameLack(n, c, Nil, p, f, p, f)
      BY DEF SameLack
    <3>4. IsBlack(w, c)
      BY <2>1, <2>2, <2>3, ColorIs
    <3>5. \A m \in Nodes, i \in Dirs : m = n \/ m = c \/ m = Nil => Fine(u, k, m, i, p, f, Nil, Nil)
      BY <1>0, <2>9, <2>10
    <3> QED BY <1>1, <1>n, <2>0, <2>r, <2>c, <2>b, <2>e, <2>1, <2>2, <3>1, <3>2, <3>3, <3>4, <3>5, Turned
  <2>12. /\ Child(u, p, f) = Child(t, p, f) /\ Child(u, p, d) = c
    <3>1. e \in Dirs /\ Child(t, p, e) = n
      BY <1>0, <1>1, <1>n, <2>e, SideIs
    <3>2. e = d
      BY <1>0, <1>1, <1>n, <2>d, <3>1, KidFacts
    <3> QED BY <1>1, <1>n, <2>d, <2>0, <2>1, <2>2, <2>3, <3>2 DEF Rotated, SameLinks
  <2>13. IsBlack(u, Child(t, p, f))
    <3>1. PICK x : x = Child(t, p, f)
      OBVIOUS
    <3>2. x # Nil => x \in Nodes /\ x # n /\ ParentOf(t, x) = p
      BY <1>1, <3>1, KidFacts
    <3>3. x # Nil => x # c
      BY <1>n, <2>3, <3>2
    <3> QED BY <1>0, <1>1, <2>2, <2>7, <3>1, <3>2, <3>3, ColorIs
  <2>14. ShortAt(u, g, k, p, f)
    BY <1>1, <2>11, <2>12, <2>13 DEF ShortAt
  <2>15. Child(u, p, 1 - f) = c /\ Child(u, c, 1 - f) = n
    BY <2>d, <2>3, <2>12
  <2> QED BY <2>2, <2>r, <2>8, <2>12, <2>14, <2>15
<1> QED BY <1>2, <1>3

\* The sibling takes the parent's place and its color.
LEMMA SettleRight ==
  ASSUME NEW t, NEW g, Shape(t, g), NEW h, NEW n, NEW d, ShortAt(t, g, h, n, d),
         NEW c, c = Child(t, n, 1 - d), c # Nil, IsBlack(t, c),
         NEW o, o = Child(t, c, 1 - d), IsRed(t, o),
         NEW w, w = Paint(Paint(Paint(t, c, ColorOf(t, n)), n, Black), o, Black),
         NEW u, u = Rotate(w, n, d)
  PROVE  /\ \E k : Moved(t, g, u, k)
         /\ \E k : Balanced(u, g, k, Nil, 0, Nil, Nil)
<1>0. t \in Trees /\ (\A i \in Nodes : i # Nil) /\ h \in [Nodes -> Nat]
  BY NilIsNoNode DEF Shape, ShortAt, Balanced
<1>1. /\ n \in Nodes /\ In(g, n) /\ d \in Dirs /\ IsBlack(t, Child(t, n, d))
      /\ Balanced(t, g, h, n, d, Nil, Nil)
  BY DEF ShortAt
<1>c. c \in Nodes /\ In(g, c) /\ c # n /\ 1 - d \in Dirs
  <2>1. 1 - d \in Dirs
    BY <1>1 DEF Dirs
  <2> QED BY <1>1, <2>1, KidFacts
<1>o. o \in Nodes /\ In(g, o) /\ o # Nil
  BY <1>0, <1>c, ColorIs, KidFacts
<1>b. PICK b : b = Child(t, c, d)
  OBVIOUS
<1>p. PICK p : p = ParentOf(t, n)
  OBVIOUS
<1>e. PICK e : e = Side(t, n)
  OBVIOUS
<1>a. PICK a : a = Child(t, n, d)
  OBVIOUS
<1>s. PICK s : s = ColorOf(t, n) /\ s \in {Red, Black}
  BY <1>0, <1>1, FieldTypes
<1>2. /\ Moved(t, g, w, g) /\ SameLinks(t, w)
      /\ \A i \in Nodes : ColorOf(w, i) = IF i = o THEN Black ELSE IF i = n THEN Black
                                          ELSE IF i = c THEN s ELSE ColorOf(t, i)
  <2>1. PICK v : v = Paint(Paint(t, c, s), n, Black)
    OBVIOUS
  <2>2. /\ Moved(t, g, v, g) /\ SameLinks(t, v)
        /\ \A i \in Nodes : ColorOf(v, i) = IF i = n THEN Black ELSE IF i = c THEN s
                                            ELSE ColorOf(t, i)
    BY <1>1, <1>c, <1>s, <2>1, PaintTwice
  <2>3. /\ Moved(v, g, w, g) /\ SameLinks(v, w)
        /\ \A i \in Nodes : ColorOf(w, i) = IF i = o THEN Black ELSE ColorOf(v, i)
    <3>1. Shape(v, g) /\ o \in Ref /\ w = Paint(v, o, Black)
      BY <1>o, <1>s, <2>1, <2>2 DEF Moved, Ref
    <3> QED BY <1>o, <3>1, PaintMoves
  <2>4. Moved(t, g, w, g)
    BY <2>2, <2>3, MovedTwice
  <2> QED BY <2>2, <2>3, <2>4 DEF SameLinks
<1>3. /\ w \in Trees /\ u \in Trees /\ \E k : Moved(t, g, u, k)
      /\ Rotated(w, n, d, c, b, p, e, u)
  BY <1>1, <1>b, <1>p, <1>e, <1>2, RotatePainted
<1>4. /\ c \in Nodes /\ In(g, c) /\ c # n /\ p # c /\ ParentOf(t, c) = n /\ c # t.Root
      /\ a # Nil => a \in Nodes /\ ParentOf(t, a) = n /\ a # n /\ a # c
      /\ b # Nil => b \in Nodes /\ ParentOf(t, b) = c /\ b # n /\ b # c /\ b # a
      /\ o # Nil => o \in Nodes /\ In(g, o) /\ ParentOf(t, o) = c /\ o # n /\ o # c /\ o # a
                     /\ o # b /\ o # t.Root
      /\ Child(u, c, d) = n /\ Child(u, c, 1 - d) = o
      /\ Child(u, n, d) = a /\ Child(u, n, 1 - d) = b
      /\ \A f \in Dirs : f = d \/ f = 1 - d
      /\ 1 - d \in Dirs /\ d # 1 - d
  BY <1>1, <1>b, <1>p, <1>e, <1>a, <1>2, <1>3, AboutRotation
<1>5. \A i \in Nodes, f \in Dirs : In(g, i) => Fine(t, h, i, f, n, d, Nil, Nil)
  BY <1>1 DEF Balanced
<1>f. /\ Fine(t, h, n, d, n, d, Nil, Nil) /\ Fine(t, h, n, 1 - d, n, d, Nil, Nil)
      /\ Fine(t, h, c, d, n, d, Nil, Nil) /\ Fine(t, h, c, 1 - d, n, d, Nil, Nil)
  BY <1>1, <1>4, <1>5
<1>m. Mark(t, c) = 1 /\ Mark(t, o) = 0 /\ Mark(t, n) \in {0, 1}
  BY <1>0, <1>1, <1>c, <1>o, ColorIs
<1>6. /\ h[n] = Height(h, a) + 1 + Mark(t, n) /\ h[n] = h[c] + 0 + Mark(t, n)
      /\ h[c] = Height(h, b) + 0 + 1 /\ h[c] = h[o] + 0 + 1
      /\ Height(h, a) \in Nat /\ Height(h, b) \in Nat /\ h[o] \in Nat /\ h[c] \in Nat
      /\ IsBlack(t, a)
  <2>1. /\ Lack(n, d, n, d) = 1 /\ Lack(n, 1 - d, n, d) = 0
        /\ Lack(c, d, n, d) = 0 /\ Lack(c, 1 - d, n, d) = 0
    BY <1>4, LackIs
  <2>2. h[n] = Height(h, a) + 1 + Mark(t, n) /\ h[n] = Height(h, c) + 0 + Mark(t, n)
    BY <1>a, <1>f, <2>1 DEF Fine
  <2>3. h[c] = Height(h, b) + 0 + 1 /\ h[c] = Height(h, o) + 0 + 1
    BY <1>b, <1>f, <1>m, <2>1 DEF Fine
  <2>4. Height(h, c) = h[c] /\ Height(h, o) = h[o]
    BY <1>0, <1>c, <1>o, HeightIs
  <2>5. Height(h, a) \in Nat /\ Height(h, b) \in Nat /\ h[o] \in Nat /\ h[c] \in Nat
    BY <1>0, <1>4, <1>o, HeightIs DEF Ref
  <2> QED BY <1>1, <1>a, <2>2, <2>3, <2>4, <2>5
<1>7. h[c] = Height(h, a) + 1 /\ h[n] \in Nat
  BY <1>m, <1>6
<1> DEFINE k == [i \in Nodes |-> IF i = n THEN h[c] ELSE IF i = c THEN h[n]
                                 ELSE IF i = o THEN h[o] + 1 ELSE h[i]]
<1>8. /\ k \in [Nodes -> Nat] /\ k[n] = h[c] /\ k[c] = h[n] /\ k[o] = h[o] + 1
      /\ \A i \in Nodes : i # n /\ i # c /\ i # o => k[i] = h[i]
  <2>1. n # c /\ n # o /\ c # o
    BY <1>c, <1>o, <1>4
  <2> QED BY <1>0, <1>1, <1>c, <1>o, <1>6, <1>7, <2>1
<1> HIDE DEF k
<1>9. \A i \in Nodes : ColorOf(u, i) = IF i = o THEN Black ELSE IF i = n THEN Black
                                       ELSE IF i = c THEN s ELSE ColorOf(t, i)
  BY <1>2, <1>3 DEF Rotated
<1>10. /\ Height(k, a) = Height(h, a) /\ Height(k, b) = Height(h, b)
       /\ Height(k, n) = h[c] /\ Height(k, o) = h[o] + 1
  BY <1>0, <1>1, <1>o, <1>4, <1>8, HeightIs
<1>11. /\ Mark(u, n) = 1 /\ Mark(u, o) = 1 /\ Mark(u, c) = Mark(t, n)
       /\ IsBlack(u, n) /\ IsBlack(u, o) /\ ~IsRed(u, n) /\ ~IsRed(u, o)
  BY <1>0, <1>1, <1>c, <1>o, <1>s, <1>3, <1>4, <1>9, ColorIs
<1>12. ASSUME NEW f \in Dirs PROVE Fine(u, k, n, f, Nil, 0, Nil, Nil)
  <2>1. Lack(n, f, Nil, 0) = 0
    BY <1>1, LackIs
  <2>2. k[n] = Height(k, a) + 0 + Mark(u, n) /\ k[n] = Height(k, b) + 0 + Mark(u, n)
    BY <1>6, <1>7, <1>8, <1>10, <1>11
  <2> QED BY <1>4, <1>11, <2>1, <2>2 DEF Fine
<1>13. ASSUME NEW f \in Dirs PROVE Fine(u, k, c, f, Nil, 0, Nil, Nil)
  <2>1. Lack(c, f, Nil, 0) = 0
    BY <1>c, LackIs
  <2>2. k[c] = Height(k, n) + 0 + Mark(u, c) /\ k[c] = Height(k, o) + 0 + Mark(u, c)
    BY <1>6, <1>8, <1>10, <1>11
  <2> QED BY <1>4, <1>11, <2>1, <2>2 DEF Fine
<1>14. ASSUME NEW f \in Dirs PROVE Fine(u, k, o, f, Nil, 0, Nil, Nil)
  <2>1. PICK z : z = Child(t, o, f)
    OBVIOUS
  <2>2. z # Nil => z \in Nodes /\ ParentOf(t, z) = o /\ z # o /\ z # c /\ z # n
    <3>1. z # Nil => z \in Nodes /\ ParentOf(t, z) = o /\ z # o
      BY <1>o, <2>1, KidFacts
    <3>2. z # Nil => z # c
      BY <1>4, <1>o, <3>1
    <3>3. z = n => FALSE
      <4>1. SUFFICES ASSUME z = n PROVE FALSE
        OBVIOUS
      <4>2. Lo(g, n) >= Lo(g, o) /\ Hi(g, n) <= Hi(g, o)
        BY <1>0, <1>1, <1>o, <2>1, <4>1, ChildFacts, NodeFacts DEF Dirs
      <4>3. Lo(g, o) >= Lo(g, c) /\ Hi(g, o) <= Hi(g, c)
        BY <1>o, <1>c, <1>1, ChildFacts, NodeFacts DEF Dirs
      <4>4. ~Within(g, Pos(g, n), c)
        BY <1>c, <1>1, ChildFacts, NodeFacts DEF Within, Dirs
      <4> QED BY <1>1, <1>c, <1>o, <4>2, <4>3, <4>4, NodeFacts DEF Within
    <3> QED BY <3>1, <3>2, <3>3
  <2>3. Child(u, o, f) = z
    <3>1. o # p
      <4>1. SUFFICES ASSUME o = p PROVE FALSE
        OBVIOUS
      <4>2. e \in Dirs /\ Child(t, o, e) = n
        BY <1>1, <1>o, <1>p, <1>e, <4>1, SideIs
      <4>3. Lo(g, n) >= Lo(g, o) /\ Hi(g, n) <= Hi(g, o)
        BY <1>0, <1>1, <1>o, <4>2, ChildFacts, NodeFacts DEF Dirs
      <4>4. Lo(g, o) >= Lo(g, c) /\ Hi(g, o) <= Hi(g, c)
        BY <1>o, <1>c, <1>1, ChildFacts, NodeFacts DEF Dirs
      <4>5. ~Within(g, Pos(g, n), c)
        BY <1>c, <1>1, ChildFacts, NodeFacts DEF Within, Dirs
      <4> QED BY <1>1, <1>c, <1>o, <4>3, <4>4, <4>5, NodeFacts DEF Within
    <3> QED BY <1>o, <1>4, <1>2, <1>3, <2>1, <3>1 DEF Rotated, SameLinks
  <2>4. h[o] = Height(h, z) + 0 + 0
    BY <1>o, <1>4, <1>5, <1>m, <2>1, LackIs DEF Fine
  <2>5. Height(k, z) = Height(h, z) /\ Height(h, z) \in Nat
    BY <1>0, <1>8, <2>2, HeightIs
  <2>6. k[o] = Height(k, z) + 0 + Mark(u, o) /\ Lack(o, f, Nil, 0) = 0
    BY <1>o, <1>8, <1>11, <2>4, <2>5, LackIs
  <2> QED BY <1>11, <2>3, <2>6 DEF Fine
<1>15. Balanced(u, g, k, Nil, 0, Nil, Nil)
  <2>1. Repainted(t, w, n, c, o)
    BY <1>2 DEF Repainted, Else
  <2>2. Relevelled(h, k, n, c, o)
    BY <1>8 DEF Relevelled, Else
  <2>3. SameLack(n, c, o, n, d, Nil, 0)
    BY LackIs DEF SameLack, Else
  <2>4. p = Nil \/ IsRed(t, p) => IsBlack(w, c)
    <3>1. SUFFICES ASSUME p = Nil \/ IsRed(t, p) PROVE IsBlack(t, n)
      BY <1>0, <1>1, <1>c, <1>o, <1>s, <1>2, <1>3, <1>4, ColorIs
    <3>2. CASE p = Nil
      BY <1>1, <1>p, <3>2, SideIs, <1>0 DEF Balanced
    <3>3. CASE p # Nil
      <4>1. p \in Nodes /\ In(g, p) /\ e \in Dirs /\ Child(t, p, e) = n /\ IsRed(t, p)
        BY <1>1, <1>p, <1>e, <3>1, <3>3, SideIs
      <4>2. Fine(t, h, p, e, n, d, Nil, Nil)
        BY <1>5, <4>1
      <4> QED BY <1>0, <1>1, <4>1, <4>2 DEF Fine
    <3> QED BY <3>2, <3>3
  <2>5. \A m \in Nodes, f \in Dirs : m = n \/ m = c \/ m = o => Fine(u, k, m, f, Nil, 0, Nil, Nil)
    BY <1>12, <1>13, <1>14
  <2> QED BY <1>1, <1>b, <1>p, <1>e, <1>2, <1>3, <2>1, <2>2, <2>3, <2>4, <2>5, Turned
<1> QED BY <1>3, <1>15

(***************************************************************************)
(* insert                                                                  *)
(***************************************************************************)

LEMMA NewNodeIs ==
  ASSUME NEW v \in Keys, Fresh(v) # {}
  PROVE  NewNode(v) \in Nodes /\ NewNode(v) \notin Linked(tree)
<1>1. \A n \in Fresh(v) : n \in Nodes /\ n \notin Linked(tree) /\ n[2] \in Nat
  BY RBTreeAssumption DEF Fresh, Nodes
<1> DEFINE S == {n[2] : n \in Fresh(v)}
<1>2. S \in SUBSET Nat /\ S # {}
  BY <1>1
<1>3. PICK k \in S : \A j \in S : k <= j
  BY <1>2, LeastNumber
<1>4. \E n \in Fresh(v) : \A m \in Fresh(v) : n[2] <= m[2]
  BY <1>3
<1>5. NewNode(v) \in Fresh(v)
  BY <1>4 DEF NewNode
<1> QED BY <1>1, <1>5

\* The numbering once n has the number z, beside the node numbered q.
Wider(g, n, z, q) ==
  [node |-> [i \in 1 .. Size(g) + 1 |->
               IF i < z THEN At(g, i) ELSE IF i = z THEN n ELSE At(g, i - 1)],
   pos |-> [m \in Nodes |-> IF m = n THEN z ELSE IF Pos(g, m) >= z THEN Pos(g, m) + 1
                            ELSE Pos(g, m)],
   lo |-> [m \in Nodes |-> IF m = n THEN z ELSE IF Lo(g, m) > q THEN Lo(g, m) + 1 ELSE Lo(g, m)],
   hi |-> [m \in Nodes |-> IF m = n THEN z ELSE IF Hi(g, m) >= q THEN Hi(g, m) + 1 ELSE Hi(g, m)]]

LEMMA WiderFields ==
  ASSUME NEW t, NEW g, Shape(t, g), NEW n \in Nodes, NEW z \in Int, 1 <= z, z <= Size(g) + 1,
         NEW q, NEW k, k = Wider(g, n, z, q)
  PROVE  /\ k.node \in Seq(Nodes) /\ Size(k) = Size(g) + 1
         /\ \A i \in 1 .. Size(g) + 1 :
              At(k, i) = IF i < z THEN At(g, i) ELSE IF i = z THEN n ELSE At(g, i - 1)
         /\ \A m \in Nodes :
              /\ Pos(k, m) = IF m = n THEN z ELSE IF Pos(g, m) >= z THEN Pos(g, m) + 1
                             ELSE Pos(g, m)
              /\ Lo(k, m) = IF m = n THEN z ELSE IF Lo(g, m) > q THEN Lo(g, m) + 1 ELSE Lo(g, m)
              /\ Hi(k, m) = IF m = n THEN z ELSE IF Hi(g, m) >= q THEN Hi(g, m) + 1 ELSE Hi(g, m)
<1>1. /\ Size(g) \in Nat
      /\ \A i \in Int : 1 <= i /\ i <= Size(g) => At(g, i) \in Nodes
  BY NodeFacts
<1>2. PICK l : l = Size(g) + 1
  OBVIOUS
<1>3. PICK f : f = [i \in 1 .. l |->
                      IF i < z THEN At(g, i) ELSE IF i = z THEN n ELSE At(g, i - 1)]
  OBVIOUS
<1>4. f \in [1 .. l -> Nodes] /\ l \in Nat
  BY <1>1, <1>2, <1>3
<1>5. f \in Seq(Nodes) /\ Len(f) = l
  BY <1>4, ListOf
<1>6. k.node = f
  BY <1>2, <1>3 DEF Wider
<1>7. k.node \in Seq(Nodes) /\ Size(k) = Size(g) + 1
  BY <1>2, <1>5, <1>6 DEF Size
<1>8. \A i \in 1 .. Size(g) + 1 :
        At(k, i) = IF i < z THEN At(g, i) ELSE IF i = z THEN n ELSE At(g, i - 1)
  <2>1. \A i : At(k, i) = f[i]
    BY <1>6 DEF At
  <2> QED BY <1>2, <1>3, <2>1
<1>9. \A m \in Nodes :
        /\ Pos(k, m) = IF m = n THEN z ELSE IF Pos(g, m) >= z THEN Pos(g, m) + 1
                       ELSE Pos(g, m)
        /\ Lo(k, m) = IF m = n THEN z ELSE IF Lo(g, m) > q THEN Lo(g, m) + 1 ELSE Lo(g, m)
        /\ Hi(k, m) = IF m = n THEN z ELSE IF Hi(g, m) >= q THEN Hi(g, m) + 1 ELSE Hi(g, m)
  <2>1. /\ k.pos = [m \in Nodes |-> IF m = n THEN z ELSE IF Pos(g, m) >= z THEN Pos(g, m) + 1
                                    ELSE Pos(g, m)]
        /\ k.lo = [m \in Nodes |-> IF m = n THEN z ELSE IF Lo(g, m) > q THEN Lo(g, m) + 1
                                   ELSE Lo(g, m)]
        /\ k.hi = [m \in Nodes |-> IF m = n THEN z ELSE IF Hi(g, m) >= q THEN Hi(g, m) + 1
                                   ELSE Hi(g, m)]
    BY DEF Wider
  <2>2. \A m \in Nodes : Pos(k, m) = k.pos[m] /\ Lo(k, m) = k.lo[m] /\ Hi(k, m) = k.hi[m]
    BY DEF Pos, Lo, Hi
  <2> QED BY <2>1, <2>2
<1> QED BY <1>7, <1>8, <1>9

\* n, which was not in the tree, is now the red child w of p.
Grown(t, n, v, p, w, u) ==
  /\ u \in Trees
  /\ u.Root = t.Root
  /\ \A m \in Nodes : /\ ColorOf(u, m) = IF m = n THEN Red ELSE ColorOf(t, m)
                      /\ ValueOf(u, m) = IF m = n THEN v ELSE ValueOf(t, m)
                      /\ ParentOf(u, m) = IF m = n THEN p ELSE ParentOf(t, m)
  /\ \A m \in Nodes, f \in Dirs :
       Child(u, m, f) = IF m = n THEN Nil ELSE IF m = p /\ f = w THEN n ELSE Child(t, m, f)

LEMMA GrownIs ==
  ASSUME NEW t \in Trees, NEW n \in Nodes, NEW v \in Keys, NEW p \in Nodes, p # n,
         NEW w \in Dirs, NEW u,
         u = Link([t EXCEPT !.at[n] = Born(v, Red)], p, w, n)
  PROVE  Grown(t, n, v, p, w, u)
<1>1. PICK r : r = Born(v, Red)
  OBVIOUS
<1>2. /\ r \in [Color : {Red, Black}, Parent : Ref, Childs : [Dirs -> Ref], Value : Keys \cup {Nil}]
      /\ r.Color = Red /\ r.Parent = Nil /\ r.Value = v /\ \A d \in Dirs : r.Childs[d] = Nil
  BY <1>1 DEF Born, Blank, Ref
<1>3. PICK x : x = Put(t, n, r)
  OBVIOUS
<1>4. /\ x \in Trees /\ x.Root = t.Root
      /\ \A m \in Nodes : x.at[m] = IF m = n THEN r ELSE t.at[m]
  BY <1>2, <1>3, PutFields
<1>5. u = Link(x, p, w, n)
  BY <1>1, <1>3 DEF Put
<1>6. LinkSpec(x, p, w, n, u)
  BY <1>4, <1>5, LinkFields DEF Ref
<1>7. \A m \in Nodes : /\ ColorOf(x, m) = IF m = n THEN Red ELSE ColorOf(t, m)
                       /\ ValueOf(x, m) = IF m = n THEN v ELSE ValueOf(t, m)
                       /\ m # n => ParentOf(x, m) = ParentOf(t, m)
                       /\ \A f \in Dirs : Child(x, m, f) = IF m = n THEN Nil ELSE Child(t, m, f)
  BY <1>2, <1>4 DEF ColorOf, ValueOf, ParentOf, Child
<1>8. p # Nil
  BY NilIsNoNode
<1>9. \A m \in Nodes : /\ ColorOf(u, m) = ColorOf(x, m) /\ ValueOf(u, m) = ValueOf(x, m)
                       /\ ParentOf(u, m) = IF m = n THEN p ELSE ParentOf(x, m)
  BY <1>6 DEF LinkSpec
<1>10. \A m \in Nodes, f \in Dirs : Child(u, m, f) = IF m = p /\ f = w THEN n ELSE Child(x, m, f)
  BY <1>6 DEF LinkSpec
<1>11. u \in Trees /\ u.Root = t.Root
  BY <1>4, <1>6, <1>8 DEF LinkSpec
<1>12. \A m \in Nodes, f \in Dirs :
         Child(u, m, f) = IF m = n THEN Nil ELSE IF m = p /\ f = w THEN n ELSE Child(t, m, f)
  BY <1>7, <1>10
<1> QED BY <1>7, <1>9, <1>11, <1>12 DEF Grown

\* The place for n: the side w of p, where p has no child.
Slot(t, g, n, p, w, q, z) ==
  /\ n \in Nodes /\ ~In(g, n)
  /\ p \in Nodes /\ In(g, p) /\ p # n /\ q = Pos(g, p)
  /\ w \in Dirs /\ Child(t, p, w) = Nil
  /\ z = IF w = 1 THEN q + 1 ELSE q

LEMMA GrowShape ==
  ASSUME NEW t, NEW g, Shape(t, g), NEW n, NEW p, NEW w, NEW q, NEW z,
         Slot(t, g, n, p, w, q, z),
         NEW v, NEW u, Grown(t, n, v, p, w, u), NEW k, k = Wider(g, n, z, q)
  PROVE  /\ Shape(u, k)
         /\ \A m \in Nodes : In(k, m) <=> In(g, m) \/ m = n
<1>0. t \in Trees /\ (\A m \in Nodes : m # Nil) /\ Size(g) \in Nat
  BY NilIsNoNode, NodeFacts
<1>1. /\ n \in Nodes /\ ~In(g, n) /\ p \in Nodes /\ In(g, p) /\ p # n /\ q = Pos(g, p)
      /\ w \in Dirs /\ Child(t, p, w) = Nil /\ z = IF w = 1 THEN q + 1 ELSE q
  BY DEF Slot
<1>2. /\ q \in Int /\ 1 <= q /\ q <= Size(g) /\ z \in Int /\ 1 <= z /\ z <= Size(g) + 1
      /\ \/ w = 1 /\ Hi(g, p) = q /\ z = q + 1
         \/ w = 0 /\ Lo(g, p) = q /\ z = q
  BY <1>0, <1>1, NodeFacts, ChildFacts DEF Dirs
<1>u. /\ u \in Trees /\ u.Root = t.Root
      /\ \A m \in Nodes : ParentOf(u, m) = IF m = n THEN p ELSE ParentOf(t, m)
      /\ \A m \in Nodes, f \in Dirs :
           Child(u, m, f) = IF m = n THEN Nil ELSE IF m = p /\ f = w THEN n ELSE Child(t, m, f)
  BY DEF Grown
<1>3. /\ k.node \in Seq(Nodes) /\ Size(k) = Size(g) + 1
      /\ \A i \in 1 .. Size(g) + 1 :
           At(k, i) = IF i < z THEN At(g, i) ELSE IF i = z THEN n ELSE At(g, i - 1)
      /\ \A m \in Nodes :
           /\ Pos(k, m) = IF m = n THEN z ELSE IF Pos(g, m) >= z THEN Pos(g, m) + 1
                          ELSE Pos(g, m)
           /\ Lo(k, m) = IF m = n THEN z ELSE IF Lo(g, m) > q THEN Lo(g, m) + 1 ELSE Lo(g, m)
           /\ Hi(k, m) = IF m = n THEN z ELSE IF Hi(g, m) >= q THEN Hi(g, m) + 1 ELSE Hi(g, m)
  BY <1>1, <1>2, WiderFields
<1>g. /\ \A m \in Nodes : Pos(g, m) \in 0 .. Size(g) /\ Lo(g, m) \in Int /\ Hi(g, m) \in Int
      /\ \A m \in Nodes : In(g, m) <=> Pos(g, m) > 0
      /\ \A m \in Nodes : In(g, m) => /\ 1 <= Lo(g, m) /\ Lo(g, m) <= Pos(g, m)
                                      /\ Pos(g, m) <= Hi(g, m) /\ Hi(g, m) <= Size(g)
                                      /\ At(g, Pos(g, m)) = m
      /\ \A i \in Int : 1 <= i /\ i <= Size(g) =>
           At(g, i) \in Nodes /\ Pos(g, At(g, i)) = i /\ In(g, At(g, i))
  BY NodeFacts DEF Shape, Numbered, In
<1>4. \A m \in Nodes : In(k, m) <=> In(g, m) \/ m = n
  BY <1>1, <1>2, <1>3, <1>g DEF In
<1>5. \A m \in Nodes : In(g, m) /\ m # p => Pos(g, m) # q
  BY <1>1, SamePos
<1>6. Numbered(k)
  <2>1. \A m \in Nodes : Pos(k, m) \in 0 .. Size(k) /\ Lo(k, m) \in Int /\ Hi(k, m) \in Int
    <3> SUFFICES ASSUME NEW m \in Nodes
                 PROVE  Pos(k, m) \in 0 .. Size(g) + 1 /\ Lo(k, m) \in Int /\ Hi(k, m) \in Int
      BY <1>3
    <3>1. Pos(g, m) \in 0 .. Size(g) /\ Lo(g, m) \in Int /\ Hi(g, m) \in Int
      BY <1>g
    <3>2. Lo(k, m) \in Int /\ Hi(k, m) \in Int
      BY <1>2, <1>3, <3>1
    <3>3. Pos(k, m) \in 0 .. Size(g) + 1
      BY <1>0, <1>2, <1>3, <3>1
    <3> QED BY <3>2, <3>3
  <2>2. \A m \in Nodes : In(k, m) => At(k, Pos(k, m)) = m
    <3> SUFFICES ASSUME NEW m \in Nodes, In(k, m) PROVE At(k, Pos(k, m)) = m
      OBVIOUS
    <3>1. PICK i : i = Pos(k, m)
      OBVIOUS
    <3>2. CASE m = n
      BY <1>0, <1>2, <1>3, <3>2
    <3>3. CASE m # n
      <4>1. In(g, m) /\ Pos(g, m) \in 1 .. Size(g) /\ At(g, Pos(g, m)) = m
        BY <1>4, <1>g, <3>3
      <4>2. /\ Pos(g, m) >= z => i = Pos(g, m) + 1
            /\ ~(Pos(g, m) >= z) => i = Pos(g, m)
        BY <1>3, <3>1, <3>3
      <4>3. CASE Pos(g, m) >= z
        <5>1. i \in 1 .. Size(g) + 1 /\ i > z /\ i - 1 = Pos(g, m)
          BY <1>0, <1>2, <4>1, <4>2, <4>3
        <5>2. At(k, i) = At(g, i - 1)
          BY <1>2, <1>3, <5>1
        <5> QED BY <3>1, <4>1, <5>1, <5>2
      <4>4. CASE ~(Pos(g, m) >= z)
        <5>1. i \in 1 .. Size(g) + 1 /\ i < z
          BY <1>0, <1>2, <4>1, <4>2, <4>4
        <5> QED BY <1>2, <1>3, <3>1, <4>1, <4>2, <4>4, <5>1
      <4> QED BY <4>3, <4>4
    <3> QED BY <3>2, <3>3
  <2>3. \A i \in 1 .. Size(k) : At(k, i) \in Nodes /\ Pos(k, At(k, i)) = i
    <3> SUFFICES ASSUME NEW i \in 1 .. Size(g) + 1 PROVE At(k, i) \in Nodes /\ Pos(k, At(k, i)) = i
      BY <1>3
    <3>0. At(k, i) = IF i < z THEN At(g, i) ELSE IF i = z THEN n ELSE At(g, i - 1)
      BY <1>3
    <3>1. CASE i = z
      BY <1>1, <1>2, <1>3, <3>0, <3>1
    <3>2. CASE i < z
      <4>1. PICK m : m = At(g, i)
        OBVIOUS
      <4>2. m \in Nodes /\ Pos(g, m) = i /\ In(g, m)
        BY <1>0, <1>2, <1>g, <3>2, <4>1
      <4> QED BY <1>1, <1>2, <1>3, <3>0, <3>2, <4>1, <4>2
    <3>3. CASE i > z
      <4>1. PICK m : m = At(g, i - 1)
        OBVIOUS
      <4>2. i - 1 \in Int /\ 1 <= i - 1 /\ i - 1 <= Size(g)
        BY <1>0, <1>2, <3>3
      <4>3. m \in Nodes /\ Pos(g, m) = i - 1 /\ In(g, m)
        BY <1>g, <4>1, <4>2
      <4> QED BY <1>1, <1>2, <1>3, <3>0, <3>3, <4>1, <4>3
    <3> QED BY <1>2, <3>1, <3>2, <3>3
  <2>4. \A m \in Nodes : In(k, m) =>
          Lo(k, m) <= Pos(k, m) /\ Pos(k, m) <= Hi(k, m) /\ 1 <= Lo(k, m) /\ Hi(k, m) <= Size(k)
    <3> SUFFICES ASSUME NEW m \in Nodes, In(k, m)
                 PROVE  Lo(k, m) <= Pos(k, m) /\ Pos(k, m) <= Hi(k, m) /\ 1 <= Lo(k, m)
                        /\ Hi(k, m) <= Size(g) + 1
      BY <1>3
    <3>1. CASE m = n
      BY <1>0, <1>2, <1>3, <3>1
    <3>2. CASE m # n
      <4>1. /\ 1 <= Lo(g, m) /\ Lo(g, m) <= Pos(g, m) /\ Pos(g, m) <= Hi(g, m)
            /\ Hi(g, m) <= Size(g) /\ Pos(g, m) \in Int /\ Lo(g, m) \in Int /\ Hi(g, m) \in Int
            /\ m # p => Pos(g, m) # q
            /\ m = p => Pos(g, m) = q
        BY <1>1, <1>4, <1>5, <1>g, <3>2
      <4>2. /\ Pos(k, m) = IF Pos(g, m) >= z THEN Pos(g, m) + 1 ELSE Pos(g, m)
            /\ Lo(k, m) = IF Lo(g, m) > q THEN Lo(g, m) + 1 ELSE Lo(g, m)
            /\ Hi(k, m) = IF Hi(g, m) >= q THEN Hi(g, m) + 1 ELSE Hi(g, m)
        BY <1>3, <3>2
      <4>3. Lo(k, m) <= Pos(k, m) /\ 1 <= Lo(k, m)
        BY <1>2, <4>1, <4>2
      <4>4. Pos(k, m) <= Hi(k, m) /\ Hi(k, m) <= Size(g) + 1
        BY <1>0, <1>2, <4>1, <4>2
      <4> QED BY <4>3, <4>4
    <3> QED BY <3>1, <3>2
  <2> QED BY <1>0, <1>3, <2>1, <2>2, <2>3, <2>4 DEF Numbered, Within
<1>7. RootRight(u, k)
  <2>1. /\ t.Root \in Nodes /\ t.Root # n /\ In(g, t.Root) /\ ParentOf(t, t.Root) = Nil
        /\ Lo(g, t.Root) = 1 /\ Hi(g, t.Root) = Size(g)
    BY <1>0, <1>1, <1>2, RootFacts
  <2>2. Lo(k, t.Root) = 1 /\ Hi(k, t.Root) = Size(k) /\ ParentOf(u, t.Root) = Nil
    BY <1>2, <1>3, <1>u, <2>1
  <2> QED BY <1>0, <1>4, <1>u, <2>1, <2>2 DEF RootRight
<1>8. ASSUME NEW m \in Nodes, In(k, m) PROVE ParentRight(u, k, m)
  <2>1. CASE m = n
    BY <1>0, <1>1, <1>4, <1>u, <2>1 DEF ParentRight, Dirs
  <2>2. CASE m # n
    <3>1. In(g, m) /\ ParentRight(t, g, m)
      BY <1>4, <1>8, <2>2 DEF Shape
    <3>2. PICK x : x = ParentOf(t, m) /\ x = ParentOf(u, m)
      BY <1>u, <2>2
    <3>3. CASE x = Nil
      BY <1>u, <3>1, <3>2, <3>3 DEF ParentRight
    <3>4. CASE x # Nil
      <4>1. x \in Nodes /\ In(g, x) /\ (Child(t, x, 0) = m \/ Child(t, x, 1) = m)
        BY <1>0, <3>1, <3>2, <3>4, FieldTypes, NilIsNoNode DEF ParentRight
      <4>2. x # n
        BY <1>1, <4>1
      <4>3. \A f \in Dirs : Child(t, x, f) = m => Child(u, x, f) = m
        BY <1>0, <1>1, <1>u, <4>1, <4>2
      <4> QED BY <1>4, <3>2, <3>4, <4>1, <4>3 DEF ParentRight, Dirs
    <3> QED BY <3>3, <3>4
  <2> QED BY <2>1, <2>2
<1>9. ASSUME NEW m \in Nodes, NEW f \in Dirs, In(k, m) PROVE ChildRight(u, k, m, f)
  <2>1. CASE m = n
    BY <1>2, <1>3, <1>u, <2>1, <1>9 DEF ChildRight, Dirs
  <2>2. CASE m = p /\ f = w
    <3>1. Child(u, m, f) = n /\ ParentOf(u, n) = p /\ In(k, n)
      BY <1>1, <1>4, <1>u, <2>2
    <3>2. /\ Lo(k, n) = z /\ Hi(k, n) = z
          /\ w = 1 => Pos(k, p) = q /\ Hi(k, p) = q + 1
          /\ w = 0 => Pos(k, p) = q + 1 /\ Lo(k, p) = q
      BY <1>1, <1>2, <1>3, <1>g
    <3> QED BY <1>0, <1>1, <1>2, <2>2, <3>1, <3>2 DEF ChildRight, Dirs
  <2>3. CASE m # n /\ ~(m = p /\ f = w)
    <3>1. In(g, m) /\ ChildRight(t, g, m, f)
      BY <1>4, <1>9, <2>3 DEF Shape
    <3>2. PICK x : x = Child(t, m, f) /\ x = Child(u, m, f)
      BY <1>u, <2>3
    <3>3. /\ Pos(k, m) = IF Pos(g, m) >= z THEN Pos(g, m) + 1 ELSE Pos(g, m)
          /\ Lo(k, m) = IF Lo(g, m) > q THEN Lo(g, m) + 1 ELSE Lo(g, m)
          /\ Hi(k, m) = IF Hi(g, m) >= q THEN Hi(g, m) + 1 ELSE Hi(g, m)
          /\ Pos(g, m) \in Int /\ Lo(g, m) \in Int /\ Hi(g, m) \in Int
          /\ (m # p => Pos(g, m) # q)
          /\ (m = p => Pos(g, m) = q /\ f # w)
      BY <1>1, <1>3, <1>5, <1>g, <2>3, <3>1
    <3>4. CASE x = Nil
      <4>1. CASE f = 0
        <5>1. Lo(g, m) = Pos(g, m)
          BY <1>g, <3>1, <3>2, <3>4, <4>1 DEF ChildRight
        <5>2. Lo(k, m) = Pos(k, m)
          BY <1>2, <3>3, <4>1, <5>1
        <5>3. Pos(k, m) \in Int
          BY <3>3
        <5> QED BY <3>2, <3>4, <4>1, <5>2, <5>3 DEF ChildRight
      <4>2. CASE f = 1
        <5>1. Hi(g, m) = Pos(g, m)
          BY <1>g, <3>1, <3>2, <3>4, <4>2 DEF ChildRight
        <5>2. Hi(k, m) = Pos(k, m)
          BY <1>2, <3>3, <4>2, <5>1
        <5>3. Pos(k, m) \in Int
          BY <3>3
        <5> QED BY <3>2, <3>4, <4>2, <5>2, <5>3 DEF ChildRight
      <4> QED BY <4>1, <4>2 DEF Dirs
    <3>5. CASE x # Nil
      <4>1. /\ x \in Nodes /\ In(g, x) /\ ParentOf(t, x) = m
            /\ Lo(g, x) = (IF f = 0 THEN Lo(g, m) ELSE Pos(g, m) + 1)
            /\ Hi(g, x) = (IF f = 0 THEN Pos(g, m) - 1 ELSE Hi(g, m))
        BY <3>1, <3>2, <3>5, ChildTypes DEF ChildRight
      <4>2. x # n /\ ParentOf(u, x) = m /\ In(k, x)
        BY <1>1, <1>4, <1>u, <4>1
      <4>3. /\ Lo(k, x) = IF Lo(g, x) > q THEN Lo(g, x) + 1 ELSE Lo(g, x)
            /\ Hi(k, x) = IF Hi(g, x) >= q THEN Hi(g, x) + 1 ELSE Hi(g, x)
        BY <1>3, <4>1, <4>2
      <4>4. CASE f = 0
        <5>1. Lo(k, x) = Lo(k, m)
          BY <3>3, <4>1, <4>3, <4>4
        <5>2. Hi(k, x) = Pos(k, m) - 1
          BY <1>2, <3>3, <4>1, <4>3, <4>4
        <5> QED BY <3>2, <3>5, <4>2, <4>4, <5>1, <5>2 DEF ChildRight
      <4>5. CASE f = 1
        <5>1. Hi(k, x) = Hi(k, m)
          BY <3>3, <4>1, <4>3, <4>5
        <5>2. Lo(k, x) = Pos(k, m) + 1
          BY <1>2, <3>3, <4>1, <4>3, <4>5
        <5> QED BY <3>2, <3>5, <4>2, <4>5, <5>1, <5>2 DEF ChildRight
      <4> QED BY <4>4, <4>5 DEF Dirs
    <3> QED BY <3>4, <3>5
  <2> QED BY <2>1, <2>2, <2>3
<1>10. ASSUME NEW m \in Nodes, NEW f \in Dirs, ~In(k, m), Child(u, m, f) # Nil
       PROVE  In(k, Child(u, m, f))
  <2>1. m # n /\ ~In(g, m) /\ Child(u, m, f) = Child(t, m, f)
    BY <1>1, <1>4, <1>10, <1>u
  <2>2. In(g, Child(t, m, f)) /\ Child(t, m, f) \in Nodes
    BY <1>0, <1>10, <2>1, FieldTypes, NilIsNoNode DEF Shape
  <2> QED BY <1>4, <2>1, <2>2
<1> QED BY <1>4, <1>6, <1>7, <1>8, <1>9, <1>10, <1>u DEF Shape

\* An iteration goes on when the nodes keep their order.
SameOrder(g, k) ==
  \A a, b \in Nodes : In(g, a) /\ In(g, b) /\ In(k, a) /\ In(k, b) /\ Pos(g, a) < Pos(g, b) =>
    Pos(k, a) < Pos(k, b)

LEMMA IterationKept ==
  ASSUME NEW g, NEW k, NEW cu, NEW pe, NEW qe, Iterating(g, cu, pe), qe \subseteq pe,
         \A n \in Nodes : Pos(g, n) \in Int /\ Pos(k, n) \in Int,
         cu # NoCursor => In(k, cu.node), \A m \in qe : In(k, m), SameOrder(g, k)
  PROVE  Iterating(k, cu, qe)
<1>1. CASE cu = NoCursor
  BY <1>1 DEF Iterating
<1>2. CASE cu # NoCursor
  <2>1. /\ cu \in [node : Nodes, dir : Dirs] /\ In(g, cu.node) /\ cu.node \in Nodes
        /\ \A n \in pe : n \in Nodes /\ In(g, n) /\
             IF cu.dir = 1 THEN Pos(g, n) > Pos(g, cu.node) ELSE Pos(g, n) < Pos(g, cu.node)
    BY <1>2 DEF Iterating
  <2>2. ASSUME NEW n \in qe
        PROVE  n \in Nodes /\ In(k, n) /\
               IF cu.dir = 1 THEN Pos(k, n) > Pos(k, cu.node) ELSE Pos(k, n) < Pos(k, cu.node)
    <3>1. /\ n \in Nodes /\ In(g, n) /\ In(k, n) /\ In(k, cu.node)
          /\ IF cu.dir = 1 THEN Pos(g, n) > Pos(g, cu.node) ELSE Pos(g, n) < Pos(g, cu.node)
      BY <1>2, <2>1, <2>2
    <3>2. CASE cu.dir = 1
      <4>1. Pos(g, cu.node) < Pos(g, n)
        BY <2>1, <3>1, <3>2
      <4>2. Pos(k, cu.node) < Pos(k, n)
        BY <2>1, <3>1, <4>1 DEF SameOrder
      <4> QED BY <2>1, <3>1, <3>2, <4>2
    <3>3. CASE cu.dir # 1
      <4>1. Pos(k, n) < Pos(k, cu.node)
        BY <2>1, <3>1, <3>3 DEF SameOrder
      <4> QED BY <3>1, <3>3, <4>1
    <3> QED BY <3>2, <3>3
  <2> QED BY <1>2, <2>1, <2>2 DEF Iterating
<1> QED BY <1>1, <1>2

LEMMA GrowKeeps ==
  ASSUME NEW t, NEW g, Shape(t, g), Outside(t, g), Ordered(t, g),
         NEW h, Balanced(t, g, h, Nil, 0, Nil, Nil),
         NEW n, NEW p, NEW w, NEW q, NEW z, Slot(t, g, n, p, w, q, z),
         NEW v \in Keys, NEW c, Gap(t, g, v, c), z = c + 1,
         NEW u, Grown(t, n, v, p, w, u), NEW k, k = Wider(g, n, z, q)
  PROVE  /\ Outside(u, k) /\ Ordered(u, k)
         /\ \E l : Balanced(u, k, l, Nil, 0, n, Nil)
         /\ IsRed(u, n)
         /\ \A cu, pe : Iterating(g, cu, pe) => Iterating(k, cu, pe)
<1>0. t \in Trees /\ (\A m \in Nodes : m # Nil) /\ Size(g) \in Nat
  BY NilIsNoNode, NodeFacts
<1>1. /\ n \in Nodes /\ ~In(g, n) /\ p \in Nodes /\ In(g, p) /\ p # n /\ q = Pos(g, p)
      /\ w \in Dirs /\ Child(t, p, w) = Nil /\ z = IF w = 1 THEN q + 1 ELSE q
  BY DEF Slot
<1>u. /\ u \in Trees /\ u.Root = t.Root
      /\ \A m \in Nodes : /\ ColorOf(u, m) = IF m = n THEN Red ELSE ColorOf(t, m)
                          /\ ValueOf(u, m) = IF m = n THEN v ELSE ValueOf(t, m)
                          /\ ParentOf(u, m) = IF m = n THEN p ELSE ParentOf(t, m)
      /\ \A m \in Nodes, f \in Dirs :
           Child(u, m, f) = IF m = n THEN Nil ELSE IF m = p /\ f = w THEN n ELSE Child(t, m, f)
  BY DEF Grown
<1>2. /\ q \in Int /\ 1 <= q /\ q <= Size(g) /\ z \in Int /\ 1 <= z /\ z <= Size(g) + 1
  BY <1>0, <1>1, NodeFacts
<1>3. /\ Size(k) = Size(g) + 1
      /\ \A m \in Nodes : Pos(k, m) = IF m = n THEN z ELSE IF Pos(g, m) >= z THEN Pos(g, m) + 1
                                      ELSE Pos(g, m)
  BY <1>1, <1>2, WiderFields
<1>4. \A m \in Nodes : In(k, m) <=> In(g, m) \/ m = n
  BY GrowShape
<1>5. \A m \in Nodes : Pos(g, m) \in Int /\ Pos(k, m) \in Int
  <2>1. \A m \in Nodes : Pos(g, m) \in Int
    BY NodeFacts
  <2> QED BY <1>2, <1>3, <2>1
<1>6. Outside(u, k)
  <2> SUFFICES ASSUME NEW m \in Nodes, ~In(k, m) PROVE u.at[m] = Blank
    BY DEF Outside
  <2>1. ~In(g, m) /\ m # n /\ m # p
    BY <1>1, <1>4
  <2>2. /\ ColorOf(t, m) = Red /\ ParentOf(t, m) = Nil /\ ValueOf(t, m) = Nil
        /\ Child(t, m, 0) = Nil /\ Child(t, m, 1) = Nil
    BY <1>0, <2>1, BlankIs DEF Outside
  <2>3. /\ ColorOf(u, m) = Red /\ ParentOf(u, m) = Nil /\ ValueOf(u, m) = Nil
        /\ Child(u, m, 0) = Nil /\ Child(u, m, 1) = Nil
    BY <1>u, <2>1, <2>2 DEF Dirs
  <2> QED BY <1>u, <2>3, BlankIs
<1>7. Ordered(u, k)
  <2>1. \A m \in Nodes : In(k, m) => ValueOf(u, m) \in Keys
    BY <1>4, <1>u DEF Ordered
  <2>2. ASSUME NEW a \in Nodes, NEW b \in Nodes, In(k, a), In(k, b), Pos(k, a) < Pos(k, b)
        PROVE  ValueOf(u, a) <= ValueOf(u, b)
    <3>0. v \in Int /\ \A m \in Nodes : In(g, m) => ValueOf(t, m) \in Int
      BY RBTreeAssumption DEF Ordered
    <3>1. CASE a = n
      <4>1. b # n /\ In(g, b)
        BY <1>4, <1>5, <2>2, <3>1
      <4>2. c < Pos(g, b)
        BY <1>1, <1>3, <1>5, <2>2, <3>1, <4>1 DEF Gap
      <4>3. v < ValueOf(t, b)
        BY <4>1, <4>2 DEF Gap
      <4> QED BY <1>u, <3>0, <3>1, <4>1, <4>3
    <3>2. CASE b = n
      <4>1. a # n /\ In(g, a)
        BY <1>4, <1>5, <2>2, <3>2
      <4>2. ~(c < Pos(g, a))
        BY <1>1, <1>3, <1>5, <2>2, <3>2, <4>1 DEF Gap
      <4>3. ~(v < ValueOf(t, a))
        BY <4>1, <4>2 DEF Gap
      <4> QED BY <1>u, <3>0, <3>2, <4>1, <4>3
    <3>3. CASE a # n /\ b # n
      <4>1. In(g, a) /\ In(g, b)
        BY <1>4, <2>2, <3>3
      <4>2. Pos(g, a) < Pos(g, b)
        BY <1>2, <1>3, <1>5, <2>2, <3>3
      <4> QED BY <1>u, <3>3, <4>1, <4>2 DEF Ordered
    <3> QED BY <3>1, <3>2, <3>3
  <2> QED BY <2>1, <2>2 DEF Ordered
<1> DEFINE l == [m \in Nodes |-> IF m = n THEN 0 ELSE h[m]]
<1>8. /\ l \in [Nodes -> Nat] /\ h \in [Nodes -> Nat] /\ l[n] = 0
      /\ \A m \in Nodes : m # n => l[m] = h[m]
  BY <1>1 DEF Balanced
<1> HIDE DEF l
<1>9. IsRed(u, n) /\ Mark(u, n) = 0 /\ IsBlack(u, Nil)
  BY <1>1, <1>u, ColorIs
<1>10. ASSUME NEW m \in Nodes, NEW f \in Dirs, In(k, m)
       PROVE  Fine(u, l, m, f, Nil, 0, n, Nil)
  <2>0. Lack(m, f, Nil, 0) = 0 /\ Height(l, Nil) = 0 /\ Height(l, n) = 0
    BY <1>1, <1>8, LackIs, HeightIs
  <2>1. CASE m = n
    BY <1>8, <1>9, <1>u, <2>0, <2>1 DEF Fine
  <2>2. CASE m # n
    <3>1. In(g, m) /\ Fine(t, h, m, f, Nil, 0, Nil, Nil)
      BY <1>4, <1>10, <2>2 DEF Balanced
    <3>2. PICK x : x = Child(t, m, f)
      OBVIOUS
    <3>3. /\ h[m] = Height(h, x) + 0 + Mark(t, m)
          /\ IsRed(t, m) /\ x # Nil => IsBlack(t, x)
      BY <1>0, <2>0, <3>1, <3>2 DEF Fine
    <3>4. Mark(u, m) = Mark(t, m) /\ (IsRed(u, m) <=> IsRed(t, m)) /\ l[m] = h[m]
      BY <1>0, <1>8, <1>u, <2>2, ColorIs
    <3>5. CASE m = p /\ f = w
      <4>1. Child(u, m, f) = n /\ x = Nil
        BY <1>1, <1>u, <3>2, <3>5
      <4> QED BY <1>8, <2>0, <3>3, <3>4, <4>1, HeightIs DEF Fine
    <3>6. CASE ~(m = p /\ f = w)
      <4>1. Child(u, m, f) = x
        BY <1>u, <2>2, <3>2, <3>6
      <4>2. x # Nil => x \in Nodes /\ x # n
        BY <1>1, <3>1, <3>2, ChildTypes
      <4>3. Height(l, x) = Height(h, x)
        BY <1>8, <4>2, HeightIs
      <4>4. IsBlack(t, x) => IsBlack(u, x)
        BY <1>0, <1>9, <1>u, <4>2, ColorIs
      <4> QED BY <1>9, <2>0, <3>3, <3>4, <4>1, <4>3, <4>4 DEF Fine
    <3> QED BY <3>5, <3>6
  <2> QED BY <2>1, <2>2
<1>11. IsBlack(u, u.Root)
  <2>1. t.Root \in Nodes /\ In(g, t.Root) /\ t.Root # n /\ IsBlack(t, t.Root)
    BY <1>0, <1>1, <1>2, RootFacts DEF Balanced
  <2> QED BY <1>0, <1>u, <2>1, ColorIs
<1>12. Balanced(u, k, l, Nil, 0, n, Nil)
  BY <1>8, <1>10, <1>11 DEF Balanced
<1>13. SameOrder(g, k)
  <2> SUFFICES ASSUME NEW a \in Nodes, NEW b \in Nodes, In(g, a), In(g, b),
                      Pos(g, a) < Pos(g, b)
               PROVE  Pos(k, a) < Pos(k, b)
    BY DEF SameOrder
  <2>1. a # n /\ b # n
    BY <1>1
  <2> QED BY <1>2, <1>3, <1>5, <2>1
<1>14. ASSUME NEW cu, NEW pe, Iterating(g, cu, pe) PROVE Iterating(k, cu, pe)
  <2>1. cu # NoCursor => In(k, cu.node)
    BY <1>4, <1>14 DEF Iterating
  <2>2. \A m \in pe : In(k, m)
    BY <1>4, <1>14 DEF Iterating
  <2> QED BY <1>5, <1>13, <1>14, <2>1, <2>2, IterationKept
<1> QED BY <1>6, <1>7, <1>9, <1>12, <1>14

(***************************************************************************)
(* Remove                                                                  *)
(***************************************************************************)

\* The numbering without n.
Without(g, n, lo, hi) ==
  [node |-> [i \in 1 .. Size(g) - 1 |-> IF i < Pos(g, n) THEN At(g, i) ELSE At(g, i + 1)],
   pos |-> [m \in Nodes |-> IF m = n THEN 0 ELSE IF Pos(g, m) > Pos(g, n) THEN Pos(g, m) - 1
                            ELSE Pos(g, m)],
   lo |-> lo, hi |-> hi]

\* Its subtrees keep their nodes between their new bounds.
BoundsFit(g, n, lo, hi) ==
  /\ \A m \in Nodes : lo[m] \in Int /\ hi[m] \in Int
  /\ \A m \in Nodes : In(g, m) /\ m # n =>
       /\ 1 <= lo[m] /\ hi[m] <= Size(g) - 1
       /\ Pos(g, m) > Pos(g, n) => lo[m] <= Pos(g, m) - 1 /\ Pos(g, m) - 1 <= hi[m]
       /\ Pos(g, m) < Pos(g, n) => lo[m] <= Pos(g, m) /\ Pos(g, m) <= hi[m]

\* k numbers the nodes that g numbers, but for the q-th.
Shifted(g, k, q) ==
  /\ Size(k) = Size(g) - 1
  /\ \A i \in 1 .. Size(g) - 1 : At(k, i) = IF i < q THEN At(g, i) ELSE At(g, i + 1)

LEMMA WithoutIs ==
  ASSUME NEW t, NEW g, Shape(t, g), NEW n \in Nodes, In(g, n), NEW q, q = Pos(g, n),
         NEW lo, NEW hi, BoundsFit(g, n, lo, hi), NEW k, k = Without(g, n, lo, hi)
  PROVE  /\ Numbered(k) /\ Size(k) = Size(g) - 1
         /\ \A i \in 1 .. Size(g) - 1 : At(k, i) = IF i < q THEN At(g, i) ELSE At(g, i + 1)
         /\ \A m \in Nodes :
              /\ Pos(k, m) = IF m = n THEN 0 ELSE IF Pos(g, m) > q THEN Pos(g, m) - 1
                             ELSE Pos(g, m)
              /\ Lo(k, m) = lo[m] /\ Hi(k, m) = hi[m]
              /\ In(k, m) <=> In(g, m) /\ m # n
<1>g. /\ \A m \in Nodes : Pos(g, m) \in 0 .. Size(g) /\ Lo(g, m) \in Int /\ Hi(g, m) \in Int
      /\ \A m \in Nodes : In(g, m) <=> Pos(g, m) > 0
      /\ \A m \in Nodes : In(g, m) => /\ 1 <= Lo(g, m) /\ Lo(g, m) <= Pos(g, m)
                                      /\ Pos(g, m) <= Hi(g, m) /\ Hi(g, m) <= Size(g)
                                      /\ At(g, Pos(g, m)) = m
      /\ \A i \in Int : 1 <= i /\ i <= Size(g) =>
           At(g, i) \in Nodes /\ Pos(g, At(g, i)) = i /\ In(g, At(g, i))
      /\ Size(g) \in Nat /\ q \in Int /\ 1 <= q /\ q <= Size(g)
  <2>1. \A m \in Nodes : Pos(g, m) \in 0 .. Size(g) /\ Lo(g, m) \in Int /\ Hi(g, m) \in Int
    BY DEF Shape, Numbered
  <2>2. \A m \in Nodes : In(g, m) <=> Pos(g, m) > 0
    BY DEF In
  <2>3. Size(g) \in Nat /\ q \in Int /\ 1 <= q /\ q <= Size(g)
    BY NodeFacts
  <2> QED BY <2>1, <2>2, <2>3, NodeFacts
<1>5. \A m \in Nodes : In(g, m) /\ m # n => Pos(g, m) # q
  BY SamePos
<1>2. PICK l : l = Size(g) - 1
  OBVIOUS
<1>3. PICK f : f = [i \in 1 .. l |-> IF i < q THEN At(g, i) ELSE At(g, i + 1)]
  OBVIOUS
<1>4. f \in [1 .. l -> Nodes] /\ l \in Nat
  BY <1>2, <1>3, <1>g
<1>6. f \in Seq(Nodes) /\ Len(f) = l
  BY <1>4, ListOf
<1>7. k.node = f
  BY <1>2, <1>3 DEF Without
<1>8. k.node \in Seq(Nodes) /\ Size(k) = l
  BY <1>6, <1>7 DEF Size
<1>9. \A i \in 1 .. l : At(k, i) = IF i < q THEN At(g, i) ELSE At(g, i + 1)
  <2>1. \A i : At(k, i) = f[i]
    BY <1>7 DEF At
  <2> QED BY <1>3, <2>1
<1>10. \A m \in Nodes :
         /\ Pos(k, m) = IF m = n THEN 0 ELSE IF Pos(g, m) > q THEN Pos(g, m) - 1
                        ELSE Pos(g, m)
         /\ Lo(k, m) = lo[m] /\ Hi(k, m) = hi[m]
  <2>1. /\ k.pos = [m \in Nodes |-> IF m = n THEN 0 ELSE IF Pos(g, m) > q THEN Pos(g, m) - 1
                                    ELSE Pos(g, m)]
        /\ k.lo = lo /\ k.hi = hi
    BY DEF Without
  <2>2. \A m \in Nodes : Pos(k, m) = k.pos[m] /\ Lo(k, m) = k.lo[m] /\ Hi(k, m) = k.hi[m]
    BY DEF Pos, Lo, Hi
  <2> QED BY <2>1, <2>2
<1>11. \A m \in Nodes : In(k, m) <=> In(g, m) /\ m # n
  <2> SUFFICES ASSUME NEW m \in Nodes PROVE Pos(k, m) > 0 <=> Pos(g, m) > 0 /\ m # n
    BY <1>g DEF In
  <2> QED BY <1>10, <1>g
<1>12. Numbered(k)
  <2>1. \A m \in Nodes : Pos(k, m) \in 0 .. Size(k) /\ Lo(k, m) \in Int /\ Hi(k, m) \in Int
    <3> SUFFICES ASSUME NEW m \in Nodes
                 PROVE  Pos(k, m) \in 0 .. l /\ Lo(k, m) \in Int /\ Hi(k, m) \in Int
      BY <1>8
    <3>1. Lo(k, m) \in Int /\ Hi(k, m) \in Int
      BY <1>10 DEF BoundsFit
    <3>2. Pos(g, m) \in 0 .. Size(g) /\ (m # n => Pos(g, m) # q)
      BY <1>g, <1>5
    <3>3. Pos(k, m) \in 0 .. l
      BY <1>2, <1>g, <1>10, <3>2
    <3> QED BY <3>1, <3>3
  <2>2. \A m \in Nodes : In(k, m) => At(k, Pos(k, m)) = m
    <3> SUFFICES ASSUME NEW m \in Nodes, In(k, m) PROVE At(k, Pos(k, m)) = m
      OBVIOUS
    <3>1. PICK i : i = Pos(k, m)
      OBVIOUS
    <3>2. m # n /\ Pos(g, m) \in 1 .. Size(g) /\ At(g, Pos(g, m)) = m /\ Pos(g, m) # q
      BY <1>g, <1>5, <1>11
    <3>3. CASE Pos(g, m) > q
      <4>1. i \in 1 .. l /\ ~(i < q) /\ i + 1 = Pos(g, m)
        BY <1>2, <1>g, <1>10, <3>1, <3>2, <3>3
      <4> QED BY <1>9, <3>1, <3>2, <4>1
    <3>4. CASE ~(Pos(g, m) > q)
      <4>1. i \in 1 .. l /\ i < q /\ i = Pos(g, m)
        BY <1>2, <1>g, <1>10, <3>1, <3>2, <3>4
      <4> QED BY <1>9, <3>1, <3>2, <4>1
    <3> QED BY <3>3, <3>4
  <2>3. \A i \in 1 .. Size(k) : At(k, i) \in Nodes /\ Pos(k, At(k, i)) = i
    <3> SUFFICES ASSUME NEW i \in 1 .. l PROVE At(k, i) \in Nodes /\ Pos(k, At(k, i)) = i
      BY <1>8
    <3>1. CASE i < q
      <4>1. PICK m : m = At(g, i)
        OBVIOUS
      <4>2. m \in Nodes /\ Pos(g, m) = i
        BY <1>2, <1>g, <4>1
      <4> QED BY <1>2, <1>9, <1>10, <1>g, <3>1, <4>1, <4>2
    <3>2. CASE ~(i < q)
      <4>1. PICK m : m = At(g, i + 1)
        OBVIOUS
      <4>2. m \in Nodes /\ Pos(g, m) = i + 1
        BY <1>2, <1>g, <4>1
      <4> QED BY <1>2, <1>9, <1>10, <1>g, <3>2, <4>1, <4>2
    <3> QED BY <3>1, <3>2
  <2>4. \A m \in Nodes : In(k, m) =>
          Lo(k, m) <= Pos(k, m) /\ Pos(k, m) <= Hi(k, m) /\ 1 <= Lo(k, m) /\ Hi(k, m) <= Size(k)
    <3> SUFFICES ASSUME NEW m \in Nodes, In(k, m)
                 PROVE  Lo(k, m) <= Pos(k, m) /\ Pos(k, m) <= Hi(k, m) /\ 1 <= Lo(k, m)
                        /\ Hi(k, m) <= l
      BY <1>8
    <3>1. In(g, m) /\ m # n /\ Pos(g, m) \in Int /\ Pos(g, m) # q
      BY <1>g, <1>5, <1>11
    <3>2. /\ 1 <= lo[m] /\ hi[m] <= l
          /\ Pos(g, m) > q => lo[m] <= Pos(g, m) - 1 /\ Pos(g, m) - 1 <= hi[m]
          /\ Pos(g, m) < q => lo[m] <= Pos(g, m) /\ Pos(g, m) <= hi[m]
      BY <1>2, <3>1 DEF BoundsFit
    <3>3. /\ Pos(k, m) = IF Pos(g, m) > q THEN Pos(g, m) - 1 ELSE Pos(g, m)
          /\ Lo(k, m) = lo[m] /\ Hi(k, m) = hi[m]
      BY <1>10, <3>1
    <3>4. Pos(g, m) > q \/ Pos(g, m) < q
      BY <1>g, <3>1
    <3> QED BY <1>g, <3>1, <3>2, <3>3, <3>4
  <2>5. Size(k) \in Nat
    BY <1>4, <1>8
  <2> QED BY <1>8, <2>1, <2>2, <2>3, <2>4, <2>5 DEF Numbered, Within
<1> QED BY <1>2, <1>8, <1>9, <1>10, <1>11, <1>12

\* Its one child x, or nil, takes the place of n.
Replaces(t, g, n, x, p, e, q) ==
  /\ n \in Nodes /\ In(g, n) /\ p = ParentOf(t, n) /\ e = Side(t, n) /\ q = Pos(g, n)
  /\ \E d \in Dirs : Child(t, n, d) = Nil /\ x = Child(t, n, 1 - d)

CloserLo(g, q, b) == [m \in Nodes |-> IF Lo(g, m) > b THEN Lo(g, m) - 1 ELSE Lo(g, m)]
CloserHi(g, q, b) == [m \in Nodes |-> IF Hi(g, m) >= b THEN Hi(g, m) - 1 ELSE Hi(g, m)]

LEMMA ReplaceShape ==
  ASSUME NEW t, NEW g, Shape(t, g), Outside(t, g), NEW n, NEW x, NEW p, NEW e, NEW q,
         Replaces(t, g, n, x, p, e, q), NEW u, LinkSpec(t, p, e, x, u),
         NEW k, k = Without(g, n, CloserLo(g, q, q), CloserHi(g, q, q))
  PROVE  /\ Shape(u, k)
         /\ \A m \in Nodes : In(k, m) <=> In(g, m) /\ m # n
         /\ SameOrder(g, k) /\ Shifted(g, k, q)
<1>0. t \in Trees /\ (\A m \in Nodes : m # Nil) /\ Size(g) \in Nat
  BY NilIsNoNode, NodeFacts
<1>1. n \in Nodes /\ In(g, n) /\ p = ParentOf(t, n) /\ e = Side(t, n) /\ q = Pos(g, n)
  BY DEF Replaces
<1>d. PICK d \in Dirs : Child(t, n, d) = Nil /\ x = Child(t, n, 1 - d)
  BY DEF Replaces
<1>2. /\ x # Nil => x \in Nodes /\ In(g, x) /\ ParentOf(t, x) = n /\ x # n /\ x # t.Root
      /\ 1 - d \in Dirs
      /\ \A f \in Dirs : Child(t, n, f) # Nil => Child(t, n, f) = x
  <2>1. 1 - d \in Dirs /\ \A f \in Dirs : f = d \/ f = 1 - d
    BY DEF Dirs
  <2> QED BY <1>1, <1>d, <2>1, KidFacts
<1>3. /\ e \in Dirs /\ p \in Ref
      /\ p = Nil <=> n = t.Root
      /\ p # Nil => p \in Nodes /\ In(g, p) /\ p # n /\ Child(t, p, e) = n
                    /\ Child(t, p, 1 - e) # n
  BY <1>1, SideIs
<1>g. /\ \A m \in Nodes : Pos(g, m) \in Int /\ Lo(g, m) \in Int /\ Hi(g, m) \in Int
      /\ \A m \in Nodes : In(g, m) => /\ 1 <= Lo(g, m) /\ Lo(g, m) <= Pos(g, m)
                                      /\ Pos(g, m) <= Hi(g, m) /\ Hi(g, m) <= Size(g)
      /\ q \in Int /\ 1 <= q /\ q <= Size(g)
  BY <1>1, NodeFacts
<1>5. \A m \in Nodes : In(g, m) /\ m # n => Pos(g, m) # q
  BY <1>1, SamePos
<1>6. /\ x = Nil => Lo(g, n) = q /\ Hi(g, n) = q
      /\ x # Nil => \/ Lo(g, n) = q /\ Lo(g, x) = q + 1 /\ Hi(g, x) = Hi(g, n)
                    \/ Hi(g, n) = q /\ Lo(g, x) = Lo(g, n) /\ Hi(g, x) = q - 1
  <2>1. CASE d = 0
    <3>1. Child(t, n, 0) = Nil /\ x = Child(t, n, 1)
      BY <1>d, <2>1
    <3> QED BY <1>0, <1>1, <3>1, ChildFacts
  <2>2. CASE d = 1
    <3>1. Child(t, n, 1) = Nil /\ x = Child(t, n, 0)
      BY <1>d, <2>2
    <3> QED BY <1>0, <1>1, <3>1, ChildFacts
  <2> QED BY <2>1, <2>2 DEF Dirs
<1>l. PICK lo : lo = CloserLo(g, q, q)
  OBVIOUS
<1>h. PICK hi : hi = CloserHi(g, q, q)
  OBVIOUS
<1>b. \A m \in Nodes : /\ lo[m] = IF Lo(g, m) > q THEN Lo(g, m) - 1 ELSE Lo(g, m)
                       /\ hi[m] = IF Hi(g, m) >= q THEN Hi(g, m) - 1 ELSE Hi(g, m)
  BY <1>l, <1>h DEF CloserLo, CloserHi
<1>7. BoundsFit(g, n, lo, hi)
  <2>1. \A m \in Nodes : lo[m] \in Int /\ hi[m] \in Int
    BY <1>b, <1>g
  <2>2. ASSUME NEW m \in Nodes, In(g, m), m # n
        PROVE  /\ 1 <= lo[m] /\ hi[m] <= Size(g) - 1
               /\ Pos(g, m) > q => lo[m] <= Pos(g, m) - 1 /\ Pos(g, m) - 1 <= hi[m]
               /\ Pos(g, m) < q => lo[m] <= Pos(g, m) /\ Pos(g, m) <= hi[m]
    <3>1. /\ lo[m] = IF Lo(g, m) > q THEN Lo(g, m) - 1 ELSE Lo(g, m)
          /\ hi[m] = IF Hi(g, m) >= q THEN Hi(g, m) - 1 ELSE Hi(g, m)
          /\ Pos(g, m) \in Int /\ Lo(g, m) \in Int /\ Hi(g, m) \in Int
          /\ 1 <= Lo(g, m) /\ Lo(g, m) <= Pos(g, m)
          /\ Pos(g, m) <= Hi(g, m) /\ Hi(g, m) <= Size(g)
      BY <1>b, <1>g, <2>2
    <3> QED BY <1>0, <1>g, <3>1
  <2> QED BY <1>1, <2>1, <2>2 DEF BoundsFit
<1>k. /\ Numbered(k) /\ Size(k) = Size(g) - 1
      /\ \A i \in 1 .. Size(g) - 1 : At(k, i) = IF i < q THEN At(g, i) ELSE At(g, i + 1)
      /\ \A m \in Nodes :
           /\ Pos(k, m) = IF m = n THEN 0 ELSE IF Pos(g, m) > q THEN Pos(g, m) - 1
                          ELSE Pos(g, m)
           /\ Lo(k, m) = lo[m] /\ Hi(k, m) = hi[m]
           /\ In(k, m) <=> In(g, m) /\ m # n
  BY <1>1, <1>7, <1>l, <1>h, WithoutIs
<1>u. /\ u \in Trees
      /\ u.Root = IF p = Nil THEN x ELSE t.Root
      /\ \A m \in Nodes : ParentOf(u, m) = IF m = x THEN p ELSE ParentOf(t, m)
      /\ \A m \in Nodes, f \in Dirs :
           Child(u, m, f) = IF m = p /\ f = e THEN x ELSE Child(t, m, f)
  BY DEF LinkSpec
<1>8. RootRight(u, k)
  <2>1. CASE p = Nil
    <3>1. Lo(g, n) = 1 /\ Hi(g, n) = Size(g) /\ u.Root = x
      BY <1>0, <1>1, <1>3, <1>u, <2>1, RootFacts
    <3>2. CASE x = Nil
      BY <1>6, <1>g, <1>k, <3>1, <3>2 DEF RootRight
    <3>3. CASE x # Nil
      <4>1. In(k, x) /\ ParentOf(u, x) = Nil
        BY <1>2, <1>k, <1>u, <2>1, <3>3
      <4>2. Lo(k, x) = 1 /\ Hi(k, x) = Size(g) - 1
        <5>1. lo[x] = IF Lo(g, x) > q THEN Lo(g, x) - 1 ELSE Lo(g, x)
          BY <1>2, <1>b, <3>3
        <5>2. hi[x] = IF Hi(g, x) >= q THEN Hi(g, x) - 1 ELSE Hi(g, x)
          BY <1>2, <1>b, <3>3
        <5>3. Lo(k, x) = lo[x] /\ Hi(k, x) = hi[x]
          BY <1>2, <1>k, <3>3
        <5>4. q <= Size(g) /\ q >= 1 /\ Lo(g, n) <= q /\ q <= Hi(g, n)
          BY <1>1, <1>g
        <5> QED BY <1>0, <1>6, <1>g, <3>1, <3>3, <5>1, <5>2, <5>3, <5>4
      <4> QED BY <1>k, <3>1, <3>3, <4>1, <4>2 DEF RootRight
    <3> QED BY <3>2, <3>3
  <2>2. CASE p # Nil
    <3>1. /\ t.Root \in Nodes /\ In(g, t.Root) /\ t.Root # n /\ ParentOf(t, t.Root) = Nil
          /\ Lo(g, t.Root) = 1 /\ Hi(g, t.Root) = Size(g) /\ t.Root # x /\ u.Root = t.Root
      <4>1. t.Root # Nil
        BY <1>0, <1>1, <1>g, RootFacts
      <4>2. t.Root # n /\ t.Root # x /\ u.Root = t.Root
        BY <1>2, <1>3, <1>u, <2>2, <4>1
      <4> QED BY <4>1, <4>2, RootFacts
    <3>2. In(k, t.Root) /\ ParentOf(u, t.Root) = Nil
      BY <1>k, <1>u, <3>1
    <3>3. Lo(k, t.Root) = 1 /\ Hi(k, t.Root) = Size(g) - 1
      BY <1>0, <1>b, <1>g, <1>k, <3>1
    <3> QED BY <1>0, <1>k, <3>1, <3>2, <3>3 DEF RootRight
  <2> QED BY <2>1, <2>2
<1>9. ASSUME NEW m \in Nodes, In(k, m) PROVE ParentRight(u, k, m)
  <2>0. In(g, m) /\ m # n
    BY <1>9, <1>k
  <2>1. CASE m = x
    <3>1. ParentOf(u, m) = p /\ (p = Nil => u.Root = m)
      BY <1>u, <2>1
    <3>2. p # Nil => In(k, p) /\ Child(u, p, e) = m
      BY <1>3, <1>k, <1>u, <2>1
    <3> QED BY <1>3, <3>1, <3>2 DEF ParentRight, Dirs
  <2>2. CASE m # x
    <3>1. ParentRight(t, g, m)
      BY <2>0 DEF Shape
    <3>2. PICK z : z = ParentOf(t, m) /\ z = ParentOf(u, m)
      BY <1>u, <2>2
    <3>3. CASE z = Nil
      <4>1. m = t.Root
        BY <3>1, <3>2, <3>3 DEF ParentRight
      <4>2. u.Root = t.Root
        BY <1>3, <1>u, <2>0, <4>1
      <4> QED BY <3>2, <3>3, <4>1, <4>2 DEF ParentRight
    <3>4. CASE z # Nil
      <4>1. z \in Nodes /\ In(g, z) /\ (Child(t, z, 0) = m \/ Child(t, z, 1) = m)
        BY <1>0, <3>1, <3>2, <3>4, FieldTypes, NilIsNoNode DEF ParentRight
      <4>2. z # n
        BY <1>0, <1>2, <2>2, <4>1 DEF Dirs
      <4>3. \A f \in Dirs : Child(t, z, f) = m => Child(u, z, f) = m
        BY <1>0, <1>3, <1>u, <2>0, <4>1
      <4> QED BY <1>k, <3>2, <3>4, <4>1, <4>2, <4>3 DEF ParentRight, Dirs
    <3> QED BY <3>3, <3>4
  <2> QED BY <2>1, <2>2
<1>10. ASSUME NEW m \in Nodes, NEW f \in Dirs, In(k, m) PROVE ChildRight(u, k, m, f)
  <2>0. In(g, m) /\ m # n /\ ChildRight(t, g, m, f)
    BY <1>10, <1>k DEF Shape
  <2>3. /\ Pos(k, m) = IF Pos(g, m) > q THEN Pos(g, m) - 1 ELSE Pos(g, m)
        /\ Lo(k, m) = IF Lo(g, m) > q THEN Lo(g, m) - 1 ELSE Lo(g, m)
        /\ Hi(k, m) = IF Hi(g, m) >= q THEN Hi(g, m) - 1 ELSE Hi(g, m)
        /\ Pos(g, m) \in Int /\ Lo(g, m) \in Int /\ Hi(g, m) \in Int
        /\ Pos(g, m) # q
        /\ Lo(g, m) <= Pos(g, m) /\ Pos(g, m) <= Hi(g, m)
    BY <1>b, <1>k, <1>g, <1>5, <2>0
  <2>1. CASE m = p /\ f = e
    <3>1. Child(u, m, f) = x /\ Child(t, m, f) = n
      BY <1>0, <1>3, <1>u, <2>1
    <3>2. /\ Lo(g, n) = (IF f = 0 THEN Lo(g, m) ELSE Pos(g, m) + 1)
          /\ Hi(g, n) = (IF f = 0 THEN Pos(g, m) - 1 ELSE Hi(g, m))
      BY <1>0, <1>1, <2>0, <3>1 DEF ChildRight
    <3>4. Lo(g, n) <= q /\ q <= Hi(g, n)
      BY <1>1, <1>g
    <3>5. CASE x = Nil
      <4>1. Lo(g, n) = q /\ Hi(g, n) = q
        BY <1>6, <3>5
      <4>2. CASE f = 0
        <5>1. Lo(k, m) > Pos(k, m) - 1
          BY <1>g, <2>3, <3>2, <4>1, <4>2
        <5> QED BY <3>1, <3>5, <4>2, <5>1 DEF ChildRight
      <4>3. CASE f = 1
        <5>1. Pos(k, m) + 1 > Hi(k, m)
          BY <1>g, <2>3, <3>2, <4>1, <4>3
        <5> QED BY <3>1, <3>5, <4>3, <5>1 DEF ChildRight
      <4> QED BY <4>2, <4>3 DEF Dirs
    <3>6. CASE x # Nil
      <4>1. x \in Nodes /\ In(k, x) /\ ParentOf(u, x) = m /\ In(g, x)
        BY <1>2, <1>k, <1>u, <2>1, <3>6
      <4>2. /\ Lo(k, x) = IF Lo(g, x) > q THEN Lo(g, x) - 1 ELSE Lo(g, x)
            /\ Hi(k, x) = IF Hi(g, x) >= q THEN Hi(g, x) - 1 ELSE Hi(g, x)
            /\ Lo(g, x) \in Int /\ Hi(g, x) \in Int
        BY <1>b, <1>k, <1>g, <4>1
      <4>3. \/ Lo(g, n) = q /\ Lo(g, x) = q + 1 /\ Hi(g, x) = Hi(g, n)
            \/ Hi(g, n) = q /\ Lo(g, x) = Lo(g, n) /\ Hi(g, x) = q - 1
        BY <1>6, <3>6
      <4>n. Lo(g, n) \in Int /\ Hi(g, n) \in Int
        BY <1>1, <1>g
      <4>x. Lo(g, x) <= Hi(g, x)
        BY <1>g, <4>1
      <4>4. CASE f = 0
        <5>1. Lo(k, x) = Lo(k, m)
          BY <1>g, <2>3, <3>2, <3>4, <4>2, <4>3, <4>4, <4>n, <4>x
        <5>2. Hi(k, x) = Pos(k, m) - 1
          BY <1>g, <2>3, <3>2, <3>4, <4>2, <4>3, <4>4, <4>n, <4>x
        <5> QED BY <3>1, <3>6, <4>1, <4>4, <5>1, <5>2 DEF ChildRight
      <4>5. CASE f = 1
        <5>1. Lo(k, x) = Pos(k, m) + 1
          BY <1>g, <2>3, <3>2, <3>4, <4>2, <4>3, <4>5, <4>n, <4>x
        <5>2. Hi(k, x) = Hi(k, m)
          BY <1>g, <2>3, <3>2, <3>4, <4>2, <4>3, <4>5, <4>n, <4>x
        <5> QED BY <3>1, <3>6, <4>1, <4>5, <5>1, <5>2 DEF ChildRight
      <4> QED BY <4>4, <4>5 DEF Dirs
    <3> QED BY <3>5, <3>6
  <2>2. CASE ~(m = p /\ f = e)
    <3>1. PICK z : z = Child(t, m, f) /\ z = Child(u, m, f)
      BY <1>u, <2>2
    <3>2. CASE z = Nil
      <4>1. CASE f = 0
        <5>1. Lo(g, m) = Pos(g, m)
          BY <2>0, <2>3, <3>1, <3>2, <4>1 DEF ChildRight
        <5>2. Lo(k, m) = Pos(k, m) /\ Pos(k, m) \in Int
          BY <1>g, <2>3, <5>1
        <5> QED BY <3>1, <3>2, <4>1, <5>2 DEF ChildRight
      <4>2. CASE f = 1
        <5>1. Hi(g, m) = Pos(g, m)
          BY <2>0, <2>3, <3>1, <3>2, <4>2 DEF ChildRight
        <5>2. Hi(k, m) = Pos(k, m) /\ Pos(k, m) \in Int
          BY <1>g, <2>3, <5>1
        <5> QED BY <3>1, <3>2, <4>2, <5>2 DEF ChildRight
      <4> QED BY <4>1, <4>2 DEF Dirs
    <3>3. CASE z # Nil
      <4>1. /\ z \in Nodes /\ In(g, z) /\ ParentOf(t, z) = m
            /\ Lo(g, z) = (IF f = 0 THEN Lo(g, m) ELSE Pos(g, m) + 1)
            /\ Hi(g, z) = (IF f = 0 THEN Pos(g, m) - 1 ELSE Hi(g, m))
        BY <2>0, <3>1, <3>3, ChildTypes DEF ChildRight
      <4>2. z # n
        <5>1. SUFFICES ASSUME z = n PROVE FALSE
          OBVIOUS
        <5>2. m = p
          BY <1>1, <4>1, <5>1
        <5>3. f = e \/ f = 1 - e
          BY <1>3 DEF Dirs
        <5> QED BY <1>0, <1>3, <2>2, <3>1, <5>1, <5>2, <5>3
      <4>3. z # x /\ ParentOf(u, z) = m /\ In(k, z)
        BY <1>0, <1>2, <1>k, <1>u, <2>0, <3>3, <4>1, <4>2
      <4>4. /\ Lo(k, z) = IF Lo(g, z) > q THEN Lo(g, z) - 1 ELSE Lo(g, z)
            /\ Hi(k, z) = IF Hi(g, z) >= q THEN Hi(g, z) - 1 ELSE Hi(g, z)
        BY <1>b, <1>k, <4>1
      <4>5. CASE f = 0
        <5>1. Lo(k, z) = Lo(k, m) /\ Hi(k, z) = Pos(k, m) - 1
          BY <1>g, <2>3, <4>1, <4>4, <4>5
        <5> QED BY <3>1, <3>3, <4>3, <4>5, <5>1 DEF ChildRight
      <4>6. CASE f = 1
        <5>1. Lo(k, z) = Pos(k, m) + 1 /\ Hi(k, z) = Hi(k, m)
          BY <1>g, <2>3, <4>1, <4>4, <4>6
        <5> QED BY <3>1, <3>3, <4>3, <4>6, <5>1 DEF ChildRight
      <4> QED BY <4>5, <4>6 DEF Dirs
    <3> QED BY <3>2, <3>3
  <2> QED BY <2>1, <2>2
<1>11. ASSUME NEW m \in Nodes, NEW f \in Dirs, ~In(k, m), Child(u, m, f) # Nil
       PROVE  In(k, Child(u, m, f))
  <2>1. ~In(g, m) \/ m = n
    BY <1>11, <1>k
  <2>2. Child(u, m, f) = Child(t, m, f)
    BY <1>0, <1>3, <1>u, <2>1
  <2>3. CASE m = n
    BY <1>2, <1>k, <1>11, <2>2, <2>3
  <2>4. CASE m # n
    <3>1. Child(t, m, 0) = Nil /\ Child(t, m, 1) = Nil
      BY <1>0, <2>1, <2>4, BlankIs DEF Outside
    <3> QED BY <1>11, <2>2, <3>1 DEF Dirs
  <2> QED BY <2>3, <2>4
<1>12. SameOrder(g, k)
  <2> SUFFICES ASSUME NEW a \in Nodes, NEW b \in Nodes, In(g, a), In(g, b), In(k, a), In(k, b),
                      Pos(g, a) < Pos(g, b)
               PROVE  Pos(k, a) < Pos(k, b)
    BY DEF SameOrder
  <2>1. a # n /\ b # n /\ Pos(g, a) # q /\ Pos(g, b) # q
    BY <1>k, <1>5
  <2> QED BY <1>g, <1>k, <2>1
<1>13. Shifted(g, k, q)
  BY <1>k DEF Shifted
<1> QED BY <1>8, <1>9, <1>10, <1>11, <1>12, <1>13, <1>k, <1>u DEF Shape

LEMMA SideOfNil ==
  ASSUME NEW t, NEW g, NEW h, NEW e, NEW x, NEW y, Balanced(t, g, h, Nil, e, x, y)
  PROVE  Balanced(t, g, h, Nil, 0, x, y)
<1>1. ASSUME NEW m \in Nodes, NEW f \in Dirs, In(g, m)
      PROVE  Fine(t, h, m, f, Nil, 0, x, y)
  <2>1. Fine(t, h, m, f, Nil, e, x, y)
    BY <1>1 DEF Balanced
  <2>2. Lack(m, f, Nil, 0) = 0 /\ Lack(m, f, Nil, e) = 0
    BY LackIs
  <2> QED BY <2>1, <2>2 DEF Fine
<1> QED BY <1>1 DEF Balanced

LEMMA ReplaceBalance ==
  ASSUME NEW t, NEW g, Shape(t, g), NEW h, Balanced(t, g, h, Nil, 0, Nil, Nil),
         NEW n, NEW x, NEW p, NEW e, NEW q, Replaces(t, g, n, x, p, e, q),
         NEW u, LinkSpec(t, p, e, x, u),
         NEW k, \A m \in Nodes : In(k, m) <=> In(g, m) /\ m # n,
         NEW lp, lp = (IF ColorOf(t, n) = Black THEN p ELSE Nil),
         NEW xx, xx = (IF ColorOf(t, n) = Black THEN x ELSE Nil)
  PROVE  /\ Balanced(u, k, h, lp, e, xx, xx)
         /\ lp # Nil => /\ In(k, lp) /\ Child(u, lp, e) = x /\ e \in Dirs
                        /\ x = Child(u, lp, 0) => e = 0
         /\ lp = Nil /\ ColorOf(t, n) = Black => x = u.Root
<1>0. t \in Trees /\ (\A m \in Nodes : m # Nil) /\ h \in [Nodes -> Nat]
  BY NilIsNoNode, NodeFacts DEF Balanced
<1>1. n \in Nodes /\ In(g, n) /\ p = ParentOf(t, n) /\ e = Side(t, n) /\ q = Pos(g, n)
  BY DEF Replaces
<1>d. PICK d \in Dirs : Child(t, n, d) = Nil /\ x = Child(t, n, 1 - d)
  BY DEF Replaces
<1>2. /\ x # Nil => x \in Nodes /\ In(g, x) /\ ParentOf(t, x) = n /\ x # n /\ x # t.Root
      /\ 1 - d \in Dirs
  <2>1. 1 - d \in Dirs
    BY DEF Dirs
  <2> QED BY <1>1, <1>d, <2>1, KidFacts
<1>3. /\ e \in Dirs /\ p \in Ref
      /\ p = Nil <=> n = t.Root
      /\ p # Nil => p \in Nodes /\ In(g, p) /\ p # n /\ Child(t, p, e) = n
                    /\ Child(t, p, 1 - e) # n
  BY <1>1, SideIs
<1>u. /\ u \in Trees
      /\ u.Root = IF p = Nil THEN x ELSE t.Root
      /\ \A m \in Nodes : ColorOf(u, m) = ColorOf(t, m)
      /\ \A m \in Nodes, f \in Dirs :
           Child(u, m, f) = IF m = p /\ f = e THEN x ELSE Child(t, m, f)
  BY DEF LinkSpec
<1>4. \A m \in Nodes, f \in Dirs : In(g, m) => Fine(t, h, m, f, Nil, 0, Nil, Nil)
  BY DEF Balanced
<1>5. /\ h[n] = Mark(t, n) /\ Height(h, x) = 0
      /\ IsRed(t, n) => IsBlack(t, x)
  <2>1. Fine(t, h, n, d, Nil, 0, Nil, Nil) /\ Fine(t, h, n, 1 - d, Nil, 0, Nil, Nil)
    BY <1>1, <1>2, <1>4
  <2>2. Lack(n, d, Nil, 0) = 0 /\ Lack(n, 1 - d, Nil, 0) = 0 /\ Height(h, Nil) = 0
    BY <1>0, <1>1, LackIs, HeightIs
  <2>3. h[n] = 0 + 0 + Mark(t, n) /\ h[n] = Height(h, x) + 0 + Mark(t, n)
    BY <1>d, <2>1, <2>2 DEF Fine
  <2>4. Height(h, x) \in Nat /\ Mark(t, n) \in {0, 1}
    BY <1>0, <1>2, HeightIs DEF Mark, Ref
  <2>5. IsRed(t, n) => IsBlack(t, x)
    BY <1>0, <1>1, <1>d, <2>1, ColorIs DEF Fine
  <2> QED BY <2>3, <2>4, <2>5
<1>6. \A m \in Nodes : Mark(u, m) = Mark(t, m) /\ (IsRed(u, m) <=> IsRed(t, m))
  BY <1>0, <1>u, ColorIs
<1>7. IsBlack(u, Nil) /\ \A m \in Nodes : IsBlack(u, m) <=> IsBlack(t, m)
  BY <1>0, <1>u, ColorIs
<1>c. /\ ColorOf(t, n) = Black => IsBlack(t, n) /\ ~IsRed(t, n) /\ Mark(t, n) = 1
      /\ ColorOf(t, n) # Black => IsRed(t, n) /\ ~IsBlack(t, n) /\ Mark(t, n) = 0
  BY <1>0, <1>1, FieldTypes, ColorIs, RedIsNotBlack
<1>8. ASSUME NEW m \in Nodes, NEW f \in Dirs, In(k, m)
      PROVE  Fine(u, h, m, f, lp, e, xx, xx)
  <2>1. In(g, m) /\ m # n /\ Fine(t, h, m, f, Nil, 0, Nil, Nil)
    BY <1>4, <1>8
  <2>2. PICK z : z = Child(t, m, f)
    OBVIOUS
  <2>3. /\ h[m] = Height(h, z) + 0 + Mark(t, m)
        /\ IsRed(t, m) /\ z # Nil => IsBlack(t, z)
    <3>1. Lack(m, f, Nil, 0) = 0
      BY LackIs
    <3> QED BY <1>0, <2>1, <2>2, <3>1 DEF Fine
  <2>4. CASE m = p /\ f = e
    <3>1. Child(u, m, f) = x /\ z = n
      BY <1>0, <1>3, <1>u, <2>2, <2>4
    <3>2. Lack(m, f, lp, e) = Mark(t, n)
      BY <1>0, <1>c, <2>4, LackIs
    <3>3. h[m] = Height(h, x) + Lack(m, f, lp, e) + Mark(u, m)
      <4>1. Height(h, z) = Mark(t, n) /\ Mark(t, n) \in {0, 1} /\ Mark(t, m) \in {0, 1}
        BY <1>0, <1>1, <1>5, <3>1, HeightIs DEF Mark
      <4> QED BY <1>5, <1>6, <2>3, <3>2, <4>1
    <3>4. IsRed(u, m) /\ x # xx => IsBlack(u, x)
      BY <1>0, <1>1, <1>c, <1>6, <2>3, <3>1
    <3> QED BY <3>1, <3>3, <3>4 DEF Fine
  <2>5. CASE ~(m = p /\ f = e)
    <3>1. Child(u, m, f) = z
      BY <1>u, <2>2, <2>5
    <3>2. Lack(m, f, lp, e) = 0
      BY <1>0, <2>5, LackIs
    <3>3. z # Nil => z \in Nodes
      BY <2>1, <2>2, ChildTypes
    <3>4. IsRed(u, m) => IsBlack(u, z)
      BY <1>6, <1>7, <2>3, <3>3
    <3> QED BY <1>6, <2>3, <3>1, <3>2, <3>4 DEF Fine
  <2> QED BY <2>4, <2>5
<1>9. u.Root # xx => IsBlack(u, u.Root)
  <2>1. IsBlack(t, t.Root) /\ t.Root \in Ref
    BY <1>0, RootFacts, ColorIs DEF Balanced
  <2>2. CASE p = Nil
    BY <1>1, <1>3, <1>c, <1>u, <2>1, <2>2
  <2>3. CASE p # Nil
    BY <1>7, <1>u, <2>1, <2>3 DEF Ref
  <2> QED BY <2>2, <2>3
<1>10. Balanced(u, k, h, lp, e, xx, xx)
  BY <1>0, <1>8, <1>9 DEF Balanced
<1>11. ASSUME lp # Nil
       PROVE  /\ In(k, lp) /\ Child(u, lp, e) = x /\ e \in Dirs
              /\ x = Child(u, lp, 0) => e = 0
  <2>1. lp = p /\ ColorOf(t, n) = Black /\ p # Nil
    BY <1>11
  <2>2. In(k, p) /\ Child(u, p, e) = x
    BY <1>3, <1>u, <2>1
  <2>3. ASSUME x = Child(u, p, 0), e # 0 PROVE FALSE
    <3>1. e = 1 /\ x = Child(t, p, 0)
      BY <1>3, <1>u, <2>1, <2>3 DEF Dirs
    <3>2. x = Nil
      <4>1. x # Nil => ParentOf(t, x) = p
        BY <1>3, <2>1, <3>1, KidFacts DEF Dirs
      <4> QED BY <1>2, <1>3, <2>1, <4>1
    <3>3. Fine(t, h, p, 0, Nil, 0, Nil, Nil) /\ Fine(t, h, p, 1, Nil, 0, Nil, Nil)
      BY <1>3, <1>4, <2>1 DEF Dirs
    <3>4. Lack(p, 0, Nil, 0) = 0 /\ Lack(p, 1, Nil, 0) = 0
      BY <1>3, <2>1, LackIs
    <3>5. h[p] = 0 + 0 + Mark(t, p) /\ h[p] = 1 + 0 + Mark(t, p)
      BY <1>0, <1>1, <1>3, <1>5, <1>c, <2>1, <3>1, <3>2, <3>3, <3>4, HeightIs DEF Fine
    <3>6. Mark(t, p) \in {0, 1}
      BY DEF Mark
    <3> QED BY <3>5, <3>6
  <2> QED BY <1>3, <2>1, <2>2, <2>3
<1>12. lp = Nil /\ ColorOf(t, n) = Black => x = u.Root
  BY <1>u
<1> QED BY <1>10, <1>11, <1>12

\* n has the children c0 and c1; y, the next node, takes its place, and the
\* child x of y, or nil, that of y.
Splices(t, g, n, y, x, c0, c1, p, e, py, q) ==
  /\ n \in Nodes /\ In(g, n) /\ p = ParentOf(t, n) /\ e = Side(t, n) /\ q = Pos(g, n)
  /\ c0 = Child(t, n, 0) /\ c0 # Nil /\ c1 = Child(t, n, 1) /\ c1 # Nil
  /\ y = Extreme(t, c1, 0) /\ x = Child(t, y, 1) /\ py = ParentOf(t, y)

\* What is known of these nodes.
About(t, g, n, y, x, c0, c1, p, e, py, q) ==
  /\ n \in Nodes /\ In(g, n) /\ q = Pos(g, n) /\ q \in Int
  /\ y \in Nodes /\ In(g, y) /\ Pos(g, y) = q + 1 /\ Lo(g, y) = q + 1
  /\ Child(t, y, 0) = Nil /\ Child(t, y, 1) = x /\ y # n /\ y # t.Root
  /\ c0 \in Nodes /\ In(g, c0) /\ ParentOf(t, c0) = n /\ c0 # y /\ c0 # n /\ c0 # c1
  /\ Lo(g, c0) = Lo(g, n) /\ Hi(g, c0) = q - 1 /\ c0 = Child(t, n, 0) /\ c0 # t.Root
  /\ c1 \in Nodes /\ In(g, c1) /\ ParentOf(t, c1) = n /\ c1 # n
  /\ Lo(g, c1) = q + 1 /\ Hi(g, c1) = Hi(g, n) /\ c1 = Child(t, n, 1) /\ c1 # t.Root
  /\ x = Nil => Hi(g, y) = q + 1
  /\ x # Nil => /\ x \in Nodes /\ In(g, x) /\ ParentOf(t, x) = y /\ x # t.Root
                /\ Lo(g, x) = q + 2 /\ Hi(g, x) = Hi(g, y)
                /\ x # n /\ x # y /\ x # c0 /\ x # c1
  /\ py \in Nodes /\ In(g, py) /\ py = ParentOf(t, y) /\ py # y /\ py # c0
  /\ py = n => c1 = y
  /\ py # n => /\ c1 # y /\ Child(t, py, 0) = y /\ Side(t, y) = 0
               /\ Lo(g, py) = q + 1 /\ Hi(g, y) = Pos(g, py) - 1 /\ py # p /\ x # py
  /\ p = ParentOf(t, n) /\ e = Side(t, n) /\ e \in Dirs /\ p # y /\ p # c0 /\ p # c1
  /\ p = Nil <=> n = t.Root
  /\ p # Nil => p \in Nodes /\ In(g, p) /\ p # n /\ Child(t, p, e) = n /\ Child(t, p, 1 - e) # n

LEMMA SpliceFacts ==
  ASSUME NEW t, NEW g, Shape(t, g), NEW n, NEW y, NEW x, NEW c0, NEW c1, NEW p, NEW e, NEW py,
         NEW q, Splices(t, g, n, y, x, c0, c1, p, e, py, q)
  PROVE  About(t, g, n, y, x, c0, c1, p, e, py, q)
<1>0. t \in Trees /\ (\A m \in Nodes : m # Nil) /\ Size(g) \in Nat /\ 0 \in Dirs /\ 1 \in Dirs
  BY NilIsNoNode, NodeFacts DEF Dirs
<1>1. /\ n \in Nodes /\ In(g, n) /\ p = ParentOf(t, n) /\ e = Side(t, n) /\ q = Pos(g, n)
      /\ c0 = Child(t, n, 0) /\ c0 # Nil /\ c1 = Child(t, n, 1) /\ c1 # Nil
      /\ y = Extreme(t, c1, 0) /\ x = Child(t, y, 1) /\ py = ParentOf(t, y)
  BY DEF Splices
<1>2. /\ c0 \in Nodes /\ In(g, c0) /\ ParentOf(t, c0) = n /\ c0 # n /\ c0 # c1 /\ c0 # t.Root
      /\ c1 \in Nodes /\ In(g, c1) /\ ParentOf(t, c1) = n /\ c1 # n /\ c1 # t.Root
  BY <1>0, <1>1, KidFacts
<1>3. /\ Lo(g, c0) = Lo(g, n) /\ Hi(g, c0) = q - 1
      /\ Lo(g, c1) = q + 1 /\ Hi(g, c1) = Hi(g, n)
  BY <1>1, ChildFacts
<1>g. /\ \A m \in Nodes : Pos(g, m) \in Int /\ Lo(g, m) \in Int /\ Hi(g, m) \in Int
      /\ \A m \in Nodes : In(g, m) => /\ 1 <= Lo(g, m) /\ Lo(g, m) <= Pos(g, m)
                                      /\ Pos(g, m) <= Hi(g, m) /\ Hi(g, m) <= Size(g)
      /\ q \in Int /\ 1 <= q /\ q <= Size(g)
  BY <1>1, NodeFacts
<1>4. y \in Nodes /\ In(g, y) /\ Pos(g, y) = q + 1
  <2>1. y = At(g, Lo(g, c1))
    BY <1>0, <1>1, <1>2, ExtremeIs DEF End
  <2>2. q + 1 \in Int /\ 1 <= q + 1 /\ q + 1 <= Size(g)
    BY <1>0, <1>g, <1>2, <1>3
  <2> QED BY <1>3, <2>1, <2>2, NodeFacts
<1>5. y # n /\ y # c0
  BY <1>1, <1>2, <1>3, <1>4, <1>g
<1>6. Lo(g, y) = q + 1
  <2>1. Apart(g, y, n)
    BY <1>1, <1>4, <1>5, Nested
  <2>2. Within(g, Pos(g, y), n)
    BY <1>1, <1>2, <1>3, <1>4, <1>g DEF Within
  <2>3. Lo(g, y) <= q + 1 /\ q + 1 <= Hi(g, y) /\ Hi(g, n) >= q + 1 /\ Lo(g, n) <= q
    BY <1>1, <1>2, <1>3, <1>4, <1>g
  <2>4. ~Within(g, q, y)
    BY <1>1, <1>4, <1>g, <2>1, <2>2, <2>3 DEF Apart
  <2> QED BY <1>4, <1>g, <2>3, <2>4 DEF Within
<1>7. Child(t, y, 0) = Nil
  <2>1. Child(t, y, 0) # Nil => FALSE
    <3>1. SUFFICES ASSUME Child(t, y, 0) # Nil PROVE FALSE
      OBVIOUS
    <3>2. PICK z : z = Child(t, y, 0)
      OBVIOUS
    <3>3. z \in Nodes /\ In(g, z) /\ Lo(g, z) = Lo(g, y) /\ Hi(g, z) = Pos(g, y) - 1
      BY <1>4, <3>1, <3>2, ChildFacts
    <3> QED BY <1>4, <1>6, <1>g, <3>3
  <2> QED BY <2>1
<1>8. /\ x = Nil => Hi(g, y) = q + 1
      /\ x # Nil => /\ x \in Nodes /\ In(g, x) /\ ParentOf(t, x) = y /\ x # t.Root
                    /\ Lo(g, x) = q + 2 /\ Hi(g, x) = Hi(g, y) /\ x # y
  <2>1. x = Nil => Hi(g, y) = q + 1
    BY <1>1, <1>4, ChildFacts
  <2>2. ASSUME x # Nil
        PROVE  /\ x \in Nodes /\ In(g, x) /\ ParentOf(t, x) = y /\ x # t.Root
               /\ Lo(g, x) = q + 2 /\ Hi(g, x) = Hi(g, y) /\ x # y
    <3>1. /\ x \in Nodes /\ In(g, x) /\ ParentOf(t, x) = y /\ x # t.Root /\ x # y
      BY <1>0, <1>1, <1>4, <2>2, KidFacts
    <3>2. Lo(g, x) = q + 1 + 1 /\ Hi(g, x) = Hi(g, y)
      BY <1>1, <1>4, <2>2, ChildFacts
    <3> QED BY <1>g, <3>1, <3>2
  <2> QED BY <2>1, <2>2
<1>9. y # t.Root
  <2>1. t.Root = y => Lo(g, y) = 1
    BY <1>0, <1>4, RootFacts
  <2> QED BY <1>6, <1>g, <2>1
<1>10. /\ py \in Nodes /\ In(g, py) /\ py # y
       /\ \/ /\ Child(t, py, 0) = y /\ Child(t, py, 1) # y
             /\ Lo(g, y) = Lo(g, py) /\ Hi(g, y) = Pos(g, py) - 1
          \/ /\ Child(t, py, 1) = y /\ Child(t, py, 0) # y
             /\ Lo(g, y) = Pos(g, py) + 1 /\ Hi(g, y) = Hi(g, py)
  BY <1>1, <1>4, <1>9, ParentFacts
<1>11. py = n => c1 = y
  BY <1>1, <1>5, <1>10
<1>12. ASSUME py # n
       PROVE  Child(t, py, 0) = y /\ Lo(g, py) = q + 1 /\ Hi(g, y) = Pos(g, py) - 1 /\ c1 # y
  <2>1. ~(Lo(g, y) = Pos(g, py) + 1)
    <3>1. Lo(g, y) = Pos(g, py) + 1 => Pos(g, py) = Pos(g, n)
      BY <1>1, <1>6, <1>g, <1>10
    <3> QED BY <1>1, <1>10, <1>12, <3>1, SamePos
  <2>2. Child(t, py, 0) = y /\ Lo(g, y) = Lo(g, py) /\ Hi(g, y) = Pos(g, py) - 1
    BY <1>10, <2>1
  <2>3. c1 # y
    BY <1>1, <1>2, <1>12
  <2> QED BY <1>6, <2>2, <2>3
<1>13. py # n => Side(t, y) = 0
  BY <1>1, <1>12 DEF Side
<1>14. /\ e \in Dirs /\ p \in Ref
       /\ p = Nil <=> n = t.Root
       /\ p # Nil => p \in Nodes /\ In(g, p) /\ p # n /\ Child(t, p, e) = n /\ Child(t, p, 1 - e) # n
  BY <1>1, SideIs
<1>15. p # Nil => \/ Lo(g, n) = Lo(g, p) /\ Hi(g, n) = Pos(g, p) - 1
                  \/ Lo(g, n) = Pos(g, p) + 1 /\ Hi(g, n) = Hi(g, p)
  BY <1>1, <1>14, ParentFacts
<1>16. p # y /\ p # c0 /\ p # c1
  <2>1. p # Nil => ~Within(g, Pos(g, p), n)
    BY <1>1, <1>14, <1>15, <1>g DEF Within
  <2>2. Within(g, Pos(g, y), n) /\ Within(g, Pos(g, c0), n) /\ Within(g, Pos(g, c1), n)
    BY <1>1, <1>2, <1>3, <1>4, <1>g DEF Within
  <2> QED BY <1>0, <1>2, <1>4, <2>1, <2>2
<1>17. py # n => py # p /\ py # c0
  <2>1. ASSUME py # n PROVE Lo(g, py) = q + 1 /\ Pos(g, py) > q
    BY <1>10, <1>12, <1>g, <2>1
  <2>2. ASSUME py # n, py = p PROVE FALSE
    <3>1. p # Nil /\ p \in Nodes
      BY <1>0, <1>10, <2>2
    <3>2. Hi(g, p) >= Hi(g, n) \/ Lo(g, n) = Pos(g, p) + 1
      BY <1>14, <1>15, <1>g, <3>1
    <3>3. Lo(g, p) <= Lo(g, n)
      BY <1>1, <1>14, <1>15, <1>g, <3>1
    <3> QED BY <1>1, <1>g, <2>1, <2>2, <3>1, <3>3
  <2>3. py # n => py # c0
    BY <1>1, <1>2, <1>3, <1>g, <2>1
  <2> QED BY <2>2, <2>3
<1>18. x # Nil => x # n /\ x # c0 /\ x # c1 /\ (py # n => x # py)
  <2>1. ASSUME x # Nil PROVE Lo(g, x) = q + 2 /\ Lo(g, n) <= q /\ Lo(g, c0) <= q /\ Lo(g, c1) = q + 1
    BY <1>1, <1>3, <1>8, <1>g, <2>1
  <2>2. ASSUME x # Nil, py # n PROVE Lo(g, py) = q + 1
    BY <1>12, <2>2
  <2> QED BY <1>g, <2>1, <2>2
<1>19. py = n => py # c0
  BY <1>2
<1>20. x = py => x # Nil
  BY <1>0, <1>10
<1>21. /\ n \in Nodes /\ In(g, n) /\ q = Pos(g, n) /\ q \in Int
       /\ y \in Nodes /\ In(g, y) /\ Pos(g, y) = q + 1 /\ Lo(g, y) = q + 1
       /\ Child(t, y, 0) = Nil /\ Child(t, y, 1) = x /\ y # n /\ y # t.Root
  BY <1>1, <1>4, <1>5, <1>6, <1>7, <1>9, <1>g
<1>22. /\ c0 \in Nodes /\ In(g, c0) /\ ParentOf(t, c0) = n /\ c0 # y /\ c0 # n /\ c0 # c1
       /\ Lo(g, c0) = Lo(g, n) /\ Hi(g, c0) = q - 1 /\ c0 = Child(t, n, 0) /\ c0 # t.Root
       /\ c1 \in Nodes /\ In(g, c1) /\ ParentOf(t, c1) = n /\ c1 # n
       /\ Lo(g, c1) = q + 1 /\ Hi(g, c1) = Hi(g, n) /\ c1 = Child(t, n, 1) /\ c1 # t.Root
  BY <1>1, <1>2, <1>3, <1>5
<1>23. /\ py \in Nodes /\ In(g, py) /\ py = ParentOf(t, y) /\ py # y /\ py # c0
       /\ py # n => /\ c1 # y /\ Child(t, py, 0) = y /\ Side(t, y) = 0
                    /\ Lo(g, py) = q + 1 /\ Hi(g, y) = Pos(g, py) - 1 /\ py # p /\ x # py
  BY <1>1, <1>10, <1>12, <1>13, <1>17, <1>18, <1>19, <1>20
<1> QED BY <1>1, <1>8, <1>11, <1>14, <1>16, <1>18, <1>21, <1>22, <1>23 DEF About

\* What the splice leaves, field by field.
Spliced(t, n, y, x, c0, c1, p, e, py, u) ==
  /\ u \in Trees
  /\ u.Root = IF p = Nil THEN y ELSE t.Root
  /\ \A m \in Nodes : /\ ColorOf(u, m) = IF m = y THEN ColorOf(t, n) ELSE ColorOf(t, m)
                      /\ ValueOf(u, m) = ValueOf(t, m)
                      /\ ParentOf(u, m) = IF m = y THEN p ELSE IF m = c0 \/ m = c1 THEN y
                                          ELSE IF m = x /\ py # n THEN py ELSE ParentOf(t, m)
  /\ \A m \in Nodes, f \in Dirs :
       Child(u, m, f) = IF m = p /\ f = e THEN y ELSE IF m = y /\ f = 0 THEN c0
                        ELSE IF py # n /\ m = y /\ f = 1 THEN c1
                        ELSE IF py # n /\ m = py /\ f = 0 THEN x ELSE Child(t, m, f)

LEMMA SplicedIs ==
  ASSUME NEW t, NEW g, Shape(t, g), NEW n, NEW y, NEW x, NEW c0, NEW c1, NEW p, NEW e, NEW py,
         NEW q, Splices(t, g, n, y, x, c0, c1, p, e, py, q)
  PROVE  Spliced(t, n, y, x, c0, c1, p, e, py, RemoveWithTwoChildren(t, n).t)
<1>0. t \in Trees /\ (\A m \in Nodes : m # Nil) /\ 0 \in Dirs /\ 1 \in Dirs
  BY NilIsNoNode, NodeFacts DEF Dirs
<1>1. About(t, g, n, y, x, c0, c1, p, e, py, q)
  BY SpliceFacts
<1>2. /\ n \in Nodes /\ y \in Nodes /\ y # n /\ c0 \in Nodes /\ c0 # y /\ c0 # n /\ c0 # c1
      /\ c1 \in Nodes /\ c1 # n
      /\ x # Nil => x \in Nodes /\ x # n /\ x # y /\ x # c0 /\ x # c1
      /\ py \in Nodes /\ py # y /\ py # c0
      /\ py = n => c1 = y
      /\ py # n => c1 # y /\ Side(t, y) = 0 /\ py # p /\ x # py
      /\ e \in Dirs /\ p # y /\ p # c0 /\ p # c1
      /\ p # Nil => p \in Nodes /\ p # n
      /\ p = ParentOf(t, n) /\ e = Side(t, n) /\ py = ParentOf(t, y)
  BY <1>1 DEF About
<1>3. x \in Ref /\ p \in Ref /\ y \in Ref /\ c0 \in Ref /\ c1 \in Ref /\ py \in Ref
  BY <1>2 DEF Ref
<1>4. PICK s : s = ColorOf(t, n) /\ s \in {Red, Black}
  BY <1>0, <1>2, FieldTypes
<1>5. PICK v : v = IF py = n THEN t ELSE Link(Transplant(t, y, x), y, 1, c1)
  OBVIOUS
<1>6. /\ v \in Trees /\ v.Root = t.Root
      /\ \A m \in Nodes : /\ ColorOf(v, m) = ColorOf(t, m) /\ ValueOf(v, m) = ValueOf(t, m)
                          /\ ParentOf(v, m) = IF py = n THEN ParentOf(t, m)
                                              ELSE IF m = c1 THEN y
                                              ELSE IF m = x THEN py ELSE ParentOf(t, m)
      /\ \A m \in Nodes, f \in Dirs :
           Child(v, m, f) = IF py # n /\ m = y /\ f = 1 THEN c1
                            ELSE IF py # n /\ m = py /\ f = 0 THEN x ELSE Child(t, m, f)
  <2>1. CASE py = n
    <3>1. v = t
      BY <1>5, <2>1
    <3> QED BY <1>0, <2>1, <3>1
  <2>2. CASE py # n
    <3>1. PICK a : a = Link(t, py, 0, x)
      OBVIOUS
    <3>2. LinkSpec(t, py, 0, x, a)
      BY <1>0, <1>3, <3>1, LinkFields
    <3>3. v = Link(a, y, 1, c1)
      BY <1>2, <1>5, <2>2, <3>1 DEF Transplant
    <3>4. LinkSpec(a, y, 1, c1, v)
      <4>1. a \in Trees
        BY <3>2 DEF LinkSpec
      <4> QED BY <1>0, <1>3, <3>3, <4>1, LinkFields
    <3>5. py # Nil /\ y # Nil
      BY <1>0, <1>2
    <3>6. /\ a.Root = t.Root
          /\ \A m \in Nodes : /\ ColorOf(a, m) = ColorOf(t, m) /\ ValueOf(a, m) = ValueOf(t, m)
                              /\ ParentOf(a, m) = IF m = x THEN py ELSE ParentOf(t, m)
          /\ \A m \in Nodes, f \in Dirs :
               Child(a, m, f) = IF m = py /\ f = 0 THEN x ELSE Child(t, m, f)
      BY <3>2, <3>5 DEF LinkSpec
    <3>7. /\ v \in Trees /\ v.Root = a.Root
          /\ \A m \in Nodes : /\ ColorOf(v, m) = ColorOf(a, m) /\ ValueOf(v, m) = ValueOf(a, m)
                              /\ ParentOf(v, m) = IF m = c1 THEN y ELSE ParentOf(a, m)
          /\ \A m \in Nodes, f \in Dirs :
               Child(v, m, f) = IF m = y /\ f = 1 THEN c1 ELSE Child(a, m, f)
      BY <3>4, <3>5 DEF LinkSpec
    <3>8. v \in Trees /\ v.Root = t.Root
      BY <3>6, <3>7
    <3>9. \A m \in Nodes : /\ ColorOf(v, m) = ColorOf(t, m) /\ ValueOf(v, m) = ValueOf(t, m)
                           /\ ParentOf(v, m) = IF m = c1 THEN y ELSE IF m = x THEN py
                                               ELSE ParentOf(t, m)
      BY <3>6, <3>7
    <3>10. \A m \in Nodes, f \in Dirs :
             Child(v, m, f) = IF m = y /\ f = 1 THEN c1
                              ELSE IF m = py /\ f = 0 THEN x ELSE Child(t, m, f)
      BY <3>6, <3>7
    <3> QED BY <2>2, <3>8, <3>9, <3>10
  <2> QED BY <2>1, <2>2
<1>7. ParentOf(v, n) = p /\ Side(v, n) = e
  <2>1. ParentOf(v, n) = p
    BY <1>0, <1>2, <1>6
  <2>2. p # Nil => Child(v, p, 0) = Child(t, p, 0)
    BY <1>0, <1>2, <1>6
  <2> QED BY <1>2, <2>1, <2>2 DEF Side
<1>8. PICK a : a = Link(v, p, e, y)
  OBVIOUS
<1>9. LinkSpec(v, p, e, y, a)
  BY <1>2, <1>3, <1>6, <1>8, LinkFields
<1>10. PICK b : b = Link(a, y, 0, c0)
  OBVIOUS
<1>11. LinkSpec(a, y, 0, c0, b)
  <2>1. a \in Trees
    BY <1>9 DEF LinkSpec
  <2> QED BY <1>0, <1>3, <1>10, <2>1, LinkFields
<1>12. PICK u : u = Paint(b, y, s)
  OBVIOUS
<1>13. /\ u \in Trees /\ u.Root = b.Root
       /\ \A m \in Nodes : /\ ColorOf(u, m) = IF m = y THEN s ELSE ColorOf(b, m)
                           /\ ValueOf(u, m) = ValueOf(b, m)
                           /\ ParentOf(u, m) = ParentOf(b, m)
       /\ \A m \in Nodes, f \in Dirs : Child(u, m, f) = Child(b, m, f)
  <2>1. b \in Trees
    BY <1>11 DEF LinkSpec
  <2>2. s \in {Red, Black}
    BY <1>4
  <2>3. y \in Ref
    BY <1>3
  <2>4. /\ u \in Trees
        /\ u.Root = b.Root
        /\ \A m \in Nodes : /\ ColorOf(u, m) = IF m = y THEN s ELSE ColorOf(b, m)
                            /\ ValueOf(u, m) = ValueOf(b, m)
                            /\ ParentOf(u, m) = ParentOf(b, m)
        /\ \A m \in Nodes, f \in Dirs : Child(u, m, f) = Child(b, m, f)
    BY <1>12, <2>1, <2>2, <2>3, PaintFields
  <2> QED BY <2>4
<1>14. RemoveWithTwoChildren(t, n).t = u
  <2>1. y = Extreme(t, Child(t, n, 1), 0) /\ c0 = Child(t, n, 0) /\ c1 = Child(t, n, 1)
        /\ x = Child(t, y, 1)
    BY DEF Splices
  <2>2. t.at[n].Color = s
    BY <1>4 DEF ColorOf
  <2>3. a = Transplant(v, n, y)
    BY <1>7, <1>8 DEF Transplant
  <2>4. v = IF ParentOf(t, y) = n THEN t ELSE Link(Transplant(t, y, Child(t, y, 1)), y, 1, Child(t, n, 1))
    BY <1>2, <1>5, <2>1
  <2>5. RemoveWithTwoChildren(t, n).t = Paint(Link(Transplant(v, n, y), y, 0, Child(t, n, 0)), y, t.at[n].Color)
    BY <2>1, <2>4 DEF RemoveWithTwoChildren
  <2> QED BY <1>10, <1>12, <2>1, <2>2, <2>3, <2>5
<1>15. /\ b.Root = a.Root /\ y # Nil
       /\ \A m \in Nodes : /\ ColorOf(b, m) = ColorOf(a, m) /\ ValueOf(b, m) = ValueOf(a, m)
                           /\ ParentOf(b, m) = IF m = c0 THEN y ELSE ParentOf(a, m)
       /\ \A m \in Nodes, f \in Dirs :
            Child(b, m, f) = IF m = y /\ f = 0 THEN c0 ELSE Child(a, m, f)
  BY <1>0, <1>2, <1>11 DEF LinkSpec
<1>16. /\ a.Root = IF p = Nil THEN y ELSE v.Root
       /\ \A m \in Nodes : /\ ColorOf(a, m) = ColorOf(v, m) /\ ValueOf(a, m) = ValueOf(v, m)
                           /\ ParentOf(a, m) = IF m = y THEN p ELSE ParentOf(v, m)
       /\ \A m \in Nodes, f \in Dirs :
            Child(a, m, f) = IF m = p /\ f = e THEN y ELSE Child(v, m, f)
  BY <1>9 DEF LinkSpec
<1>17. u.Root = IF p = Nil THEN y ELSE t.Root
  BY <1>6, <1>13, <1>15, <1>16
<1>18. \A m \in Nodes : /\ ColorOf(u, m) = IF m = y THEN ColorOf(t, n) ELSE ColorOf(t, m)
                        /\ ValueOf(u, m) = ValueOf(t, m)
  BY <1>4, <1>6, <1>13, <1>15, <1>16
<1>19. ASSUME NEW m \in Nodes
       PROVE  ParentOf(u, m) = IF m = y THEN p ELSE IF m = c0 \/ m = c1 THEN y
                               ELSE IF m = x /\ py # n THEN py ELSE ParentOf(t, m)
  <2>1. ParentOf(u, m) = IF m = c0 THEN y ELSE IF m = y THEN p ELSE ParentOf(v, m)
    BY <1>13, <1>15, <1>16
  <2>2. ParentOf(v, m) = IF py = n THEN ParentOf(t, m) ELSE IF m = c1 THEN y
                         ELSE IF m = x THEN py ELSE ParentOf(t, m)
    BY <1>6
  <2> QED BY <1>2, <2>1, <2>2
<1>20. ASSUME NEW m \in Nodes, NEW f \in Dirs
       PROVE  Child(u, m, f) = IF m = p /\ f = e THEN y ELSE IF m = y /\ f = 0 THEN c0
                               ELSE IF py # n /\ m = y /\ f = 1 THEN c1
                               ELSE IF py # n /\ m = py /\ f = 0 THEN x ELSE Child(t, m, f)
  <2>1. Child(u, m, f) = IF m = y /\ f = 0 THEN c0 ELSE IF m = p /\ f = e THEN y ELSE Child(v, m, f)
    BY <1>13, <1>15, <1>16
  <2>2. Child(v, m, f) = IF py # n /\ m = y /\ f = 1 THEN c1
                         ELSE IF py # n /\ m = py /\ f = 0 THEN x ELSE Child(t, m, f)
    BY <1>6
  <2> QED BY <1>2, <2>1, <2>2
<1> QED BY <1>13, <1>14, <1>17, <1>18, <1>19, <1>20 DEF Spliced

LowerLo(g, n, y, q) ==
  [m \in Nodes |-> IF m = y THEN Lo(g, n) ELSE IF Lo(g, m) > q + 1 THEN Lo(g, m) - 1 ELSE Lo(g, m)]
LowerHi(g, n, y, q) ==
  [m \in Nodes |-> IF m = y THEN Hi(g, n) - 1 ELSE IF Hi(g, m) >= q THEN Hi(g, m) - 1 ELSE Hi(g, m)]

LEMMA SpliceShape ==
  ASSUME NEW t, NEW g, Shape(t, g), Outside(t, g), NEW n, NEW y, NEW x, NEW c0, NEW c1, NEW p,
         NEW e, NEW py, NEW q, Splices(t, g, n, y, x, c0, c1, p, e, py, q),
         NEW u, Spliced(t, n, y, x, c0, c1, p, e, py, u),
         NEW k, k = Without(g, n, LowerLo(g, n, y, q), LowerHi(g, n, y, q))
  PROVE  /\ Shape(u, k)
         /\ \A m \in Nodes : In(k, m) <=> In(g, m) /\ m # n
         /\ SameOrder(g, k) /\ Shifted(g, k, q)
<1>0. t \in Trees /\ (\A m \in Nodes : m # Nil) /\ Size(g) \in Nat /\ 0 \in Dirs /\ 1 \in Dirs
  BY NilIsNoNode, NodeFacts DEF Dirs
<1>1. About(t, g, n, y, x, c0, c1, p, e, py, q)
  BY SpliceFacts
<1>2. /\ n \in Nodes /\ In(g, n) /\ q = Pos(g, n) /\ q \in Int
      /\ y \in Nodes /\ In(g, y) /\ Pos(g, y) = q + 1 /\ Lo(g, y) = q + 1
      /\ Child(t, y, 0) = Nil /\ Child(t, y, 1) = x /\ y # n /\ y # t.Root
      /\ c0 \in Nodes /\ In(g, c0) /\ ParentOf(t, c0) = n /\ c0 # y /\ c0 # n /\ c0 # c1
      /\ Lo(g, c0) = Lo(g, n) /\ Hi(g, c0) = q - 1 /\ c0 = Child(t, n, 0) /\ c0 # t.Root
      /\ c1 \in Nodes /\ In(g, c1) /\ ParentOf(t, c1) = n /\ c1 # n
      /\ Lo(g, c1) = q + 1 /\ Hi(g, c1) = Hi(g, n) /\ c1 = Child(t, n, 1) /\ c1 # t.Root
      /\ x = Nil => Hi(g, y) = q + 1
      /\ x # Nil => /\ x \in Nodes /\ In(g, x) /\ ParentOf(t, x) = y /\ x # t.Root
                    /\ Lo(g, x) = q + 2 /\ Hi(g, x) = Hi(g, y)
                    /\ x # n /\ x # y /\ x # c0 /\ x # c1
  BY <1>1 DEF About
<1>3. /\ py \in Nodes /\ In(g, py) /\ py = ParentOf(t, y) /\ py # y /\ py # c0
      /\ py = n => c1 = y
      /\ py # n => /\ c1 # y /\ Child(t, py, 0) = y /\ Side(t, y) = 0
                   /\ Lo(g, py) = q + 1 /\ Hi(g, y) = Pos(g, py) - 1 /\ py # p /\ x # py
      /\ p = ParentOf(t, n) /\ e = Side(t, n) /\ e \in Dirs /\ p # y /\ p # c0 /\ p # c1
      /\ p = Nil <=> n = t.Root
      /\ p # Nil => p \in Nodes /\ In(g, p) /\ p # n /\ Child(t, p, e) = n /\ Child(t, p, 1 - e) # n
  BY <1>1 DEF About
<1>g. /\ \A m \in Nodes : Pos(g, m) \in Int /\ Lo(g, m) \in Int /\ Hi(g, m) \in Int
      /\ \A m \in Nodes : In(g, m) => /\ 1 <= Lo(g, m) /\ Lo(g, m) <= Pos(g, m)
                                      /\ Pos(g, m) <= Hi(g, m) /\ Hi(g, m) <= Size(g)
      /\ q \in Int /\ 1 <= q /\ q <= Size(g)
  BY <1>2, NodeFacts
<1>f. /\ Lo(g, n) \in Int /\ Hi(g, n) \in Int /\ 1 <= Lo(g, n) /\ Lo(g, n) <= q
      /\ q + 1 <= Hi(g, n) /\ Hi(g, n) <= Size(g)
  <2>1. q + 1 <= Hi(g, c1)
    BY <1>2, <1>g
  <2> QED BY <1>2, <1>g, <2>1
<1>5. \A m \in Nodes : In(g, m) /\ m # n /\ m # y => Pos(g, m) # q /\ Pos(g, m) # q + 1
  BY <1>2, SamePos
<1>l. PICK lo : lo = LowerLo(g, n, y, q)
  OBVIOUS
<1>h. PICK hi : hi = LowerHi(g, n, y, q)
  OBVIOUS
<1>b. /\ lo[y] = Lo(g, n) /\ hi[y] = Hi(g, n) - 1
      /\ \A m \in Nodes : m # y =>
           /\ lo[m] = IF Lo(g, m) > q + 1 THEN Lo(g, m) - 1 ELSE Lo(g, m)
           /\ hi[m] = IF Hi(g, m) >= q THEN Hi(g, m) - 1 ELSE Hi(g, m)
  BY <1>2, <1>l, <1>h DEF LowerLo, LowerHi
<1>7. BoundsFit(g, n, lo, hi)
  <2>1. \A m \in Nodes : lo[m] \in Int /\ hi[m] \in Int
    BY <1>b, <1>f, <1>g
  <2>2. ASSUME NEW m \in Nodes, In(g, m), m # n
        PROVE  /\ 1 <= lo[m] /\ hi[m] <= Size(g) - 1
               /\ Pos(g, m) > q => lo[m] <= Pos(g, m) - 1 /\ Pos(g, m) - 1 <= hi[m]
               /\ Pos(g, m) < q => lo[m] <= Pos(g, m) /\ Pos(g, m) <= hi[m]
    <3>1. CASE m = y
      BY <1>0, <1>2, <1>b, <1>f, <3>1
    <3>2. CASE m # y
      <4>1. /\ lo[m] = IF Lo(g, m) > q + 1 THEN Lo(g, m) - 1 ELSE Lo(g, m)
            /\ hi[m] = IF Hi(g, m) >= q THEN Hi(g, m) - 1 ELSE Hi(g, m)
            /\ Pos(g, m) \in Int /\ Lo(g, m) \in Int /\ Hi(g, m) \in Int
            /\ 1 <= Lo(g, m) /\ Lo(g, m) <= Pos(g, m)
            /\ Pos(g, m) <= Hi(g, m) /\ Hi(g, m) <= Size(g)
            /\ Pos(g, m) # q /\ Pos(g, m) # q + 1
        BY <1>b, <1>g, <1>5, <2>2, <3>2
      <4> QED BY <1>0, <1>g, <1>f, <4>1
    <3> QED BY <3>1, <3>2
  <2> QED BY <1>2, <2>1, <2>2 DEF BoundsFit
<1>k. /\ Numbered(k) /\ Size(k) = Size(g) - 1
      /\ \A i \in 1 .. Size(g) - 1 : At(k, i) = IF i < q THEN At(g, i) ELSE At(g, i + 1)
      /\ \A m \in Nodes :
           /\ Pos(k, m) = IF m = n THEN 0 ELSE IF Pos(g, m) > q THEN Pos(g, m) - 1
                          ELSE Pos(g, m)
           /\ Lo(k, m) = lo[m] /\ Hi(k, m) = hi[m]
           /\ In(k, m) <=> In(g, m) /\ m # n
  BY <1>2, <1>7, <1>l, <1>h, WithoutIs
<1>y. Pos(k, y) = q /\ Lo(k, y) = Lo(g, n) /\ Hi(k, y) = Hi(g, n) - 1 /\ In(k, y)
  <2>1. Pos(k, y) = q
    BY <1>2, <1>k
  <2> QED BY <1>2, <1>b, <1>k, <2>1
<1>m. \A m \in Nodes : In(g, m) /\ m # n /\ m # y =>
        /\ Pos(k, m) = IF Pos(g, m) > q THEN Pos(g, m) - 1 ELSE Pos(g, m)
        /\ Lo(k, m) = IF Lo(g, m) > q + 1 THEN Lo(g, m) - 1 ELSE Lo(g, m)
        /\ Hi(k, m) = IF Hi(g, m) >= q THEN Hi(g, m) - 1 ELSE Hi(g, m)
  BY <1>b, <1>k
<1>u. /\ u \in Trees
      /\ u.Root = IF p = Nil THEN y ELSE t.Root
      /\ \A m \in Nodes : ParentOf(u, m) = IF m = y THEN p ELSE IF m = c0 \/ m = c1 THEN y
                                           ELSE IF m = x /\ py # n THEN py ELSE ParentOf(t, m)
      /\ \A m \in Nodes, f \in Dirs :
           Child(u, m, f) = IF m = p /\ f = e THEN y ELSE IF m = y /\ f = 0 THEN c0
                            ELSE IF py # n /\ m = y /\ f = 1 THEN c1
                            ELSE IF py # n /\ m = py /\ f = 0 THEN x ELSE Child(t, m, f)
  BY DEF Spliced
<1>8. RootRight(u, k)
  <2>1. CASE p = Nil
    <3>1. Lo(g, n) = 1 /\ Hi(g, n) = Size(g) /\ u.Root = y
      BY <1>0, <1>2, <1>3, <1>u, <2>1, RootFacts
    <3>2. ParentOf(u, y) = Nil /\ y # Nil
      BY <1>0, <1>2, <1>u, <2>1
    <3> QED BY <1>k, <1>y, <3>1, <3>2 DEF RootRight
  <2>2. CASE p # Nil
    <3>1. t.Root # Nil
      BY <1>0, <1>2, <1>g, RootFacts
    <3>2. /\ t.Root \in Nodes /\ In(g, t.Root) /\ t.Root # n /\ ParentOf(t, t.Root) = Nil
          /\ Lo(g, t.Root) = 1 /\ Hi(g, t.Root) = Size(g) /\ u.Root = t.Root /\ t.Root # y
      BY <1>2, <1>3, <1>u, <2>2, <3>1, RootFacts
    <3>3. In(k, t.Root)
      BY <1>k, <3>2
    <3>4. ParentOf(u, t.Root) = Nil
      BY <1>2, <1>u, <3>1, <3>2
    <3>5. Lo(k, t.Root) = 1 /\ Hi(k, t.Root) = Size(g) - 1
      BY <1>0, <1>g, <1>m, <3>2
    <3> QED BY <1>k, <3>1, <3>2, <3>3, <3>4, <3>5 DEF RootRight
  <2> QED BY <2>1, <2>2
<1>9. ASSUME NEW m \in Nodes, In(k, m) PROVE ParentRight(u, k, m)
  <2>0. In(g, m) /\ m # n
    BY <1>9, <1>k
  <2>1. CASE m = y
    <3>1. ParentOf(u, m) = p /\ (p = Nil => u.Root = m)
      BY <1>u, <2>1
    <3>2. p # Nil => In(k, p) /\ Child(u, p, e) = m
      BY <1>3, <1>k, <1>u, <2>1
    <3> QED BY <1>3, <3>1, <3>2 DEF ParentRight, Dirs
  <2>2. CASE m # y /\ (m = c0 \/ m = c1)
    <3>1. ParentOf(u, m) = y
      BY <1>u, <2>2
    <3>2. Child(u, y, 0) = c0 /\ (py # n => Child(u, y, 1) = c1)
      BY <1>0, <1>2, <1>3, <1>u
    <3>3. Child(u, y, 0) = m \/ Child(u, y, 1) = m
      BY <1>3, <2>2, <3>2
    <3> QED BY <1>0, <1>2, <1>y, <3>1, <3>3 DEF ParentRight
  <2>3. CASE m # y /\ m # c0 /\ m # c1 /\ m = x /\ py # n
    <3>1. ParentOf(u, m) = py
      BY <1>u, <2>3
    <3>2. In(k, py) /\ py # Nil
      BY <1>0, <1>3, <1>k, <2>3
    <3>3. Child(u, py, 0) = m
      BY <1>0, <1>3, <1>u, <2>3
    <3> QED BY <3>1, <3>2, <3>3 DEF ParentRight
  <2>4. CASE m # y /\ m # c0 /\ m # c1 /\ ~(m = x /\ py # n)
    <3>1. ParentRight(t, g, m)
      BY <2>0 DEF Shape
    <3>2. PICK z : z = ParentOf(t, m) /\ z = ParentOf(u, m)
      BY <1>u, <2>4
    <3>3. CASE z = Nil
      <4>1. m = t.Root
        BY <3>1, <3>2, <3>3 DEF ParentRight
      <4>2. u.Root = t.Root
        BY <1>3, <1>u, <2>0, <4>1
      <4> QED BY <3>2, <3>3, <4>1, <4>2 DEF ParentRight
    <3>4. CASE z # Nil
      <4>1. z \in Nodes /\ In(g, z) /\ (Child(t, z, 0) = m \/ Child(t, z, 1) = m)
        BY <1>0, <3>1, <3>2, <3>4, FieldTypes, NilIsNoNode DEF ParentRight
      <4>2. z # n
        BY <1>2, <2>4, <4>1
      <4>3. ASSUME NEW f \in Dirs, Child(t, z, f) = m PROVE Child(u, z, f) = m
        <5>1. ~(z = p /\ f = e)
          BY <1>0, <1>3, <2>0, <4>1, <4>3
        <5>2. z = y => f = 1 /\ m = x /\ py = n
          BY <1>0, <1>2, <2>4, <4>3 DEF Dirs
        <5>3. ~(py # n /\ z = py /\ f = 0)
          BY <1>3, <2>4, <4>3
        <5> QED BY <1>u, <4>1, <4>3, <5>1, <5>2, <5>3
      <4> QED BY <1>0, <1>k, <3>2, <3>4, <4>1, <4>2, <4>3 DEF ParentRight
    <3> QED BY <3>3, <3>4
  <2> QED BY <2>1, <2>2, <2>3, <2>4
<1>10. ASSUME NEW m \in Nodes, NEW f \in Dirs, In(k, m) PROVE ChildRight(u, k, m, f)
  <2>0. In(g, m) /\ m # n /\ ChildRight(t, g, m, f)
    BY <1>10, <1>k DEF Shape
  <2>1. CASE m = p /\ f = e
    <3>1. Child(u, m, f) = y /\ Child(t, m, f) = n /\ y # Nil /\ ParentOf(u, y) = m /\ m # y
      BY <1>0, <1>2, <1>3, <1>u, <2>1
    <3>2. /\ Lo(g, n) = (IF f = 0 THEN Lo(g, m) ELSE Pos(g, m) + 1)
          /\ Hi(g, n) = (IF f = 0 THEN Pos(g, m) - 1 ELSE Hi(g, m))
      BY <1>0, <1>2, <2>0, <3>1 DEF ChildRight
    <3>3. /\ Pos(k, m) = IF Pos(g, m) > q THEN Pos(g, m) - 1 ELSE Pos(g, m)
          /\ Lo(k, m) = IF Lo(g, m) > q + 1 THEN Lo(g, m) - 1 ELSE Lo(g, m)
          /\ Hi(k, m) = IF Hi(g, m) >= q THEN Hi(g, m) - 1 ELSE Hi(g, m)
          /\ Pos(g, m) \in Int /\ Lo(g, m) \in Int /\ Hi(g, m) \in Int
      BY <1>g, <1>m, <2>0, <3>1
    <3>4. CASE f = 0
      <4>1. Lo(k, y) = Lo(k, m) /\ Hi(k, y) = Pos(k, m) - 1
        BY <1>f, <1>g, <1>y, <3>2, <3>3, <3>4
      <4> QED BY <1>y, <3>1, <3>4, <4>1 DEF ChildRight
    <3>5. CASE f = 1
      <4>1. Lo(k, y) = Pos(k, m) + 1 /\ Hi(k, y) = Hi(k, m)
        BY <1>f, <1>g, <1>y, <3>2, <3>3, <3>5
      <4> QED BY <1>y, <3>1, <3>5, <4>1 DEF ChildRight
    <3> QED BY <3>4, <3>5 DEF Dirs
  <2>2. CASE m = y /\ f = 0
    <3>1. Child(u, m, f) = c0 /\ c0 # Nil /\ In(k, c0) /\ ParentOf(u, c0) = m
      BY <1>0, <1>2, <1>3, <1>k, <1>u, <2>2
    <3>2. /\ Lo(k, c0) = IF Lo(g, c0) > q + 1 THEN Lo(g, c0) - 1 ELSE Lo(g, c0)
          /\ Hi(k, c0) = IF Hi(g, c0) >= q THEN Hi(g, c0) - 1 ELSE Hi(g, c0)
      BY <1>2, <1>m
    <3>3. Lo(k, c0) = Lo(k, m) /\ Hi(k, c0) = Pos(k, m) - 1
      BY <1>2, <1>f, <1>g, <1>y, <2>2, <3>2
    <3> QED BY <2>2, <3>1, <3>3 DEF ChildRight
  <2>3. CASE m = y /\ f = 1
    <3>1. CASE py = n
      <4>1. Child(u, m, f) = x /\ Hi(g, y) = Hi(g, n)
        BY <1>2, <1>3, <1>u, <2>3, <3>1
      <4>2. CASE x = Nil
        <5>1. Pos(k, m) + 1 > Hi(k, m)
          BY <1>2, <1>f, <1>y, <2>3, <4>1, <4>2
        <5> QED BY <2>3, <4>1, <4>2, <5>1 DEF ChildRight
      <4>3. CASE x # Nil
        <5>1. In(k, x) /\ ParentOf(u, x) = m /\ x \in Nodes
          BY <1>2, <1>3, <1>k, <1>u, <2>3, <3>1, <4>3
        <5>2. /\ Lo(k, x) = IF Lo(g, x) > q + 1 THEN Lo(g, x) - 1 ELSE Lo(g, x)
              /\ Hi(k, x) = IF Hi(g, x) >= q THEN Hi(g, x) - 1 ELSE Hi(g, x)
              /\ Lo(g, x) = q + 2 /\ Hi(g, x) = Hi(g, n)
          BY <1>2, <1>m, <4>1, <4>3
        <5>3. Lo(k, x) = Pos(k, m) + 1 /\ Hi(k, x) = Hi(k, m)
          BY <1>f, <1>g, <1>y, <2>3, <5>2
        <5> QED BY <2>3, <4>1, <4>3, <5>1, <5>3 DEF ChildRight
      <4> QED BY <4>2, <4>3
    <3>2. CASE py # n
      <4>1. Child(u, m, f) = c1 /\ c1 # Nil /\ In(k, c1) /\ ParentOf(u, c1) = m
        BY <1>0, <1>2, <1>3, <1>k, <1>u, <2>3, <3>2
      <4>2. /\ Lo(k, c1) = IF Lo(g, c1) > q + 1 THEN Lo(g, c1) - 1 ELSE Lo(g, c1)
            /\ Hi(k, c1) = IF Hi(g, c1) >= q THEN Hi(g, c1) - 1 ELSE Hi(g, c1)
        BY <1>2, <1>3, <1>m, <3>2
      <4>3. Lo(k, c1) = Pos(k, m) + 1 /\ Hi(k, c1) = Hi(k, m)
        BY <1>2, <1>f, <1>g, <1>y, <2>3, <4>2
      <4> QED BY <2>3, <4>1, <4>3 DEF ChildRight
    <3> QED BY <3>1, <3>2
  <2>4. CASE py # n /\ m = py /\ f = 0
    <3>1. Child(u, m, f) = x
      BY <1>0, <1>3, <1>u, <2>4
    <3>2. /\ Pos(k, m) = IF Pos(g, m) > q THEN Pos(g, m) - 1 ELSE Pos(g, m)
          /\ Lo(k, m) = IF Lo(g, m) > q + 1 THEN Lo(g, m) - 1 ELSE Lo(g, m)
          /\ Lo(g, m) = q + 1 /\ Hi(g, y) = Pos(g, m) - 1
          /\ Pos(g, m) \in Int /\ Lo(g, m) <= Pos(g, m) /\ Hi(g, y) \in Int /\ Hi(g, y) >= q + 1
      BY <1>2, <1>3, <1>g, <1>m, <2>4
    <3>3. Pos(k, m) = Hi(g, y) /\ Lo(k, m) = q + 1
      BY <1>2, <3>2
    <3>4. CASE x = Nil
      <4>1. Lo(k, m) > Pos(k, m) - 1
        BY <1>2, <3>3, <3>4
      <4> QED BY <2>4, <3>1, <3>4, <4>1 DEF ChildRight
    <3>5. CASE x # Nil
      <4>1. In(k, x) /\ ParentOf(u, x) = m /\ x \in Nodes
        BY <1>2, <1>k, <1>u, <2>4, <3>5
      <4>2. /\ Lo(k, x) = IF Lo(g, x) > q + 1 THEN Lo(g, x) - 1 ELSE Lo(g, x)
            /\ Hi(k, x) = IF Hi(g, x) >= q THEN Hi(g, x) - 1 ELSE Hi(g, x)
            /\ Lo(g, x) = q + 2 /\ Hi(g, x) = Hi(g, y)
        BY <1>2, <1>m, <3>5
      <4>3. Lo(k, x) = Lo(k, m) /\ Hi(k, x) = Pos(k, m) - 1
        BY <1>2, <3>2, <3>3, <4>2
      <4> QED BY <2>4, <3>1, <3>5, <4>1, <4>3 DEF ChildRight
    <3> QED BY <3>4, <3>5
  <2>5. CASE ~(m = p /\ f = e) /\ m # y /\ ~(py # n /\ m = py /\ f = 0)
    <3>0. /\ Pos(k, m) = IF Pos(g, m) > q THEN Pos(g, m) - 1 ELSE Pos(g, m)
          /\ Lo(k, m) = IF Lo(g, m) > q + 1 THEN Lo(g, m) - 1 ELSE Lo(g, m)
          /\ Hi(k, m) = IF Hi(g, m) >= q THEN Hi(g, m) - 1 ELSE Hi(g, m)
          /\ Pos(g, m) \in Int /\ Lo(g, m) \in Int /\ Hi(g, m) \in Int
          /\ Pos(g, m) # q /\ Pos(g, m) # q + 1
          /\ Lo(g, m) <= Pos(g, m) /\ Pos(g, m) <= Hi(g, m)
      BY <1>5, <1>g, <1>m, <2>0, <2>5
    <3>1. PICK z : z = Child(t, m, f) /\ z = Child(u, m, f)
      BY <1>u, <2>5
    <3>2. CASE z = Nil
      <4>1. CASE f = 0
        <5>1. Lo(g, m) = Pos(g, m)
          BY <2>0, <3>0, <3>1, <3>2, <4>1 DEF ChildRight
        <5>2. Lo(k, m) = Pos(k, m) /\ Pos(k, m) \in Int
          BY <1>g, <3>0, <5>1
        <5> QED BY <3>1, <3>2, <4>1, <5>2 DEF ChildRight
      <4>2. CASE f = 1
        <5>1. Hi(g, m) = Pos(g, m)
          BY <2>0, <3>0, <3>1, <3>2, <4>2 DEF ChildRight
        <5>2. Hi(k, m) = Pos(k, m) /\ Pos(k, m) \in Int
          BY <1>g, <3>0, <5>1
        <5> QED BY <3>1, <3>2, <4>2, <5>2 DEF ChildRight
      <4> QED BY <4>1, <4>2 DEF Dirs
    <3>3. CASE z # Nil
      <4>1. /\ z \in Nodes /\ In(g, z) /\ ParentOf(t, z) = m
            /\ Lo(g, z) = (IF f = 0 THEN Lo(g, m) ELSE Pos(g, m) + 1)
            /\ Hi(g, z) = (IF f = 0 THEN Pos(g, m) - 1 ELSE Hi(g, m))
        BY <2>0, <3>1, <3>3, ChildTypes DEF ChildRight
      <4>2. z # n
        <5>1. SUFFICES ASSUME z = n PROVE FALSE
          OBVIOUS
        <5>2. m = p
          BY <1>3, <4>1, <5>1
        <5>3. f = e \/ f = 1 - e
          BY <1>3 DEF Dirs
        <5> QED BY <1>0, <1>3, <2>5, <3>1, <5>1, <5>2, <5>3
      <4>3. z # y
        <5>1. SUFFICES ASSUME z = y PROVE FALSE
          OBVIOUS
        <5>2. m = py /\ f # 0 /\ f = 1
          BY <1>3, <2>0, <2>5, <4>1, <5>1 DEF Dirs
        <5> QED BY <1>2, <1>3, <1>g, <2>0, <4>1, <5>1, <5>2
      <4>4. ParentOf(u, z) = m /\ In(k, z)
        BY <1>0, <1>2, <1>k, <1>u, <2>0, <2>5, <3>3, <4>1, <4>2, <4>3
      <4>5. /\ Lo(k, z) = IF Lo(g, z) > q + 1 THEN Lo(g, z) - 1 ELSE Lo(g, z)
            /\ Hi(k, z) = IF Hi(g, z) >= q THEN Hi(g, z) - 1 ELSE Hi(g, z)
        BY <1>m, <4>1, <4>2, <4>3
      <4>6. CASE f = 0
        <5>1. Lo(k, z) = Lo(k, m) /\ Hi(k, z) = Pos(k, m) - 1
          BY <1>g, <3>0, <4>1, <4>5, <4>6
        <5> QED BY <3>1, <3>3, <4>4, <4>6, <5>1 DEF ChildRight
      <4>7. CASE f = 1
        <5>1. Lo(k, z) = Pos(k, m) + 1 /\ Hi(k, z) = Hi(k, m)
          BY <1>g, <3>0, <4>1, <4>5, <4>7
        <5> QED BY <3>1, <3>3, <4>4, <4>7, <5>1 DEF ChildRight
      <4> QED BY <4>6, <4>7 DEF Dirs
    <3> QED BY <3>2, <3>3
  <2> QED BY <2>1, <2>2, <2>3, <2>4, <2>5 DEF Dirs
<1>11. ASSUME NEW m \in Nodes, NEW f \in Dirs, ~In(k, m), Child(u, m, f) # Nil
       PROVE  In(k, Child(u, m, f))
  <2>1. ~In(g, m) \/ m = n
    BY <1>11, <1>k
  <2>2. Child(u, m, f) = Child(t, m, f)
    BY <1>0, <1>2, <1>3, <1>u, <2>1
  <2>3. CASE m = n
    BY <1>2, <1>k, <2>2, <2>3 DEF Dirs
  <2>4. CASE m # n
    <3>1. Child(t, m, 0) = Nil /\ Child(t, m, 1) = Nil
      BY <1>0, <2>1, <2>4, BlankIs DEF Outside
    <3> QED BY <1>11, <2>2, <3>1 DEF Dirs
  <2> QED BY <2>3, <2>4
<1>12. SameOrder(g, k)
  <2> SUFFICES ASSUME NEW a \in Nodes, NEW b \in Nodes, In(g, a), In(g, b), In(k, a), In(k, b),
                      Pos(g, a) < Pos(g, b)
               PROVE  Pos(k, a) < Pos(k, b)
    BY DEF SameOrder
  <2>1. a # n /\ b # n
    BY <1>k
  <2>2. Pos(g, a) # q /\ Pos(g, b) # q
    BY <1>2, <2>1, SamePos
  <2> QED BY <1>g, <1>k, <2>1, <2>2
<1>13. Shifted(g, k, q)
  BY <1>k DEF Shifted
<1> QED BY <1>8, <1>9, <1>10, <1>11, <1>12, <1>13, <1>k, <1>u DEF Shape

LEMMA SpliceBalance ==
  ASSUME NEW t, NEW g, Shape(t, g), NEW h, Balanced(t, g, h, Nil, 0, Nil, Nil), NEW n, NEW y,
         NEW x, NEW c0, NEW c1, NEW p, NEW e, NEW py, NEW q,
         Splices(t, g, n, y, x, c0, c1, p, e, py, q),
         NEW u, Spliced(t, n, y, x, c0, c1, p, e, py, u),
         NEW k, \A m \in Nodes : In(k, m) <=> In(g, m) /\ m # n,
         NEW ye, ye = (IF py = n THEN y ELSE py), NEW le, le = (IF py = n THEN 1 ELSE 0),
         NEW lp, lp = (IF ColorOf(t, y) = Black THEN ye ELSE Nil),
         NEW xx, xx = (IF ColorOf(t, y) = Black THEN x ELSE Nil)
  PROVE  /\ \E l : Balanced(u, k, l, lp, le, xx, xx)
         /\ le \in Dirs
         /\ lp # Nil => In(k, lp) /\ Child(u, lp, le) = x /\ (x = Child(u, lp, 0) => le = 0)
         /\ ye # Nil
<1>0. t \in Trees /\ (\A m \in Nodes : m # Nil) /\ h \in [Nodes -> Nat] /\ 0 \in Dirs /\ 1 \in Dirs
  BY NilIsNoNode, NodeFacts DEF Balanced, Dirs
<1>1. About(t, g, n, y, x, c0, c1, p, e, py, q)
  BY SpliceFacts
<1>2. /\ n \in Nodes /\ In(g, n)
      /\ y \in Nodes /\ In(g, y)
      /\ Child(t, y, 0) = Nil /\ Child(t, y, 1) = x /\ y # n /\ y # t.Root
      /\ c0 \in Nodes /\ In(g, c0) /\ c0 # y /\ c0 = Child(t, n, 0)
      /\ c1 \in Nodes /\ In(g, c1) /\ c1 = Child(t, n, 1)
      /\ x # Nil => x \in Nodes /\ In(g, x) /\ ParentOf(t, x) = y /\ x # n /\ x # y /\ x # c0
  BY <1>1 DEF About
<1>3. /\ py \in Nodes /\ In(g, py) /\ py = ParentOf(t, y) /\ py # y
      /\ py = n => c1 = y
      /\ py # n => c1 # y /\ Child(t, py, 0) = y /\ Side(t, y) = 0 /\ py # p
      /\ p = ParentOf(t, n) /\ e = Side(t, n) /\ e \in Dirs /\ p # y
      /\ p = Nil <=> n = t.Root
      /\ p # Nil => p \in Nodes /\ In(g, p) /\ p # n /\ Child(t, p, e) = n /\ Child(t, p, 1 - e) # n
  BY <1>1 DEF About
<1>u. /\ u \in Trees
      /\ u.Root = IF p = Nil THEN y ELSE t.Root
      /\ \A m \in Nodes : ColorOf(u, m) = IF m = y THEN ColorOf(t, n) ELSE ColorOf(t, m)
      /\ \A m \in Nodes, f \in Dirs :
           Child(u, m, f) = IF m = p /\ f = e THEN y ELSE IF m = y /\ f = 0 THEN c0
                            ELSE IF py # n /\ m = y /\ f = 1 THEN c1
                            ELSE IF py # n /\ m = py /\ f = 0 THEN x ELSE Child(t, m, f)
  BY DEF Spliced
<1>l. PICK l : l = [m \in Nodes |-> IF m = y THEN h[n] ELSE h[m]]
  OBVIOUS
<1>4. /\ l \in [Nodes -> Nat] /\ l[y] = h[n]
      /\ \A m \in Nodes : m # y => l[m] = h[m] /\ Height(l, m) = Height(h, m) /\ Height(l, m) = h[m]
      /\ Height(l, Nil) = 0 /\ Height(h, Nil) = 0
      /\ Height(l, y) = h[n]
      /\ \A m \in Nodes : Height(h, m) = h[m] /\ h[m] \in Nat
  <2>1. l \in [Nodes -> Nat] /\ l[y] = h[n] /\ \A m \in Nodes : m # y => l[m] = h[m]
    BY <1>0, <1>2, <1>l
  <2> QED BY <1>0, <1>2, <2>1, HeightIs
<1>5. \A m \in Nodes, f \in Dirs : In(g, m) =>
        /\ h[m] = Height(h, Child(t, m, f)) + 0 + Mark(t, m)
        /\ IsRed(t, m) => IsBlack(t, Child(t, m, f))
  <2> SUFFICES ASSUME NEW m \in Nodes, NEW f \in Dirs, In(g, m)
               PROVE  /\ h[m] = Height(h, Child(t, m, f)) + 0 + Mark(t, m)
                      /\ IsRed(t, m) => IsBlack(t, Child(t, m, f))
    OBVIOUS
  <2>1. Fine(t, h, m, f, Nil, 0, Nil, Nil)
    BY DEF Balanced
  <2>2. Lack(m, f, Nil, 0) = 0
    BY LackIs
  <2> QED BY <1>0, <2>1, <2>2, ColorIs DEF Fine
<1>6. \A m \in Nodes : Mark(t, m) \in {0, 1} /\ Mark(u, m) \in {0, 1}
  BY DEF Mark
<1>7. /\ \A m \in Nodes : m # y => /\ Mark(u, m) = Mark(t, m)
                                   /\ IsRed(u, m) <=> IsRed(t, m)
                                   /\ IsBlack(u, m) <=> IsBlack(t, m)
      /\ Mark(u, y) = Mark(t, n) /\ (IsRed(u, y) <=> IsRed(t, n))
      /\ IsBlack(u, y) <=> IsBlack(t, n)
      /\ IsBlack(u, Nil) /\ IsBlack(t, Nil)
  BY <1>0, <1>2, <1>u, ColorIs
<1>8. /\ h[y] = Mark(t, y) /\ Height(h, x) = 0 /\ Height(l, x) = 0
      /\ IsRed(t, y) => IsBlack(t, x)
      /\ h[n] = h[c0] + Mark(t, n) /\ h[n] = h[c1] + Mark(t, n)
      /\ IsRed(t, n) => IsBlack(t, c0) /\ IsBlack(t, c1)
  <2>1. h[y] = 0 + 0 + Mark(t, y) /\ h[y] = Height(h, x) + 0 + Mark(t, y)
    BY <1>0, <1>2, <1>4, <1>5
  <2>2. Height(h, x) \in Nat
    BY <1>2, <1>4
  <2>3. Height(h, x) = 0 /\ h[y] = Mark(t, y)
    BY <1>2, <1>6, <2>1, <2>2
  <2>4. Height(l, x) = 0
    BY <1>2, <1>4, <2>3
  <2>5. IsRed(t, y) => IsBlack(t, x)
    BY <1>0, <1>2, <1>5
  <2>6. h[n] = h[c0] + 0 + Mark(t, n) /\ h[n] = h[c1] + 0 + Mark(t, n)
    BY <1>0, <1>2, <1>4, <1>5
  <2>7. h[n] = h[c0] + Mark(t, n) /\ h[n] = h[c1] + Mark(t, n)
    BY <1>2, <1>4, <1>6, <2>6
  <2>8. IsRed(t, n) => IsBlack(t, c0) /\ IsBlack(t, c1)
    BY <1>0, <1>2, <1>5
  <2> QED BY <2>3, <2>4, <2>5, <2>7, <2>8
<1>c. /\ ColorOf(t, y) = Black => IsBlack(t, y) /\ Mark(t, y) = 1
      /\ ColorOf(t, y) # Black => IsRed(t, y) /\ Mark(t, y) = 0
  BY <1>0, <1>2, FieldTypes, ColorIs, RedIsNotBlack
<1>x. x # xx => IsBlack(u, x)
  <2>1. x # xx => IsBlack(t, x)
    BY <1>7, <1>8, <1>c
  <2> QED BY <1>2, <1>7, <2>1
<1>k. \A m \in Nodes, f \in Dirs : Lack(m, f, lp, le) = IF m = ye /\ f = le THEN Mark(t, y) ELSE 0
  BY <1>0, <1>c, LackIs
<1>9. ASSUME NEW m \in Nodes, NEW f \in Dirs, In(k, m)
      PROVE  Fine(u, l, m, f, lp, le, xx, xx)
  <2>0. In(g, m) /\ m # n
    BY <1>9
  <2>1. CASE m = p /\ f = e
    <3>1. Child(u, m, f) = y /\ Child(t, m, f) = n /\ m # y /\ ~(m = ye /\ f = le)
      BY <1>0, <1>2, <1>3, <1>u, <2>1
    <3>2. h[m] = h[n] + 0 + Mark(t, m)
      BY <1>2, <1>4, <1>5, <2>0, <3>1
    <3>3. l[m] = Height(l, y) + Lack(m, f, lp, le) + Mark(u, m)
      BY <1>4, <1>7, <1>k, <3>1, <3>2
    <3>4. IsRed(u, m) => IsBlack(u, y)
      BY <1>5, <1>7, <2>0, <3>1
    <3> QED BY <3>1, <3>3, <3>4 DEF Fine
  <2>2. CASE m = y /\ f = 0
    <3>1. Child(u, m, f) = c0 /\ ~(m = ye /\ f = le)
      BY <1>0, <1>2, <1>3, <1>u, <2>2
    <3>2. l[m] = Height(l, c0) + Lack(m, f, lp, le) + Mark(u, m)
      <4>1. Height(l, c0) = h[c0] /\ h[c0] \in Nat /\ Lack(m, f, lp, le) = 0
        BY <1>2, <1>4, <1>k, <3>1
      <4> QED BY <1>2, <1>4, <1>6, <1>7, <1>8, <2>2, <4>1
    <3>3. IsRed(u, m) => IsBlack(u, c0)
      BY <1>2, <1>7, <1>8, <2>2
    <3> QED BY <3>1, <3>2, <3>3 DEF Fine
  <2>3. CASE m = y /\ f = 1 /\ py = n
    <3>1. Child(u, m, f) = x /\ m = ye /\ f = le
      BY <1>0, <1>2, <1>3, <1>u, <2>3
    <3>2. h[n] = h[y] + Mark(t, n)
      BY <1>3, <1>8, <2>3
    <3>3. l[m] = Height(l, x) + Lack(m, f, lp, le) + Mark(u, m)
      <4>1. Lack(m, f, lp, le) = Mark(t, y)
        BY <1>k, <3>1
      <4> QED BY <1>2, <1>4, <1>6, <1>7, <1>8, <2>3, <3>2, <4>1
    <3> QED BY <1>x, <3>1, <3>3 DEF Fine
  <2>4. CASE m = y /\ f = 1 /\ py # n
    <3>1. Child(u, m, f) = c1 /\ ~(m = ye /\ f = le) /\ c1 # y
      BY <1>0, <1>2, <1>3, <1>u, <2>4
    <3>2. l[m] = Height(l, c1) + Lack(m, f, lp, le) + Mark(u, m)
      <4>1. Height(l, c1) = h[c1] /\ h[c1] \in Nat /\ Lack(m, f, lp, le) = 0
        BY <1>2, <1>4, <1>k, <3>1
      <4> QED BY <1>2, <1>4, <1>6, <1>7, <1>8, <2>4, <4>1
    <3>3. IsRed(u, m) => IsBlack(u, c1)
      BY <1>2, <1>7, <1>8, <2>4, <3>1
    <3> QED BY <3>1, <3>2, <3>3 DEF Fine
  <2>5. CASE py # n /\ m = py /\ f = 0
    <3>1. Child(u, m, f) = x /\ m = ye /\ f = le /\ m # y /\ Child(t, m, f) = y
      BY <1>0, <1>2, <1>3, <1>u, <2>5
    <3>2. h[m] = h[y] + 0 + Mark(t, m)
      BY <1>2, <1>4, <1>5, <2>0, <3>1
    <3>3. l[m] = Height(l, x) + Lack(m, f, lp, le) + Mark(u, m)
      <4>1. Lack(m, f, lp, le) = Mark(t, y)
        BY <1>k, <3>1
      <4> QED BY <1>2, <1>4, <1>6, <1>7, <1>8, <3>1, <3>2, <4>1
    <3> QED BY <1>x, <3>1, <3>3 DEF Fine
  <2>6. CASE ~(m = p /\ f = e) /\ m # y /\ ~(py # n /\ m = py /\ f = 0)
    <3>1. PICK z : z = Child(t, m, f) /\ z = Child(u, m, f)
      BY <1>u, <2>6
    <3>2. ~(m = ye /\ f = le)
      BY <2>0, <2>6
    <3>3. z # Nil => z \in Nodes /\ ParentOf(t, z) = m
      <4>1. ChildRight(t, g, m, f)
        BY <2>0 DEF Shape
      <4> QED BY <2>0, <3>1, <4>1, ChildTypes DEF ChildRight
    <3>4. z # y
      <4>1. SUFFICES ASSUME z = y PROVE FALSE
        OBVIOUS
      <4>2. m = py /\ f = 1 /\ py # n
        BY <1>0, <1>2, <1>3, <2>0, <2>6, <3>3, <4>1 DEF Dirs
      <4>3. Child(t, py, 1) = y /\ Child(t, py, 0) = y
        BY <1>3, <3>1, <4>1, <4>2
      <4>4. Lo(g, y) = Pos(g, py) + 1 /\ Hi(g, y) = Pos(g, py) - 1 /\ Lo(g, y) <= Hi(g, y)
            /\ Pos(g, py) \in Int
        <5>1. y # Nil
          BY <1>0, <1>2
        <5>2. Lo(g, y) = Pos(g, py) + 1 /\ Hi(g, y) = Pos(g, py) - 1
          BY <1>3, <4>3, <5>1, ChildFacts
        <5>3. Lo(g, y) <= Pos(g, y) /\ Pos(g, y) <= Hi(g, y)
              /\ Lo(g, y) \in Int /\ Pos(g, y) \in Int /\ Hi(g, y) \in Int /\ Pos(g, py) \in Int
          BY <1>2, <1>3, NodeFacts
        <5>4. Lo(g, y) <= Hi(g, y)
          BY <5>3
        <5> QED BY <5>2, <5>3, <5>4
      <4> QED BY <4>4
    <3>5. h[m] = Height(h, z) + 0 + Mark(t, m) /\ (IsRed(t, m) => IsBlack(t, z))
      BY <1>5, <2>0, <3>1
    <3>6. Height(l, z) = Height(h, z)
      BY <1>4, <3>3, <3>4
    <3>7. l[m] = Height(l, z) + Lack(m, f, lp, le) + Mark(u, m)
      <4>1. Lack(m, f, lp, le) = 0
        BY <1>k, <3>2
      <4> QED BY <1>4, <1>7, <2>6, <3>5, <3>6, <4>1
    <3>8. IsRed(u, m) => IsBlack(u, z)
      BY <1>7, <2>6, <3>3, <3>4, <3>5
    <3> QED BY <3>1, <3>7, <3>8 DEF Fine
  <2> QED BY <2>1, <2>2, <2>3, <2>4, <2>5, <2>6 DEF Dirs
<1>10. IsBlack(u, u.Root)
  <2>1. IsBlack(t, t.Root) /\ t.Root \in Ref
    BY <1>0, RootFacts, ColorIs DEF Balanced
  <2>2. CASE p = Nil
    BY <1>3, <1>7, <1>u, <2>1, <2>2
  <2>3. CASE p # Nil
    BY <1>2, <1>7, <1>u, <2>1, <2>3 DEF Ref
  <2> QED BY <2>2, <2>3
<1>11. Balanced(u, k, l, lp, le, xx, xx)
  BY <1>4, <1>9, <1>10 DEF Balanced
<1>12. ye \in Nodes /\ In(k, ye)
  BY <1>2, <1>3
<1>13. Child(u, ye, le) = x /\ (x = Child(u, ye, 0) => le = 0)
  <2>1. CASE py = n
    <3>1. Child(u, y, 1) = x /\ Child(u, y, 0) = c0
      BY <1>0, <1>2, <1>3, <1>u, <2>1
    <3>2. x # c0
      BY <1>0, <1>2
    <3> QED BY <2>1, <3>1, <3>2
  <2>2. CASE py # n
    BY <1>0, <1>3, <1>u, <2>2
  <2> QED BY <2>1, <2>2
<1>14. le \in Dirs
  BY <1>0
<1> QED BY <1>0, <1>11, <1>12, <1>13, <1>14

\* u is the tree t once n is unlinked, k its numbering.
Severed(t, g, n, u, k) ==
  /\ n \in Nodes /\ In(g, n)
  /\ Shape(t, g) /\ Outside(t, g) /\ Ordered(t, g)
  /\ Shape(u, k) /\ SameOrder(g, k) /\ Shifted(g, k, Pos(g, n))
  /\ \A m \in Nodes : In(k, m) <=> In(g, m) /\ m # n
  /\ \A m \in Nodes : ValueOf(u, m) = ValueOf(t, m)
  /\ \A m \in Nodes : ~In(g, m) =>
       /\ ColorOf(u, m) = ColorOf(t, m) /\ ParentOf(u, m) = ParentOf(t, m)
       /\ Child(u, m, 0) = Child(t, m, 0) /\ Child(u, m, 1) = Child(t, m, 1)

Cleared(u, gone) == [u EXCEPT !.at = [m \in Nodes |-> IF m \in gone THEN Blank ELSE @[m]]]

LEMMA ClearedIs ==
  ASSUME NEW t, NEW g, NEW n, NEW u, NEW k, Severed(t, g, n, u, k),
         NEW s, s = Linked(t) \ Linked(u), NEW v, v = Cleared(u, s)
  PROVE  /\ v \in Trees /\ v.Root = u.Root
         /\ \A m \in Nodes : v.at[m] = IF m = n THEN Blank ELSE u.at[m]
<1>1. s = {n}
  <2>1. Linked(t) = {m \in Nodes : In(g, m)} /\ Linked(u) = {m \in Nodes : In(k, m)}
    BY LinkedIs DEF Severed
  <2> QED BY <2>1 DEF Severed
<1>2. u \in Trees
  BY DEF Severed, Shape
<1>3. PICK a : a = [m \in Nodes |-> IF m \in {n} THEN Blank ELSE u.at[m]]
  OBVIOUS
<1>4. v = [u EXCEPT !.at = a]
  BY <1>1, <1>3 DEF Cleared
<1>5. Blank \in [Color : {Red, Black}, Parent : Ref, Childs : [Dirs -> Ref], Value : Keys \cup {Nil}]
  BY DEF Blank, Ref
<1>6. a \in [Nodes -> [Color : {Red, Black}, Parent : Ref, Childs : [Dirs -> Ref],
                       Value : Keys \cup {Nil}]]
  BY <1>2, <1>3, <1>5 DEF Trees
<1>7. v.Root = u.Root /\ v.at = a /\ v \in Trees
  BY <1>2, <1>4, <1>6 DEF Trees
<1> QED BY <1>3, <1>7

LEMMA ClearedKeeps ==
  ASSUME NEW t, NEW g, NEW n, NEW u, NEW k, Severed(t, g, n, u, k),
         NEW s, s = Linked(t) \ Linked(u), NEW v, v = Cleared(u, s)
  PROVE  /\ Shape(v, k) /\ Outside(v, k) /\ Ordered(v, k)
         /\ \A m \in Nodes : m # n => ValueOf(v, m) = ValueOf(t, m)
         /\ v.Root = u.Root
         /\ \A m \in Nodes, d \in Dirs : m # n => Child(v, m, d) = Child(u, m, d)
         /\ \A h, p, e, x, y : Balanced(u, k, h, p, e, x, y) => Balanced(v, k, h, p, e, x, y)
         /\ \A cu, pe : Iterating(g, cu, pe) /\ n # cu.node => Iterating(k, cu, pe \ {n})
<1>0. /\ v \in Trees /\ v.Root = u.Root
      /\ \A m \in Nodes : v.at[m] = IF m = n THEN Blank ELSE u.at[m]
  BY ClearedIs
<1>1. /\ n \in Nodes /\ In(g, n) /\ Shape(t, g) /\ Outside(t, g) /\ Ordered(t, g)
      /\ Shape(u, k) /\ SameOrder(g, k) /\ t \in Trees /\ u \in Trees
      /\ \A m \in Nodes : In(k, m) <=> In(g, m) /\ m # n
      /\ \A m \in Nodes : ValueOf(u, m) = ValueOf(t, m)
      /\ \A m \in Nodes : m # Nil
  BY NilIsNoNode, NodeFacts DEF Severed
<1>2. \A m \in Nodes : m # n => /\ ColorOf(v, m) = ColorOf(u, m)
                                /\ ParentOf(v, m) = ParentOf(u, m)
                                /\ ValueOf(v, m) = ValueOf(u, m)
                                /\ \A d \in Dirs : Child(v, m, d) = Child(u, m, d)
  BY <1>0 DEF ColorOf, ParentOf, ValueOf, Child
<1>3. /\ ColorOf(v, n) = Red /\ ParentOf(v, n) = Nil /\ ValueOf(v, n) = Nil
      /\ Child(v, n, 0) = Nil /\ Child(v, n, 1) = Nil
  <2>1. v.at[n] = Blank
    BY <1>0, <1>1
  <2> QED BY <1>0, <1>1, <2>1, BlankIs
<1>4. Shape(v, k)
  <2>1. Numbered(k) /\ RootRight(u, k)
    BY <1>1 DEF Shape
  <2>2. u.Root # Nil => u.Root \in Nodes /\ u.Root # n
    BY <1>1, RootFacts
  <2>3. RootRight(v, k)
    BY <1>0, <1>2, <2>1, <2>2 DEF RootRight
  <2>4. ASSUME NEW m \in Nodes, In(k, m) PROVE ParentRight(v, k, m)
    <3>1. ParentRight(u, k, m) /\ m # n
      BY <1>1, <2>4 DEF Shape
    <3>2. PICK z : z = ParentOf(u, m) /\ z = ParentOf(v, m)
      BY <1>2, <3>1
    <3>3. z # Nil => z \in Nodes /\ z # n
      BY <1>1, <3>1, <3>2, FieldTypes, NilIsNoNode DEF ParentRight
    <3>4. z # Nil => Child(v, z, 0) = Child(u, z, 0) /\ Child(v, z, 1) = Child(u, z, 1)
      BY <1>2, <3>3 DEF Dirs
    <3> QED BY <1>0, <3>1, <3>2, <3>4 DEF ParentRight
  <2>5. ASSUME NEW m \in Nodes, NEW d \in Dirs, In(k, m) PROVE ChildRight(v, k, m, d)
    <3>1. ChildRight(u, k, m, d) /\ m # n
      BY <1>1, <2>5 DEF Shape
    <3>2. PICK z : z = Child(u, m, d) /\ z = Child(v, m, d)
      BY <1>2, <3>1
    <3>3. z # Nil => z \in Nodes /\ z # n
      BY <1>1, <3>2, ChildTypes
    <3>4. z # Nil => ParentOf(v, z) = ParentOf(u, z)
      BY <1>2, <3>3
    <3> QED BY <3>1, <3>2, <3>4 DEF ChildRight
  <2>6. ASSUME NEW m \in Nodes, NEW d \in Dirs, ~In(k, m), Child(v, m, d) # Nil
        PROVE  In(k, Child(v, m, d))
    <3>1. m # n
      BY <1>3, <2>6 DEF Dirs
    <3>2. Child(v, m, d) = Child(u, m, d)
      BY <1>2, <3>1
    <3> QED BY <1>1, <2>6, <3>2, ChildTypes
  <2> QED BY <1>0, <2>1, <2>3, <2>4, <2>5, <2>6 DEF Shape
<1>5. Outside(v, k)
  <2> SUFFICES ASSUME NEW m \in Nodes, ~In(k, m) PROVE v.at[m] = Blank
    BY DEF Outside
  <2>1. CASE m = n
    BY <1>0, <2>1
  <2>2. CASE m # n
    <3>1. ~In(g, m)
      BY <1>1, <2>2
    <3>2. /\ ColorOf(t, m) = Red /\ ParentOf(t, m) = Nil /\ ValueOf(t, m) = Nil
          /\ Child(t, m, 0) = Nil /\ Child(t, m, 1) = Nil
      BY <1>1, <3>1, BlankIs DEF Outside
    <3>3. /\ ColorOf(u, m) = Red /\ ParentOf(u, m) = Nil /\ ValueOf(u, m) = Nil
          /\ Child(u, m, 0) = Nil /\ Child(u, m, 1) = Nil
      BY <3>1, <3>2 DEF Severed
    <3>4. u.at[m] = Blank
      BY <1>1, <3>3, BlankIs
    <3> QED BY <1>0, <2>2, <3>4
  <2> QED BY <2>1, <2>2
<1>6. Ordered(v, k)
  <2>1. \A m \in Nodes : In(k, m) => In(g, m) /\ ValueOf(v, m) = ValueOf(t, m)
    BY <1>1, <1>2
  <2>2. \A m \in Nodes : Pos(g, m) \in Int /\ Pos(k, m) \in Int
    BY <1>1, NodeFacts
  <2>3. ASSUME NEW a \in Nodes, NEW b \in Nodes, In(k, a), In(k, b), Pos(k, a) < Pos(k, b)
        PROVE  Pos(g, a) < Pos(g, b)
    <3>1. In(g, a) /\ In(g, b) /\ a # b
      BY <2>1, <2>2, <2>3
    <3>2. Pos(g, a) # Pos(g, b)
      BY <1>1, <3>1, SamePos
    <3>3. Pos(g, b) < Pos(g, a) => Pos(k, b) < Pos(k, a)
      BY <1>1, <2>3, <3>1 DEF SameOrder
    <3> QED BY <2>2, <2>3, <3>2, <3>3
  <2> QED BY <1>1, <2>1, <2>3 DEF Ordered
<1>7. ASSUME NEW h, NEW p, NEW e, NEW x, NEW y, Balanced(u, k, h, p, e, x, y)
      PROVE  Balanced(v, k, h, p, e, x, y)
  <2>0. \A m \in Ref : m # n => /\ IsBlack(v, m) <=> IsBlack(u, m)
                                /\ IsRed(v, m) <=> IsRed(u, m)
                                /\ Mark(v, m) = Mark(u, m)
    <3>1. \A m \in Nodes : m # n => /\ IsBlack(v, m) <=> IsBlack(u, m)
                                    /\ IsRed(v, m) <=> IsRed(u, m)
                                    /\ Mark(v, m) = Mark(u, m)
      BY <1>0, <1>1, <1>2, ColorIs
    <3>2. /\ IsBlack(v, Nil) /\ IsBlack(u, Nil) /\ ~IsRed(v, Nil) /\ ~IsRed(u, Nil)
          /\ Mark(v, Nil) = Mark(u, Nil)
      BY DEF IsBlack, IsRed, Mark
    <3> QED BY <3>1, <3>2 DEF Ref
  <2>1. ASSUME NEW m \in Nodes, NEW f \in Dirs, In(k, m)
        PROVE  Fine(v, h, m, f, p, e, x, y)
    <3>1. Fine(u, h, m, f, p, e, x, y) /\ m # n /\ m \in Ref
      BY <1>1, <1>7, <2>1 DEF Balanced, Ref
    <3>2. PICK z : z = Child(u, m, f) /\ z = Child(v, m, f)
      BY <1>2, <2>1, <3>1
    <3>3. z \in Ref /\ z # n
      BY <1>1, <3>2, ChildTypes, FieldTypes
    <3> QED BY <2>0, <3>1, <3>2, <3>3 DEF Fine
  <2>2. v.Root # x => IsBlack(v, v.Root)
    <3>1. u.Root \in Ref /\ u.Root # n
      BY <1>1, RootFacts
    <3> QED BY <1>0, <1>7, <2>0, <3>1 DEF Balanced
  <2> QED BY <1>7, <2>1, <2>2 DEF Balanced
<1>8. ASSUME NEW cu, NEW pe, Iterating(g, cu, pe), n # cu.node
      PROVE  Iterating(k, cu, pe \ {n})
  <2>1. cu # NoCursor => In(k, cu.node)
    BY <1>1, <1>8 DEF Iterating
  <2>2. \A m \in pe \ {n} : In(k, m)
    BY <1>1, <1>8 DEF Iterating
  <2>3. \A m \in Nodes : Pos(g, m) \in Int /\ Pos(k, m) \in Int
    BY <1>1, NodeFacts
  <2>4. pe \ {n} \subseteq pe
    OBVIOUS
  <2> QED BY <1>1, <1>8, <2>1, <2>2, <2>3, <2>4, IterationKept
<1>9. \A m \in Nodes : m # n => ValueOf(v, m) = ValueOf(t, m)
  BY <1>1, <1>2
<1> QED BY <1>0, <1>2, <1>4, <1>5, <1>6, <1>7, <1>8, <1>9

\* What is left when n is unlinked: its place is l.xParent's side e, one
\* short when the color lost is black.
Left(r, k, l, e) ==
  /\ e \in Dirs /\ r.x \in Ref /\ r.xParent \in Ref
  /\ r.lost # Black => Balanced(r.t, k, l, Nil, 0, Nil, Nil)
  /\ r.lost = Black =>
       /\ Balanced(r.t, k, l, r.xParent, e, r.x, r.x)
       /\ r.xParent = Nil => r.x = r.t.Root
       /\ r.xParent # Nil => /\ In(k, r.xParent) /\ Child(r.t, r.xParent, e) = r.x
                             /\ r.x = Child(r.t, r.xParent, 0) => e = 0

LEMMA UnlinkOneChild ==
  ASSUME NEW t, NEW g, Shape(t, g), Outside(t, g), Ordered(t, g),
         NEW h, Balanced(t, g, h, Nil, 0, Nil, Nil), NEW n \in Nodes, In(g, n),
         Child(t, n, 0) = Nil \/ Child(t, n, 1) = Nil,
         NEW r, r = RemoveWithOneChild(t, n)
  PROVE  \E k, l, e : Severed(t, g, n, r.t, k) /\ Left(r, k, l, e)
<1>0. t \in Trees /\ \A m \in Nodes : m # Nil
  BY NilIsNoNode, NodeFacts
<1>1. PICK x : x = IF Child(t, n, 0) = Nil THEN Child(t, n, 1) ELSE Child(t, n, 0)
  OBVIOUS
<1>2. PICK p, e, q : p = ParentOf(t, n) /\ e = Side(t, n) /\ q = Pos(g, n)
  OBVIOUS
<1>3. PICK u : u = Link(t, p, e, x)
  OBVIOUS
<1>4. r.t = u /\ r.lost = ColorOf(t, n) /\ r.x = x /\ r.xParent = p
  BY <1>1, <1>2, <1>3 DEF RemoveWithOneChild, Transplant, ColorOf
<1>5. Replaces(t, g, n, x, p, e, q)
  <2>1. \E d \in Dirs : Child(t, n, d) = Nil /\ x = Child(t, n, 1 - d)
    <3>1. CASE Child(t, n, 0) = Nil
      <4>1. 0 \in Dirs /\ x = Child(t, n, 1 - 0)
        BY <1>1, <3>1 DEF Dirs
      <4> QED BY <3>1, <4>1
    <3>2. CASE Child(t, n, 0) # Nil
      <4>1. 1 \in Dirs /\ x = Child(t, n, 1 - 1) /\ Child(t, n, 1) = Nil
        BY <1>1, <3>2 DEF Dirs
      <4> QED BY <4>1
    <3> QED BY <3>1, <3>2
  <2> QED BY <1>2, <2>1 DEF Replaces
<1>6. e \in Dirs /\ p \in Ref /\ (p # Nil => In(g, p) /\ p \in Nodes)
  BY <1>2, SideIs
<1>7. x \in Ref /\ (x # Nil => In(g, x) /\ x \in Nodes)
  <2>1. x = Child(t, n, 0) \/ x = Child(t, n, 1)
    BY <1>1
  <2> QED BY <1>0, <2>1, ChildTypes, FieldTypes DEF Dirs
<1>8. LinkSpec(t, p, e, x, u)
  BY <1>0, <1>3, <1>6, <1>7, LinkFields
<1>9. PICK k : k = Without(g, n, CloserLo(g, q, q), CloserHi(g, q, q))
  OBVIOUS
<1>10. /\ Shape(u, k)
       /\ \A m \in Nodes : In(k, m) <=> In(g, m) /\ m # n
       /\ SameOrder(g, k) /\ Shifted(g, k, q)
  BY <1>5, <1>8, <1>9, ReplaceShape
<1>11. /\ \A m \in Nodes : ValueOf(u, m) = ValueOf(t, m)
       /\ \A m \in Nodes : ~In(g, m) =>
            /\ ColorOf(u, m) = ColorOf(t, m) /\ ParentOf(u, m) = ParentOf(t, m)
            /\ Child(u, m, 0) = Child(t, m, 0) /\ Child(u, m, 1) = Child(t, m, 1)
  BY <1>0, <1>6, <1>7, <1>8 DEF LinkSpec, Dirs
<1>12. Severed(t, g, n, u, k)
  BY <1>2, <1>10, <1>11 DEF Severed
<1>13. PICK lp, xx : /\ lp = (IF ColorOf(t, n) = Black THEN p ELSE Nil)
                     /\ xx = (IF ColorOf(t, n) = Black THEN x ELSE Nil)
  OBVIOUS
<1>14. /\ Balanced(u, k, h, lp, e, xx, xx)
       /\ lp # Nil => /\ In(k, lp) /\ Child(u, lp, e) = x /\ e \in Dirs
                      /\ x = Child(u, lp, 0) => e = 0
       /\ lp = Nil /\ ColorOf(t, n) = Black => x = u.Root
  BY <1>5, <1>8, <1>10, <1>13, ReplaceBalance
<1>15. Left(r, k, h, e)
  <2>1. CASE ColorOf(t, n) = Black
    <3>1. lp = p /\ xx = x
      BY <1>13, <2>1
    <3> QED BY <1>4, <1>6, <1>7, <1>14, <2>1, <3>1 DEF Left
  <2>2. CASE ColorOf(t, n) # Black
    <3>1. lp = Nil /\ xx = Nil
      BY <1>13, <2>2
    <3>2. Balanced(u, k, h, Nil, 0, Nil, Nil)
      BY <1>14, <3>1, SideOfNil
    <3> QED BY <1>4, <1>6, <1>7, <2>2, <3>2 DEF Left
  <2> QED BY <2>1, <2>2
<1> QED BY <1>4, <1>12, <1>15

LEMMA UnlinkTwoChildren ==
  ASSUME NEW t, NEW g, Shape(t, g), Outside(t, g), Ordered(t, g),
         NEW h, Balanced(t, g, h, Nil, 0, Nil, Nil), NEW n \in Nodes, In(g, n),
         Child(t, n, 0) # Nil, Child(t, n, 1) # Nil,
         NEW r, r = RemoveWithTwoChildren(t, n)
  PROVE  \E k, l, e : Severed(t, g, n, r.t, k) /\ Left(r, k, l, e)
<1>0. t \in Trees /\ \A m \in Nodes : m # Nil
  BY NilIsNoNode, NodeFacts
<1>1. PICK p, e, q, c0, c1 : /\ p = ParentOf(t, n) /\ e = Side(t, n) /\ q = Pos(g, n)
                             /\ c0 = Child(t, n, 0) /\ c1 = Child(t, n, 1)
  OBVIOUS
<1>2. PICK y : y = Extreme(t, c1, 0)
  OBVIOUS
<1>3. PICK x, py : x = Child(t, y, 1) /\ py = ParentOf(t, y)
  OBVIOUS
<1>4. Splices(t, g, n, y, x, c0, c1, p, e, py, q)
  BY <1>1, <1>2, <1>3 DEF Splices
<1>5. PICK u : u = r.t
  OBVIOUS
<1>6. Spliced(t, n, y, x, c0, c1, p, e, py, u)
  BY <1>4, <1>5, SplicedIs
<1>7. About(t, g, n, y, x, c0, c1, p, e, py, q)
  BY <1>4, SpliceFacts
<1>8. PICK ye, le : ye = (IF py = n THEN y ELSE py) /\ le = (IF py = n THEN 1 ELSE 0)
  OBVIOUS
<1>9. r.lost = ColorOf(t, y) /\ r.x = x /\ r.xParent = ye
  BY <1>1, <1>2, <1>3, <1>8 DEF RemoveWithTwoChildren, ColorOf
<1>10. PICK k : k = Without(g, n, LowerLo(g, n, y, q), LowerHi(g, n, y, q))
  OBVIOUS
<1>11. /\ Shape(u, k)
       /\ \A m \in Nodes : In(k, m) <=> In(g, m) /\ m # n
       /\ SameOrder(g, k) /\ Shifted(g, k, q)
  BY <1>4, <1>6, <1>10, SpliceShape
<1>12. /\ y \in Nodes /\ In(g, y) /\ In(g, c0) /\ In(g, c1) /\ py \in Nodes /\ In(g, py)
       /\ x # Nil => x \in Nodes /\ In(g, x)
       /\ p # Nil => In(g, p)
  BY <1>7 DEF About
<1>13. /\ \A m \in Nodes : ValueOf(u, m) = ValueOf(t, m)
       /\ \A m \in Nodes : ~In(g, m) =>
            /\ ColorOf(u, m) = ColorOf(t, m) /\ ParentOf(u, m) = ParentOf(t, m)
            /\ Child(u, m, 0) = Child(t, m, 0) /\ Child(u, m, 1) = Child(t, m, 1)
  <2>1. ASSUME NEW m \in Nodes, ~In(g, m)
        PROVE  m # y /\ m # c0 /\ m # c1 /\ m # py /\ m # x /\ m # p
    BY <1>0, <1>12, <2>1
  <2> QED BY <1>6, <2>1 DEF Spliced, Dirs
<1>14. Severed(t, g, n, u, k)
  BY <1>1, <1>11, <1>13 DEF Severed
<1>15. PICK lp, xx : /\ lp = (IF ColorOf(t, y) = Black THEN ye ELSE Nil)
                     /\ xx = (IF ColorOf(t, y) = Black THEN x ELSE Nil)
  OBVIOUS
<1>16. /\ \E l : Balanced(u, k, l, lp, le, xx, xx)
       /\ le \in Dirs
       /\ lp # Nil => In(k, lp) /\ Child(u, lp, le) = x /\ (x = Child(u, lp, 0) => le = 0)
       /\ ye # Nil
  BY <1>4, <1>6, <1>8, <1>11, <1>15, SpliceBalance
<1>17. PICK l : Balanced(u, k, l, lp, le, xx, xx)
  BY <1>16
<1>18. x \in Ref /\ ye \in Ref
  BY <1>8, <1>12 DEF Ref
<1>19. Left(r, k, l, le)
  <2>1. CASE ColorOf(t, y) = Black
    <3>1. lp = ye /\ xx = x
      BY <1>15, <2>1
    <3> QED BY <1>5, <1>9, <1>16, <1>17, <1>18, <2>1, <3>1 DEF Left
  <2>2. CASE ColorOf(t, y) # Black
    <3>1. lp = Nil /\ xx = Nil
      BY <1>15, <2>2
    <3>2. Balanced(u, k, l, Nil, 0, Nil, Nil)
      BY <1>17, <3>1, SideOfNil
    <3> QED BY <1>5, <1>9, <1>16, <1>18, <2>2, <3>2 DEF Left
  <2> QED BY <2>1, <2>2
<1> QED BY <1>5, <1>14, <1>19

(***************************************************************************)
(* The steps keep the invariant.                                           *)
(***************************************************************************)
IInv == \E g, h : IInvWith(g, h)

\* The invariant of a tree and an op.
Whole(t, o, g, h) ==
  /\ Shape(t, g) /\ Outside(t, g) /\ Ordered(t, g)
  /\ Level(t, g, h, o.parent, ShortOf(t, o))
  /\ Coloured(t, g, o.node, IF o.name = "deleteFixup" THEN o.node ELSE Nil)
  /\ OpRight(t, g, o)

LEMMA IdleIs ==
  /\ Idle.name = "none" /\ Idle.node = Nil /\ Idle.parent = Nil /\ Idle.turn = 0
  /\ Idle.name # "insertFixup" /\ Idle.name # "deleteFixup" /\ Nil \in Ref
  BY DEF Idle, Ref

LEMMA WholeIdle ==
  ASSUME NEW t, NEW g, NEW h
  PROVE  Whole(t, Idle, g, h) <=>
           /\ Shape(t, g) /\ Outside(t, g) /\ Ordered(t, g)
           /\ Balanced(t, g, h, Nil, 0, Nil, Nil)
<1>1. /\ Idle.name = "none" /\ Idle.node = Nil /\ Idle.parent = Nil /\ Idle.turn = 0
      /\ Idle.name # "insertFixup" /\ Idle.name # "deleteFixup"
  BY IdleIs
<1>2. ShortOf(t, Idle) = 0
  BY <1>1 DEF ShortOf
<1>3. OpRight(t, g, Idle)
  <2>1. Idle \in [name : {"none", "insertFixup", "deleteFixup"}, node : Ref, parent : Ref,
                  turn : {0, 1}]
    BY DEF Idle, Ref
  <2> QED BY <1>1, <2>1 DEF OpRight
<1>4. Balanced(t, g, h, Nil, 0, Nil, Nil) <=> Level(t, g, h, Nil, 0) /\ Coloured(t, g, Nil, Nil)
  BY BalancedIs
<1> QED BY <1>1, <1>2, <1>3, <1>4 DEF Whole

InsertOp(n, s) == [name |-> "insertFixup", node |-> n, parent |-> Nil, turn |-> s]
DeleteOp(n, p, s) == [name |-> "deleteFixup", node |-> n, parent |-> p, turn |-> s]

LEMMA WholeInsert ==
  ASSUME NEW t, NEW g, NEW h, NEW n \in Nodes, NEW s \in {0, 1}
  PROVE  Whole(t, InsertOp(n, s), g, h) <=>
           /\ Shape(t, g) /\ Outside(t, g) /\ Ordered(t, g)
           /\ Balanced(t, g, h, Nil, 0, n, Nil)
           /\ In(g, n) /\ IsRed(t, n)
<1>0. n # Nil
  BY NilIsNoNode
<1>1. PICK o : o = InsertOp(n, s)
  OBVIOUS
<1>2. /\ o.name = "insertFixup" /\ o.node = n /\ o.parent = Nil /\ o.turn = s
      /\ o.name # "none" /\ o.name # "deleteFixup"
      /\ o \in [name : {"none", "insertFixup", "deleteFixup"}, node : Ref, parent : Ref,
                turn : {0, 1}]
  BY <1>1 DEF InsertOp, Ref
<1>3. ShortOf(t, o) = 0
  BY <1>2 DEF ShortOf
<1>4. OpRight(t, g, o) <=> In(g, n) /\ IsRed(t, n)
  BY <1>0, <1>2 DEF OpRight
<1>5. Balanced(t, g, h, Nil, 0, n, Nil) <=> Level(t, g, h, Nil, 0) /\ Coloured(t, g, n, Nil)
  BY BalancedIs
<1> QED BY <1>1, <1>2, <1>3, <1>4, <1>5 DEF Whole

\* The place of x, the side e of p, is one short.
ShortPlace(t, g, x, p, e) ==
  /\ e \in Dirs
  /\ p = Nil => x = t.Root
  /\ p # Nil => In(g, p) /\ Child(t, p, e) = x /\ (x = Child(t, p, 0) => e = 0)

LEMMA WholeDelete ==
  ASSUME NEW t, NEW g, NEW h, NEW x \in Ref, NEW p \in Ref, NEW s \in {0, 1}, NEW e,
         ShortPlace(t, g, x, p, e),
         Shape(t, g), Outside(t, g), Ordered(t, g), Balanced(t, g, h, p, e, x, x)
  PROVE  Whole(t, DeleteOp(x, p, s), g, h)
<1>1. PICK o : o = DeleteOp(x, p, s)
  OBVIOUS
<1>2. /\ o.name = "deleteFixup" /\ o.node = x /\ o.parent = p /\ o.turn = s
      /\ o.name # "none" /\ o.name # "insertFixup"
      /\ o \in [name : {"none", "insertFixup", "deleteFixup"}, node : Ref, parent : Ref,
                turn : {0, 1}]
  BY <1>1 DEF DeleteOp
<1>3. OpRight(t, g, o)
  BY <1>2 DEF OpRight, ShortPlace
<1>4. Balanced(t, g, h, p, ShortOf(t, o), x, x)
  <2>1. CASE p = Nil
    <3>1. ShortOf(t, o) = 0
      BY <1>2, <2>1 DEF ShortOf
    <3> QED BY <2>1, <3>1, SideOfNil
  <2>2. CASE p # Nil
    <3>1. ShortOf(t, o) = e
      BY <1>2, <2>2 DEF ShortOf, ShortPlace, Dirs
    <3> QED BY <3>1
  <2> QED BY <2>1, <2>2
<1>5. Level(t, g, h, p, ShortOf(t, o)) /\ Coloured(t, g, x, x)
  BY <1>4, BalancedIs
<1> QED BY <1>1, <1>2, <1>3, <1>5 DEF Whole

\* The same, read from an op.
LEMMA OpOfDelete ==
  ASSUME NEW t, NEW o, NEW g, NEW h, Whole(t, o, g, h), o.name = "deleteFixup"
  PROVE  /\ ShortPlace(t, g, o.node, o.parent, ShortOf(t, o))
         /\ Balanced(t, g, h, o.parent, ShortOf(t, o), o.node, o.node)
         /\ o.node \in Ref /\ o.parent \in Ref /\ o.turn \in {0, 1}
         /\ o.parent # Nil => ShortOf(t, o) = IF o.node = Child(t, o.parent, 0) THEN 0 ELSE 1
<1>1. /\ o \in [name : {"none", "insertFixup", "deleteFixup"}, node : Ref, parent : Ref,
                turn : {0, 1}]
      /\ IF o.parent = Nil THEN o.node = t.Root
         ELSE In(g, o.parent) /\ \E d \in Dirs : Child(t, o.parent, d) = o.node
      /\ Level(t, g, h, o.parent, ShortOf(t, o)) /\ Coloured(t, g, o.node, o.node)
  BY DEF Whole, OpRight
<1>2. Balanced(t, g, h, o.parent, ShortOf(t, o), o.node, o.node)
  BY <1>1, BalancedIs
<1>3. PICK e : e = ShortOf(t, o)
  OBVIOUS
<1>4. e \in Dirs /\ (o.parent # Nil => e = IF o.node = Child(t, o.parent, 0) THEN 0 ELSE 1)
  BY <1>3 DEF ShortOf, Dirs
<1>5. o.parent # Nil => Child(t, o.parent, e) = o.node /\ (o.node = Child(t, o.parent, 0) => e = 0)
  BY <1>1, <1>4 DEF Dirs
<1> QED BY <1>1, <1>2, <1>3, <1>4, <1>5 DEF ShortPlace

LEMMA OpOfInsert ==
  ASSUME NEW t, NEW o, NEW g, NEW h, Whole(t, o, g, h), o.name = "insertFixup"
  PROVE  /\ o.node \in Nodes /\ In(g, o.node) /\ IsRed(t, o.node) /\ o.parent = Nil
         /\ o.turn \in {0, 1}
         /\ Balanced(t, g, h, Nil, 0, o.node, Nil)
<1>1. /\ o.node # Nil /\ o.node \in Ref /\ In(g, o.node) /\ IsRed(t, o.node) /\ o.parent = Nil
      /\ o.turn \in {0, 1}
  BY DEF Whole, OpRight
<1>2. o.node \in Nodes
  BY <1>1, NilIsNoNode
<1>3. o.name # "deleteFixup" /\ ShortOf(t, o) = 0
  BY DEF ShortOf
<1>4. Level(t, g, h, Nil, 0) /\ Coloured(t, g, o.node, Nil)
  BY <1>1, <1>3 DEF Whole
<1> QED BY <1>1, <1>2, <1>4, BalancedIs

\* A fixup keeps what it does not look at.
LEMMA Carried ==
  ASSUME NEW t, NEW g, Shape(t, g), Outside(t, g), Ordered(t, g), NEW u, NEW k, Moved(t, g, u, k)
  PROVE  /\ Shape(u, k) /\ Outside(u, k) /\ Ordered(u, k)
         /\ \A m \in Nodes : In(k, m) <=> In(g, m)
         /\ \A cu, pe : Iterating(g, cu, pe) => Iterating(k, cu, pe)
         /\ \A l, p, e, x, y : Balanced(u, g, l, p, e, x, y) => Balanced(u, k, l, p, e, x, y)
<1>1. \A m \in Nodes : In(k, m) <=> In(g, m)
  BY MovedKeeps
<1>2. \A l, p, e, x, y : Balanced(u, g, l, p, e, x, y) => Balanced(u, k, l, p, e, x, y)
  BY <1>1 DEF Balanced
<1> QED BY <1>1, <1>2, MovedKeeps

LEMMA InvIs ==
  ASSUME NEW g, NEW h
  PROVE  /\ IInvWith(g, h) <=> Whole(tree, op, g, h) /\ Iterating(g, cursor, pending)
         /\ (Whole(tree, op, g, h) /\ Iterating(g, cursor, pending))' => IInv'
<1>1. IInvWith(g, h) <=> Whole(tree, op, g, h) /\ Iterating(g, cursor, pending)
  BY DEF IInvWith, Whole
<1>2. (Whole(tree, op, g, h) /\ Iterating(g, cursor, pending))' => IInvWith(g, h)'
  BY DEF IInvWith, Whole
<1> QED BY <1>1, <1>2 DEF IInv

\* A step that keeps the nodes, their order and their values.
Kept ==
  \E g, k, l : /\ Shape(tree, g) /\ Moved(tree, g, tree', k)
               /\ (Whole(tree, op, k, l) /\ Iterating(k, cursor, pending))'

LEMMA TurnIs ==
  ASSUME NEW g, NEW h, Whole(tree, op, g, h), NEW n, NEW p
  PROVE  /\ op.name = "insertFixup" => Turn(n, Nil) = InsertOp(n, 1 - op.turn)
         /\ op.name = "deleteFixup" => Turn(n, p) = DeleteOp(n, p, 1 - op.turn)
         /\ op.turn \in {0, 1} /\ 1 - op.turn \in {0, 1}
<1>1. op \in [name : {"none", "insertFixup", "deleteFixup"}, node : Ref, parent : Ref,
              turn : {0, 1}]
  BY DEF Whole, OpRight
<1>2. PICK s : s = 1 - op.turn
  OBVIOUS
<1>3. Turn(n, p) = [op EXCEPT !.node = n, !.parent = p, !.turn = s]
  BY <1>2 DEF Turn
<1>4. Turn(n, p) = [name |-> op.name, node |-> n, parent |-> p, turn |-> s]
  BY <1>1, <1>3
<1>5. Turn(n, Nil) = [op EXCEPT !.node = n, !.parent = Nil, !.turn = s]
  BY <1>2 DEF Turn
<1>6. Turn(n, Nil) = [name |-> op.name, node |-> n, parent |-> Nil, turn |-> s]
  BY <1>1, <1>5
<1>7. op.turn \in {0, 1}
  BY <1>1
<1>8. s \in {0, 1}
  BY <1>2, <1>7
<1>9. op.name = "insertFixup" => Turn(n, Nil) = InsertOp(n, s)
  BY <1>6 DEF InsertOp
<1>10. op.name = "deleteFixup" => Turn(n, p) = DeleteOp(n, p, s)
  BY <1>4 DEF DeleteOp
<1> QED BY <1>2, <1>7, <1>8, <1>9, <1>10

LEMMA InsertRecolorKeeps ==
  ASSUME IInv, InsertRecolor
  PROVE  Kept
<1>1. PICK g, h : Whole(tree, op, g, h) /\ Iterating(g, cursor, pending)
  BY InvIs DEF IInv
<1>2. PICK n : n = op.node
  OBVIOUS
<1>3. /\ n \in Nodes /\ In(g, n) /\ IsRed(tree, n) /\ Balanced(tree, g, h, Nil, 0, n, Nil)
      /\ op.name = "insertFixup"
  BY <1>1, <1>2, OpOfInsert DEF InsertRecolor
<1>4. Shape(tree, g) /\ Outside(tree, g) /\ Ordered(tree, g)
  BY <1>1 DEF Whole
<1>5. PICK p, q, r, u : /\ p = ParentOf(tree, n) /\ q = ParentOf(tree, p)
                        /\ r = Child(tree, q, 1 - Side(tree, p))
                        /\ u = Paint(Paint(Paint(tree, p, Black), r, Black), q, Red)
  OBVIOUS
<1>6. p # Nil /\ IsRed(tree, p) /\ IsRed(tree, r)
  BY <1>2, <1>5 DEF InsertRecolor, RedParent, Uncle, Grandparent
<1>6a. q = Grandparent(n) /\ r = Uncle(n)
  BY <1>5 DEF Uncle, Grandparent
<1>7. tree' = u /\ op' = InsertOp(q, 1 - op.turn) /\ cursor' = cursor /\ pending' = pending
      /\ 1 - op.turn \in {0, 1}
  BY <1>1, <1>2, <1>3, <1>5, <1>6a, TurnIs DEF InsertRecolor
<1>8. /\ q \in Nodes /\ In(g, q) /\ IsRed(u, q)
      /\ Moved(tree, g, u, g)
      /\ \E l : Balanced(u, g, l, Nil, 0, q, Nil)
  BY <1>3, <1>4, <1>5, <1>6, RecolorRight
<1>9. PICK l : Balanced(u, g, l, Nil, 0, q, Nil)
  BY <1>8
<1>10. Shape(u, g) /\ Outside(u, g) /\ Ordered(u, g)
  BY <1>4, <1>8, Carried
<1>11. Whole(u, InsertOp(q, 1 - op.turn), g, l)
  BY <1>7, <1>8, <1>9, <1>10, WholeInsert
<1>12. (Whole(tree, op, g, l) /\ Iterating(g, cursor, pending))'
  BY <1>1, <1>7, <1>11
<1> QED BY <1>4, <1>7, <1>8, <1>12 DEF Kept

\* The two turns of insertFixup at once.
LEMMA RotateRight ==
  ASSUME NEW t, NEW g, Shape(t, g), Outside(t, g), Ordered(t, g), NEW h, NEW n \in Nodes, In(g, n),
         IsRed(t, n), Balanced(t, g, h, Nil, 0, n, Nil),
         NEW p, p = ParentOf(t, n), p # Nil, IsRed(t, p), NEW q, q = ParentOf(t, p),
         NEW d, d = Side(t, p), IsBlack(t, Child(t, q, 1 - d)),
         NEW w, w = (IF n = Child(t, p, 1 - d) THEN Rotate(t, p, d) ELSE t),
         NEW m, m = (IF n = Child(t, p, 1 - d) THEN p ELSE n),
         NEW r, r = ParentOf(w, m), NEW s, s = ParentOf(w, r),
         NEW u, u = Rotate(Paint(Paint(w, r, Black), s, Red), s, 1 - d)
  PROVE  /\ m \in Nodes /\ In(g, m) /\ IsRed(u, m)
         /\ \E k : Moved(t, g, u, k)
         /\ \E l : Balanced(u, g, l, Nil, 0, m, Nil)
<1>0. \A i \in Nodes : i # Nil
  BY NilIsNoNode
<1>1. /\ p \in Nodes /\ In(g, p) /\ p # n
      /\ q \in Nodes /\ In(g, q) /\ q # p /\ q # n /\ IsBlack(t, q)
      /\ Child(t, q, d) = p /\ d \in Dirs
      /\ n # t.Root /\ p # t.Root
  BY RedParentIs
<1>2. \E k : Moved(t, g, w, k) /\ InLine(w, k, m, r, s, d) /\ Balanced(w, k, h, Nil, 0, m, Nil)
             /\ In(g, m)
  <2>1. CASE n = Child(t, p, 1 - d)
    <3>1. Bent(t, g, n, p, q, d)
      BY <2>1 DEF Bent
    <3>2. /\ \E k : Moved(t, g, w, k)
          /\ Balanced(w, g, h, Nil, 0, p, Nil)
          /\ InLine(w, g, p, n, q, d) /\ m = p
      BY <2>1, <3>1, InnerRight
    <3>3. PICK k : Moved(t, g, w, k)
      BY <3>2
    <3>4. r = n /\ s = q
      BY <3>2 DEF InLine
    <3>5. \A i \in Nodes : In(k, i) <=> In(g, i)
      BY <3>3, Carried
    <3>6. Balanced(w, k, h, Nil, 0, m, Nil)
      BY <3>2, <3>3, Carried
    <3>7. InLine(w, k, m, r, s, d)
      BY <3>2, <3>4, <3>5 DEF InLine
    <3> QED BY <1>1, <3>2, <3>3, <3>6, <3>7
  <2>2. CASE n # Child(t, p, 1 - d)
    <3>1. w = t /\ m = n /\ r = p /\ s = q
      BY <2>2
    <3>2. Child(t, p, d) = n
      <4>1. ParentRight(t, g, n)
        BY DEF Shape
      <4>2. Child(t, p, 0) = n \/ Child(t, p, 1) = n
        BY <4>1 DEF ParentRight
      <4> QED BY <1>1, <2>2, <4>2 DEF Dirs
    <3>3. InLine(t, g, n, p, q, d)
      BY <1>1, <3>2 DEF InLine
    <3>4. Moved(t, g, t, g)
      BY DEF Moved
    <3> QED BY <3>1, <3>3, <3>4
  <2> QED BY <2>1, <2>2
<1>3. PICK k : /\ Moved(t, g, w, k) /\ InLine(w, k, m, r, s, d)
               /\ Balanced(w, k, h, Nil, 0, m, Nil) /\ In(g, m)
  BY <1>2
<1>4. Shape(w, k) /\ Outside(w, k) /\ Ordered(w, k) /\ \A i \in Nodes : In(k, i) <=> In(g, i)
  BY <1>3, Carried
<1>5. /\ \E l : Moved(w, k, u, l)
      /\ \E l : Balanced(u, k, l, Nil, 0, m, Nil)
      /\ IsRed(u, m)
  BY <1>3, <1>4, OuterRight
<1>6. \E l : Moved(t, g, u, l)
  BY <1>3, <1>5, MovedTwice
<1>7. \E l : Balanced(u, g, l, Nil, 0, m, Nil)
  <2>1. PICK l : Balanced(u, k, l, Nil, 0, m, Nil)
    BY <1>5
  <2>2. Balanced(u, g, l, Nil, 0, m, Nil)
    BY <1>4, <2>1 DEF Balanced
  <2> QED BY <2>2
<1>8. m \in Nodes
  BY <1>3 DEF InLine
<1> QED BY <1>3, <1>5, <1>6, <1>7, <1>8

LEMMA InsertRotateKeeps ==
  ASSUME IInv, InsertRotate
  PROVE  Kept
<1>1. PICK g, h : Whole(tree, op, g, h) /\ Iterating(g, cursor, pending)
  BY InvIs DEF IInv
<1>2. PICK n : n = op.node
  OBVIOUS
<1>3. /\ n \in Nodes /\ In(g, n) /\ IsRed(tree, n) /\ Balanced(tree, g, h, Nil, 0, n, Nil)
      /\ op.name = "insertFixup"
  BY <1>1, <1>2, OpOfInsert DEF InsertRotate
<1>4. Shape(tree, g) /\ Outside(tree, g) /\ Ordered(tree, g)
  BY <1>1 DEF Whole
<1>5. PICK p, q, d : p = ParentOf(tree, n) /\ q = ParentOf(tree, p) /\ d = Side(tree, p)
  OBVIOUS
<1>6. p # Nil /\ IsRed(tree, p) /\ IsBlack(tree, Child(tree, q, 1 - d))
  BY <1>2, <1>5 DEF InsertRotate, RedParent, Uncle, Grandparent
<1>7. PICK w, m : /\ w = (IF n = Child(tree, p, 1 - d) THEN Rotate(tree, p, d) ELSE tree)
                  /\ m = (IF n = Child(tree, p, 1 - d) THEN p ELSE n)
  OBVIOUS
<1>8. InnerRotation(n, d).t = w /\ InnerRotation(n, d).node = m
  BY <1>5, <1>7 DEF InnerRotation
<1>9. PICK r, s, u : /\ r = ParentOf(w, m) /\ s = ParentOf(w, r)
                     /\ u = Rotate(Paint(Paint(w, r, Black), s, Red), s, 1 - d)
  OBVIOUS
<1>10. tree' = u /\ op' = Turn(m, Nil) /\ cursor' = cursor /\ pending' = pending
  BY <1>2, <1>5, <1>8, <1>9 DEF InsertRotate
<1>11. op' = InsertOp(m, 1 - op.turn) /\ 1 - op.turn \in {0, 1}
  BY <1>1, <1>3, <1>10, TurnIs
<1>12. /\ m \in Nodes /\ In(g, m) /\ IsRed(u, m)
       /\ \E k : Moved(tree, g, u, k)
       /\ \E l : Balanced(u, g, l, Nil, 0, m, Nil)
  BY <1>3, <1>4, <1>5, <1>6, <1>7, <1>9, RotateRight
<1>13. PICK k, l : Moved(tree, g, u, k) /\ Balanced(u, g, l, Nil, 0, m, Nil)
  BY <1>12
<1>14. /\ Shape(u, k) /\ Outside(u, k) /\ Ordered(u, k) /\ In(k, m)
       /\ Balanced(u, k, l, Nil, 0, m, Nil) /\ Iterating(k, cursor, pending)
  BY <1>1, <1>4, <1>12, <1>13, Carried
<1>15. Whole(u, InsertOp(m, 1 - op.turn), k, l)
  BY <1>11, <1>12, <1>14, WholeInsert
<1>16. (Whole(tree, op, k, l) /\ Iterating(k, cursor, pending))'
  BY <1>10, <1>11, <1>14, <1>15
<1> QED BY <1>4, <1>10, <1>13, <1>16 DEF Kept

LEMMA InsertDoneKeeps ==
  ASSUME IInv, InsertDone
  PROVE  Kept
<1>1. PICK g, h : Whole(tree, op, g, h) /\ Iterating(g, cursor, pending)
  BY InvIs DEF IInv
<1>2. PICK n, p, u : n = op.node /\ p = ParentOf(tree, n) /\ u = Paint(tree, tree.Root, Black)
  OBVIOUS
<1>3. /\ n \in Nodes /\ In(g, n) /\ IsRed(tree, n) /\ Balanced(tree, g, h, Nil, 0, n, Nil)
      /\ ~(p # Nil /\ IsRed(tree, p))
  BY <1>1, <1>2, OpOfInsert DEF InsertDone, RedParent
<1>4. Shape(tree, g) /\ Outside(tree, g) /\ Ordered(tree, g)
  BY <1>1 DEF Whole
<1>5. tree' = u /\ op' = Idle /\ cursor' = cursor /\ pending' = pending
  BY <1>2 DEF InsertDone
<1>6. Moved(tree, g, u, g) /\ \E l : Balanced(u, g, l, Nil, 0, Nil, Nil)
  BY <1>2, <1>3, <1>4, InsertDoneRight
<1>7. PICK l : Balanced(u, g, l, Nil, 0, Nil, Nil)
  BY <1>6
<1>8. Shape(u, g) /\ Outside(u, g) /\ Ordered(u, g)
  BY <1>4, <1>6, Carried
<1>9. Whole(u, Idle, g, l)
  BY <1>7, <1>8, WholeIdle
<1>10. (Whole(tree, op, g, l) /\ Iterating(g, cursor, pending))'
  BY <1>1, <1>5, <1>9
<1> QED BY <1>4, <1>5, <1>6, <1>10 DEF Kept

LEMMA DeleteDoneKeeps ==
  ASSUME IInv, DeleteDone
  PROVE  Kept
<1>1. PICK g, h : Whole(tree, op, g, h) /\ Iterating(g, cursor, pending)
  BY InvIs DEF IInv
<1>2. PICK x, p, e, v : /\ x = op.node /\ p = op.parent /\ e = ShortOf(tree, op)
                        /\ v = Paint(tree, x, Black)
  OBVIOUS
<1>3. PICK u : u = Paint(v, tree.Root, Black)
  OBVIOUS
<1>4. /\ ShortPlace(tree, g, x, p, e) /\ Balanced(tree, g, h, p, e, x, x)
      /\ x \in Ref /\ p \in Ref
  BY <1>1, <1>2, OpOfDelete DEF DeleteDone
<1>5. Shape(tree, g) /\ Outside(tree, g) /\ Ordered(tree, g) /\ tree \in Trees
  BY <1>1 DEF Whole, Shape
<1>6. v.Root = tree.Root
  <2>1. Black \in {Red, Black}
    OBVIOUS
  <2> QED BY <1>2, <1>4, <1>5, <2>1, PaintFields
<1>7. tree' = u /\ op' = Idle /\ cursor' = cursor /\ pending' = pending
  BY <1>2, <1>3 DEF DeleteDone
<1>8. ~(x # tree.Root /\ IsBlack(tree, x) /\ p # Nil)
  BY <1>2 DEF DeleteDone, Short
<1>9. e \in Dirs /\ IF p = Nil THEN x = tree.Root ELSE In(g, p) /\ Child(tree, p, e) = x
  BY <1>4 DEF ShortPlace
<1>10. u = Paint(v, v.Root, Black)
  BY <1>3, <1>6
<1>11. Moved(tree, g, u, g) /\ \E l : Balanced(u, g, l, Nil, 0, Nil, Nil)
  BY <1>2, <1>4, <1>5, <1>8, <1>9, <1>10, DeleteDoneRight
<1>12. PICK l : Balanced(u, g, l, Nil, 0, Nil, Nil)
  BY <1>11
<1>13. Shape(u, g) /\ Outside(u, g) /\ Ordered(u, g)
  BY <1>5, <1>11, Carried
<1>14. Whole(u, Idle, g, l)
  BY <1>12, <1>13, WholeIdle
<1>15. (Whole(tree, op, g, l) /\ Iterating(g, cursor, pending))'
  BY <1>1, <1>7, <1>14
<1> QED BY <1>5, <1>7, <1>11, <1>15 DEF Kept

\* What both turns of deleteFixup find once the sibling is black.
LEMMA SiblingTurned ==
  ASSUME NEW g, NEW h, Whole(tree, op, g, h), Short,
         NEW x, x = op.node, NEW p, p = op.parent, NEW e, e = ShortSide,
         NEW w, w = BlackSibling(e)
  PROVE  /\ p \in Nodes /\ e \in Dirs
         /\ \E k, l : Moved(tree, g, w, k) /\ ShortAt(w, k, l, p, e)
         /\ IsBlack(w, Child(w, p, 1 - e))
<1>1. op.name = "deleteFixup" /\ x # tree.Root /\ IsBlack(tree, x) /\ p # Nil
  BY DEF Short
<1>2. e = ShortOf(tree, op)
  BY <1>1 DEF ShortSide, ShortOf
<1>3. /\ ShortPlace(tree, g, x, p, e) /\ Balanced(tree, g, h, p, e, x, x)
      /\ x \in Ref /\ p \in Ref
  BY <1>1, <1>2, OpOfDelete
<1>4. p \in Nodes /\ In(g, p) /\ Child(tree, p, e) = x /\ e \in Dirs
  BY <1>1, <1>3, NilIsNoNode DEF ShortPlace
<1>5. Shape(tree, g) /\ Outside(tree, g) /\ Ordered(tree, g) /\ tree \in Trees
  BY DEF Whole, Shape
<1>6. Balanced(tree, g, h, p, e, Nil, Nil)
  BY <1>1, <1>3, <1>5, Drop
<1>7. ShortAt(tree, g, h, p, e)
  BY <1>1, <1>4, <1>6 DEF ShortAt
<1>8. PICK c : c = Child(tree, p, 1 - e)
  OBVIOUS
<1>9. w = IF IsRed(tree, c) THEN Rotate(Paint(Paint(tree, c, Black), p, Red), p, e) ELSE tree
  BY <1>8 DEF BlackSibling
<1>10. /\ \E k : Moved(tree, g, w, k)
       /\ \E l : ShortAt(w, g, l, p, e)
       /\ IsBlack(w, Child(w, p, 1 - e))
  BY <1>5, <1>7, <1>8, <1>9, BlackSiblingRight
<1>11. PICK k, l : Moved(tree, g, w, k) /\ ShortAt(w, g, l, p, e)
  BY <1>10
<1>12. ShortAt(w, k, l, p, e)
  <2>1. Balanced(w, g, l, p, e, Nil, Nil) => Balanced(w, k, l, p, e, Nil, Nil)
    BY <1>5, <1>11, Carried
  <2>2. In(k, p)
    BY <1>4, <1>5, <1>11, Carried
  <2> QED BY <1>11, <2>1, <2>2 DEF ShortAt
<1> QED BY <1>4, <1>10, <1>11, <1>12

LEMMA DeleteMoveUpKeeps ==
  ASSUME IInv, DeleteMoveUp
  PROVE  Kept
<1>1. PICK g, h : Whole(tree, op, g, h) /\ Iterating(g, cursor, pending)
  BY InvIs DEF IInv
<1>2. PICK p, e, w, s : /\ p = op.parent /\ e = ShortSide /\ w = BlackSibling(e)
                        /\ s = Child(w, p, 1 - e)
  <2>1. PICK e : e = ShortSide
    OBVIOUS
  <2>2. PICK w : w = BlackSibling(e)
    OBVIOUS
  <2> QED BY <2>1, <2>2
<1>3. /\ p \in Nodes /\ e \in Dirs
      /\ \E k, l : Moved(tree, g, w, k) /\ ShortAt(w, k, l, p, e)
      /\ IsBlack(w, s)
  BY <1>1, <1>2, SiblingTurned DEF DeleteMoveUp
<1>4. PICK k, l : Moved(tree, g, w, k) /\ ShortAt(w, k, l, p, e)
  BY <1>3
<1>5. Shape(tree, g) /\ Outside(tree, g) /\ Ordered(tree, g)
  BY <1>1 DEF Whole
<1>6. /\ Shape(w, k) /\ Outside(w, k) /\ Ordered(w, k) /\ w \in Trees
      /\ Iterating(k, cursor, pending)
  BY <1>1, <1>4, <1>5, Carried DEF Shape
<1>7. PICK u, pp, ee : u = Paint(w, s, Red) /\ pp = ParentOf(w, p) /\ ee = Side(w, p)
  OBVIOUS
<1>8. /\ ~RedNephew(w, s) /\ tree' = u /\ op' = Turn(p, pp)
      /\ cursor' = cursor /\ pending' = pending
  BY <1>2, <1>7 DEF DeleteMoveUp, MoveUp
<1>9. op.name = "deleteFixup"
  BY DEF DeleteMoveUp, Short
<1>10. op' = DeleteOp(p, pp, 1 - op.turn) /\ 1 - op.turn \in {0, 1}
  BY <1>1, <1>8, <1>9, TurnIs
<1>11. /\ Moved(w, k, u, k)
       /\ \E m : Balanced(u, k, m, pp, ee, p, p)
  BY <1>2, <1>3, <1>4, <1>6, <1>7, <1>8, MoveUpRight
<1>12. PICK m : Balanced(u, k, m, pp, ee, p, p)
  BY <1>11
<1>13. Shape(u, k) /\ Outside(u, k) /\ Ordered(u, k)
  BY <1>6, <1>11, Carried
<1>14. s \in Ref /\ Red \in {Red, Black} /\ 1 - e \in Dirs
  <2>1. 1 - e \in Dirs
    BY <1>3 DEF Dirs
  <2> QED BY <1>2, <1>3, <1>6, <2>1, FieldTypes
<1>15. u.Root = w.Root /\ \A i \in Nodes, f \in Dirs : Child(u, i, f) = Child(w, i, f)
  BY <1>6, <1>7, <1>14, PaintFields
<1>16. /\ ee \in Dirs /\ pp \in Ref
       /\ pp = Nil <=> p = w.Root
       /\ pp # Nil => pp \in Nodes /\ In(k, pp) /\ pp # p /\ Child(w, pp, ee) = p
                      /\ Child(w, pp, 1 - ee) # p
  <2>1. In(k, p)
    BY <1>4 DEF ShortAt
  <2> QED BY <1>3, <1>6, <1>7, <2>1, SideIs
<1>17. ShortPlace(u, k, p, pp, ee)
  <2>1. pp # Nil => Child(u, pp, ee) = p /\ (p = Child(u, pp, 0) => ee = 0)
    BY <1>15, <1>16 DEF Dirs
  <2> QED BY <1>15, <1>16, <2>1 DEF ShortPlace
<1>18. Whole(u, DeleteOp(p, pp, 1 - op.turn), k, m)
  <2>1. p \in Ref
    BY <1>3 DEF Ref
  <2> QED BY <1>10, <1>12, <1>13, <1>16, <1>17, <2>1, WholeDelete
<1>19. (Whole(tree, op, k, m) /\ Iterating(k, cursor, pending))'
  BY <1>6, <1>8, <1>10, <1>18
<1>20. Moved(tree, g, u, k)
  BY <1>4, <1>11, MovedTwice
<1> QED BY <1>5, <1>8, <1>19, <1>20 DEF Kept

LEMMA DeleteSettleKeeps ==
  ASSUME IInv, DeleteSettle
  PROVE  Kept
<1>1. PICK g, h : Whole(tree, op, g, h) /\ Iterating(g, cursor, pending)
  BY InvIs DEF IInv
<1>2. PICK p, e, w, s : /\ p = op.parent /\ e = ShortSide /\ w = BlackSibling(e)
                        /\ s = Child(w, p, 1 - e)
  <2>1. PICK e : e = ShortSide
    OBVIOUS
  <2>2. PICK w : w = BlackSibling(e)
    OBVIOUS
  <2> QED BY <2>1, <2>2
<1>3. /\ p \in Nodes /\ e \in Dirs
      /\ \E k, l : Moved(tree, g, w, k) /\ ShortAt(w, k, l, p, e)
      /\ IsBlack(w, s)
  BY <1>1, <1>2, SiblingTurned DEF DeleteSettle
<1>4. PICK k, l : Moved(tree, g, w, k) /\ ShortAt(w, k, l, p, e)
  BY <1>3
<1>5. Shape(tree, g) /\ Outside(tree, g) /\ Ordered(tree, g)
  BY <1>1 DEF Whole
<1>6. /\ Shape(w, k) /\ Outside(w, k) /\ Ordered(w, k)
      /\ Iterating(k, cursor, pending)
  BY <1>1, <1>4, <1>5, Carried
<1>7. PICK v, c, o : v = OuterRed(w, p, e) /\ c = Child(v, p, 1 - e) /\ o = Child(v, c, 1 - e)
  <2>1. PICK v : v = OuterRed(w, p, e)
    OBVIOUS
  <2>2. PICK c : c = Child(v, p, 1 - e)
    OBVIOUS
  <2> QED BY <2>1, <2>2
<1>8. PICK a : a = Paint(Paint(Paint(v, c, ColorOf(v, p)), p, Black), o, Black)
  OBVIOUS
<1>9. PICK u : u = Rotate(a, p, e)
  OBVIOUS
<1>10. RedNephew(w, s) /\ Settle(w, e) /\ cursor' = cursor /\ pending' = pending
       /\ op.name = "deleteFixup"
  BY <1>2 DEF DeleteSettle, Short
<1>11. tree' = u /\ op' = Turn(u.Root, Nil)
  BY <1>2, <1>7, <1>8, <1>9, <1>10 DEF Settle, ColorOf
<1>12. op' = DeleteOp(u.Root, Nil, 1 - op.turn) /\ 1 - op.turn \in {0, 1}
  BY <1>1, <1>10, <1>11, TurnIs
<1>13. /\ \E j : Moved(w, k, v, j)
       /\ \E j : ShortAt(v, k, j, p, e)
       /\ IsBlack(v, c) /\ c # Nil /\ IsRed(v, o)
  BY <1>2, <1>3, <1>4, <1>6, <1>7, <1>10, OuterRedRight
<1>14. PICK j, i : Moved(w, k, v, j) /\ ShortAt(v, k, i, p, e)
  BY <1>13
<1>15. Shape(v, j) /\ Outside(v, j) /\ Ordered(v, j) /\ Iterating(j, cursor, pending)
  BY <1>6, <1>14, Carried
<1>16. ShortAt(v, j, i, p, e)
  <2>1. Balanced(v, k, i, p, e, Nil, Nil) => Balanced(v, j, i, p, e, Nil, Nil)
    BY <1>6, <1>14, Carried
  <2>2. In(k, p) => In(j, p)
    BY <1>3, <1>6, <1>14, Carried
  <2> QED BY <1>14, <2>1, <2>2 DEF ShortAt
<1>17. /\ \E z : Moved(v, j, u, z)
       /\ \E z : Balanced(u, j, z, Nil, 0, Nil, Nil)
  BY <1>7, <1>8, <1>9, <1>13, <1>15, <1>16, SettleRight
<1>18. PICK z, y : Moved(v, j, u, z) /\ Balanced(u, j, y, Nil, 0, Nil, Nil)
  BY <1>17
<1>19. /\ Shape(u, z) /\ Outside(u, z) /\ Ordered(u, z) /\ Iterating(z, cursor, pending)
       /\ Balanced(u, z, y, Nil, 0, Nil, Nil) /\ u \in Trees
  BY <1>15, <1>18, Carried DEF Shape
<1>20. u.Root \in Ref /\ Nil \in Ref
  BY <1>19, FieldTypes DEF Ref
<1>21. Balanced(u, z, y, Nil, 0, u.Root, u.Root)
  BY <1>19, Weaken
<1>22. ShortPlace(u, z, u.Root, Nil, 0)
  BY DEF ShortPlace, Dirs
<1>23. Whole(u, DeleteOp(u.Root, Nil, 1 - op.turn), z, y)
  BY <1>12, <1>19, <1>20, <1>21, <1>22, WholeDelete
<1>24. (Whole(tree, op, z, y) /\ Iterating(z, cursor, pending))'
  BY <1>10, <1>11, <1>12, <1>19, <1>23
<1>25. Moved(tree, g, u, z)
  <2>1. Moved(tree, g, v, j)
    BY <1>4, <1>14, MovedTwice
  <2> QED BY <1>18, <2>1, MovedTwice
<1> QED BY <1>5, <1>11, <1>24, <1>25 DEF Kept

\* A step that gives the tree the new node n, with the value v and the
\* number z.
GrewAt(t, g, u, k, n, v, z) ==
  /\ n \in Nodes /\ ~In(g, n) /\ z \in 1 .. Size(g) + 1 /\ Size(k) = Size(g) + 1
  /\ \A i \in 1 .. Size(g) + 1 :
       At(k, i) = IF i < z THEN At(g, i) ELSE IF i = z THEN n ELSE At(g, i - 1)
  /\ \A m \in Nodes : In(k, m) <=> In(g, m) \/ m = n
  /\ \A m \in Nodes : ValueOf(u, m) = IF m = n THEN v ELSE ValueOf(t, m)

Grew(v) ==
  \E g, k, l, n, z : /\ Shape(tree, g) /\ Ordered(tree, g)
                     /\ GrewAt(tree, g, tree', k, n, v, z)
                     /\ (Whole(tree, op, k, l) /\ Iterating(k, cursor, pending))'

\* The numbering of one node.
Single(n) ==
  [node |-> <<n>>, pos |-> [m \in Nodes |-> IF m = n THEN 1 ELSE 0],
   lo |-> [m \in Nodes |-> 1], hi |-> [m \in Nodes |-> 1]]

LEMMA SingleFields ==
  ASSUME NEW n \in Nodes, NEW k, k = Single(n)
  PROVE  /\ k.node \in Seq(Nodes) /\ Size(k) = 1 /\ At(k, 1) = n
         /\ \A m \in Nodes : /\ Pos(k, m) = IF m = n THEN 1 ELSE 0
                             /\ Lo(k, m) = 1 /\ Hi(k, m) = 1
                             /\ In(k, m) <=> m = n
         /\ Numbered(k)
<1>1. k.node = <<n>> /\ k.node \in Seq(Nodes) /\ Len(k.node) = 1 /\ k.node[1] = n
  BY DEF Single
<1>2. Size(k) = 1 /\ At(k, 1) = n
  BY <1>1 DEF Size, At
<1>3. \A m \in Nodes : /\ Pos(k, m) = IF m = n THEN 1 ELSE 0
                       /\ Lo(k, m) = 1 /\ Hi(k, m) = 1
  BY DEF Single, Pos, Lo, Hi
<1>4. \A m \in Nodes : In(k, m) <=> m = n
  BY <1>3 DEF In
<1>5. Numbered(k)
  <2>1. \A i \in 1 .. Size(k) : i = 1
    BY <1>2
  <2>2. \A m \in Nodes : Pos(k, m) \in 0 .. Size(k) /\ Lo(k, m) \in Int /\ Hi(k, m) \in Int
    BY <1>2, <1>3
  <2>3. \A m \in Nodes : In(k, m) => At(k, Pos(k, m)) = m
    BY <1>2, <1>3, <1>4
  <2>4. \A i \in 1 .. Size(k) : At(k, i) \in Nodes /\ Pos(k, At(k, i)) = i
    BY <1>2, <1>3, <2>1
  <2>5. \A m \in Nodes : In(k, m) => Within(k, Pos(k, m), m) /\ 1 <= Lo(k, m) /\ Hi(k, m) <= Size(k)
    BY <1>2, <1>3, <1>4 DEF Within
  <2> QED BY <1>1, <1>2, <2>2, <2>3, <2>4, <2>5 DEF Numbered
<1> QED BY <1>1, <1>2, <1>3, <1>4, <1>5

\* An empty tree has blank nodes only.
LEMMA EmptyIs ==
  ASSUME NEW t, NEW g, Shape(t, g), Outside(t, g), t.Root = Nil
  PROVE  /\ Size(g) = 0 /\ \A m \in Nodes : ~In(g, m)
         /\ \A m \in Nodes : t.at[m] = Blank
         /\ Linked(t) = {}
<1>1. Size(g) = 0
  BY RootFacts
<1>2. \A m \in Nodes : ~In(g, m)
  <2>1. \A m \in Nodes : Pos(g, m) \in Int /\ (In(g, m) => 1 <= Pos(g, m) /\ Pos(g, m) <= 0)
    BY <1>1, NodeFacts
  <2> QED BY <2>1
<1>3. \A m \in Nodes : t.at[m] = Blank
  BY <1>2 DEF Outside
<1> QED BY <1>1, <1>2, <1>3, LinkedIs

LEMMA RootRight1 ==
  ASSUME NEW t \in Trees, \A m \in Nodes : t.at[m] = Blank, NEW n \in Nodes, NEW v \in Keys,
         NEW u, u = [Root |-> n, at |-> [t.at EXCEPT ![n] = Born(v, Black)]],
         NEW k, k = Single(n)
  PROVE  \E l : Whole(u, Idle, k, l)
<1>0. n # Nil /\ n \in Ref
  BY NilIsNoNode DEF Ref
<1>1. PICK r : r = Born(v, Black)
  OBVIOUS
<1>2. /\ r \in [Color : {Red, Black}, Parent : Ref, Childs : [Dirs -> Ref], Value : Keys \cup {Nil}]
      /\ r.Color = Black /\ r.Parent = Nil /\ r.Value = v /\ \A d \in Dirs : r.Childs[d] = Nil
  BY <1>1 DEF Born, Blank, Ref
<1>3. /\ u \in Trees /\ u.Root = n /\ \A m \in Nodes : u.at[m] = IF m = n THEN r ELSE Blank
  BY <1>0, <1>1, <1>2 DEF Trees
<1>4. /\ Size(k) = 1 /\ \A m \in Nodes : /\ Pos(k, m) = IF m = n THEN 1 ELSE 0
                                         /\ Lo(k, m) = 1 /\ Hi(k, m) = 1
                                         /\ In(k, m) <=> m = n
      /\ Numbered(k)
  BY SingleFields
<1>5. /\ ColorOf(u, n) = Black /\ ParentOf(u, n) = Nil /\ ValueOf(u, n) = v
      /\ \A d \in Dirs : Child(u, n, d) = Nil
  <2>1. u.at[n] = r
    BY <1>3
  <2> QED BY <1>2, <2>1 DEF ColorOf, ParentOf, ValueOf, Child
<1>6. Outside(u, k)
  BY <1>3, <1>4 DEF Outside
<1>7. Shape(u, k)
  <2>1. RootRight(u, k)
    BY <1>0, <1>3, <1>4, <1>5 DEF RootRight
  <2>2. \A m \in Nodes : In(k, m) => ParentRight(u, k, m)
    BY <1>3, <1>4, <1>5 DEF ParentRight
  <2>3. ASSUME NEW m \in Nodes, NEW d \in Dirs, In(k, m) PROVE ChildRight(u, k, m, d)
    <3>1. m = n /\ Child(u, m, d) = Nil /\ Pos(k, m) = 1 /\ Lo(k, m) = 1 /\ Hi(k, m) = 1
      BY <1>4, <1>5, <2>3
    <3> QED BY <3>1 DEF ChildRight, Dirs
  <2>4. ASSUME NEW m \in Nodes, NEW d \in Dirs, ~In(k, m) PROVE Child(u, m, d) = Nil
    <3>1. u.at[m] = Blank
      BY <1>6, <2>4 DEF Outside
    <3> QED BY <3>1 DEF Child, Blank
  <2> QED BY <1>3, <1>4, <2>1, <2>2, <2>3, <2>4 DEF Shape
<1>8. Ordered(u, k)
  BY <1>4, <1>5 DEF Ordered
<1>9. PICK l : l = [m \in Nodes |-> 1]
  OBVIOUS
<1>10. Balanced(u, k, l, Nil, 0, Nil, Nil)
  <2>1. l \in [Nodes -> Nat] /\ l[n] = 1
    BY <1>9
  <2>2. Mark(u, n) = 1 /\ IsBlack(u, n) /\ IsBlack(u, Nil)
    BY <1>3, <1>5, ColorIs
  <2>3. ASSUME NEW m \in Nodes, NEW d \in Dirs, In(k, m) PROVE Fine(u, l, m, d, Nil, 0, Nil, Nil)
    <3>1. m = n /\ Child(u, m, d) = Nil
      BY <1>4, <1>5, <2>3
    <3>2. Lack(m, d, Nil, 0) = 0 /\ Height(l, Nil) = 0
      BY <2>1, LackIs, HeightIs
    <3> QED BY <2>1, <2>2, <3>1, <3>2 DEF Fine
  <2> QED BY <1>3, <2>1, <2>2, <2>3 DEF Balanced
<1> QED BY <1>6, <1>7, <1>8, <1>10, WholeIdle

LEMMA InsertRootGrows ==
  ASSUME NEW g, NEW h, Whole(tree, op, g, h), Iterating(g, cursor, pending), op = Idle,
         NEW v \in Keys, Fresh(v) # {}, InsertRoot(v), UNCHANGED <<cursor, pending>>
  PROVE  Grew(v)
<1>1. /\ Shape(tree, g) /\ Outside(tree, g) /\ Ordered(tree, g)
      /\ tree \in Trees /\ tree.Root = Nil
  BY DEF Whole, Shape, InsertRoot
<1>2. PICK n : n = NewNode(v)
  OBVIOUS
<1>3. n \in Nodes
  BY <1>2, NewNodeIs
<1>4. Size(g) = 0 /\ (\A m \in Nodes : ~In(g, m)) /\ \A m \in Nodes : tree.at[m] = Blank
  BY <1>1, EmptyIs
<1>5. PICK k : k = Single(n)
  OBVIOUS
<1>6. PICK u : u = [Root |-> n, at |-> [tree.at EXCEPT ![n] = Born(v, Black)]]
  OBVIOUS
<1>7. tree' = u /\ op' = Idle /\ cursor' = cursor /\ pending' = pending
  BY <1>2, <1>6 DEF InsertRoot
<1>8. \E l : Whole(u, Idle, k, l)
  BY <1>1, <1>3, <1>4, <1>5, <1>6, RootRight1
<1>9. Iterating(k, cursor, pending)
  <2>1. cursor = NoCursor
    BY <1>4 DEF Iterating
  <2> QED BY <2>1 DEF Iterating
<1>10. /\ Size(k) = 1 /\ At(k, 1) = n /\ \A m \in Nodes : In(k, m) <=> m = n
  BY <1>3, <1>5, SingleFields
<1>11. \A m \in Nodes : ValueOf(u, m) = IF m = n THEN v ELSE ValueOf(tree, m)
  <2>1. PICK r : r = Born(v, Black)
    OBVIOUS
  <2>2. r.Value = v
    BY <2>1 DEF Born, Blank
  <2>3. \A m \in Nodes : u.at[m] = IF m = n THEN r ELSE tree.at[m]
    BY <1>1, <1>6, <2>1 DEF Trees
  <2> QED BY <2>2, <2>3 DEF ValueOf
<1>12. GrewAt(tree, g, u, k, n, v, 1)
  <2>1. \A i \in 1 .. Size(g) + 1 : i = 1 /\ At(k, i) = n
    BY <1>4, <1>10
  <2>2. 1 \in 1 .. Size(g) + 1 /\ Size(k) = Size(g) + 1
    BY <1>4, <1>10
  <2>3. \A m \in Nodes : In(k, m) <=> In(g, m) \/ m = n
    BY <1>4, <1>10
  <2> QED BY <1>3, <1>4, <1>11, <2>1, <2>2, <2>3 DEF GrewAt
<1>13. PICK l : Whole(u, Idle, k, l)
  BY <1>8
<1>14. (Whole(tree, op, k, l) /\ Iterating(k, cursor, pending))'
  BY <1>7, <1>9, <1>13
<1> QED BY <1>1, <1>7, <1>12, <1>14 DEF Grew

LEMMA InsertLeafGrows ==
  ASSUME NEW g, NEW h, Whole(tree, op, g, h), Iterating(g, cursor, pending), op = Idle,
         NEW v \in Keys, Fresh(v) # {}, InsertLeaf(v), UNCHANGED <<cursor, pending>>
  PROVE  Grew(v)
<1>1. /\ Shape(tree, g) /\ Outside(tree, g) /\ Ordered(tree, g) /\ tree \in Trees
      /\ Balanced(tree, g, h, Nil, 0, Nil, Nil) /\ tree.Root # Nil
  BY WholeIdle DEF InsertLeaf, Shape
<1>2. PICK n : n = NewNode(v)
  OBVIOUS
<1>3. n \in Nodes /\ ~In(g, n)
  <2>1. n \in Nodes /\ n \notin Linked(tree)
    BY <1>2, NewNodeIs
  <2>2. Linked(tree) = {m \in Nodes : In(g, m)}
    BY <1>1, LinkedIs
  <2> QED BY <2>1, <2>2
<1>4. PICK c \in Nat : Gap(tree, g, v, c)
  BY <1>1, GapExists
<1>5. PICK p : p = SearchEnd(tree, v)
  OBVIOUS
<1>6. PICK w : w = Way(tree, p, v)
  OBVIOUS
<1>7. /\ p \in Nodes /\ In(g, p) /\ Child(tree, p, w) = Nil /\ w \in Dirs
      /\ w = 1 => Pos(g, p) = c
      /\ w = 0 => Pos(g, p) = c + 1
  BY <1>1, <1>4, <1>5, <1>6, SearchEndIs
<1>8. PICK q, z : q = Pos(g, p) /\ z = c + 1
  OBVIOUS
<1>9. Slot(tree, g, n, p, w, q, z)
  BY <1>3, <1>7, <1>8 DEF Slot, Dirs
<1>10. PICK u : u = Link([tree EXCEPT !.at[n] = Born(v, Red)], p, w, n)
  OBVIOUS
<1>11. tree' = u /\ op' = InsertOp(n, 0) /\ cursor' = cursor /\ pending' = pending
  BY <1>2, <1>5, <1>6, <1>10 DEF InsertLeaf, InsertOp
<1>12. Grown(tree, n, v, p, w, u)
  BY <1>1, <1>3, <1>7, <1>10, GrownIs
<1>13. PICK k : k = Wider(g, n, z, q)
  OBVIOUS
<1>14. Shape(u, k) /\ \A m \in Nodes : In(k, m) <=> In(g, m) \/ m = n
  BY <1>1, <1>9, <1>12, <1>13, GrowShape
<1>15. /\ Outside(u, k) /\ Ordered(u, k)
       /\ \E l : Balanced(u, k, l, Nil, 0, n, Nil)
       /\ IsRed(u, n)
       /\ Iterating(k, cursor, pending)
  BY <1>1, <1>4, <1>8, <1>9, <1>12, <1>13, GrowKeeps
<1>16. PICK l : Balanced(u, k, l, Nil, 0, n, Nil)
  BY <1>15
<1>17. Whole(u, InsertOp(n, 0), k, l)
  BY <1>3, <1>14, <1>15, <1>16, WholeInsert
<1>18. GrewAt(tree, g, u, k, n, v, z)
  <2>1. Size(g) \in Nat /\ c <= Size(g) /\ z \in Int /\ 1 <= z /\ z <= Size(g) + 1
    BY <1>1, <1>4, <1>8, NodeFacts DEF Gap
  <2>2. /\ Size(k) = Size(g) + 1
        /\ \A i \in 1 .. Size(g) + 1 :
             At(k, i) = IF i < z THEN At(g, i) ELSE IF i = z THEN n ELSE At(g, i - 1)
    BY <1>1, <1>3, <1>13, <2>1, WiderFields
  <2>3. \A m \in Nodes : ValueOf(u, m) = IF m = n THEN v ELSE ValueOf(tree, m)
    BY <1>12 DEF Grown
  <2> QED BY <1>3, <1>14, <2>1, <2>2, <2>3 DEF GrewAt
<1>19. (Whole(tree, op, k, l) /\ Iterating(k, cursor, pending))'
  BY <1>11, <1>15, <1>17
<1> QED BY <1>1, <1>11, <1>18, <1>19 DEF Grew

(***************************************************************************)
(* insert that replaces a value, and Remove.                               *)
(***************************************************************************)
WithValue(t, v, c) == [t EXCEPT !.at[c].Value = v]

LEMMA SetValue ==
  ASSUME NEW t \in Trees, NEW v \in Keys, NEW c \in Nodes, NEW u,
         u = WithValue(t, v, c)
  PROVE  /\ u \in Trees /\ SameLinks(t, u)
         /\ \A n \in Nodes : /\ ColorOf(u, n) = ColorOf(t, n)
                             /\ ValueOf(u, n) = IF n = c THEN v ELSE ValueOf(t, n)
                             /\ n # c => u.at[n] = t.at[n]
<1> DEFINE r == [t.at[c] EXCEPT !.Value = v]
<1>1. t.at[c] \in [Color : {Red, Black}, Parent : Ref, Childs : [Dirs -> Ref],
                   Value : Keys \cup {Nil}]
  BY DEF Trees
<1>2. /\ r \in [Color : {Red, Black}, Parent : Ref, Childs : [Dirs -> Ref],
                Value : Keys \cup {Nil}]
      /\ r.Color = t.at[c].Color /\ r.Value = v /\ r.Parent = t.at[c].Parent
      /\ r.Childs = t.at[c].Childs
  BY <1>1
<1>3. u = Put(t, c, r)
  BY DEF Trees, Put, WithValue
<1> HIDE DEF r
<1>4. /\ u \in Trees
      /\ u.Root = t.Root
      /\ \A m \in Nodes : u.at[m] = IF m = c THEN r ELSE t.at[m]
  BY <1>2, <1>3, PutFields
<1>5. ASSUME NEW n \in Nodes
      PROVE  /\ ColorOf(u, n) = ColorOf(t, n)
             /\ ValueOf(u, n) = IF n = c THEN v ELSE ValueOf(t, n)
             /\ ParentOf(u, n) = ParentOf(t, n)
  <2>1. u.at[n] = IF n = c THEN r ELSE t.at[n]
    BY <1>4
  <2> QED BY <1>2, <2>1 DEF ColorOf, ValueOf, ParentOf
<1>6. ASSUME NEW n \in Nodes, NEW e \in Dirs
      PROVE  Child(u, n, e) = Child(t, n, e)
  <2>1. u.at[n] = IF n = c THEN r ELSE t.at[n]
    BY <1>4
  <2> QED BY <1>2, <2>1 DEF Child
<1>7. SameLinks(t, u)
  BY <1>4, <1>5, <1>6 DEF SameLinks
<1> QED BY <1>4, <1>5, <1>7

\* The node replaced is the last that v comes after, or else the first.
LEMMA ReplacedIs ==
  ASSUME NEW g, Shape(tree, g), Ordered(tree, g), NEW v \in Keys, NEW c, Gap(tree, g, v, c),
         tree.Root # Nil, NEW n, n = Replaced(v)
  PROVE  n \in Nodes /\ In(g, n) /\ (Pos(g, n) = c \/ (c = 0 /\ Pos(g, n) = 1))
<1>1. PICK a, b : a = LastTurn(tree, v, 1) /\ b = LastTurn(tree, v, 0)
  OBVIOUS
<1>2. /\ a = IF c = 0 THEN Nil ELSE At(g, c)
      /\ b = IF c = Size(g) THEN Nil ELSE At(g, c + 1)
  <2>1. 1 \in Dirs /\ 0 \in Dirs
    BY DEF Dirs
  <2>2. a = IF 1 = 1 THEN (IF c = 0 THEN Nil ELSE At(g, c))
            ELSE IF c = Size(g) THEN Nil ELSE At(g, c + 1)
    BY <1>1, <2>1, LastTurnIs
  <2>3. b = IF 0 = 1 THEN (IF c = 0 THEN Nil ELSE At(g, c))
            ELSE IF c = Size(g) THEN Nil ELSE At(g, c + 1)
    BY <1>1, <2>1, LastTurnIs
  <2> QED BY <2>2, <2>3
<1>3. /\ Size(g) \in Nat /\ c \in Nat /\ c <= Size(g) /\ Size(g) # 0
      /\ \A i \in 1 .. Size(g) : At(g, i) \in Nodes /\ Pos(g, At(g, i)) = i /\ In(g, At(g, i))
      /\ \A m \in Nodes : m # Nil
  <2>1. Size(g) # 0
    <3>1. In(g, tree.Root) /\ tree.Root \in Nodes
      BY RootFacts
    <3>2. \A m \in Nodes : In(g, m) => 1 <= Pos(g, m) /\ Pos(g, m) <= Size(g) /\ Pos(g, m) \in Int
      BY NodeFacts
    <3>3. Size(g) \in Nat
      BY NodeFacts
    <3> QED BY <3>1, <3>2, <3>3
  <2>2. Numbered(g)
    BY DEF Shape
  <2>3. \A i \in 1 .. Size(g) : At(g, i) \in Nodes /\ Pos(g, At(g, i)) = i
    BY <2>2 DEF Numbered
  <2>4. \A i \in 1 .. Size(g) : In(g, At(g, i))
    <3>1. \A i \in 1 .. Size(g) : Pos(g, At(g, i)) > 0
      BY <2>3
    <3> QED BY <3>1 DEF In
  <2> QED BY <2>1, <2>3, <2>4, NodeFacts, NilIsNoNode DEF Gap
<1>4. CASE c = 0
  <2>1. b = At(g, 1) /\ 1 \in 1 .. Size(g) /\ a = Nil
    BY <1>2, <1>3, <1>4
  <2>2. b \in Nodes /\ In(g, b) /\ Pos(g, b) = 1 /\ b # Nil
    BY <1>3, <2>1
  <2>3. v < ValueOf(tree, b)
    BY <1>3, <1>4, <2>2 DEF Gap
  <2>4. n = IF ~(ValueOf(tree, b) < v) THEN b ELSE Nil
    BY <1>1, <2>1, <2>2 DEF Replaced
  <2>5. ~(ValueOf(tree, b) < v)
    <3>1. ValueOf(tree, b) \in Int /\ v \in Int
      <4>1. ValueOf(tree, b) \in Keys
        BY <2>2 DEF Ordered
      <4> QED BY <4>1, RBTreeAssumption
    <3> QED BY <2>3, <3>1
  <2> QED BY <1>4, <2>2, <2>4, <2>5
<1>5. CASE c # 0
  <2>1. a = At(g, c) /\ c \in 1 .. Size(g)
    BY <1>2, <1>3, <1>5
  <2>2. a \in Nodes /\ In(g, a) /\ Pos(g, a) = c /\ a # Nil
    BY <1>3, <2>1
  <2>3. ~(v < ValueOf(tree, a))
    BY <1>3, <2>2 DEF Gap
  <2>4. n = a
    BY <1>1, <2>2, <2>3 DEF Replaced
  <2> QED BY <2>2, <2>4
<1> QED BY <1>4, <1>5

\* A step that keeps the nodes and their order.
Revalued ==
  \E g, l : Shape(tree, g) /\ (Whole(tree, op, g, l) /\ Iterating(g, cursor, pending))'

LEMMA InsertReplaces ==
  ASSUME NEW g, NEW h, Whole(tree, op, g, h), Iterating(g, cursor, pending), op = Idle,
         NEW v \in Keys, InsertReplace(v), UNCHANGED <<cursor, pending>>
  PROVE  Revalued
<1>1. /\ Shape(tree, g) /\ Outside(tree, g) /\ Ordered(tree, g) /\ tree \in Trees
      /\ Balanced(tree, g, h, Nil, 0, Nil, Nil) /\ tree.Root # Nil
  BY WholeIdle DEF InsertReplace, Shape
<1>2. PICK c \in Nat : Gap(tree, g, v, c)
  BY <1>1, GapExists
<1>3. PICK n : n = Replaced(v)
  OBVIOUS
<1>4. n \in Nodes /\ In(g, n) /\ (Pos(g, n) = c \/ (c = 0 /\ Pos(g, n) = 1))
  BY <1>1, <1>2, <1>3, ReplacedIs
<1>5. PICK u : u = WithValue(tree, v, n)
  OBVIOUS
<1>6. tree' = u /\ op' = Idle /\ cursor' = cursor /\ pending' = pending
  BY <1>3, <1>5 DEF InsertReplace, WithValue
<1>7. /\ u \in Trees /\ SameLinks(tree, u)
      /\ \A m \in Nodes : /\ ColorOf(u, m) = ColorOf(tree, m)
                          /\ ValueOf(u, m) = IF m = n THEN v ELSE ValueOf(tree, m)
                          /\ m # n => u.at[m] = tree.at[m]
  BY <1>1, <1>4, <1>5, SetValue
<1>8. Shape(u, g)
  BY <1>1, <1>7, SameShape
<1>9. Outside(u, g)
  BY <1>1, <1>4, <1>7 DEF Outside
<1>10. Balanced(u, g, h, Nil, 0, Nil, Nil)
  BY <1>1, <1>7, SameColors
<1>11. Ordered(u, g)
  <2>1. \A m \in Nodes : In(g, m) => ValueOf(u, m) \in Keys
    BY <1>1, <1>7 DEF Ordered
  <2>2. Keys \subseteq Int /\ \A m \in Nodes : Pos(g, m) \in Int
    BY <1>1, RBTreeAssumption, NodeFacts
  <2>3. ASSUME NEW a \in Nodes, NEW b \in Nodes, In(g, a), In(g, b), Pos(g, a) < Pos(g, b)
        PROVE  ValueOf(u, a) <= ValueOf(u, b)
    <3>0. /\ ValueOf(tree, a) \in Int /\ ValueOf(tree, b) \in Int /\ v \in Int
          /\ ValueOf(tree, a) <= ValueOf(tree, b)
      BY <1>1, <2>2, <2>3 DEF Ordered
    <3>1. /\ ValueOf(tree, a) \in Int /\ ValueOf(tree, b) \in Int /\ v \in Int
          /\ ValueOf(tree, a) <= ValueOf(tree, b)
          /\ v < ValueOf(tree, a) <=> c < Pos(g, a)
          /\ v < ValueOf(tree, b) <=> c < Pos(g, b)
          /\ Pos(g, a) \in Int /\ Pos(g, b) \in Int /\ 1 <= Pos(g, a) /\ 1 <= Pos(g, b)
      BY <1>1, <1>2, <2>2, <2>3, <3>0, NodeFacts DEF Gap
    <3>2. CASE a = n
      <4>1. ValueOf(u, a) = v /\ ValueOf(u, b) = ValueOf(tree, b)
        BY <1>7, <2>3, <3>1, <3>2
      <4>2. c < Pos(g, b)
        BY <1>4, <2>3, <3>1, <3>2
      <4> QED BY <3>1, <4>1, <4>2
    <3>3. CASE b = n
      <4>1. ValueOf(u, b) = v /\ ValueOf(u, a) = ValueOf(tree, a)
        BY <1>7, <2>3, <3>1, <3>3
      <4>2. ~(c < Pos(g, a))
        BY <1>4, <2>3, <3>1, <3>3
      <4> QED BY <3>1, <4>1, <4>2
    <3>4. CASE a # n /\ b # n
      BY <1>7, <3>1, <3>4
    <3> QED BY <3>2, <3>3, <3>4
  <2> QED BY <2>1, <2>3 DEF Ordered
<1>12. Whole(u, Idle, g, h)
  BY <1>8, <1>9, <1>10, <1>11, WholeIdle
<1>13. (Whole(tree, op, g, h) /\ Iterating(g, cursor, pending))'
  BY <1>6, <1>12
<1> QED BY <1>1, <1>13 DEF Revalued

\* A step that takes n out of the tree.
Dropped(n) ==
  \E g, k, l : /\ Shape(tree, g) /\ Ordered(tree, g)
               /\ In(g, n) /\ Shifted(g, k, Pos(g, n))
               /\ \A m \in Nodes : In(k, m) <=> In(g, m) /\ m # n
               /\ \A m \in Nodes : m # n => ValueOf(tree', m) = ValueOf(tree, m)
               /\ (Whole(tree, op, k, l) /\ Iterating(k, cursor, pending))'

LEMMA UnlinkedIs ==
  ASSUME NEW t, NEW g, Shape(t, g), Outside(t, g), Ordered(t, g),
         NEW h, Balanced(t, g, h, Nil, 0, Nil, Nil), NEW n \in Nodes, In(g, n),
         NEW r, r = Unlinked(t, n)
  PROVE  \E k, l, e : Severed(t, g, n, r.t, k) /\ Left(r, k, l, e)
<1>1. CASE Child(t, n, 0) = Nil \/ Child(t, n, 1) = Nil
  <2>1. r = RemoveWithOneChild(t, n)
    BY <1>1 DEF Unlinked
  <2> QED BY <1>1, <2>1, UnlinkOneChild
<1>2. CASE ~(Child(t, n, 0) = Nil \/ Child(t, n, 1) = Nil)
  <2>1. r = RemoveWithTwoChildren(t, n)
    BY <1>2 DEF Unlinked
  <2> QED BY <1>2, <2>1, UnlinkTwoChildren
<1> QED BY <1>1, <1>2

LEMMA RemoveDrops ==
  ASSUME NEW g, NEW h, Whole(tree, op, g, h), Iterating(g, cursor, pending),
         NEW n \in Linked(tree), Remove(n)
  PROVE  n \in Nodes /\ Dropped(n)
<1>0. op = Idle /\ n # cursor.node
  BY DEF Remove
<1>1. /\ Shape(tree, g) /\ Outside(tree, g) /\ Ordered(tree, g) /\ tree \in Trees
      /\ Balanced(tree, g, h, Nil, 0, Nil, Nil)
  BY <1>0, WholeIdle DEF Shape
<1>2. n \in Nodes /\ In(g, n)
  BY <1>1, LinkedIs
<1>3. PICK r : r = Unlinked(tree, n)
  OBVIOUS
<1>4. PICK k, l, e : Severed(tree, g, n, r.t, k) /\ Left(r, k, l, e)
  BY <1>1, <1>2, <1>3, UnlinkedIs
<1>5. PICK u : u = r.t
  OBVIOUS
<1>6. PICK s : s = Linked(tree) \ Linked(u)
  OBVIOUS
<1>7. PICK w : w = Cleared(u, s)
  OBVIOUS
<1>8. /\ tree' = w /\ cursor' = cursor /\ pending' = pending \ {n}
      /\ op' = IF r.lost = Black THEN DeleteOp(r.x, r.xParent, 0) ELSE Idle
  BY <1>3, <1>5, <1>6, <1>7 DEF Remove, Cleared, DeleteOp
<1>9. Severed(tree, g, n, u, k)
  BY <1>4, <1>5
<1>10. /\ Shape(w, k) /\ Outside(w, k) /\ Ordered(w, k)
       /\ \A m \in Nodes : m # n => ValueOf(w, m) = ValueOf(tree, m)
       /\ w.Root = u.Root
       /\ \A m \in Nodes, d \in Dirs : m # n => Child(w, m, d) = Child(u, m, d)
       /\ \A j, p, f, x, y : Balanced(u, k, j, p, f, x, y) => Balanced(w, k, j, p, f, x, y)
       /\ \A cu, pe : Iterating(g, cu, pe) /\ n # cu.node => Iterating(k, cu, pe \ {n})
  BY <1>6, <1>7, <1>9, ClearedKeeps
<1>11. Iterating(k, cursor, pending \ {n})
  BY <1>0, <1>10
<1>12. \E j : Whole(w, IF r.lost = Black THEN DeleteOp(r.x, r.xParent, 0) ELSE Idle, k, j)
  <2>1. CASE r.lost = Black
    <3>1. PICK x, p : x = r.x /\ p = r.xParent
      OBVIOUS
    <3>2. /\ e \in Dirs /\ x \in Ref /\ p \in Ref
          /\ Balanced(u, k, l, p, e, x, x)
          /\ p = Nil => x = u.Root
          /\ p # Nil => In(k, p) /\ Child(u, p, e) = x /\ (x = Child(u, p, 0) => e = 0)
      BY <1>4, <1>5, <2>1, <3>1 DEF Left
    <3>3. p # Nil => p \in Nodes /\ p # n
      BY <1>9, <3>2, NilIsNoNode DEF Severed
    <3>4. 0 \in Dirs
      BY DEF Dirs
    <3>5. p # Nil => Child(w, p, e) = Child(u, p, e) /\ Child(w, p, 0) = Child(u, p, 0)
      BY <1>10, <3>2, <3>3, <3>4
    <3>6. ShortPlace(w, k, x, p, e)
      BY <1>10, <3>2, <3>5 DEF ShortPlace
    <3>7. Balanced(w, k, l, p, e, x, x)
      BY <1>10, <3>2
    <3>8. Whole(w, DeleteOp(x, p, 0), k, l)
      BY <1>10, <3>2, <3>6, <3>7, WholeDelete
    <3> QED BY <2>1, <3>1, <3>8
  <2>2. CASE r.lost # Black
    <3>1. Balanced(u, k, l, Nil, 0, Nil, Nil)
      BY <1>4, <1>5, <2>2 DEF Left
    <3>2. Balanced(w, k, l, Nil, 0, Nil, Nil)
      BY <1>10, <3>1
    <3>3. Whole(w, Idle, k, l)
      BY <1>10, <3>2, WholeIdle
    <3> QED BY <2>2, <3>3
  <2> QED BY <2>1, <2>2
<1>13. PICK j : Whole(w, IF r.lost = Black THEN DeleteOp(r.x, r.xParent, 0) ELSE Idle, k, j)
  BY <1>12
<1>14. (Whole(tree, op, k, j) /\ Iterating(k, cursor, pending))'
  BY <1>8, <1>11, <1>13
<1>15. Shifted(g, k, Pos(g, n)) /\ \A m \in Nodes : In(k, m) <=> In(g, m) /\ m # n
  BY <1>9 DEF Severed
<1> QED BY <1>1, <1>2, <1>8, <1>10, <1>14, <1>15 DEF Dropped

(***************************************************************************)
(* The empty tree, and the iterations.                                     *)
(***************************************************************************)
Empty == [Root |-> Nil, at |-> [n \in Nodes |-> Blank]]
Nobody == [node |-> <<>>, pos |-> [m \in Nodes |-> 0], lo |-> [m \in Nodes |-> 0],
           hi |-> [m \in Nodes |-> 0]]

LEMMA EmptyRight ==
  ASSUME NEW u, u = Empty
  PROVE  \E k, l : Whole(u, Idle, k, l) /\ Size(k) = 0 /\ Iterating(k, NoCursor, {})
<1>1. PICK k : k = Nobody
  OBVIOUS
<1>2. /\ k.node \in Seq(Nodes) /\ Size(k) = 0
      /\ \A m \in Nodes : Pos(k, m) = 0 /\ Lo(k, m) = 0 /\ Hi(k, m) = 0
  <2>1. k.node = <<>> /\ k.node \in Seq(Nodes) /\ Len(k.node) = 0
    BY <1>1 DEF Nobody
  <2>2. \A m \in Nodes : Pos(k, m) = 0 /\ Lo(k, m) = 0 /\ Hi(k, m) = 0
    BY <1>1 DEF Nobody, Pos, Lo, Hi
  <2> QED BY <2>1, <2>2 DEF Size
<1>3. \A m \in Nodes : ~In(k, m)
  BY <1>2 DEF In
<1>4. Numbered(k)
  <2>1. \A m \in Nodes : Pos(k, m) \in 0 .. Size(k) /\ Lo(k, m) \in Int /\ Hi(k, m) \in Int
    BY <1>2
  <2>2. 1 .. Size(k) = {} /\ Size(k) \in Nat
    BY <1>2
  <2> QED BY <1>2, <1>3, <2>1, <2>2 DEF Numbered
<1>5. /\ u \in Trees /\ u.Root = Nil /\ \A m \in Nodes : u.at[m] = Blank
  <2>1. Blank \in [Color : {Red, Black}, Parent : Ref, Childs : [Dirs -> Ref],
                   Value : Keys \cup {Nil}]
    BY DEF Blank, Ref
  <2> QED BY <2>1 DEF Empty, Trees, Ref
<1>6. Outside(u, k)
  BY <1>5 DEF Outside
<1>7. Shape(u, k)
  <2>1. RootRight(u, k)
    BY <1>2, <1>5 DEF RootRight
  <2>2. ASSUME NEW m \in Nodes, NEW d \in Dirs PROVE Child(u, m, d) = Nil
    <3>1. u.at[m] = Blank
      BY <1>5
    <3> QED BY <3>1 DEF Child, Blank
  <2> QED BY <1>3, <1>4, <1>5, <2>1, <2>2 DEF Shape
<1>8. Ordered(u, k)
  BY <1>3 DEF Ordered
<1>9. PICK l : l = [m \in Nodes |-> 0]
  OBVIOUS
<1>10. Balanced(u, k, l, Nil, 0, Nil, Nil)
  <2>1. l \in [Nodes -> Nat]
    BY <1>9
  <2> QED BY <1>3, <1>5, <2>1 DEF Balanced
<1>11. Iterating(k, NoCursor, {})
  BY DEF Iterating
<1> QED BY <1>2, <1>6, <1>7, <1>8, <1>10, <1>11, WholeIdle

Emptied ==
  \E k, l : /\ tree'.Root = Nil /\ Size(k) = 0
            /\ (Whole(tree, op, k, l) /\ Iterating(k, cursor, pending))'

LEMMA ClearEmpties ==
  ASSUME NEW g, NEW h, Whole(tree, op, g, h), Iterating(g, cursor, pending), Clear
  PROVE  Emptied
<1>1. /\ op = Idle /\ cursor = NoCursor /\ tree' = Empty
      /\ op' = op /\ cursor' = cursor /\ pending' = pending
  BY DEF Clear, Empty
<1>2. pending = {}
  BY <1>1 DEF Iterating
<1>3. PICK u : u = Empty
  OBVIOUS
<1>4. PICK k, l : Whole(u, Idle, k, l) /\ Size(k) = 0 /\ Iterating(k, NoCursor, {})
  BY <1>3, EmptyRight
<1>5. (Whole(tree, op, k, l) /\ Iterating(k, cursor, pending))'
  BY <1>1, <1>2, <1>3, <1>4
<1>6. tree'.Root = Nil
  BY <1>1 DEF Empty
<1> QED BY <1>4, <1>5, <1>6 DEF Emptied

LEMMA InitIsRight ==
  Init => \E g, h : Whole(tree, op, g, h) /\ Iterating(g, cursor, pending) /\ Size(g) = 0
<1> SUFFICES ASSUME Init PROVE \E g, h : /\ Whole(tree, op, g, h) /\ Iterating(g, cursor, pending)
                                         /\ Size(g) = 0
  OBVIOUS
<1>1. tree = Empty /\ op = Idle /\ cursor = NoCursor /\ pending = {}
  BY DEF Init, Empty
<1>2. PICK u : u = Empty
  OBVIOUS
<1> QED BY <1>1, <1>2, EmptyRight

\* A step that leaves the tree alone.
LEMMA TreeAlone ==
  ASSUME NEW g, NEW h, Whole(tree, op, g, h), tree' = tree, op' = op,
         Iterating(g, cursor, pending)'
  PROVE  Kept
<1>1. Shape(tree, g)
  BY DEF Whole
<1>2. Moved(tree, g, tree', g)
  BY <1>1 DEF Moved
<1>3. Whole(tree, op, g, h)'
  OBVIOUS
<1> QED BY <1>1, <1>2, <1>3 DEF Kept

LEMMA CursorIs ==
  ASSUME NEW n \in Nodes, NEW d \in Dirs, NEW c, c = [node |-> n, dir |-> d]
  PROVE  c # NoCursor /\ c \in [node : Nodes, dir : Dirs] /\ c.node = n /\ c.dir = d
<1>1. NoCursor.node = Nil /\ n # Nil /\ c.node = n /\ c.dir = d
  BY NilIsNoNode DEF NoCursor
<1>2. c # NoCursor
  BY <1>1
<1> QED BY <1>1, <1>2

LEMMA IterKeeps ==
  ASSUME NEW g, NEW h, Whole(tree, op, g, h), NEW d \in IterDirs, Iter(d)
  PROVE  Kept
<1>1. Shape(tree, g) /\ tree.Root # Nil /\ tree' = tree /\ op' = op
  BY DEF Whole, Iter
<1>2. d \in Dirs /\ 1 - d \in Dirs
  BY RBTreeAssumption DEF Dirs
<1>3. PICK e, r : e = 1 - d /\ r = tree.Root
  OBVIOUS
<1>4. /\ r \in Nodes /\ In(g, r) /\ Lo(g, r) = 1 /\ Hi(g, r) = Size(g)
      /\ Size(g) \in Nat /\ 1 <= Size(g)
  <2>1. r \in Nodes /\ In(g, r) /\ Lo(g, r) = 1 /\ Hi(g, r) = Size(g)
    BY <1>1, <1>3, RootFacts
  <2>2. Size(g) \in Nat /\ 1 <= Lo(g, r) /\ Lo(g, r) <= Pos(g, r) /\ Pos(g, r) <= Hi(g, r)
        /\ Pos(g, r) \in Int
    BY <1>1, <2>1, NodeFacts
  <2> QED BY <2>1, <2>2
<1>5. PICK n : n = Extreme(tree, r, e)
  OBVIOUS
<1>6. n = At(g, IF d = 1 THEN 1 ELSE Size(g))
  <2>1. n = At(g, End(g, r, e))
    BY <1>1, <1>2, <1>3, <1>4, <1>5, ExtremeIs
  <2>2. End(g, r, e) = IF d = 1 THEN 1 ELSE Size(g)
    BY <1>2, <1>3, <1>4 DEF End, Dirs
  <2> QED BY <2>1, <2>2
<1>7. /\ n \in Nodes /\ In(g, n) /\ Pos(g, n) = IF d = 1 THEN 1 ELSE Size(g)
  <2>1. PICK i : i = IF d = 1 THEN 1 ELSE Size(g)
    OBVIOUS
  <2>2. i \in Int /\ 1 <= i /\ i <= Size(g) /\ n = At(g, i)
    BY <1>4, <1>6, <2>1
  <2> QED BY <1>1, <2>1, <2>2, NodeFacts
<1>8. PICK c : c = [node |-> n, dir |-> d]
  OBVIOUS
<1>9. c # NoCursor /\ c \in [node : Nodes, dir : Dirs] /\ c.node = n /\ c.dir = d
  BY <1>2, <1>7, <1>8, CursorIs
<1>10. cursor' = c
  BY <1>3, <1>5, <1>8 DEF Iter
<1>11. pending' = Linked(tree) \ {n}
  BY <1>9, <1>10 DEF Iter
<1>12. Iterating(g, c, Linked(tree) \ {n})
  <2>1. Linked(tree) = {m \in Nodes : In(g, m)}
    BY <1>1, LinkedIs
  <2>2. ASSUME NEW m \in Linked(tree) \ {n}
        PROVE  /\ m \in Nodes /\ In(g, m)
               /\ IF d = 1 THEN Pos(g, m) > Pos(g, n) ELSE Pos(g, m) < Pos(g, n)
    <3>1. m \in Nodes /\ In(g, m) /\ m # n
      BY <2>1
    <3>2. Pos(g, m) # Pos(g, n)
      BY <1>1, <1>7, <3>1, SamePos
    <3>3. /\ Pos(g, m) \in Int /\ Pos(g, n) \in Int /\ 1 <= Pos(g, m) /\ Pos(g, m) <= Size(g)
      <4>1. /\ Pos(g, m) \in Int /\ Pos(g, n) \in Int /\ Lo(g, m) \in Int /\ Hi(g, m) \in Int
            /\ 1 <= Lo(g, m) /\ Lo(g, m) <= Pos(g, m) /\ Pos(g, m) <= Hi(g, m)
            /\ Hi(g, m) <= Size(g)
        BY <1>1, <1>7, <3>1, NodeFacts
      <4> QED BY <1>4, <4>1
    <3> QED BY <1>4, <1>7, <3>1, <3>2, <3>3
  <2> QED BY <1>7, <1>9, <2>2 DEF Iterating
<1>13. Iterating(g, cursor, pending)'
  BY <1>10, <1>11, <1>12
<1> QED BY <1>1, <1>13, TreeAlone

LEMMA AdvanceKeeps ==
  ASSUME NEW g, NEW h, Whole(tree, op, g, h), Iterating(g, cursor, pending), Advance
  PROVE  Kept
<1>1. /\ Shape(tree, g) /\ Outside(tree, g) /\ tree' = tree /\ op' = op /\ cursor # NoCursor
  BY DEF Whole, Advance
<1>2. PICK n, d : n = cursor.node /\ d = cursor.dir
  OBVIOUS
<1>3. /\ n \in Nodes /\ d \in Dirs /\ In(g, n) /\ cursor = [node |-> n, dir |-> d]
      /\ \A m \in pending : m \in Nodes /\ In(g, m) /\
           IF d = 1 THEN Pos(g, m) > Pos(g, n) ELSE Pos(g, m) < Pos(g, n)
  BY <1>1, <1>2 DEF Iterating
<1>4. PICK b : b = Neighbour(tree, n, d)
  OBVIOUS
<1>5. /\ cursor' = IF b = Nil THEN NoCursor ELSE [cursor EXCEPT !.node = b]
      /\ pending' = pending \ {b}
  BY <1>2, <1>4 DEF Advance
<1>6. b = Beside(g, n, d)
  BY <1>1, <1>3, <1>4, NeighbourIs
<1>7. PICK q, s : q = Pos(g, n) /\ s = Size(g)
  OBVIOUS
<1>8. q \in Int /\ s \in Nat /\ 1 <= q /\ q <= s
  <2>1. /\ q \in Int /\ s \in Nat /\ Lo(g, n) \in Int /\ Hi(g, n) \in Int
        /\ 1 <= Lo(g, n) /\ Lo(g, n) <= q /\ q <= Hi(g, n) /\ Hi(g, n) <= s
    BY <1>1, <1>3, <1>7, NodeFacts
  <2> QED BY <2>1
<1>9. \A m \in Nodes : In(g, m) => Pos(g, m) \in Int /\ 1 <= Pos(g, m) /\ Pos(g, m) <= s
  <2>1. \A m \in Nodes : In(g, m) =>
          /\ Pos(g, m) \in Int /\ Lo(g, m) \in Int /\ Hi(g, m) \in Int
          /\ 1 <= Lo(g, m) /\ Lo(g, m) <= Pos(g, m) /\ Pos(g, m) <= Hi(g, m) /\ Hi(g, m) <= s
    BY <1>1, <1>7, NodeFacts
  <2> QED BY <1>8, <2>1
<1>10. PICK i : i = IF d = 1 THEN q + 1 ELSE q - 1
  OBVIOUS
<1>11. IF i \in 1 .. s THEN b = At(g, i) /\ b \in Nodes /\ In(g, b) /\ Pos(g, b) = i ELSE b = Nil
  <2>1. CASE i \in 1 .. s
    <3>1. b = At(g, i)
      BY <1>3, <1>6, <1>7, <1>8, <1>10, <2>1 DEF Beside, Dirs
    <3>2. i \in Int /\ 1 <= i /\ i <= Size(g)
      BY <1>7, <1>8, <2>1
    <3> QED BY <1>1, <2>1, <3>1, <3>2, NodeFacts
  <2>2. CASE i \notin 1 .. s
    <3>1. b = Nil
      BY <1>3, <1>6, <1>7, <1>8, <1>10, <2>2 DEF Beside, Dirs
    <3> QED BY <2>2, <3>1
  <2> QED BY <2>1, <2>2
<1>12. CASE i \notin 1 .. s
  <2>1. b = Nil
    BY <1>11, <1>12
  <2>2. pending = {}
    <3> SUFFICES ASSUME NEW m \in pending PROVE FALSE
      OBVIOUS
    <3>1. /\ m \in Nodes /\ In(g, m)
          /\ IF d = 1 THEN Pos(g, m) > q ELSE Pos(g, m) < q
      BY <1>3, <1>7
    <3> QED BY <1>8, <1>9, <1>10, <1>12, <3>1
  <2>3. cursor' = NoCursor /\ pending' = {}
    BY <1>5, <2>1, <2>2
  <2>4. Iterating(g, cursor, pending)'
    BY <2>3 DEF Iterating
  <2> QED BY <1>1, <2>4, TreeAlone
<1>13. CASE i \in 1 .. s
  <2>1. b = At(g, i) /\ b \in Nodes /\ In(g, b) /\ Pos(g, b) = i /\ b # Nil
    BY <1>11, <1>13, NilIsNoNode
  <2>2. PICK c : c = [node |-> b, dir |-> d]
    OBVIOUS
  <2>3. c # NoCursor /\ c \in [node : Nodes, dir : Dirs] /\ c.node = b /\ c.dir = d
    BY <1>3, <2>1, <2>2, CursorIs
  <2>4. cursor' = c
    BY <1>3, <1>5, <2>1, <2>2
  <2>5. ASSUME NEW m \in pending \ {b}
        PROVE  /\ m \in Nodes /\ In(g, m)
               /\ IF d = 1 THEN Pos(g, m) > Pos(g, b) ELSE Pos(g, m) < Pos(g, b)
    <3>1. /\ m \in Nodes /\ In(g, m) /\ m # b
          /\ IF d = 1 THEN Pos(g, m) > q ELSE Pos(g, m) < q
      BY <1>3, <1>7
    <3>2. Pos(g, m) # i
      BY <1>1, <2>1, <3>1, SamePos
    <3>3. IF d = 1 THEN Pos(g, m) > i ELSE Pos(g, m) < i
      BY <1>8, <1>9, <1>10, <3>1, <3>2
    <3> QED BY <2>1, <3>1, <3>3
  <2>6. Iterating(g, c, pending \ {b})
    BY <2>1, <2>3, <2>5 DEF Iterating
  <2>7. Iterating(g, cursor, pending)'
    BY <1>5, <2>4, <2>6
  <2> QED BY <1>1, <2>7, TreeAlone
<1> QED BY <1>12, <1>13

LEMMA BreakKeeps ==
  ASSUME NEW g, NEW h, Whole(tree, op, g, h), Break
  PROVE  Kept
<1>1. tree' = tree /\ op' = op /\ cursor' = NoCursor /\ pending' = {}
  BY DEF Break
<1>2. Iterating(g, cursor, pending)'
  BY <1>1 DEF Iterating
<1> QED BY <1>1, <1>2, TreeAlone

LEMMA NothingKeeps ==
  ASSUME NEW g, NEW h, Whole(tree, op, g, h), Iterating(g, cursor, pending), UNCHANGED vars
  PROVE  Kept
<1>1. tree' = tree /\ op' = op /\ cursor' = cursor /\ pending' = pending
  BY DEF vars
<1>2. Iterating(g, cursor, pending)'
  BY <1>1
<1> QED BY <1>1, <1>2, TreeAlone

(***************************************************************************)
(* Every step is of one of five kinds, and each keeps the invariant.       *)
(***************************************************************************)
StepIs ==
  \/ Kept
  \/ \E v \in Keys : Grew(v)
  \/ TRUE \in Overrides /\ Revalued
  \/ \E n \in Nodes : Dropped(n)
  \/ Emptied

LEMMA InsertIs ==
  ASSUME NEW g, NEW h, Whole(tree, op, g, h), Iterating(g, cursor, pending),
         NEW v \in Keys, NEW o \in Overrides, Insert(v, o)
  PROVE  StepIs
<1>1. /\ op = Idle /\ Fresh(v) # {} /\ UNCHANGED <<cursor, pending>>
      /\ InsertRoot(v) \/ (o /\ InsertReplace(v)) \/ InsertLeaf(v)
  BY DEF Insert
<1>2. CASE InsertRoot(v)
  <2>1. Grew(v)
    BY <1>1, <1>2, InsertRootGrows
  <2> QED BY <2>1 DEF StepIs
<1>3. CASE o /\ InsertReplace(v)
  <2>1. Revalued
    BY <1>1, <1>3, InsertReplaces
  <2>2. TRUE \in Overrides
    <3>1. o \in BOOLEAN
      BY RBTreeAssumption
    <3>2. o = TRUE
      BY <1>3, <3>1
    <3> QED BY <3>2
  <2> QED BY <2>1, <2>2 DEF StepIs
<1>4. CASE InsertLeaf(v)
  <2>1. Grew(v)
    BY <1>1, <1>4, InsertLeafGrows
  <2> QED BY <2>1 DEF StepIs
<1> QED BY <1>1, <1>2, <1>3, <1>4

LEMMA EachStep ==
  ASSUME IInv, [Next]_vars
  PROVE  StepIs
<1>1. PICK g, h : Whole(tree, op, g, h) /\ Iterating(g, cursor, pending)
  BY InvIs DEF IInv
<1>2. ASSUME NEW v \in Keys, NEW o \in Overrides, Insert(v, o) PROVE StepIs
  BY <1>1, <1>2, InsertIs
<1>3. ASSUME NEW n \in Linked(tree), Remove(n) PROVE StepIs
  <2>1. n \in Nodes /\ Dropped(n)
    BY <1>1, <1>3, RemoveDrops
  <2> QED BY <2>1 DEF StepIs
<1>4. CASE Fixup
  <2>1. Kept
    BY <1>4, InsertRecolorKeeps, InsertRotateKeeps, InsertDoneKeeps, DeleteMoveUpKeeps,
       DeleteSettleKeeps, DeleteDoneKeeps DEF Fixup
  <2> QED BY <2>1 DEF StepIs
<1>5. CASE Clear
  <2>1. Emptied
    BY <1>1, <1>5, ClearEmpties
  <2> QED BY <2>1 DEF StepIs
<1>6. ASSUME NEW d \in IterDirs, Iter(d) PROVE StepIs
  <2>1. Kept
    BY <1>1, <1>6, IterKeeps
  <2> QED BY <2>1 DEF StepIs
<1>7. CASE Advance
  <2>1. Kept
    BY <1>1, <1>7, AdvanceKeeps
  <2> QED BY <2>1 DEF StepIs
<1>8. CASE Break
  <2>1. Kept
    BY <1>1, <1>8, BreakKeeps
  <2> QED BY <2>1 DEF StepIs
<1>9. CASE UNCHANGED vars
  <2>1. Kept
    BY <1>1, <1>9, NothingKeeps
  <2> QED BY <2>1 DEF StepIs
<1> QED BY <1>2, <1>3, <1>4, <1>5, <1>6, <1>7, <1>8, <1>9 DEF Next

LEMMA StepKeepsInv ==
  ASSUME StepIs
  PROVE  IInv'
<1>1. \E k, l : (Whole(tree, op, k, l) /\ Iterating(k, cursor, pending))'
  BY DEF StepIs, Kept, Grew, Revalued, Dropped, Emptied
<1>2. PICK k, l : (Whole(tree, op, k, l) /\ Iterating(k, cursor, pending))'
  BY <1>1
<1> QED BY <1>2, InvIs

\* The invariant: some numbering of the nodes from left to right gives the
\* tree its shape, its order and its balance, save where the fixup under way
\* is at work, and what the iteration owes lies ahead of it.
THEOREM RBTreeInvariant == Spec => []IInv
<1>1. Init => IInv
  <2> SUFFICES ASSUME Init PROVE IInv
    OBVIOUS
  <2>1. PICK g, h : Whole(tree, op, g, h) /\ Iterating(g, cursor, pending)
    BY InitIsRight
  <2> QED BY <2>1, InvIs DEF IInv
<1>2. IInv /\ [Next]_vars => IInv'
  BY EachStep, StepKeepsInv
<1> QED BY <1>1, <1>2, PTL DEF Spec

LEMMA TypesHold == IInv => RBTypeOK
<1> SUFFICES ASSUME IInv PROVE RBTypeOK
  OBVIOUS
<1>1. PICK g, h : Whole(tree, op, g, h) /\ Iterating(g, cursor, pending)
  BY InvIs DEF IInv
<1>2. Shape(tree, g) /\ tree \in Trees
  BY <1>1 DEF Whole, Shape
<1>3. /\ tree.Root \in Ref
      /\ tree.at \in [Nodes -> [Color : {Red, Black}, Parent : Ref,
                                Childs : [Dirs -> Ref], Value : Keys \cup {Nil}]]
  BY <1>2 DEF Trees
<1>4. op \in [name : {"none", "insertFixup", "deleteFixup"}, node : Ref, parent : Ref,
              turn : {0, 1}]
  BY <1>1 DEF Whole, OpRight
<1>5. cursor \in [node : Ref, dir : Dirs]
  <2>1. CASE cursor = NoCursor
    BY <2>1 DEF NoCursor, Ref, Dirs
  <2>2. CASE cursor # NoCursor
    <3>1. cursor \in [node : Nodes, dir : Dirs]
      BY <1>1, <2>2 DEF Iterating
    <3> QED BY <3>1 DEF Ref
  <2> QED BY <2>1, <2>2
<1>6. Linked(tree) = {n \in Nodes : In(g, n)}
  BY <1>2, LinkedIs
<1>7. pending \subseteq Linked(tree)
  BY <1>1, <1>6 DEF Iterating
<1>8. ASSUME NEW i \in DOMAIN InOrder, NEW j \in DOMAIN InOrder, InOrder[i] = InOrder[j]
      PROVE  i = j
  <2>1. PICK s : s = InOrder
    OBVIOUS
  <2>2. s = [a \in 1 .. Size(g) |-> At(g, a)]
    BY <1>2, <2>1, InOrderIs
  <2>3. i \in 1 .. Size(g) /\ j \in 1 .. Size(g) /\ At(g, i) = At(g, j)
    BY <1>8, <2>1, <2>2
  <2>4. Size(g) \in Nat
    BY <1>2, NodeFacts
  <2>5. i \in Int /\ 1 <= i /\ i <= Size(g) /\ j \in Int /\ 1 <= j /\ j <= Size(g)
    BY <2>3, <2>4
  <2> QED BY <1>2, <2>3, <2>5, NodeFacts
<1>9. ASSUME NEW n \in Linked(tree), NEW d \in Dirs, Child(tree, n, d) # Nil
      PROVE  ParentOf(tree, Child(tree, n, d)) = n
  <2>1. n \in Nodes /\ In(g, n)
    BY <1>6
  <2>2. ChildRight(tree, g, n, d)
    BY <1>2, <2>1 DEF Shape
  <2> QED BY <1>9, <2>2 DEF ChildRight
<1> QED BY <1>3, <1>4, <1>5, <1>7, <1>8, <1>9 DEF RBTypeOK

\* Every variable keeps its type and the pointers of the tree agree, whatever
\* insert, Remove, their fixups and Clear do to it.
THEOREM RBTypeCorrect == Spec => []RBTypeOK
BY RBTreeInvariant, TypesHold, PTL

LEMMA RedBlackHolds == IInv => RedBlack
<1> SUFFICES ASSUME IInv, op = Idle PROVE RedBlack
  BY DEF RedBlack
<1>1. PICK g, h : Whole(tree, op, g, h)
  BY InvIs DEF IInv
<1>2. /\ Shape(tree, g) /\ Ordered(tree, g)
      /\ Balanced(tree, g, h, Nil, 0, Nil, Nil)
  BY <1>1, WholeIdle
<1>3. Level(tree, g, h, Nil, 0) /\ Coloured(tree, g, Nil, Nil)
  BY <1>2, BalancedIs
<1>4. Linked(tree) = {n \in Nodes : In(g, n)}
  BY <1>2, LinkedIs
<1>5. IsBlack(tree, tree.Root)
  BY <1>3 DEF Coloured, IsBlack
<1>6. ASSUME NEW n \in Linked(tree), NEW d \in Dirs, IsRed(tree, n)
      PROVE  IsBlack(tree, Child(tree, n, d))
  <2>1. n \in Nodes /\ In(g, n) /\ n # Nil
    BY <1>4, NilIsNoNode
  <2>2. CASE Child(tree, n, d) = Nil
    BY <2>2 DEF IsBlack
  <2>3. CASE Child(tree, n, d) # Nil
    BY <1>3, <1>6, <2>1, <2>3 DEF Coloured
  <2> QED BY <2>2, <2>3
<1>7. ASSUME NEW v \in Keys
      PROVE  IF \E n \in Linked(tree) : ValueOf(tree, n) = v
             THEN Find(tree, v) # Nil /\ ValueOf(tree, Find(tree, v)) = v
             ELSE Find(tree, v) = Nil
  <2>1. (\E n \in Linked(tree) : ValueOf(tree, n) = v)
          <=> \E n \in Nodes : In(g, n) /\ ValueOf(tree, n) = v
    BY <1>4
  <2> QED BY <1>2, <2>1, FindIs
<1>8. Cardinality({Height(h, tree.Root)}) = 1
  BY FS_Singleton
<1>9. (CHOOSE f : f = [m \in Ref |->
         IF m = Nil THEN {0}
         ELSE {b + (IF IsBlack(tree, m) THEN 1 ELSE 0) :
                 b \in f[Child(tree, m, 0)] \cup f[Child(tree, m, 1)]}])[tree.Root]
        = {Height(h, tree.Root)}
  BY <1>2, <1>3, BlacksAre
<1>10. Cardinality((CHOOSE f : f = [m \in Ref |->
         IF m = Nil THEN {0}
         ELSE {b + (IF IsBlack(tree, m) THEN 1 ELSE 0) :
                 b \in f[Child(tree, m, 0)] \cup f[Child(tree, m, 1)]}])[tree.Root]) = 1
  BY <1>8, <1>9
<1> QED BY <1>5, <1>6, <1>7, <1>10 DEF RedBlack

\* Between operations the tree is a red-black tree and Find answers for every
\* value whether the tree holds it: no sequence of inserts, removals, clears
\* and iterations, and no rotation of a fixup, leaves it otherwise.
THEOREM TreeIsRedBlack == Spec => []RedBlack
BY RBTreeInvariant, RedBlackHolds, PTL

LEMMA IterationHolds == IInv => IterationMissesNothing
<1> SUFFICES ASSUME IInv PROVE IterationMissesNothing
  OBVIOUS
<1>1. PICK g, h : Whole(tree, op, g, h) /\ Iterating(g, cursor, pending)
  BY InvIs DEF IInv
<1>2. Shape(tree, g)
  BY <1>1 DEF Whole
<1>3. CASE cursor = NoCursor
  BY <1>1, <1>3 DEF Iterating, IterationMissesNothing
<1>4. CASE cursor # NoCursor
  <2>1. /\ cursor.node \in Nodes /\ In(g, cursor.node)
        /\ \A n \in pending : n \in Nodes /\ In(g, n) /\
             IF cursor.dir = 1 THEN Pos(g, n) > Pos(g, cursor.node)
             ELSE Pos(g, n) < Pos(g, cursor.node)
    BY <1>1, <1>4 DEF Iterating
  <2>2. Place(cursor.node) = Pos(g, cursor.node)
    BY <1>2, <2>1, InOrderIs
  <2>3. \A n \in pending : Place(n) = Pos(g, n)
    BY <1>2, <2>1, InOrderIs
  <2> QED BY <1>4, <2>1, <2>2, <2>3 DEF IterationMissesNothing
<1> QED BY <1>3, <1>4

\* An iteration whose body inserts and removes still yields every node that
\* was in the tree when it began and is not removed before its turn: what it
\* owes is ahead of it, and it owes nothing when it ends.
THEOREM IterationIsWhole == Spec => []IterationMissesNothing
BY RBTreeInvariant, IterationHolds, PTL

(***************************************************************************)
(* The nodes a caller holds, and the sorted list.                          *)
(***************************************************************************)
LEMMA WholeNext ==
  ASSUME NEW k, NEW l, (Whole(tree, op, k, l) /\ Iterating(k, cursor, pending))',
         NEW u, u = tree'
  PROVE  Shape(u, k) /\ Ordered(u, k) /\ Linked(u) = {m \in Nodes : In(k, m)}
<1>1. Shape(u, k) /\ Ordered(u, k)
  BY DEF Whole
<1> QED BY <1>1, LinkedIs

LEMMA HandlesStep ==
  ASSUME StepIs, tree'.Root # Nil
  PROVE  /\ Cardinality(Linked(tree) \ Linked(tree')) <= 1
         /\ Linked(tree) \ Linked(tree') # {} =>
              \A n \in Linked(tree') : ValueOf(tree, n) = ValueOf(tree', n)
<1>0. PICK u : u = tree'
  OBVIOUS
<1>1. ASSUME Linked(tree) \subseteq Linked(u)
      PROVE  Cardinality(Linked(tree) \ Linked(u)) <= 1 /\ Linked(tree) \ Linked(u) = {}
  <2>1. Linked(tree) \ Linked(u) = {}
    BY <1>1
  <2>2. Cardinality(Linked(tree) \ Linked(u)) = 0
    BY <2>1, FS_EmptySet
  <2> QED BY <2>1, <2>2
<1>2. CASE Kept
  <2>1. PICK g, k, l : /\ Shape(tree, g) /\ Moved(tree, g, u, k)
                       /\ (Whole(tree, op, k, l) /\ Iterating(k, cursor, pending))'
    BY <1>0, <1>2 DEF Kept
  <2>2. Linked(u) = {m \in Nodes : In(k, m)} /\ Linked(tree) = {m \in Nodes : In(g, m)}
    BY <1>0, <2>1, WholeNext, LinkedIs
  <2>3. \A m \in Nodes : In(k, m) <=> In(g, m)
    BY <2>1 DEF Moved, In, Pos
  <2> QED BY <1>0, <1>1, <2>2, <2>3
<1>3. ASSUME NEW v \in Keys, Grew(v)
      PROVE  Linked(tree) \subseteq Linked(u)
  <2>1. PICK g, k, l, n, z : /\ Shape(tree, g) /\ GrewAt(tree, g, u, k, n, v, z)
                             /\ (Whole(tree, op, k, l) /\ Iterating(k, cursor, pending))'
    BY <1>0, <1>3 DEF Grew
  <2>2. Linked(u) = {m \in Nodes : In(k, m)} /\ Linked(tree) = {m \in Nodes : In(g, m)}
    BY <1>0, <2>1, WholeNext, LinkedIs
  <2>3. \A m \in Nodes : In(g, m) => In(k, m)
    BY <2>1 DEF GrewAt
  <2> QED BY <2>2, <2>3
<1>4. CASE Revalued
  <2>1. PICK g, l : /\ Shape(tree, g)
                    /\ (Whole(tree, op, g, l) /\ Iterating(g, cursor, pending))'
    BY <1>4 DEF Revalued
  <2>2. Linked(u) = {m \in Nodes : In(g, m)} /\ Linked(tree) = {m \in Nodes : In(g, m)}
    BY <1>0, <2>1, WholeNext, LinkedIs
  <2> QED BY <1>0, <1>1, <2>2
<1>5. ASSUME NEW n \in Nodes, Dropped(n)
      PROVE  /\ Cardinality(Linked(tree) \ Linked(u)) <= 1
             /\ \A m \in Linked(u) : ValueOf(tree, m) = ValueOf(u, m)
  <2>1. PICK g, k, l : /\ Shape(tree, g) /\ In(g, n)
                       /\ \A m \in Nodes : In(k, m) <=> In(g, m) /\ m # n
                       /\ \A m \in Nodes : m # n => ValueOf(u, m) = ValueOf(tree, m)
                       /\ (Whole(tree, op, k, l) /\ Iterating(k, cursor, pending))'
    BY <1>0, <1>5 DEF Dropped
  <2>2. Linked(u) = {m \in Nodes : In(k, m)} /\ Linked(tree) = {m \in Nodes : In(g, m)}
    BY <1>0, <2>1, WholeNext, LinkedIs
  <2>3. Linked(tree) \ Linked(u) = {n}
    BY <2>1, <2>2
  <2>4. Cardinality(Linked(tree) \ Linked(u)) = 1
    BY <2>3, FS_Singleton
  <2>5. \A m \in Linked(u) : m \in Nodes /\ m # n
    BY <2>1, <2>2
  <2> QED BY <2>1, <2>4, <2>5
<1>6. ~Emptied
  BY DEF Emptied
<1> QED BY <1>0, <1>1, <1>2, <1>3, <1>4, <1>5, <1>6 DEF StepIs

\* A step unlinks at most one node, and then every node left in the tree
\* keeps its value: the *Node a caller holds stays the node of its value.
THEOREM HandlesAreValid == Spec => HandlesStayValid
<1>1. IInv /\ [Next]_vars =>
        [op = Idle /\ tree'.Root # Nil =>
           /\ Cardinality(Linked(tree) \ Linked(tree')) <= 1
           /\ (Linked(tree) \ Linked(tree') # {} =>
                 \A n \in Linked(tree') : ValueOf(tree, n) = ValueOf(tree', n))]_vars
  <2> SUFFICES ASSUME IInv, [Next]_vars, tree'.Root # Nil
               PROVE  /\ Cardinality(Linked(tree) \ Linked(tree')) <= 1
                      /\ (Linked(tree) \ Linked(tree') # {} =>
                            \A n \in Linked(tree') : ValueOf(tree, n) = ValueOf(tree', n))
    OBVIOUS
  <2>1. StepIs
    BY EachStep
  <2> QED BY <2>1, HandlesStep
<1> QED BY <1>1, RBTreeInvariant, PTL DEF HandlesStayValid, Spec

LEMMA InsertedIs ==
  ASSUME NEW S, NEW s \in Seq(S), NEW v \in S, NEW n, n = Len(s), NEW z \in 1 .. n + 1, NEW w,
         w = [i \in 1 .. n + 1 |-> IF i < z THEN s[i] ELSE IF i = z THEN v ELSE s[i - 1]]
  PROVE  w = SubSeq(s, 1, z - 1) \o <<v>> \o SubSeq(s, z, n)
<1>0. n \in Nat /\ z \in Int /\ 1 <= z /\ z <= n + 1 /\ \A i \in 1 .. n : s[i] \in S
  BY ElementOfSeq
<1>1. PICK a, p, q : a = z - 1 /\ p = SubSeq(s, 1, a) /\ q = SubSeq(s, z, n)
  OBVIOUS
<1>2. a \in Nat /\ a <= n /\ z = a + 1
  BY <1>0, <1>1
<1>3. p \in Seq(S) /\ Len(p) = a /\ \A i \in 1 .. a : p[i] = s[i]
  <2>1. /\ p \in Seq(S) /\ Len(p) = IF 1 <= a THEN a - 1 + 1 ELSE 0
        /\ \A i \in 1 .. a - 1 + 1 : p[i] = s[1 + i - 1]
    BY <1>0, <1>1, <1>2, SubSeqProperties
  <2> QED BY <1>2, <2>1
<1>4. q \in Seq(S) /\ Len(q) = n - a /\ \A i \in 1 .. n - a : q[i] = s[a + i]
  <2>1. /\ q \in Seq(S) /\ Len(q) = IF z <= n THEN n - z + 1 ELSE 0
        /\ \A i \in 1 .. n - z + 1 : q[i] = s[z + i - 1]
    BY <1>0, <1>1, <1>2, SubSeqProperties
  <2>2. Len(q) = n - a
    BY <1>0, <1>2, <2>1
  <2>3. ASSUME NEW i \in 1 .. n - a PROVE q[i] = s[a + i]
    <3>1. i \in 1 .. n - z + 1 /\ z + i - 1 = a + i
      BY <1>0, <1>2
    <3> QED BY <2>1, <3>1
  <2> QED BY <2>1, <2>2, <2>3
<1>5. PICK u : u = p \o <<v>> \o q
  OBVIOUS
<1>6. /\ u \in Seq(S) /\ Len(u) = n + 1
      /\ \A i \in 1 .. n + 1 : u[i] = IF i <= a THEN p[i] ELSE IF i = a + 1 THEN v ELSE q[i - (a + 1)]
  <2>1. /\ u \in Seq(S)
        /\ Len(u) = Len(p) + 1 + Len(q)
        /\ \A i \in 1 .. Len(u) : u[i] = IF i <= Len(p) THEN p[i]
                                         ELSE IF i = Len(p) + 1 THEN v ELSE q[i - (Len(p) + 1)]
    BY <1>3, <1>4, <1>5, Glue
  <2>2. Len(u) = n + 1
    BY <1>0, <1>2, <1>3, <1>4, <2>1
  <2> QED BY <1>3, <2>1, <2>2
<1>7. ASSUME NEW i \in 1 .. n + 1
      PROVE  u[i] = IF i < z THEN s[i] ELSE IF i = z THEN v ELSE s[i - 1]
  <2>1. CASE i < z
    <3>1. i \in 1 .. a /\ i <= a
      BY <1>0, <1>2, <2>1
    <3> QED BY <1>3, <1>6, <2>1, <3>1
  <2>2. CASE i = z
    <3>1. ~(i <= a) /\ i = a + 1
      BY <1>2, <2>2
    <3> QED BY <1>0, <1>6, <2>2, <3>1
  <2>3. CASE i > z
    <3>1. PICK j : j = i - (a + 1)
      OBVIOUS
    <3>2. ~(i <= a) /\ i # a + 1 /\ j \in 1 .. n - a /\ a + j = i - 1 /\ ~(i < z) /\ i # z
      BY <1>0, <1>2, <2>3, <3>1
    <3>3. u[i] = q[j] /\ q[j] = s[a + j]
      BY <1>4, <1>6, <3>1, <3>2
    <3> QED BY <3>2, <3>3
  <2> QED BY <1>0, <2>1, <2>2, <2>3
<1>8. w = u
  <2>1. u = [i \in 1 .. n + 1 |-> u[i]]
    BY <1>6, LenProperties
  <2> QED BY <1>7, <2>1
<1> QED BY <1>1, <1>5, <1>8

LEMMA RemovedIs ==
  ASSUME NEW S, NEW s \in Seq(S), NEW n, n = Len(s), NEW z \in 1 .. n, NEW w,
         w = [i \in 1 .. n - 1 |-> IF i < z THEN s[i] ELSE s[i + 1]]
  PROVE  w = SubSeq(s, 1, z - 1) \o SubSeq(s, z + 1, n)
<1>0. n \in Nat /\ z \in Int /\ 1 <= z /\ z <= n /\ \A i \in 1 .. n : s[i] \in S
  BY ElementOfSeq
<1>1. PICK a, b, p, q : a = z - 1 /\ b = z + 1 /\ p = SubSeq(s, 1, a) /\ q = SubSeq(s, b, n)
  OBVIOUS
<1>2. a \in Nat /\ a < n /\ z = a + 1 /\ b = a + 2 /\ b \in Int
  BY <1>0, <1>1
<1>3. p \in Seq(S) /\ Len(p) = a /\ \A i \in 1 .. a : p[i] = s[i]
  <2>1. /\ p \in Seq(S) /\ Len(p) = IF 1 <= a THEN a - 1 + 1 ELSE 0
        /\ \A i \in 1 .. a - 1 + 1 : p[i] = s[1 + i - 1]
    BY <1>0, <1>1, <1>2, SubSeqProperties
  <2> QED BY <1>2, <2>1
<1>4. q \in Seq(S) /\ Len(q) = n - z /\ \A i \in 1 .. n - z : q[i] = s[z + i]
  <2>1. /\ q \in Seq(S) /\ Len(q) = IF b <= n THEN n - b + 1 ELSE 0
        /\ \A i \in 1 .. n - b + 1 : q[i] = s[b + i - 1]
    BY <1>0, <1>1, <1>2, SubSeqProperties
  <2>2. Len(q) = n - z
    BY <1>0, <1>2, <2>1
  <2>3. ASSUME NEW i \in 1 .. n - z PROVE q[i] = s[z + i]
    <3>1. i \in 1 .. n - b + 1 /\ b + i - 1 = z + i
      BY <1>0, <1>2
    <3> QED BY <2>1, <3>1
  <2> QED BY <2>1, <2>2, <2>3
<1>5. PICK u : u = p \o q
  OBVIOUS
<1>6. /\ u \in Seq(S) /\ Len(u) = n - 1
      /\ \A i \in 1 .. n - 1 : u[i] = IF i <= a THEN p[i] ELSE q[i - a]
  <2>1. /\ u \in Seq(S)
        /\ Len(u) = Len(p) + Len(q)
        /\ \A i \in 1 .. Len(p) + Len(q) : u[i] = IF i <= Len(p) THEN p[i] ELSE q[i - Len(p)]
    BY <1>3, <1>4, <1>5, ConcatProperties
  <2>2. Len(p) + Len(q) = n - 1
    BY <1>0, <1>2, <1>3, <1>4
  <2> QED BY <1>3, <2>1, <2>2
<1>7. ASSUME NEW i \in 1 .. n - 1
      PROVE  u[i] = IF i < z THEN s[i] ELSE s[i + 1]
  <2>1. CASE i < z
    <3>1. i \in 1 .. a /\ i <= a
      BY <1>0, <1>2, <2>1
    <3> QED BY <1>3, <1>6, <2>1, <3>1
  <2>2. CASE ~(i < z)
    <3>1. PICK j : j = i - a
      OBVIOUS
    <3>2. ~(i <= a) /\ j \in 1 .. n - z /\ z + j = i + 1
      BY <1>0, <1>2, <2>2, <3>1
    <3>3. u[i] = q[j] /\ q[j] = s[z + j]
      BY <1>4, <1>6, <3>1, <3>2
    <3> QED BY <2>2, <3>2, <3>3
  <2> QED BY <1>0, <2>1, <2>2
<1>8. w = u
  <2>1. u = [i \in 1 .. n - 1 |-> u[i]]
    BY <1>6, LenProperties
  <2> QED BY <1>7, <2>1
<1> QED BY <1>1, <1>5, <1>8

\* The contents as a list of integers.
LEMMA ContentsList ==
  ASSUME NEW t, NEW g, Shape(t, g), Ordered(t, g), NEW s, s = ContentsOf(t)
  PROVE  /\ s \in Seq(Keys) /\ Len(s) = Size(g) /\ Size(g) \in Nat
         /\ s = [i \in 1 .. Size(g) |-> ValueOf(t, At(g, i))]
         /\ \A i, j \in 1 .. Size(g) : i <= j => s[i] <= s[j]
<1>1. s = [i \in 1 .. Size(g) |-> ValueOf(t, At(g, i))]
  BY ContentsIs
<1>2. /\ Size(g) \in Nat
      /\ \A i \in 1 .. Size(g) : At(g, i) \in Nodes /\ Pos(g, At(g, i)) = i /\ In(g, At(g, i))
  BY NodeFacts
<1>3. \A i \in 1 .. Size(g) : ValueOf(t, At(g, i)) \in Keys
  BY <1>2 DEF Ordered
<1>4. s \in [1 .. Size(g) -> Keys]
  BY <1>1, <1>3
<1>5. s \in Seq(Keys) /\ Len(s) = Size(g)
  BY <1>2, <1>4, ListOf
<1>6. ASSUME NEW i \in 1 .. Size(g), NEW j \in 1 .. Size(g), i <= j PROVE s[i] <= s[j]
  <2>1. PICK a, b : a = At(g, i) /\ b = At(g, j)
    OBVIOUS
  <2>2. /\ a \in Nodes /\ b \in Nodes /\ In(g, a) /\ In(g, b) /\ Pos(g, a) = i /\ Pos(g, b) = j
        /\ s[i] = ValueOf(t, a) /\ s[j] = ValueOf(t, b)
    BY <1>1, <1>2, <2>1
  <2>3. s[i] \in Int
    BY <1>4, RBTreeAssumption
  <2>4. CASE i = j
    BY <2>3, <2>4
  <2>5. CASE i # j
    <3>1. i < j
      BY <1>2, <1>6, <2>5
    <3> QED BY <2>2, <3>1 DEF Ordered
  <2> QED BY <2>4, <2>5
<1> QED BY <1>1, <1>2, <1>5, <1>6

LEMMA GrewResult ==
  ASSUME NEW t, NEW g, Shape(t, g), Ordered(t, g), NEW u, NEW k, Shape(u, k), Ordered(u, k),
         NEW n, NEW v \in Keys, NEW z, GrewAt(t, g, u, k, n, v, z),
         NEW s, s = ContentsOf(t), NEW w, w = ContentsOf(u)
  PROVE  w \in Sorted!Results(s)
<1>1. /\ s \in Seq(Keys) /\ Len(s) = Size(g) /\ Size(g) \in Nat
      /\ s = [i \in 1 .. Size(g) |-> ValueOf(t, At(g, i))]
  BY ContentsList
<1>2. /\ w \in Seq(Keys) /\ Len(w) = Size(k)
      /\ w = [i \in 1 .. Size(k) |-> ValueOf(u, At(k, i))]
      /\ \A i, j \in 1 .. Size(k) : i <= j => w[i] <= w[j]
  BY ContentsList
<1>3. /\ n \in Nodes /\ ~In(g, n) /\ z \in 1 .. Size(g) + 1 /\ Size(k) = Size(g) + 1
      /\ \A i \in 1 .. Size(g) + 1 :
           At(k, i) = IF i < z THEN At(g, i) ELSE IF i = z THEN n ELSE At(g, i - 1)
      /\ \A m \in Nodes : ValueOf(u, m) = IF m = n THEN v ELSE ValueOf(t, m)
  BY DEF GrewAt
<1>4. PICK l : l = Size(g)
  OBVIOUS
<1>5. l \in Nat /\ z \in Int /\ 1 <= z /\ z <= l + 1
  BY <1>1, <1>3, <1>4
<1>6. \A i \in 1 .. l : At(g, i) \in Nodes /\ At(g, i) # n
  <2>1. \A i \in 1 .. Size(g) : At(g, i) \in Nodes /\ In(g, At(g, i))
    BY NodeFacts
  <2> QED BY <1>3, <1>4, <2>1
<1>7. ASSUME NEW i \in 1 .. l + 1
      PROVE  w[i] = IF i < z THEN s[i] ELSE IF i = z THEN v ELSE s[i - 1]
  <2>1. /\ w[i] = ValueOf(u, At(k, i))
        /\ At(k, i) = IF i < z THEN At(g, i) ELSE IF i = z THEN n ELSE At(g, i - 1)
    BY <1>2, <1>3, <1>4
  <2>2. CASE i < z
    <3>1. i \in 1 .. l /\ At(k, i) = At(g, i)
      BY <1>5, <2>1, <2>2
    <3>2. w[i] = ValueOf(t, At(g, i)) /\ s[i] = ValueOf(t, At(g, i))
      BY <1>1, <1>3, <1>4, <1>6, <2>1, <3>1
    <3> QED BY <2>2, <3>2
  <2>3. CASE i = z
    <3>1. At(k, i) = n
      BY <1>5, <2>1, <2>3
    <3>2. w[i] = v
      BY <1>3, <2>1, <3>1
    <3> QED BY <1>5, <2>3, <3>2
  <2>4. CASE i > z
    <3>1. PICK j : j = i - 1
      OBVIOUS
    <3>2. j \in 1 .. l /\ At(k, i) = At(g, j) /\ ~(i < z) /\ i # z
      BY <1>5, <2>1, <2>4, <3>1
    <3>3. w[i] = ValueOf(t, At(g, j)) /\ s[j] = ValueOf(t, At(g, j))
      BY <1>1, <1>3, <1>4, <1>6, <2>1, <3>2
    <3> QED BY <3>1, <3>2, <3>3
  <2> QED BY <1>5, <2>2, <2>3, <2>4
<1>8. w = [i \in 1 .. l + 1 |-> IF i < z THEN s[i] ELSE IF i = z THEN v ELSE s[i - 1]]
  <2>1. w = [i \in 1 .. l + 1 |-> w[i]]
    BY <1>2, <1>3, <1>4
  <2> QED BY <1>7, <2>1
<1>9. Len(s) = l /\ z \in 1 .. l + 1
  BY <1>1, <1>3, <1>4
<1>10. w = SubSeq(s, 1, z - 1) \o <<v>> \o SubSeq(s, z, l)
  BY <1>1, <1>8, <1>9, InsertedIs
<1>11. w = Sorted!InsertAt(s, z, v)
  BY <1>9, <1>10 DEF Sorted!InsertAt
<1>12. z \in Sorted!Places(s, v)
  <2>0. w[z] = v
    BY <1>5, <1>7
  <2>1. ASSUME NEW j \in 1 .. z - 1 PROVE s[j] <= v
    <3>1. j \in 1 .. l + 1 /\ j < z /\ z \in 1 .. l + 1 /\ j <= z
      BY <1>5
    <3>2. w[j] <= w[z]
      BY <1>2, <1>3, <1>4, <3>1
    <3>3. w[j] = s[j]
      BY <1>7, <3>1
    <3> QED BY <2>0, <3>2, <3>3
  <2>2. ASSUME NEW j \in z .. Len(s) PROVE v <= s[j]
    <3>1. PICK i : i = j + 1
      OBVIOUS
    <3>2. i \in 1 .. l + 1 /\ ~(i < z) /\ i # z /\ z \in 1 .. l + 1 /\ z <= i /\ i - 1 = j
      BY <1>5, <1>9, <3>1
    <3>3. w[z] <= w[i]
      BY <1>2, <1>3, <1>4, <3>2
    <3>4. w[i] = s[j]
      BY <1>7, <3>2
    <3> QED BY <2>0, <3>3, <3>4
  <2> QED BY <1>9, <2>1, <2>2 DEF Sorted!Places
<1> QED BY <1>11, <1>12 DEF Sorted!Results

LEMMA DroppedResult ==
  ASSUME NEW t, NEW g, Shape(t, g), Ordered(t, g), NEW u, NEW k, Shape(u, k), Ordered(u, k),
         NEW n \in Nodes, In(g, n), Shifted(g, k, Pos(g, n)),
         \A m \in Nodes : m # n => ValueOf(u, m) = ValueOf(t, m),
         NEW s, s = ContentsOf(t), NEW w, w = ContentsOf(u)
  PROVE  w \in Sorted!Results(s)
<1>1. /\ s \in Seq(Keys) /\ Len(s) = Size(g) /\ Size(g) \in Nat
      /\ s = [i \in 1 .. Size(g) |-> ValueOf(t, At(g, i))]
  BY ContentsList
<1>2. w = [i \in 1 .. Size(k) |-> ValueOf(u, At(k, i))]
  BY ContentsList
<1>3. PICK l, z : l = Size(g) /\ z = Pos(g, n)
  OBVIOUS
<1>4. /\ Size(k) = l - 1
      /\ \A i \in 1 .. l - 1 : At(k, i) = IF i < z THEN At(g, i) ELSE At(g, i + 1)
  BY <1>3 DEF Shifted
<1>5. l \in Nat /\ z \in Int /\ 1 <= z /\ z <= l
  <2>1. /\ l \in Nat /\ z \in Int /\ Lo(g, n) \in Int /\ Hi(g, n) \in Int
        /\ 1 <= Lo(g, n) /\ Lo(g, n) <= z /\ z <= Hi(g, n) /\ Hi(g, n) <= l
    BY <1>3, NodeFacts
  <2> QED BY <2>1
<1>6. \A i \in 1 .. l : i # z => At(g, i) \in Nodes /\ At(g, i) # n
  <2>1. \A i \in 1 .. Size(g) : At(g, i) \in Nodes /\ Pos(g, At(g, i)) = i
    BY NodeFacts
  <2> QED BY <1>3, <2>1
<1>7. ASSUME NEW i \in 1 .. l - 1
      PROVE  w[i] = IF i < z THEN s[i] ELSE s[i + 1]
  <2>1. w[i] = ValueOf(u, At(k, i)) /\ At(k, i) = IF i < z THEN At(g, i) ELSE At(g, i + 1)
    BY <1>2, <1>4
  <2>2. CASE i < z
    <3>1. i \in 1 .. l /\ At(k, i) = At(g, i) /\ i # z
      BY <1>5, <2>1, <2>2
    <3>2. w[i] = ValueOf(t, At(g, i)) /\ s[i] = ValueOf(t, At(g, i))
      BY <1>1, <1>3, <1>6, <2>1, <3>1
    <3> QED BY <2>2, <3>2
  <2>3. CASE ~(i < z)
    <3>1. PICK j : j = i + 1
      OBVIOUS
    <3>2. j \in 1 .. l /\ At(k, i) = At(g, j) /\ j # z
      BY <1>5, <2>1, <2>3, <3>1
    <3>3. w[i] = ValueOf(t, At(g, j)) /\ s[j] = ValueOf(t, At(g, j))
      BY <1>1, <1>3, <1>6, <2>1, <3>2
    <3> QED BY <2>3, <3>1, <3>3
  <2> QED BY <2>2, <2>3
<1>8. w = [i \in 1 .. l - 1 |-> IF i < z THEN s[i] ELSE s[i + 1]]
  <2>1. w = [i \in 1 .. l - 1 |-> w[i]]
    BY <1>2, <1>4
  <2> QED BY <1>7, <2>1
<1>9. Len(s) = l /\ z \in 1 .. l
  BY <1>1, <1>3, <1>5
<1>10. w = SubSeq(s, 1, z - 1) \o SubSeq(s, z + 1, l)
  BY <1>1, <1>8, <1>9, RemovedIs
<1>11. w = Sorted!RemoveAt(s, z)
  BY <1>9, <1>10 DEF Sorted!RemoveAt
<1>12. z \in DOMAIN s
  BY <1>1, <1>3, <1>5
<1> QED BY <1>11, <1>12 DEF Sorted!Results

LEMMA KeptResult ==
  ASSUME NEW t, NEW g, Shape(t, g), NEW u, NEW k, Shape(u, k), Moved(t, g, u, k)
  PROVE  ContentsOf(u) = ContentsOf(t)
<1>1. /\ ContentsOf(t) = [i \in 1 .. Size(g) |-> ValueOf(t, At(g, i))]
      /\ ContentsOf(u) = [i \in 1 .. Size(k) |-> ValueOf(u, At(k, i))]
  BY ContentsIs
<1>2. Size(k) = Size(g) /\ \A i : At(k, i) = At(g, i)
  BY DEF Moved, Size, At
<1>3. \A i \in 1 .. Size(g) : ValueOf(u, At(g, i)) = ValueOf(t, At(g, i))
  <2>1. \A i \in 1 .. Size(g) : At(g, i) \in Nodes
    BY NodeFacts
  <2> QED BY <2>1 DEF Moved
<1> QED BY <1>1, <1>2, <1>3

LEMMA ResultOfStep ==
  ASSUME StepIs, TRUE \notin Overrides, NEW s, s = ContentsOf(tree), NEW w, w = ContentsOf(tree')
  PROVE  w = s \/ w \in Sorted!Results(s)
<1>0. PICK t, u : t = tree /\ u = tree'
  OBVIOUS
<1>1. CASE Kept
  <2>1. PICK g, k, l : /\ Shape(t, g) /\ Moved(t, g, u, k)
                       /\ (Whole(tree, op, k, l) /\ Iterating(k, cursor, pending))'
    BY <1>0, <1>1 DEF Kept
  <2>2. Shape(u, k)
    BY <1>0, <2>1, WholeNext
  <2>3. ContentsOf(u) = ContentsOf(t)
    BY <2>1, <2>2, KeptResult
  <2> QED BY <1>0, <2>3
<1>2. ASSUME NEW v \in Keys, Grew(v)
      PROVE  w \in Sorted!Results(s)
  <2>1. PICK g, k, l, n, z : /\ Shape(t, g) /\ Ordered(t, g) /\ GrewAt(t, g, u, k, n, v, z)
                             /\ (Whole(tree, op, k, l) /\ Iterating(k, cursor, pending))'
    BY <1>0, <1>2 DEF Grew
  <2>2. Shape(u, k) /\ Ordered(u, k)
    BY <1>0, <2>1, WholeNext
  <2>3. s = ContentsOf(t) /\ w = ContentsOf(u)
    BY <1>0
  <2> QED BY <2>1, <2>2, <2>3, GrewResult
<1>3. ASSUME NEW n \in Nodes, Dropped(n)
      PROVE  w \in Sorted!Results(s)
  <2>1. PICK g, k, l : /\ Shape(t, g) /\ Ordered(t, g)
                       /\ In(g, n) /\ Shifted(g, k, Pos(g, n))
                       /\ \A m \in Nodes : m # n => ValueOf(u, m) = ValueOf(t, m)
                       /\ (Whole(tree, op, k, l) /\ Iterating(k, cursor, pending))'
    BY <1>0, <1>3 DEF Dropped
  <2>2. Shape(u, k) /\ Ordered(u, k)
    BY <1>0, <2>1, WholeNext
  <2>3. s = ContentsOf(t) /\ w = ContentsOf(u)
    BY <1>0
  <2> QED BY <2>1, <2>2, <2>3, DroppedResult
<1>4. CASE Emptied
  <2>1. PICK k, l : /\ Size(k) = 0
                    /\ (Whole(tree, op, k, l) /\ Iterating(k, cursor, pending))'
    BY <1>4 DEF Emptied
  <2>2. Shape(u, k) /\ Ordered(u, k)
    BY <1>0, <2>1, WholeNext
  <2>3. w = ContentsOf(u)
    BY <1>0
  <2>4. w \in Seq(Keys) /\ Len(w) = 0
    BY <2>1, <2>2, <2>3, ContentsList
  <2>5. w = <<>>
    BY <2>4, EmptySeq
  <2> QED BY <2>5 DEF Sorted!Results
<1> QED BY <1>1, <1>2, <1>3, <1>4 DEF StepIs

LEMMA ContentsNow == Contents = ContentsOf(tree)
BY DEF Contents, ContentsOf

LEMMA ContentsNext == Contents' = ContentsOf(tree')
BY DEF Contents, ContentsOf

\* Insert, Remove and Clear do to the values what they do to a sorted list:
\* a value comes in at its place, one value goes, or all go; the fixups, the
\* iterations and the steps between change nothing.  InsertOrReplace is not
\* among them: what it replaces may be another value.
THEOREM SortsLikeAList ==
  ASSUME TRUE \notin Overrides
  PROVE  Spec => ImplementsSortedList
<1>1. Init => Sorted!Init
  <2> SUFFICES ASSUME Init PROVE Contents = <<>>
    BY DEF Sorted!Init
  <2>1. PICK g, h : /\ Whole(tree, op, g, h) /\ Iterating(g, cursor, pending)
                    /\ Size(g) = 0
    BY InitIsRight
  <2>2. PICK s : s = ContentsOf(tree)
    OBVIOUS
  <2>3. s \in Seq(Keys) /\ Len(s) = 0
    BY <2>1, <2>2, ContentsList DEF Whole
  <2>4. s = <<>>
    BY <2>3, EmptySeq
  <2> QED BY <2>2, <2>4, ContentsNow
<1>2. IInv /\ [Next]_vars => [Sorted!Next]_Contents
  <2> SUFFICES ASSUME IInv, [Next]_vars
               PROVE  Contents' \in Sorted!Results(Contents) \/ Contents' = Contents
    BY DEF Sorted!Next
  <2>1. StepIs
    BY EachStep
  <2>2. PICK s, w : s = ContentsOf(tree) /\ w = ContentsOf(tree')
    OBVIOUS
  <2>3. w = s \/ w \in Sorted!Results(s)
    BY <2>1, <2>2, ResultOfStep
  <2> QED BY <2>2, <2>3, ContentsNow, ContentsNext
<1> QED BY <1>1, <1>2, RBTreeInvariant, PTL DEF ImplementsSortedList, Sorted!Spec, Spec

=============================================================================
