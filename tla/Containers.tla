----------------------------- MODULE Containers -----------------------------
(***************************************************************************)
(* A program that uses one of the repository's containers: a heap, a       *)
(* red-black tree that it iterates over while it changes it, or treaps, as *)
(* lists or as sorted lists.  Containers share no state, so the programs   *)
(* that use one at a time show all that each of them can do.               *)
(***************************************************************************)
EXTENDS MinHeap

CONSTANTS
  Nil,
  TreeKeys, Copies,          \* the red-black tree's values, and how often each
  TreeSize,                  \* bound: its number of nodes
  Slots, Seeds,              \* the treaps' roots and seeds
  ListElements, ListNodes,   \* values and bound of treaps that serve as lists
  DictKeys, DictNodes        \* and of treaps that serve as sorted lists

ASSUME ContainersAssumption ==
  /\ ListElements \subseteq Int /\ DictKeys \subseteq Int /\ Seeds \subseteq Nat
  /\ ListNodes \in Nat /\ DictNodes \in Nat

VARIABLES
  used,                            \* the container in use
  tree, fixup, cursor, pending,    \* of RBTree
  root, answer                     \* of Treap

treeVars == <<tree, fixup, cursor, pending>>
treapVars == <<root, answer>>

Tree == INSTANCE RBTree WITH
  Keys <- TreeKeys, MaxSize <- TreeSize, MaxIterated <- TreeSize,
  Overrides <- {FALSE}, IterDirs <- {0, 1},
  op <- fixup

List == INSTANCE Treap WITH
  Elements <- ListElements, MaxNodes <- ListNodes, Sorted <- FALSE

Dict == INSTANCE Treap WITH
  Elements <- DictKeys, MaxNodes <- DictNodes, Sorted <- TRUE

ProgramInit ==
  /\ used \in {"heap", "tree", "list", "dict"}
  /\ Init /\ Tree!Init /\ List!Init

ProgramNext ==
  /\ UNCHANGED used
  /\ \/ used = "heap" /\ Next /\ UNCHANGED <<treeVars, treapVars>>
     \/ used = "tree" /\ Tree!Next /\ UNCHANGED <<vars, treapVars>>
     \/ used = "list" /\ List!Next /\ UNCHANGED <<vars, treeVars>>
     \/ used = "dict" /\ Dict!Next /\ UNCHANGED <<vars, treeVars>>

ProgramSpec == ProgramInit /\ [][ProgramNext]_<<used, vars, treeVars, treapVars>>

-----------------------------------------------------------------------------
(* The containers' properties, in the program.                             *)

\* The container in use is well formed: see HeapTypeOK, RBTypeOK and
\* TreapTypeOK, the last of which says that every Sz is the number of nodes
\* below, after any sequence of calls; and the treaps' priorities stay in
\* order, see SeedsInOrder.
ContainersTypeOK ==
  /\ HeapTypeOK
  /\ Tree!RBTypeOK
  /\ IF used = "dict" THEN Dict!TreapTypeOK ELSE List!TreapTypeOK
  /\ List!SeedsInOrder

\* Treaps are lists, sorted ones too: cutting, joining and turning rearrange
\* whole runs of elements and lose none.
Abstract == INSTANCE Lists WITH
  Elements <- ListElements \cup DictKeys,
  lists <- [s \in Slots |-> List!Array(root[s])]

ImplementsLists == Abstract!Spec

\* Whoever calls is served right: an iteration misses nothing that stays in
\* the tree, equal values included (IterationMissesNothing of RBTree); lists
\* are read and changed at the position asked for, through reversals that
\* are still pending (LooksRight of Treap); sorted treaps stay sorted and
\* use their order right (SortedCallsRight).
ContainersServeRight ==
  /\ used = "tree" => Tree!IterationMissesNothing
  /\ used = "list" => List!LooksRight
  /\ used = "dict" => Dict!SortedCallsRight

=============================================================================
