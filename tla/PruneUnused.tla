---------------------------- MODULE PruneUnused -----------------------------
(***************************************************************************)
(* The pass of generator/prune_unused_code.go that drops what main does    *)
(* not need: a worklist over functions, a loop over types, a bridge from   *)
(* interfaces to methods, then worklist and loop once more.                *)
(*                                                                         *)
(* A program is a record of who refers to whom, as the pass sees it: what  *)
(* the type checker resolved and the walk over a body comes across.        *)
(*   initial[v]   the functions that v's initial values name               *)
(*   uses[f]      the functions named in the body of f                     *)
(*   names[f]     the declarations of values with a name that f mentions   *)
(*   shows[f]     the types harvested from the signature and body of f     *)
(*   inside[t]    the types harvested from the declaration of t            *)
(*   method[t]    the methods of *t by name (and signature), or NoMethod   *)
(*   requires[i]  the names of the methods of interface i                  *)
(* Functions without a declaration in the file have nothing to visit and   *)
(* nothing to keep, and are left out; a file that does not parse or check  *)
(* is returned as it is.  *t has the methods of t, so that only *t is      *)
(* looked at; an interface has methods without declarations, which are     *)
(* NoMethod here.                                                          *)
(***************************************************************************)
EXTENDS FiniteSets

CONSTANTS
  Funcs,       \* the functions and methods that the file declares
  Main,        \* main
  Types,       \* the named types
  Interfaces,  \* the interfaces; a named one is among Types as well
  Values,      \* the declarations of variables and constants
  Names,       \* the names of methods
  NoMethod,    \* says that a type lacks a method
  Programs     \* the programs that the pass may be given

Program == [
  initial : [Values -> SUBSET Funcs],
  uses : [Funcs -> SUBSET Funcs],
  names : [Funcs -> SUBSET Values],
  shows : [Funcs -> SUBSET (Types \cup Interfaces)],
  inside : [Types -> SUBSET (Types \cup Interfaces)],
  method : [Types -> [Names -> Funcs \cup {NoMethod}]],
  requires : [Interfaces -> SUBSET Names]]

ASSUME ProgramsAssumption ==
  /\ Programs \subseteq Program
  /\ Main \in Funcs
  /\ NoMethod \notin Funcs

VARIABLES
  program,     \* the file, parsed and checked
  phase,       \* where the pass is
  work,        \* work; the code takes them first come, first served
  reachFunc,   \* reachFunc
  reachType,   \* reachType, and so reachNamed
  reachIface,  \* reachIface
  reachValue,  \* reachValue
  unvisited,   \* the types that the range over reachType has still to visit
  changed,     \* changed
  bridged      \* history: the pairs of a type and an interface looked at

reached == <<reachFunc, reachType, reachIface, reachValue>>
vars == <<program, phase, work, reached, unvisited, changed, bridged>>

Init ==
  /\ program \in Programs
  /\ phase = "roots"
  /\ work = {}
  /\ reachFunc = {} /\ reachType = {} /\ reachIface = {} /\ reachValue = {}
  /\ unvisited = {} /\ changed = FALSE
  /\ bridged = {}

-----------------------------------------------------------------------------
\* Mutant of Push: what is pushed is not marked as reached.
PushUnmarked(waiting, fs) ==
  /\ reachFunc' = reachFunc
  /\ work' = waiting \cup (fs \ reachFunc)

\* pushFunc of each of fs, with waiting the functions in the worklist.
Push(waiting, fs) ==
  /\ reachFunc' = reachFunc \cup fs
  /\ work' = waiting \cup (fs \ reachFunc)

HarvestTypes(shown) ==
  /\ reachType' = reachType \cup (shown \cap Types)
  /\ reachIface' = reachIface \cup (shown \cap Interfaces)

\* A function that a top-level value is initialised with is a root, and so
\* is the value.
Rooted == {v \in Values : program.initial[v] # {}}

Roots ==
  /\ phase = "roots"
  /\ Push(work, {Main} \cup UNION {program.initial[v] : v \in Values})
  /\ reachValue' = Rooted
  /\ phase' = "drain"
  /\ UNCHANGED <<program, reachType, reachIface, unvisited, changed, bridged>>

\* One turn of either loop over work.  The order in which a body names
\* functions is not in the model, hence any of them may be next.
VisitFuncBody(fn) ==
  /\ phase \in {"drain", "redrain"}
  /\ fn \in work
  /\ HarvestTypes(program.shows[fn])
  /\ Push(work \ {fn}, program.uses[fn])
  /\ reachValue' = reachValue \cup program.names[fn]
  /\ UNCHANGED <<program, phase, unvisited, changed, bridged>>

\* Mutant of Propagates: the final type propagation is left out.
PropagatesOnce == [drain |-> "types", redrain |-> "done"]

\* The loop of propagateTypes is entered and its first range begins.
Propagates == [drain |-> "types", redrain |-> "retypes"]

Drained ==
  /\ phase \in {"drain", "redrain"}
  /\ work = {}
  /\ phase' = Propagates[phase]
  /\ unvisited' = reachType
  /\ changed' = FALSE
  /\ UNCHANGED <<program, work, reached, bridged>>

\* A range over a map may or may not come to what is added on the way.
VisitType(t) ==
  /\ phase \in {"types", "retypes"}
  /\ t \in unvisited
  /\ HarvestTypes(program.inside[t])
  /\ changed' = (changed \/ reachType' # reachType)
  /\ \E visitedToo \in SUBSET (reachType' \ reachType) :
        unvisited' = (unvisited \ {t}) \cup visitedToo
  /\ UNCHANGED <<program, phase, work, reachFunc, reachValue, bridged>>

RangeEnds == phase \in {"types", "retypes"} /\ unvisited = {}

RangeAgain ==
  /\ RangeEnds
  /\ changed
  /\ unvisited' = reachType
  /\ changed' = FALSE
  /\ UNCHANGED <<program, phase, work, reached, bridged>>

Follows == [types |-> "bridge", retypes |-> "done"]

Propagated ==
  /\ RangeEnds
  /\ ~changed
  /\ phase' = Follows[phase]
  /\ UNCHANGED <<program, work, reached, unvisited, changed, bridged>>

Implements(t, i) ==
  \A name \in program.requires[i] : program.method[t][name] # NoMethod

\* The methods of t that are kept on behalf of i.
RequiredOf(t, i) ==
  IF Implements(t, i)
    THEN {program.method[t][name] : name \in program.requires[i]}
    ELSE {}

\* Mutant of LookedAt: types count whether reachable or not.
LookedAtAll == Types \X reachIface

LookedAt == reachType \X reachIface

\* The two loops over reachIface and reachNamed, which add to neither.
Bridge ==
  /\ phase = "bridge"
  /\ Push(work, UNION {RequiredOf(p[1], p[2]) : p \in LookedAt})
  /\ bridged' = LookedAt
  /\ phase' = "redrain"
  /\ UNCHANGED <<program, reachType, reachIface, reachValue, unvisited, changed>>

\* The pass has returned the file without what was not reached.
Returned == phase = "done" /\ UNCHANGED vars

Next ==
  \/ Roots
  \/ \E fn \in Funcs : VisitFuncBody(fn)
  \/ Drained
  \/ \E t \in Types : VisitType(t)
  \/ RangeAgain
  \/ Propagated
  \/ Bridge
  \/ Returned

Spec == Init /\ [][Next]_vars

-----------------------------------------------------------------------------
\* Which declarations the result contains.
KeepFuncDecl(f) == f = Main \/ f \in reachFunc
KeepTypeSpec(t) == t \in reachType
KeepValueSpec(v) == v \in reachValue

\* Every variable has its type: prune_unused_code.go keeps its sets over the
\* declarations of the file.
PruneTypeOK ==
  /\ program \in Program
  /\ phase \in {"roots", "drain", "types", "bridge", "redrain", "retypes", "done"}
  /\ work \subseteq reachFunc /\ reachFunc \subseteq Funcs
  /\ unvisited \subseteq reachType /\ reachType \subseteq Types
  /\ reachIface \subseteq Interfaces
  /\ reachValue \subseteq Values
  /\ changed \in BOOLEAN
  /\ bridged \subseteq reachType \X reachIface

\* Nothing that the walk comes across in a kept declaration is dropped, and
\* every method is kept that a type reached before the bridge needs for an
\* interface reached before it (PruneUnused: both worklists, both calls of
\* propagateTypes and the bridge between them).
KeepsWhatIsUsed ==
  phase = "done" =>
    /\ \A f \in Funcs : KeepFuncDecl(f) =>
         /\ \A g \in program.uses[f] : KeepFuncDecl(g)
         /\ \A v \in program.names[f] : KeepValueSpec(v)
         /\ \A t \in program.shows[f] \cap Types : KeepTypeSpec(t)
    /\ \A t \in Types : KeepTypeSpec(t) =>
         \A u \in program.inside[t] \cap Types : KeepTypeSpec(u)
    /\ \A v \in Values, f \in Funcs : f \in program.initial[v] => KeepFuncDecl(f)
    /\ \A p \in bridged : \A f \in RequiredOf(p[1], p[2]) : KeepFuncDecl(f)

\* The sets of declarations that are closed under all there is to follow.
Closed(fs, ts, is, vs) ==
  /\ Main \in fs
  /\ \A v \in Values : program.initial[v] \subseteq fs
  /\ {v \in Values : program.initial[v] # {}} \subseteq vs
  /\ \A f \in fs :
       /\ program.uses[f] \subseteq fs
       /\ program.names[f] \subseteq vs
       /\ program.shows[f] \cap Types \subseteq ts
       /\ program.shows[f] \cap Interfaces \subseteq is
  /\ \A t \in ts :
       /\ program.inside[t] \cap Types \subseteq ts
       /\ program.inside[t] \cap Interfaces \subseteq is
  /\ \A t \in ts, i \in is : RequiredOf(t, i) \subseteq fs

\* Nothing is kept without need: what is reached belongs to every closed
\* set, hence to the smallest (PruneUnused).
KeepsOnlyWhatIsUsed ==
  phase = "done" =>
    \A fs \in SUBSET Funcs, ts \in SUBSET Types,
       is \in SUBSET Interfaces, vs \in SUBSET Values :
      Closed(fs, ts, is, vs) =>
        /\ reachFunc \subseteq fs
        /\ reachType \subseteq ts
        /\ reachIface \subseteq is
        /\ reachValue \subseteq vs

\* What the comment above the bridge says (prune_unused_code.go:357-358).
BridgeHolds ==
  phase = "done" =>
    \A t \in reachType, i \in reachIface :
      \A f \in RequiredOf(t, i) : KeepFuncDecl(f)
=============================================================================
