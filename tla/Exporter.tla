------------------------------ MODULE Exporter ------------------------------
(***************************************************************************)
(* The exporter, generator/generate_test.go: the packages that main needs  *)
(* become one file, which then goes through Monomorphize, PruneUnused and  *)
(* PruneUnsafeCasts.  The stages are those of ExportStages, with           *)
(* Monomorphize and PruneUnused step by step.  What the two passes are     *)
(* given are members of families of their own, and outside their stage     *)
(* their variables rest.                                                   *)
(***************************************************************************)
EXTENDS PruneUnused, MergePackages, ExportStages

CONSTANTS
  NoProgram,                          \* what PruneUnused looks at before and after
  Sources, Basic, Alphabet, MaxIters  \* of Monomorphize

ASSUME ExporterAssumption == MaxIters \in Nat

VARIABLES
  exprs,         \* the expressions that PruneUnsafeCasts looks at
  importsUnsafe, \* whether the file it is given imports unsafe
  file, created, iter, outcome, original, origin  \* of Monomorphize

Mono == INSTANCE Monomorphize WITH Files <- Sources

monoVars == <<file, created, iter, outcome, original, origin>>
castVars == <<exprs, importsUnsafe>>

\* Expressions as the parser returns them: the dereference of a cast pointer,
\* another use of unsafe, and two that do without.  A call is what a cast
\* should become.
Deref == [kind |-> "StarExpr", op |-> "none", unsafe |-> TRUE]
OtherUse == [kind |-> "CallExpr", op |-> "none", unsafe |-> TRUE]
Address == [kind |-> "UnaryExpr", op |-> "&", unsafe |-> FALSE]
Call == [kind |-> "CallExpr", op |-> "none", unsafe |-> FALSE]

MonoRests(f, c, i, o, given, from) ==
  /\ f = <<>> /\ c = <<>> /\ i = 0
  /\ o = "running" /\ given = <<>> /\ from = <<>>

PruneRests(p, now, fs, ts, is, vs, pairs) ==
  /\ p = NoProgram
  /\ now = "roots"
  /\ fs = {} /\ ts = {} /\ is = {} /\ vs = {}
  /\ pairs = {}

ExporterInit ==
  /\ StagesInit
  /\ MergeInit
  /\ MonoRests(file, created, iter, outcome, original, origin)
  /\ PruneRests(program, phase, reachFunc, reachType, reachIface, reachValue, bridged)
  /\ work = {} /\ unvisited = {} /\ changed = FALSE
  /\ exprs = {} /\ importsUnsafe = FALSE

-----------------------------------------------------------------------------
ReadFiles == Read /\ UNCHANGED <<mergeVars, castVars, monoVars, vars>>

MergeStep ==
  /\ stage = "merge"
  /\ MergePackage
  /\ UNCHANGED <<stageVars, castVars, monoVars, vars>>

CreateOutput ==
  /\ Merged
  /\ Create
  /\ UNCHANGED <<castVars, monoVars, vars>>

Normalize == Normalizes /\ UNCHANGED <<mergeVars, castVars, monoVars, vars>>

\* Both passes start on a new file, and when they are done their variables
\* come to rest.
MonoStart ==
  /\ Monomorphizes
  /\ \E f \in Sources : file' = f /\ original' = f
  /\ UNCHANGED <<mergeVars, castVars, created, iter, outcome, origin, vars>>

MonoStep ==
  /\ stage = "monomorphizing"
  /\ Mono!Next
  /\ UNCHANGED <<stageVars, mergeVars, castVars, vars>>

\* A panic of Monomorphize goes through the deferred write.
MonoEnd ==
  /\ \/ outcome = "returned" /\ MonomorphizeReturns
     \/ outcome = "panicked" /\ MonomorphizePanics
  /\ MonoRests(file', created', iter', outcome', original', origin')
  /\ UNCHANGED <<mergeVars, castVars, vars>>

PruneStart ==
  /\ Prunes
  /\ program' \in Programs
  /\ UNCHANGED <<mergeVars, castVars, monoVars, phase, work, reached, unvisited, changed, bridged>>

\* A file that does not parse or check is returned as it is.
PruneReturnsSrc == PruneReturnsSource /\ UNCHANGED <<mergeVars, castVars, monoVars, vars>>

PruneStep ==
  /\ stage = "pruning"
  /\ Next
  /\ UNCHANGED <<stageVars, mergeVars, castVars, monoVars>>

PruneEnd ==
  /\ phase = "done"
  /\ PruneReturns
  /\ PruneRests(program', phase', reachFunc', reachType', reachIface', reachValue', bridged')
  /\ UNCHANGED <<mergeVars, castVars, monoVars, work, unvisited, changed>>

\* Only a unary expression with an asterisk matches, which the parser never
\* makes of a dereference.
MatchAndRewrite(e) == IF e.kind = "UnaryExpr" /\ e.op = "*" THEN Call ELSE e

UsesUnsafe(es) == \E e \in es : e.unsafe

\* The fixpoint of the rewriting, and the import if nothing uses it any more.
\* normalizeGo has left the import where it is used.
PruneUnsafeCasts ==
  /\ Casts
  /\ \E given \in SUBSET {Deref, OtherUse, Address, Call}, imported \in BOOLEAN :
       /\ (\E e \in given : e.unsafe) => imported
       /\ exprs' = {MatchAndRewrite(e) : e \in given}
       /\ importsUnsafe' = (imported /\ UsesUnsafe(exprs'))
  /\ UNCHANGED <<mergeVars, monoVars, vars>>

Deferred ==
  /\ Writes
  /\ exprs' = {}
  /\ importsUnsafe' = FALSE
  /\ UNCHANGED <<mergeVars, monoVars, vars>>

\* The process ends as the panic that goes on makes it, or as it should.
Exited == stage = "exited" /\ UNCHANGED <<stageVars, mergeVars, castVars, monoVars, vars>>

ExporterNext ==
  \/ ReadFiles \/ MergeStep \/ CreateOutput
  \/ Normalize
  \/ MonoStart \/ MonoStep \/ MonoEnd
  \/ PruneReturnsSrc \/ PruneStart \/ PruneStep \/ PruneEnd
  \/ PruneUnsafeCasts
  \/ Deferred
  \/ Exited

ExporterSpec ==
  ExporterInit /\ [][ExporterNext]_<<stageVars, mergeVars, castVars, monoVars, vars>>

-----------------------------------------------------------------------------
(* Properties                                                              *)

\* Every variable has its type, those of PruneUnused while it runs, and
\* whatever still uses unsafe finds it imported.
ExporterTypeOK ==
  /\ StagesTypeOK
  /\ IF stage = "pruning" THEN PruneTypeOK ELSE program = NoProgram
  /\ (\E e \in exprs : e.unsafe) => importsUnsafe

\* What Monomorphize returns: see Monomorphize.
MeaningKept == Mono!MeaningKept
NoGenericsLeft == Mono!NoGenericsLeft
TractableCompiles == Mono!TractableCompiles

=============================================================================
