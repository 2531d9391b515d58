---------------------------- MODULE ExportStages ----------------------------
(***************************************************************************)
(* The stages of generator/generate_test.go: reading, merging, and the     *)
(* three passes with normalizeGo before and after each of them.  The last  *)
(* version that normalizeGo has accepted is written by a deferred call,    *)
(* after a panic as well.  Of the text only the number of the version is   *)
(* kept: 0 is what was merged, k what the k-th normalizeGo has returned.   *)
(***************************************************************************)
EXTENDS Integers, Sequences

VARIABLES
  stage,         \* where the exporter is
  version,       \* the version that src holds
  okVersion,     \* the version in okVersion
  output         \* what generated_main.go holds

fileVars == <<version, okVersion, output>>
stageVars == <<stage, version, okVersion, output>>

\* The contents of generated_main.go from before, and of a file just created.
Previous == -2
Empty == -1

StagesInit ==
  /\ stage = "read"
  /\ version = 0 /\ okVersion = 0 /\ output = Previous

GoTo(from, to) == stage = from /\ stage' = to /\ UNCHANGED fileVars

\* The walk over the directories; it panics with a file that cannot be read
\* in one piece, is empty, or does not begin with its package.  Before the
\* output is created a panic ends the run and leaves it as it was.
Read == GoTo("read", "merge") \/ GoTo("read", "exited")

\* os.Create truncates the file; from here on the deferred write is due.
Create ==
  \/ /\ stage = "merge" /\ stage' = "normalize"
     /\ output' = Empty
     /\ UNCHANGED <<version, okVersion>>
  \/ GoTo("merge", "exited")

Passes == <<"monomorphize", "prune", "casts", "deferred">>

\* Mutant of Accepted: okVersion is kept from before the pass.
AcceptedLate(k) == okVersion' = version /\ version' = k

\* normalizeGo has returned version k of the file.
Accepted(k) == okVersion' = k /\ version' = k

\* normalizeGo formats what the last pass has left and mends the imports, or
\* panics.
Normalizes ==
  \/ /\ stage = "normalize"
     /\ Accepted(version + 1)
     /\ stage' = Passes[version + 1]
     /\ UNCHANGED output
  \/ GoTo("normalize", "deferred")

\* Monomorphize returns or panics, PruneUnused may return its source.
Monomorphizes == GoTo("monomorphize", "monomorphizing")
MonomorphizeReturns == GoTo("monomorphizing", "normalize")
MonomorphizePanics == GoTo("monomorphizing", "deferred")
PruneReturnsSource == GoTo("prune", "normalize")
Prunes == GoTo("prune", "pruning")
PruneReturns == GoTo("pruning", "normalize")
Casts == GoTo("casts", "normalize")

\* fmt.Fprintln, Sync and Close on the way out, whatever has happened.
Writes ==
  /\ stage = "deferred" /\ stage' = "exited"
  /\ output' = okVersion
  /\ UNCHANGED <<version, okVersion>>

StagesNext ==
  \/ Read \/ Create \/ Normalizes
  \/ Monomorphizes \/ MonomorphizeReturns \/ MonomorphizePanics
  \/ PruneReturnsSource \/ Prunes \/ PruneReturns
  \/ Casts
  \/ Writes

StagesSpec == StagesInit /\ [][StagesNext]_stageVars

-----------------------------------------------------------------------------
Stages == {"read", "merge", "normalize", "monomorphize", "monomorphizing",
           "prune", "pruning", "casts", "deferred", "exited"}

StagesTypeOK ==
  /\ stage \in Stages
  /\ version \in 0..4 /\ okVersion \in 0..4 /\ output \in -2..4

\* In the end the file holds the last version that was accepted, whichever
\* stage has panicked, or the last run's output if nothing was accepted
\* because it could not be created; it is never left empty.
WritesLastGood ==
  stage = "exited" =>
    /\ output \in {Previous, version}
    /\ version > 0 => output = version
=============================================================================
