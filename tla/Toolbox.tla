------------------------------ MODULE Toolbox -------------------------------
(***************************************************************************)
(* A program that uses one of the repository's tools without threads: the  *)
(* segment tree, solve, the xor basis, or the small helpers.  They share   *)
(* no state, so the programs that use one at a time show all that each of  *)
(* them can do.                                                            *)
(***************************************************************************)
EXTENDS SegmentTree, Solve, XorSpan

CONSTANTS W, Mod, Words, Matrices, MapKeys, MapSize    \* of Helpers

ASSUME ToolboxAssumption ==
  /\ MaxN \in Nat \ {0}
  /\ W \in 2..64 /\ Mod \in Nat \ {0, 1} /\ MapSize \in Nat
  /\ \A word \in Words : word \subseteq 0..63

VARIABLES
  used,                  \* the tool in use
  entries, call, first   \* of Helpers

Help == INSTANCE Helpers

helperVars == <<entries, call, first>>

\* What solve is called with matters to those programs only that use it.
ToolboxInit ==
  /\ used \in {"segment_tree", "solve", "xor_span", "helpers"}
  /\ Init /\ SolveInit /\ XorInit /\ Help!HelpersInit
  /\ used # "solve" => string = <<"A">>

ToolboxNext ==
  /\ UNCHANGED used
  /\ \/ used = "segment_tree" /\ Next /\ UNCHANGED <<solveVars, xorVars, helperVars>>
     \/ used = "solve" /\ SolveNext /\ UNCHANGED <<vars, xorVars, helperVars>>
     \/ used = "xor_span" /\ XorNext /\ UNCHANGED <<vars, solveVars, helperVars>>
     \/ used = "helpers" /\ Help!HelpersNext /\ UNCHANGED <<vars, solveVars, xorVars>>

ToolboxSpec == ToolboxInit /\ [][ToolboxNext]_<<used, vars, solveVars, xorVars, helperVars>>

-----------------------------------------------------------------------------
\* The tool in use is well formed: see STTypeOK, SolveTypeOK and XorTypeOK.
ToolboxTypeOK ==
  CASE used = "segment_tree" -> STTypeOK
    [] used = "solve" -> SolveTypeOK
    [] used = "xor_span" -> XorTypeOK
    [] used = "helpers" -> Len(entries) <= MapSize

\* The xor basis, the small functions and the slice map answer right: see
\* XorAnswers and HelpersAnswer.
ToolsAnswerRight ==
  CASE used = "xor_span" -> XorAnswers
    [] used = "helpers" -> Help!HelpersAnswer
    [] OTHER -> TRUE
=============================================================================
