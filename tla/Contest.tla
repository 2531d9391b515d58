------------------------------ MODULE Contest -------------------------------
(***************************************************************************)
(* What the program of main.go promises to whoever runs it, without its    *)
(* goroutines and buffers: stdout grows along one report, which the input  *)
(* alone determines; code 0 means the whole report is there; code 13 means *)
(* that a case could not be solved or a write came up short.               *)
(***************************************************************************)
EXTENDS Integers, Sequences

VARIABLES
  report,    \* what the program owes
  complete,  \* every case of the input can be solved
  file,      \* what stdout has received
  trouble,   \* none, short (a short write), or rewritten (and one more after)
  exit       \* -1 while the process runs, then its exit code

contestVars == <<report, complete, file, trouble, exit>>

Init ==
  /\ complete \in BOOLEAN
  /\ file = <<>>
  /\ trouble = "none"
  /\ exit = -1

\* Stdout receives some more of the report, possibly by a short write.
Publish ==
  /\ trouble = "none"
  /\ trouble' \in {"none", "short"}
  /\ \E n \in Len(file)..Len(report) : file' = SubSeq(report, 1, n)
  /\ UNCHANGED exit

\* After a short write a last WriteAll repeats what is still buffered.
Rewrite ==
  /\ trouble = "short"
  /\ trouble' = "rewritten"
  /\ \E j \in 0..Len(file) : \E n \in j..Len(report) :
       file' = file \o SubSeq(report, j + 1, n)
  /\ UNCHANGED exit

Succeed ==
  /\ trouble = "none" /\ complete
  /\ file = report
  /\ exit' = 0
  /\ UNCHANGED <<file, trouble>>

Fail ==
  /\ trouble # "none" \/ ~complete
  /\ exit' = 13
  /\ UNCHANGED <<file, trouble>>

Next ==
  /\ exit = -1
  /\ UNCHANGED <<report, complete>>
  /\ Publish \/ Rewrite \/ Succeed \/ Fail

Spec == Init /\ [][Next]_contestVars

=============================================================================
