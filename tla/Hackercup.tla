----------------------------- MODULE Hackercup ------------------------------
(***************************************************************************)
(* The concurrent contest template: main.go and hackercup/hackercup.go     *)
(* with debug.Go and debug.ExitOnPanic.  Main reads the number of tests    *)
(* and prints the answers in order; a feeder goroutine reads one case      *)
(* after the other from stdin and starts a worker goroutine for each; a    *)
(* worker solves its case and signals a WaitGroup.  A panic in any         *)
(* goroutine ends the process with code 13.                                *)
(*                                                                         *)
(* Stdout is the FastWriter, whose variables this module extends.  solve   *)
(* is abstracted to the set of cases Alice wins and the set on which it    *)
(* panics (N out of the range of S).                                       *)
(***************************************************************************)
EXTENDS FastWriter, FiniteSets

CONSTANTS
  Data,        \* the cases stdin may hold
  Wins,        \* the cases for which solve answers Alice
  Crashes,     \* the cases on which solve panics
  Eof,         \* what input.Read returns past the end of stdin: N = 0, S = ""
  MaxTests     \* bound: the largest number of tests stdin announces

ASSUME CasesAssumption ==
  /\ Wins \subseteq Data /\ Crashes \subseteq Data
  /\ Wins \cap Crashes = {}
  /\ Eof \notin Data
  /\ MaxTests \in Nat

VARIABLES
  stdin,       \* what stdin holds: the announced number and the cases
  pos,         \* the cases read so far
  tests,       \* tests
  mpc, mi,     \* main: its place and its loop variable
  fpc, fi,     \* the feeder: its place and its loop variable
  wpc,         \* the place of each worker
  inputs,      \* the variables input, one per iteration of the feeder
  outputs,     \* outputs
  wg,          \* the counters of testWGs
  doneCounter, \* doneCounter
  exit         \* the exit code of the process, or Running

mainVars == <<tests, mpc, mi>>
feederVars == <<pos, fpc, fi, inputs>>
workerVars == <<outputs, wg, doneCounter>>
vars == <<stdin, mainVars, feederVars, wpc, workerVars, exit, writerVars>>

Running == -1

Index == 0 .. MaxTests - 1

\* Mutant of Cell: one variable for all iterations, as before Go 1.22.
SharedCell(i) == 0

\* The variable input that iteration i of the feeder declares (Go makes a
\* new one for every iteration).
Cell(i) == i

CaseOf(i) == IF i < Len(stdin.cases) THEN stdin.cases[i + 1] ELSE Eof

LabelText(i) == << <<"Case #", 0>>, <<"number", i + 1>>, <<": ", 0>> >>

AnswerText(alice) ==
  << <<IF alice THEN "Alice" ELSE "Bob", 0>>, <<"newline", 0>> >>

\* The bytes of LabelText and AnswerText; the pairs stand for the pieces of
\* a line that the properties tell apart.
OutputBytes ==
  ({"number"} \X (1..MaxTests))
    \cup ({"Case #", ": ", "Alice", "Bob", "newline"} \X {0})

ASSUME BytesAssumption == OutputBytes \subseteq Byte

Init ==
  /\ stdin \in [announced : 0..MaxTests,
                cases : UNION {[1..n -> Data] : n \in 0..MaxTests}]
  /\ pos = 0
  /\ tests = 0
  /\ mpc = "setup" /\ mi = 0
  /\ fpc = "unborn" /\ fi = 0
  /\ wpc = [i \in Index |-> "unborn"]
  /\ inputs = [i \in Index |-> Eof]
  /\ outputs = [i \in Index |-> FALSE]
  /\ wg = [i \in Index |-> 0]
  /\ doneCounter = 0
  /\ exit = Running
  /\ WriterInit

-----------------------------------------------------------------------------
(* Main.                                                                   *)

\* Mutant of MainSetup: without testWGs[i].Add(1).
MainSetupWithoutAdd ==
  /\ mpc = "setup"
  /\ tests' = stdin.announced
  /\ fpc' = IF tests' = 0 THEN "finished" ELSE "read"
  /\ mpc' = IF tests' = 0 THEN "flush" ELSE "wait"
  /\ UNCHANGED <<stdin, mi, pos, fi, inputs, wpc, workerVars, exit, writerVars>>

\* Up to and including the start of the feeder: nothing is shared before.
MainSetup ==
  /\ mpc = "setup"
  /\ tests' = stdin.announced
  /\ wg' = [i \in Index |-> IF i < tests' THEN 1 ELSE 0]
  /\ fpc' = IF tests' = 0 THEN "finished" ELSE "read"
  /\ mpc' = IF tests' = 0 THEN "flush" ELSE "wait"
  /\ UNCHANGED <<stdin, mi, pos, fi, inputs, wpc, outputs, doneCounter, exit,
                 writerVars>>

MainWait ==
  /\ mpc = "wait"
  /\ wg[mi] = 0
  /\ mpc' = "label"
  /\ UNCHANGED <<stdin, tests, mi, feederVars, wpc, workerVars, exit, writerVars>>

MainLabel ==
  /\ mpc = "label"
  /\ String(LabelText(mi))
  /\ mpc' = "copyLabel"
  /\ UNCHANGED <<stdin, tests, mi, feederVars, wpc, workerVars, exit>>

\* outputs[i].Print reads the answer of the worker.
MainAnswer ==
  /\ mpc = "answer"
  /\ String(AnswerText(outputs[mi]))
  /\ mpc' = "copyAnswer"
  /\ UNCHANGED <<stdin, tests, mi, feederVars, wpc, workerVars, exit>>

\* The loop of String; a failed write panics, and the deferred calls run.
MainCopyLabel ==
  /\ mpc = "copyLabel"
  /\ CopyChunk
  /\ mpc' = CASE wstate' = "copying" -> "copyLabel"
              [] wstate' = "ready" -> "answer"
              [] OTHER -> "flush"
  /\ UNCHANGED <<stdin, tests, mi, feederVars, wpc, workerVars, exit>>

MainCopyAnswer ==
  /\ mpc = "copyAnswer"
  /\ CopyChunk
  /\ mi' = IF wstate' = "ready" THEN mi + 1 ELSE mi
  /\ mpc' = CASE wstate' = "copying" -> "copyAnswer"
              [] wstate' = "ready" /\ mi' < tests -> "wait"
              [] OTHER -> "flush"
  /\ UNCHANGED <<stdin, tests, feederVars, wpc, workerVars, exit>>

\* Mutant of MainFlush: the deferred function only logs.
MainFlushNothing ==
  /\ mpc = "flush"
  /\ mpc' = "return"
  /\ UNCHANGED <<stdin, tests, mi, feederVars, wpc, workerVars, exit, writerVars>>

\* The deferred function of Hackercup: WriteAll, whether main's loop has
\* ended or a panic unwinds.  (The sleep and the log line leave no trace.)
MainFlush ==
  /\ mpc = "flush"
  /\ FlushAll
  /\ mpc' = "return"
  /\ UNCHANGED <<stdin, tests, mi, feederVars, wpc, workerVars, exit>>

\* Mutant of MainReturn: the deferred function of Hackercup recovers.
MainReturnRecovered ==
  /\ mpc = "return"
  /\ mpc' = "final"
  /\ UNCHANGED <<stdin, tests, mi, feederVars, wpc, workerVars, exit, writerVars>>

\* The deferred ExitOnPanic of Hackercup: a pending panic ends the process.
MainReturn ==
  /\ mpc = "return"
  /\ IF wstate = "ready"
     THEN mpc' = "final" /\ UNCHANGED exit
     ELSE mpc' = "return" /\ exit' = 13
  /\ UNCHANGED <<stdin, tests, mi, feederVars, wpc, workerVars, writerVars>>

\* main: the deferred ExitOnPanic finds nothing, then the deferred WriteAll
\* runs, outside of any recover: its panic would end the process with 2.
MainFinal ==
  /\ mpc = "final"
  /\ FlushAll
  /\ exit' = IF wstate' = "ready" THEN 0 ELSE 2
  /\ UNCHANGED <<stdin, mainVars, feederVars, wpc, workerVars>>

Main ==
  \/ MainSetup \/ MainWait \/ MainLabel \/ MainCopyLabel \/ MainAnswer
  \/ MainCopyAnswer \/ MainFlush \/ MainReturn \/ MainFinal

-----------------------------------------------------------------------------
(* The feeder.                                                             *)

\* input := input{}; input.Read(stdin)
FeederRead ==
  /\ fpc = "read"
  /\ inputs' = [inputs EXCEPT ![Cell(fi)] = CaseOf(pos)]
  /\ pos' = pos + 1
  /\ fpc' = "spawn"
  /\ UNCHANGED <<stdin, mainVars, fi, wpc, workerVars, exit, writerVars>>

\* debug.Go of the worker
FeederSpawn ==
  /\ fpc = "spawn"
  /\ wpc' = [wpc EXCEPT ![fi] = "solve"]
  /\ fi' = fi + 1
  /\ fpc' = IF fi' < tests THEN "read" ELSE "finished"
  /\ UNCHANGED <<stdin, mainVars, pos, inputs, workerVars, exit, writerVars>>

Feeder == FeederRead \/ FeederSpawn

-----------------------------------------------------------------------------
(* Worker i.                                                               *)

\* outputs[i] = solve(i, &input)
WorkerSolve(i) ==
  /\ wpc[i] = "solve"
  /\ inputs[Cell(i)] \notin Crashes
  /\ outputs' = [outputs EXCEPT ![i] = inputs[Cell(i)] \in Wins]
  /\ wpc' = [wpc EXCEPT ![i] = "signal"]
  /\ UNCHANGED <<stdin, mainVars, feederVars, wg, doneCounter, exit, writerVars>>

\* solve panics; ExitOnPanic recovers and formats the stack.
WorkerPanic(i) ==
  /\ wpc[i] = "solve"
  /\ inputs[Cell(i)] \in Crashes
  /\ wpc' = [wpc EXCEPT ![i] = "panicked"]
  /\ UNCHANGED <<stdin, mainVars, feederVars, workerVars, exit, writerVars>>

\* Mutant of WorkerExit: the recovered panic only ends the goroutine.
WorkerGone(i) ==
  /\ wpc[i] = "panicked"
  /\ wpc' = [wpc EXCEPT ![i] = "finished"]
  /\ UNCHANGED <<stdin, mainVars, feederVars, workerVars, exit, writerVars>>

\* os.Exit(13): the buffered output is lost.
WorkerExit(i) ==
  /\ wpc[i] = "panicked"
  /\ exit' = 13
  /\ UNCHANGED <<stdin, mainVars, feederVars, wpc, workerVars, writerVars>>

\* testWGs[i].Done()
WorkerDone(i) ==
  /\ wpc[i] = "signal"
  /\ wg' = [wg EXCEPT ![i] = @ - 1]
  /\ wpc' = [wpc EXCEPT ![i] = "count"]
  /\ UNCHANGED <<stdin, mainVars, feederVars, outputs, doneCounter, exit, writerVars>>

\* doneCounter.Add(1) and the log line
WorkerCount(i) ==
  /\ wpc[i] = "count"
  /\ doneCounter' = doneCounter + 1
  /\ wpc' = [wpc EXCEPT ![i] = "finished"]
  /\ UNCHANGED <<stdin, mainVars, feederVars, outputs, wg, exit, writerVars>>

Worker(i) ==
  \/ WorkerSolve(i) \/ WorkerPanic(i) \/ WorkerExit(i)
  \/ WorkerDone(i) \/ WorkerCount(i)

-----------------------------------------------------------------------------
Halted == exit # Running /\ UNCHANGED vars

Next ==
  \/ exit = Running /\ (Main \/ Feeder \/ \E i \in Index : Worker(i))
  \/ Halted

\* Every goroutine that can run does: the Go scheduler is preemptive, stdin
\* delivers the rest of its input or its end, and a write returns.
Fairness ==
  /\ WF_vars(exit = Running /\ Main)
  /\ WF_vars(exit = Running /\ Feeder)
  /\ \A i \in Index : WF_vars(exit = Running /\ Worker(i))

Spec == Init /\ [][Next]_vars /\ Fairness

-----------------------------------------------------------------------------
(* The report the program owes for the stdin it was given.                 *)

LineLen == 5   \* three bytes of label, two of answer

\* The k-th byte of the report.
ReportByte(k) ==
  LET i == (k - 1) \div LineLen
      column == (k - 1) % LineLen
  IN IF column < 3 THEN LabelText(i)[column + 1]
     ELSE AnswerText(CaseOf(i) \in Wins)[column - 2]

Report(n) == [k \in 1..LineLen * n |-> ReportByte(k)]

AnnouncedIndex == 0 .. stdin.announced - 1

NoCrash == \A i \in AnnouncedIndex : CaseOf(i) \notin Crashes

\* The number of tests before the first one that solve panics on.
Owed ==
  Cardinality({i \in AnnouncedIndex : \A j \in 0..i : CaseOf(j) \notin Crashes})

TypeOK ==
  /\ WriterTypeOK
  /\ stdin.announced \in 0..MaxTests /\ stdin.cases \in Seq(Data)
  /\ pos \in 0..MaxTests
  /\ tests \in 0..MaxTests
  /\ mpc \in {"setup", "wait", "label", "copyLabel", "answer", "copyAnswer",
              "flush", "return", "final"}
  /\ mi \in 0..MaxTests
  /\ fpc \in {"unborn", "read", "spawn", "finished"}
  /\ fi \in 0..MaxTests
  /\ wpc \in [Index -> {"unborn", "solve", "signal", "count", "finished",
                        "panicked"}]
  /\ inputs \in [Index -> Data \cup {Eof}]
  /\ outputs \in [Index -> BOOLEAN]
  /\ wg \in [Index -> 0..1]
  /\ doneCounter \in Nat
  /\ exit \in {Running, 0, 2, 13}

\* No goroutine writes a variable while another may read or write it:
\* outputs[i] is main's only after its worker has signalled, and an input
\* is the worker's only after the feeder has filled it (hackercup.go:36-61).
NoDataRace ==
  exit = Running =>
    /\ mpc = "answer" => wpc[mi] \in {"count", "finished"}
    /\ fpc = "read" => \A i \in Index :
         wpc[i] = "solve" => Cell(i) # Cell(fi)

\* What main hands to the writer is the report, in the order of the cases
\* on stdin and never past the first case that makes solve panic, however
\* the workers are scheduled (hackercup.go:57-61).
PrintsTheReport ==
  /\ Len(asked) <= LineLen * Owed
  /\ \A k \in 1..Len(asked) : asked[k] = ReportByte(k)

\* The exit code tells the truth: 0 only after every test was solved,
\* signalled and printed, 13 only after a panic of solve or of a write, and
\* the WriteAll that main runs outside of any recover never panics
\* (main.go:36-39, hackercup.go:18-23, debug.go:28-33).
ExitTellsTheTruth ==
  /\ exit = 0 => /\ NoCrash
                 /\ file = Report(stdin.announced)
                 /\ \A i \in AnnouncedIndex : wpc[i] \in {"count", "finished"}
  /\ exit = 13 => \/ \E i \in AnnouncedIndex : wpc[i] = "panicked"
                  \/ wstate \in {"failed", "retried"}
  /\ exit # 2

\* The process ends: main is never left waiting for a worker that is gone
\* (hackercup.go:57-58 with debug.go:12-17).
Terminates == <>(exit # Running)

\* What a caller of the program sees, see module Contest.
Promise == INSTANCE Contest WITH
  report <- Report(Owed),
  complete <- NoCrash,
  trouble <- CASE wstate = "failed" -> "short"
               [] wstate = "retried" -> "rewritten"
               [] OTHER -> "none"

ImplementsContest == Promise!Spec

=============================================================================
