-------------------------- MODULE HackercupProofs ---------------------------
(***************************************************************************)
(* Theorems about the contest template, for every number of tests, every   *)
(* input and every size of the output buffer.                              *)
(***************************************************************************)
EXTENDS Hackercup, FastWriterProofs, FiniteSetTheorems

Signalled == {"count", "finished"}

\* The places at which main works on test mi, after its worker signalled.
Printing == {"label", "copyLabel", "answer", "copyAnswer"}

\* Where main and the feeder are, and how far they have come.
Control ==
  /\ mpc = "setup" => tests = 0 /\ mi = 0 /\ fi = 0 /\ pos = 0 /\ fpc = "unborn"
  /\ mpc # "setup" => tests = stdin.announced /\ fpc # "unborn"
  /\ fi <= tests
  /\ fpc \in {"read", "spawn"} => fi < tests
  /\ pos = IF fpc = "spawn" THEN fi + 1 ELSE fi
  /\ mi <= tests
  /\ mpc \in Printing \cup {"wait"} => mi < tests

\* A worker exists from the moment the feeder has started it, and its
\* WaitGroup is open until it signals.
Workers ==
  /\ \A i \in Index : wpc[i] = "unborn" <=> fi <= i
  /\ \A i \in Index : wg[i] = 0 <=> i >= tests \/ wpc[i] \in Signalled

\* Each worker works on the case of its own number.
Answers ==
  /\ \A i \in Index : i < pos => inputs[i] = CaseOf(i)
  /\ \A i \in Index : wpc[i] \in {"signal"} \cup Signalled =>
       CaseOf(i) \notin Crashes /\ outputs[i] = (CaseOf(i) \in Wins)
  /\ \A i \in Index : wpc[i] = "panicked" => CaseOf(i) \in Crashes

\* Main has waited for every test it has printed.
Waited ==
  /\ \A i \in Index : i < mi => wpc[i] \in Signalled
  /\ mpc \in Printing => wpc[mi] \in Signalled

\* What the writer is doing at each place of main.
Writing ==
  /\ mpc \in {"setup", "wait", "label", "answer"} => wstate = "ready"
  /\ mpc \in {"copyLabel", "copyAnswer"} => wstate = "copying"
  /\ mpc = "flush" => wstate \in {"ready", "failed"}
  /\ mpc = "return" => wstate \in {"ready", "failed", "retried"}
  /\ mpc = "final" => wstate = "ready"
  /\ mpc \in {"flush", "return", "final"} /\ wstate = "ready" => mi = tests
  /\ mpc \in {"return", "final"} /\ wstate = "ready" => used = 0

\* How many bytes main has handed to the writer.
Progress ==
  /\ mpc \in {"setup", "wait", "label"} => Len(asked) = LineLen * mi
  /\ mpc \in {"copyLabel", "answer"} => Len(asked) = LineLen * mi + 3
  /\ mpc = "copyAnswer" => Len(asked) = LineLen * mi + LineLen
  /\ mpc \in {"flush", "return", "final"} =>
       IF wstate = "ready"
       THEN Len(asked) = LineLen * mi
       ELSE \/ Len(asked) <= LineLen * mi
            \/ /\ mi < tests
               /\ wpc[mi] \in Signalled
               /\ Len(asked) <= LineLen * mi + LineLen
  /\ \A k \in 1..Len(asked) : asked[k] = ReportByte(k)

\* How the process has ended.
Ended ==
  /\ exit = 0 => mpc = "final"
  /\ exit = 13 => \/ \E i \in Index : i < tests /\ wpc[i] = "panicked"
                  \/ wstate \in {"failed", "retried"}
  /\ exit # 2

HInv ==
  /\ TypeOK /\ WInv
  /\ Control /\ Workers /\ Answers /\ Waited /\ Writing /\ Progress /\ Ended

-----------------------------------------------------------------------------
(* The texts main prints, and the report.                                  *)

LEMMA Triple ==
  ASSUME NEW S, NEW a \in S, NEW b \in S, NEW c \in S
  PROVE  <<a, b, c>> \in Seq(S) /\ Len(<<a, b, c>>) = 3
  OBVIOUS

LEMMA Couple ==
  ASSUME NEW S, NEW a \in S, NEW b \in S
  PROVE  <<a, b>> \in Seq(S) /\ Len(<<a, b>>) = 2
  OBVIOUS

LEMMA Texts ==
  ASSUME NEW i \in Index, NEW alice \in BOOLEAN
  PROVE  /\ LabelText(i) \in Text /\ Len(LabelText(i)) = 3
         /\ AnswerText(alice) \in Text /\ Len(AnswerText(alice)) = 2
<1> DEFINE Words == {"Case #", ": ", "Alice", "Bob", "newline"} \X {0}
<1>1. Words \subseteq Byte
  BY BytesAssumption DEF OutputBytes
<1>2. <<"number", i + 1>> \in Byte
  <2>1. <<"number", i + 1>> \in {"number"} \X (1..MaxTests)
    BY CasesAssumption DEF Index
  <2> QED BY <2>1, BytesAssumption DEF OutputBytes
<1>3. /\ <<"Case #", 0>> \in Words /\ <<": ", 0>> \in Words
      /\ <<"newline", 0>> \in Words
      /\ <<IF alice THEN "Alice" ELSE "Bob", 0>> \in Words
  OBVIOUS
<1> HIDE DEF Words
<1>4. /\ <<"Case #", 0>> \in Byte /\ <<": ", 0>> \in Byte
      /\ <<"newline", 0>> \in Byte
      /\ <<IF alice THEN "Alice" ELSE "Bob", 0>> \in Byte
  BY <1>1, <1>3
<1>5. LabelText(i) \in Text /\ Len(LabelText(i)) = 3
  BY <1>2, <1>4, Triple DEF LabelText, Text
<1>6. AnswerText(alice) \in Text /\ Len(AnswerText(alice)) = 2
  BY <1>4, Couple DEF AnswerText, Text
<1> QED BY <1>5, <1>6

\* The bytes of test i in the report.
LEMMA ReportOfTest ==
  ASSUME NEW i \in Nat, NEW c \in 0..4
  PROVE  ReportByte(LineLen * i + c + 1) =
           IF c < 3 THEN LabelText(i)[c + 1]
           ELSE AnswerText(CaseOf(i) \in Wins)[c - 2]
<1>1. \A k : (k - 1) \div LineLen = i /\ (k - 1) % LineLen = c =>
        ReportByte(k) = IF c < 3 THEN LabelText(i)[c + 1]
                        ELSE AnswerText(CaseOf(i) \in Wins)[c - 2]
  BY DEF ReportByte
<1> DEFINE p == LineLen * i + c + 1
<1>2. (p - 1) \div LineLen = i /\ (p - 1) % LineLen = c
  <2>1. p - 1 = 5 * i + c
    BY DEF LineLen
  <2>2. (5 * i + c) \div 5 = i
    OBVIOUS
  <2>3. (5 * i + c) % 5 = c
    OBVIOUS
  <2> QED BY <2>1, <2>2, <2>3 DEF LineLen
<1> HIDE DEF p
<1>3. ReportByte(p) = IF c < 3 THEN LabelText(i)[c + 1]
                      ELSE AnswerText(CaseOf(i) \in Wins)[c - 2]
  BY <1>1, <1>2
<1> QED BY <1>3 DEF p

\* Stdin never changes, and the report with it.
LEMMA SameReport ==
  ASSUME stdin' = stdin
  PROVE  /\ \A i : CaseOf(i)' = CaseOf(i)
         /\ \A k : ReportByte(k)' = ReportByte(k)
  BY DEF CaseOf, ReportByte

-----------------------------------------------------------------------------
(* What a step leaves alone when it does not touch some variables.         *)

LEMMA ControlFrame ==
  ASSUME Control, UNCHANGED <<stdin, pos, mainVars, fpc, fi>>
  PROVE  Control'
  BY DEF Control, mainVars, Printing

LEMMA WritingFrame ==
  ASSUME Writing, UNCHANGED <<mainVars, writerVars>>
  PROVE  Writing'
  BY DEF Writing, mainVars, writerVars

\* A worker that has signalled stays signalled.
LEMMA WaitedFrame ==
  ASSUME TypeOK, Control, Waited, mpc' = mpc, mi' = mi,
         \A i \in Index : wpc[i] \in Signalled => wpc'[i] \in Signalled
  PROVE  Waited'
<1>1. mpc \in Printing => mi \in Index
  BY CasesAssumption DEF TypeOK, Control, Index
<1> QED BY <1>1 DEF Waited

LEMMA ProgressFrame ==
  ASSUME TypeOK, Progress, UNCHANGED <<stdin, mainVars, asked, wstate>>,
         \A i \in Index : wpc[i] \in Signalled => wpc'[i] \in Signalled
  PROVE  Progress'
<1>1. \A k : ReportByte(k)' = ReportByte(k)
  BY SameReport
<1>2. mi < tests => mi \in Index
  BY CasesAssumption DEF TypeOK, Index
<1> QED BY <1>1, <1>2 DEF Progress, mainVars

LEMMA EndedFrame ==
  ASSUME TypeOK, Ended, UNCHANGED <<mainVars, wstate, exit>>,
         \A i \in Index : wpc[i] = "panicked" => wpc'[i] = "panicked"
  PROVE  Ended'
  BY DEF Ended, mainVars

-----------------------------------------------------------------------------
LEMMA InitHInv == Init => HInv
<1> SUFFICES ASSUME Init PROVE HInv
  OBVIOUS
<1>1. WInv
  BY InitWInv DEF Init
<1>2. stdin.announced \in 0..MaxTests /\ stdin.cases \in Seq(Data)
  <2>1. \A n \in Nat : [1..n -> Data] \subseteq Seq(Data)
    BY SeqDef
  <2> QED BY <2>1, CasesAssumption DEF Init
<1>3. TypeOK
  BY <1>1, <1>2, CasesAssumption DEF Init, TypeOK, WInv, Running, Index
<1>4. Control /\ Workers /\ Answers /\ Waited /\ Ended
  BY CasesAssumption
  DEF Init, Control, Workers, Answers, Waited, Ended, Running, Index, Printing,
      Signalled
<1>5. Writing /\ Progress
  BY DEF Init, WriterInit, Writing, Progress, LineLen
<1> QED BY <1>1, <1>3, <1>4, <1>5 DEF HInv

-----------------------------------------------------------------------------
(* The steps of the workers.                                               *)

LEMMA WorkerSolveHInv ==
  ASSUME HInv, NEW i \in Index, WorkerSolve(i)
  PROVE  HInv'
<1> USE DEF HInv
<1>1. WInv'
  BY StutterWInv DEF WorkerSolve
<1>2. TypeOK'
  BY <1>1 DEF WorkerSolve, TypeOK, WInv, mainVars, feederVars, writerVars
<1>3. Control' /\ Writing'
  BY ControlFrame, WritingFrame DEF WorkerSolve, feederVars
<1>4. Workers'
  BY DEF WorkerSolve, Workers, TypeOK, mainVars, feederVars, Signalled
<1>5. Answers'
  <2>1. i < pos
    BY CasesAssumption DEF WorkerSolve, Workers, Control, TypeOK, Index
  <2>2. \A j : CaseOf(j)' = CaseOf(j)
    BY SameReport DEF WorkerSolve
  <2> QED BY <2>1, <2>2 DEF WorkerSolve, Answers, TypeOK, feederVars, Cell, Signalled
<1>6. Waited' /\ Progress' /\ Ended'
  <2>1. \A j \in Index : /\ wpc[j] \in Signalled => wpc'[j] \in Signalled
                         /\ wpc[j] = "panicked" => wpc'[j] = "panicked"
    BY DEF WorkerSolve, TypeOK, Signalled
  <2> QED BY <2>1, WaitedFrame, ProgressFrame, EndedFrame
          DEF WorkerSolve, mainVars, writerVars
<1> QED BY <1>1, <1>2, <1>3, <1>4, <1>5, <1>6

LEMMA WorkerPanicHInv ==
  ASSUME HInv, NEW i \in Index, WorkerPanic(i)
  PROVE  HInv'
<1> USE DEF HInv
<1>1. WInv'
  BY StutterWInv DEF WorkerPanic
<1>2. TypeOK'
  BY <1>1 DEF WorkerPanic, TypeOK, WInv, mainVars, feederVars, workerVars, writerVars
<1>3. Control' /\ Writing'
  BY ControlFrame, WritingFrame DEF WorkerPanic, feederVars
<1>4. Workers'
  BY DEF WorkerPanic, Workers, TypeOK, mainVars, feederVars, workerVars, Signalled
<1>5. Answers'
  <2>1. i < pos
    BY CasesAssumption DEF WorkerPanic, Workers, Control, TypeOK, Index
  <2>2. \A j : CaseOf(j)' = CaseOf(j)
    BY SameReport DEF WorkerPanic
  <2>3. CaseOf(i) \in Crashes
    BY <2>1 DEF WorkerPanic, Answers, Cell
  <2> QED BY <2>2, <2>3 DEF WorkerPanic, Answers, TypeOK, feederVars, workerVars, Signalled
<1>6. Waited' /\ Progress' /\ Ended'
  <2>1. \A j \in Index : /\ wpc[j] \in Signalled => wpc'[j] \in Signalled
                         /\ wpc[j] = "panicked" => wpc'[j] = "panicked"
    BY DEF WorkerPanic, TypeOK, Signalled
  <2> QED BY <2>1, WaitedFrame, ProgressFrame, EndedFrame
          DEF WorkerPanic, mainVars, writerVars
<1> QED BY <1>1, <1>2, <1>3, <1>4, <1>5, <1>6

LEMMA WorkerExitHInv ==
  ASSUME HInv, NEW i \in Index, WorkerExit(i)
  PROVE  HInv'
<1> USE DEF HInv
<1>1. WInv'
  BY StutterWInv DEF WorkerExit
<1>2. TypeOK'
  BY <1>1 DEF WorkerExit, TypeOK, WInv, mainVars, feederVars, workerVars, writerVars,
              Running
<1>3. Control' /\ Writing'
  BY ControlFrame, WritingFrame DEF WorkerExit, feederVars
<1>4. Workers'
  BY DEF WorkerExit, Workers, mainVars, feederVars, workerVars
<1>5. Answers'
  <2>1. \A j : CaseOf(j)' = CaseOf(j)
    BY SameReport DEF WorkerExit
  <2> QED BY <2>1 DEF WorkerExit, Answers, feederVars, workerVars
<1>6. Waited' /\ Progress'
  BY WaitedFrame, ProgressFrame DEF WorkerExit, mainVars, writerVars
<1>7. Ended'
  <2>1. i < tests
    BY CasesAssumption DEF WorkerExit, Workers, Control, TypeOK, Index
  <2> QED BY <2>1 DEF WorkerExit, Ended, mainVars
<1> QED BY <1>1, <1>2, <1>3, <1>4, <1>5, <1>6, <1>7

LEMMA WorkerDoneHInv ==
  ASSUME HInv, NEW i \in Index, WorkerDone(i)
  PROVE  HInv'
<1> USE DEF HInv
<1>1. WInv'
  BY StutterWInv DEF WorkerDone
<1>2. wg[i] = 1
  <2>1. i < tests
    BY CasesAssumption DEF WorkerDone, Workers, Control, TypeOK, Index
  <2> QED BY <2>1, CasesAssumption DEF WorkerDone, Workers, TypeOK, Signalled, Index
<1>3. TypeOK'
  BY <1>1, <1>2 DEF WorkerDone, TypeOK, WInv, mainVars, feederVars, writerVars
<1>4. Control' /\ Writing'
  BY ControlFrame, WritingFrame DEF WorkerDone, feederVars
<1>5. Workers'
  BY <1>2 DEF WorkerDone, Workers, TypeOK, mainVars, feederVars, Signalled
<1>6. Answers'
  <2>1. \A j : CaseOf(j)' = CaseOf(j)
    BY SameReport DEF WorkerDone
  <2> QED BY <2>1 DEF WorkerDone, Answers, TypeOK, feederVars, Signalled
<1>7. Waited' /\ Progress' /\ Ended'
  <2>1. \A j \in Index : /\ wpc[j] \in Signalled => wpc'[j] \in Signalled
                         /\ wpc[j] = "panicked" => wpc'[j] = "panicked"
    BY DEF WorkerDone, TypeOK, Signalled
  <2> QED BY <2>1, WaitedFrame, ProgressFrame, EndedFrame
          DEF WorkerDone, mainVars, writerVars
<1> QED BY <1>1, <1>3, <1>4, <1>5, <1>6, <1>7

LEMMA WorkerCountHInv ==
  ASSUME HInv, NEW i \in Index, WorkerCount(i)
  PROVE  HInv'
<1> USE DEF HInv
<1>1. WInv'
  BY StutterWInv DEF WorkerCount
<1>2. TypeOK'
  BY <1>1 DEF WorkerCount, TypeOK, WInv, mainVars, feederVars, writerVars
<1>3. Control' /\ Writing'
  BY ControlFrame, WritingFrame DEF WorkerCount, feederVars
<1>4. Workers'
  BY DEF WorkerCount, Workers, TypeOK, mainVars, feederVars, Signalled
<1>5. Answers'
  <2>1. \A j : CaseOf(j)' = CaseOf(j)
    BY SameReport DEF WorkerCount
  <2> QED BY <2>1 DEF WorkerCount, Answers, TypeOK, feederVars, Signalled
<1>6. Waited' /\ Progress' /\ Ended'
  <2>1. \A j \in Index : /\ wpc[j] \in Signalled => wpc'[j] \in Signalled
                         /\ wpc[j] = "panicked" => wpc'[j] = "panicked"
    BY DEF WorkerCount, TypeOK, Signalled
  <2> QED BY <2>1, WaitedFrame, ProgressFrame, EndedFrame
          DEF WorkerCount, mainVars, writerVars
<1> QED BY <1>1, <1>2, <1>3, <1>4, <1>5, <1>6

-----------------------------------------------------------------------------
(* The steps of the feeder.                                                *)

LEMMA FeederReadHInv ==
  ASSUME HInv, FeederRead
  PROVE  HInv'
<1> USE DEF HInv
<1>0. /\ fi \in Index /\ pos = fi /\ fi < tests /\ fi + 1 \in 0..MaxTests
      /\ \A i \in Index : wpc[i] = "unborn" <=> fi <= i
  BY CasesAssumption DEF FeederRead, Control, Workers, TypeOK, Index
<1>1. WInv'
  BY StutterWInv DEF FeederRead
<1>2. TypeOK'
  <2>1. CaseOf(pos) \in Data \cup {Eof}
    BY <1>0, CasesAssumption DEF CaseOf, TypeOK, Index
  <2> QED BY <1>0, <1>1, <2>1
          DEF FeederRead, TypeOK, WInv, mainVars, workerVars, writerVars, Cell
<1>3. Control'
  BY <1>0 DEF FeederRead, Control, TypeOK, mainVars, Printing
<1>4. Workers'
  BY DEF FeederRead, Workers, mainVars, workerVars
<1>5. Answers'
  <2>1. \A j : CaseOf(j)' = CaseOf(j)
    BY SameReport DEF FeederRead
  <2>2. \A j \in Index : j < pos' => inputs'[j] = CaseOf(j)
    BY <1>0, CasesAssumption DEF FeederRead, Answers, TypeOK, Cell, Index
  <2> QED BY <2>1, <2>2 DEF FeederRead, Answers, workerVars
<1>6. Writing' /\ Waited' /\ Progress' /\ Ended'
  BY WritingFrame, WaitedFrame, ProgressFrame, EndedFrame
  DEF FeederRead, mainVars, writerVars
<1> QED BY <1>1, <1>2, <1>3, <1>4, <1>5, <1>6

LEMMA FeederSpawnHInv ==
  ASSUME HInv, FeederSpawn
  PROVE  HInv'
<1> USE DEF HInv
<1>0. /\ fi \in Index /\ pos = fi + 1 /\ fi < tests /\ fi + 1 \in 0..MaxTests
      /\ wpc[fi] = "unborn"
  BY CasesAssumption DEF FeederSpawn, Control, Workers, TypeOK, Index
<1>1. WInv'
  BY StutterWInv DEF FeederSpawn
<1>2. TypeOK'
  BY <1>0, <1>1 DEF FeederSpawn, TypeOK, WInv, mainVars, workerVars, writerVars
<1>3. Control'
  BY <1>0, CasesAssumption DEF FeederSpawn, Control, TypeOK, mainVars, Printing
<1>4. Workers'
  BY <1>0, CasesAssumption
  DEF FeederSpawn, Workers, TypeOK, mainVars, workerVars, Signalled, Index
<1>5. Answers'
  <2>1. \A j : CaseOf(j)' = CaseOf(j)
    BY SameReport DEF FeederSpawn
  <2> QED BY <1>0, <2>1 DEF FeederSpawn, Answers, TypeOK, workerVars, Signalled
<1>6. Writing'
  BY WritingFrame DEF FeederSpawn
<1>7. Waited' /\ Progress' /\ Ended'
  <2>1. \A j \in Index : /\ wpc[j] \in Signalled => wpc'[j] \in Signalled
                         /\ wpc[j] = "panicked" => wpc'[j] = "panicked"
    BY <1>0 DEF FeederSpawn, TypeOK, Signalled
  <2> QED BY <2>1, WaitedFrame, ProgressFrame, EndedFrame
          DEF FeederSpawn, mainVars, writerVars
<1> QED BY <1>1, <1>2, <1>3, <1>4, <1>5, <1>6, <1>7

-----------------------------------------------------------------------------
(* The steps of main.                                                      *)

LEMMA Appended ==
  ASSUME NEW a \in Text, NEW b \in Text
  PROVE  /\ Len(a \o b) = Len(a) + Len(b)
         /\ \A k \in 1..Len(a) + Len(b) :
              (a \o b)[k] = IF k <= Len(a) THEN a[k] ELSE b[k - Len(a)]
  BY ConcatProperties DEF Text

\* Handing over the label of test mi continues the report.
LEMMA LabelContinues ==
  ASSUME asked \in Text, NEW i \in Index, Len(asked) = LineLen * i,
         \A k \in 1..Len(asked) : asked[k] = ReportByte(k),
         asked' = asked \o LabelText(i)
  PROVE  /\ Len(asked') = LineLen * i + 3
         /\ \A k \in 1..Len(asked') : asked'[k] = ReportByte(k)
<1>0. i \in Nat /\ LineLen * i \in Nat
  BY CasesAssumption DEF Index, LineLen
<1>1. LabelText(i) \in Text /\ Len(LabelText(i)) = 3
  BY Texts
<1>2. /\ Len(asked') = LineLen * i + 3
      /\ \A k \in 1..LineLen * i + 3 :
           asked'[k] = IF k <= LineLen * i THEN asked[k]
                       ELSE LabelText(i)[k - LineLen * i]
  <2>1. LabelText(i) \in Text
    BY <1>1
  <2>2. /\ Len(asked \o LabelText(i)) = Len(asked) + Len(LabelText(i))
        /\ \A k \in 1..Len(asked) + Len(LabelText(i)) :
             (asked \o LabelText(i))[k] =
               IF k <= Len(asked) THEN asked[k] ELSE LabelText(i)[k - Len(asked)]
    BY <2>1, Appended
  <2> QED BY <1>1, <2>2
<1>3. ASSUME NEW k \in 1..LineLen * i + 3, k > LineLen * i
      PROVE  LabelText(i)[k - LineLen * i] = ReportByte(k)
  <2> DEFINE c == k - LineLen * i - 1
  <2>1. c \in 0..2 /\ LineLen * i + c + 1 = k /\ c + 1 = k - LineLen * i
    BY <1>0, <1>3
  <2>2. c \in 0..4 /\ c < 3
    BY <2>1
  <2> HIDE DEF c
  <2>3. ReportByte(LineLen * i + c + 1) = LabelText(i)[c + 1]
    BY <1>0, <2>2, ReportOfTest
  <2> QED BY <2>1, <2>3
<1> DEFINE base == LineLen * i
<1>4. /\ base \in Nat /\ Len(asked) = base /\ Len(asked') = base + 3
      /\ \A k \in 1..base : asked[k] = ReportByte(k)
      /\ \A k \in 1..base + 3 :
           asked'[k] = IF k <= base THEN asked[k] ELSE LabelText(i)[k - base]
      /\ \A k \in 1..base + 3 : k > base => LabelText(i)[k - base] = ReportByte(k)
  BY <1>0, <1>2, <1>3
<1> HIDE DEF base
<1>5. \A k \in 1..base + 3 : asked'[k] = ReportByte(k)
  BY <1>4
<1> QED BY <1>4, <1>5 DEF base

\* And so does handing over its answer.
LEMMA AnswerContinues ==
  ASSUME asked \in Text, NEW i \in Index, Len(asked) = LineLen * i + 3,
         \A k \in 1..Len(asked) : asked[k] = ReportByte(k),
         asked' = asked \o AnswerText(CaseOf(i) \in Wins)
  PROVE  /\ Len(asked') = LineLen * i + LineLen
         /\ \A k \in 1..Len(asked') : asked'[k] = ReportByte(k)
<1> DEFINE base == LineLen * i + 3
<1> (CaseOf(i) \in Wins) \in BOOLEAN
  OBVIOUS
<1> PICK alice \in BOOLEAN : alice = (CaseOf(i) \in Wins)
  OBVIOUS
<1> DEFINE answer == AnswerText(alice)
<1>0. i \in Nat /\ LineLen * i \in Nat /\ base \in Nat
  BY CasesAssumption DEF Index, LineLen
<1>1. answer \in Text /\ Len(answer) = 2
  BY Texts
<1>2. /\ Len(asked') = base + 2
      /\ \A k \in 1..base + 2 :
           asked'[k] = IF k <= base THEN asked[k] ELSE answer[k - base]
  <2>1. answer \in Text
    BY <1>1
  <2>2. /\ Len(asked \o answer) = Len(asked) + Len(answer)
        /\ \A k \in 1..Len(asked) + Len(answer) :
             (asked \o answer)[k] =
               IF k <= Len(asked) THEN asked[k] ELSE answer[k - Len(asked)]
    BY <2>1, Appended
  <2> QED BY <1>1, <2>2
<1>3. ASSUME NEW k \in 1..base + 2, k > base
      PROVE  answer[k - base] = ReportByte(k)
  <2> DEFINE c == k - LineLen * i - 1
  <2>1. c \in 3..4 /\ LineLen * i + c + 1 = k /\ c - 2 = k - base
    BY <1>0, <1>3
  <2>2. c \in 0..4 /\ ~(c < 3)
    BY <2>1
  <2> HIDE DEF c
  <2>3. ReportByte(LineLen * i + c + 1) = answer[c - 2]
    BY <1>0, <2>2, ReportOfTest
  <2> QED BY <2>1, <2>3
<1>4. base + 2 = LineLen * i + LineLen
  BY <1>0 DEF LineLen
<1> QED BY <1>0, <1>2, <1>3, <1>4

LEMMA MainSetupHInv ==
  ASSUME HInv, MainSetup
  PROVE  HInv'
<1> USE DEF HInv
<1>0. /\ tests' = stdin.announced /\ tests' \in 0..MaxTests
      /\ tests = 0 /\ mi = 0 /\ fi = 0 /\ pos = 0
  BY DEF MainSetup, Control, TypeOK
<1>1. WInv'
  BY StutterWInv DEF MainSetup
<1>2. TypeOK'
  BY <1>0, <1>1 DEF MainSetup, TypeOK, WInv, writerVars
<1>3. Control' /\ Workers'
  BY <1>0, CasesAssumption
  DEF MainSetup, Control, Workers, TypeOK, Printing, Index, Signalled
<1>4. Answers'
  <2>1. \A j : CaseOf(j)' = CaseOf(j)
    BY SameReport DEF MainSetup
  <2> QED BY <2>1 DEF MainSetup, Answers
<1>5. Waited'
  BY <1>0, CasesAssumption DEF MainSetup, Waited, Printing, Index
<1>6. Writing'
  BY <1>0 DEF MainSetup, Writing, writerVars
<1>7. Progress'
  <2>1. \A k : ReportByte(k)' = ReportByte(k)
    BY SameReport DEF MainSetup
  <2> QED BY <1>0, <2>1 DEF MainSetup, Progress, Writing, writerVars
<1>8. Ended'
  BY <1>0, CasesAssumption DEF MainSetup, Ended, Workers, TypeOK, writerVars, Index
<1> QED BY <1>1, <1>2, <1>3, <1>4, <1>5, <1>6, <1>7, <1>8

LEMMA MainWaitHInv ==
  ASSUME HInv, MainWait
  PROVE  HInv'
<1> USE DEF HInv
<1>0. mi \in Index /\ mi < tests /\ wpc[mi] \in Signalled
  BY CasesAssumption DEF MainWait, Control, Workers, TypeOK, Index
<1>1. WInv'
  BY StutterWInv DEF MainWait
<1>2. TypeOK'
  BY <1>1 DEF MainWait, TypeOK, WInv, feederVars, workerVars, writerVars
<1>3. Control' /\ Workers'
  BY <1>0 DEF MainWait, Control, Workers, feederVars, workerVars, Printing
<1>4. Answers'
  <2>1. \A j : CaseOf(j)' = CaseOf(j)
    BY SameReport DEF MainWait
  <2> QED BY <2>1 DEF MainWait, Answers, feederVars, workerVars
<1>5. Waited' /\ Writing' /\ Ended'
  BY <1>0 DEF MainWait, Waited, Writing, Ended, writerVars, Printing
<1>6. Progress'
  <2>1. \A k : ReportByte(k)' = ReportByte(k)
    BY SameReport DEF MainWait
  <2> QED BY <2>1 DEF MainWait, Progress, writerVars
<1> QED BY <1>1, <1>2, <1>3, <1>4, <1>5, <1>6

LEMMA MainLabelHInv ==
  ASSUME HInv, MainLabel
  PROVE  HInv'
<1> USE DEF HInv
<1>0. /\ mi \in Index /\ mi < tests /\ LabelText(mi) \in Text
      /\ LabelText(mi) # <<>> /\ String(LabelText(mi))
  <2>1. mi \in Index /\ mi < tests
    BY CasesAssumption DEF MainLabel, Control, TypeOK, Index, Printing
  <2>2. LabelText(mi) \in Text /\ Len(LabelText(mi)) = 3
    BY <2>1, Texts
  <2>3. LabelText(mi) # <<>>
    BY <2>2
  <2> QED BY <2>1, <2>2, <2>3 DEF MainLabel
<1>1. WInv'
  BY <1>0, StringWInv
<1>2. wstate' = "copying" /\ asked' = asked \o LabelText(mi)
  BY <1>0 DEF String, CopyingOr
<1>3. TypeOK'
  BY <1>1 DEF MainLabel, TypeOK, WInv, feederVars, workerVars
<1>4. Control' /\ Workers'
  BY <1>0 DEF MainLabel, Control, Workers, feederVars, workerVars, Printing
<1>5. Answers'
  <2>1. \A j : CaseOf(j)' = CaseOf(j)
    BY SameReport DEF MainLabel
  <2> QED BY <2>1 DEF MainLabel, Answers, feederVars, workerVars
<1>6. Waited' /\ Writing'
  BY <1>2 DEF MainLabel, Waited, Writing, Printing
<1>7. Progress'
  <2>1. \A k : ReportByte(k)' = ReportByte(k)
    BY SameReport DEF MainLabel
  <2>2. /\ asked \in Text /\ Len(asked) = LineLen * mi
        /\ \A k \in 1..Len(asked) : asked[k] = ReportByte(k)
    BY DEF MainLabel, Progress, TypeOK, WriterTypeOK
  <2>3. /\ Len(asked') = LineLen * mi + 3
        /\ \A k \in 1..Len(asked') : asked'[k] = ReportByte(k)
    BY <1>0, <1>2, <2>2, LabelContinues
  <2> QED BY <2>1, <2>3 DEF MainLabel, Progress
<1>8. Ended'
  BY <1>2 DEF MainLabel, Ended, Writing
<1> QED BY <1>1, <1>3, <1>4, <1>5, <1>6, <1>7, <1>8

LEMMA MainAnswerHInv ==
  ASSUME HInv, MainAnswer
  PROVE  HInv'
<1> USE DEF HInv
<1>0. /\ mi \in Index /\ mi < tests
      /\ outputs[mi] = (CaseOf(mi) \in Wins)
      /\ AnswerText(outputs[mi]) \in Text
      /\ AnswerText(outputs[mi]) # <<>> /\ String(AnswerText(outputs[mi]))
  <2>1. mi \in Index /\ mi < tests /\ wpc[mi] \in Signalled
    BY CasesAssumption DEF MainAnswer, Control, Waited, TypeOK, Index, Printing
  <2>2. outputs[mi] = (CaseOf(mi) \in Wins) /\ outputs[mi] \in BOOLEAN
    BY <2>1 DEF Answers, TypeOK
  <2>3. /\ AnswerText(outputs[mi]) \in Text
        /\ Len(AnswerText(outputs[mi])) = 2
    BY <2>1, <2>2, Texts
  <2>4. AnswerText(outputs[mi]) # <<>>
    BY <2>3
  <2> QED BY <2>1, <2>2, <2>3, <2>4 DEF MainAnswer
<1>1. WInv'
  BY <1>0, StringWInv
<1>2. wstate' = "copying" /\ asked' = asked \o AnswerText(CaseOf(mi) \in Wins)
  BY <1>0 DEF String, CopyingOr
<1>3. TypeOK'
  BY <1>1 DEF MainAnswer, TypeOK, WInv, feederVars, workerVars
<1>4. Control' /\ Workers'
  BY <1>0 DEF MainAnswer, Control, Workers, feederVars, workerVars, Printing
<1>5. Answers'
  <2>1. \A j : CaseOf(j)' = CaseOf(j)
    BY SameReport DEF MainAnswer
  <2> QED BY <2>1 DEF MainAnswer, Answers, feederVars, workerVars
<1>6. Waited' /\ Writing'
  BY <1>2 DEF MainAnswer, Waited, Writing, Printing
<1>7. Progress'
  <2>1. \A k : ReportByte(k)' = ReportByte(k)
    BY SameReport DEF MainAnswer
  <2>2. /\ asked \in Text /\ Len(asked) = LineLen * mi + 3
        /\ \A k \in 1..Len(asked) : asked[k] = ReportByte(k)
    BY DEF MainAnswer, Progress, TypeOK, WriterTypeOK
  <2>3. /\ Len(asked') = LineLen * mi + LineLen
        /\ \A k \in 1..Len(asked') : asked'[k] = ReportByte(k)
    BY <1>0, <1>2, <2>2, AnswerContinues
  <2> QED BY <2>1, <2>3 DEF MainAnswer, Progress
<1>8. Ended'
  BY <1>2 DEF MainAnswer, Ended, Writing
<1> QED BY <1>1, <1>3, <1>4, <1>5, <1>6, <1>7, <1>8

\* Where a turn of the loop of String may leave main.
LEMMA CopyChunkOutcome ==
  ASSUME CopyChunk
  PROVE  asked' = asked /\ wstate' \in {"ready", "copying", "failed"}
  BY DEF CopyChunk, FlushIfNearlyFull, WriteAll, CopyingOr

LEMMA MainCopyLabelHInv ==
  ASSUME HInv, MainCopyLabel
  PROVE  HInv'
<1> USE DEF HInv
<1>0. /\ mi \in Index /\ mi < tests
      /\ asked' = asked /\ wstate' \in {"ready", "copying", "failed"}
  BY CasesAssumption, CopyChunkOutcome
  DEF MainCopyLabel, Control, TypeOK, Index, Printing
<1>1. WInv'
  BY CopyChunkWInv DEF MainCopyLabel
<1>2. TypeOK'
  BY <1>0, <1>1 DEF MainCopyLabel, TypeOK, WInv, feederVars, workerVars
<1>3. Control' /\ Workers'
  BY <1>0 DEF MainCopyLabel, Control, Workers, feederVars, workerVars, Printing
<1>4. Answers'
  <2>1. \A j : CaseOf(j)' = CaseOf(j)
    BY SameReport DEF MainCopyLabel
  <2> QED BY <2>1 DEF MainCopyLabel, Answers, feederVars, workerVars
<1>5. Waited' /\ Writing'
  BY <1>0 DEF MainCopyLabel, Waited, Writing, Printing
<1>6. Progress'
  <2>1. \A k : ReportByte(k)' = ReportByte(k)
    BY SameReport DEF MainCopyLabel
  <2>2. wpc[mi] \in Signalled /\ Len(asked) = LineLen * mi + 3
    BY DEF MainCopyLabel, Waited, Progress, Printing
  <2>3. mi \in Nat /\ LineLen * mi + 3 <= LineLen * mi + LineLen
    BY <1>0, CasesAssumption DEF Index, LineLen
  <2> QED BY <1>0, <2>1, <2>2, <2>3 DEF MainCopyLabel, Progress
<1>7. Ended'
  BY <1>0 DEF MainCopyLabel, Ended, Writing
<1> QED BY <1>1, <1>2, <1>3, <1>4, <1>5, <1>6, <1>7

LEMMA MainCopyAnswerHInv ==
  ASSUME HInv, MainCopyAnswer
  PROVE  HInv'
<1> USE DEF HInv
<1>0. /\ mi \in Index /\ mi < tests /\ tests \in 0..MaxTests
      /\ asked' = asked /\ wstate' \in {"ready", "copying", "failed"}
  BY CasesAssumption, CopyChunkOutcome
  DEF MainCopyAnswer, Control, TypeOK, Index, Printing
<1>1. WInv'
  BY CopyChunkWInv DEF MainCopyAnswer
<1>2. /\ mi' \in 0..MaxTests /\ mi' <= tests
      /\ mi' = IF wstate' = "ready" THEN mi + 1 ELSE mi
  BY <1>0, CasesAssumption DEF MainCopyAnswer, Index
<1>3. TypeOK'
  BY <1>0, <1>1, <1>2 DEF MainCopyAnswer, TypeOK, WInv, feederVars, workerVars
<1>4. Control' /\ Workers'
  BY <1>0, <1>2 DEF MainCopyAnswer, Control, Workers, feederVars, workerVars, Printing
<1>5. Answers'
  <2>1. \A j : CaseOf(j)' = CaseOf(j)
    BY SameReport DEF MainCopyAnswer
  <2> QED BY <2>1 DEF MainCopyAnswer, Answers, feederVars, workerVars
<1>6. wpc[mi] \in Signalled /\ Len(asked) = LineLen * mi + LineLen
  BY DEF MainCopyAnswer, Waited, Progress, Printing
<1>7. Waited'
  BY <1>0, <1>2, <1>6, CasesAssumption DEF MainCopyAnswer, Waited, Printing, Index
<1>8. Writing'
  BY <1>0, <1>2, CasesAssumption DEF MainCopyAnswer, Writing, Index
<1>9. Progress'
  <2>1. \A k : ReportByte(k)' = ReportByte(k)
    BY SameReport DEF MainCopyAnswer
  <2>2. mi \in Nat /\ LineLen * (mi + 1) = LineLen * mi + LineLen
    BY <1>0, CasesAssumption DEF Index, LineLen
  <2>3. CASE wstate' = "ready"
    BY <1>0, <1>2, <1>6, <2>1, <2>2, <2>3 DEF MainCopyAnswer, Progress
  <2>4. CASE wstate' # "ready"
    BY <1>0, <1>2, <1>6, <2>1, <2>2, <2>4 DEF MainCopyAnswer, Progress
  <2> QED BY <2>3, <2>4
<1>10. Ended'
  BY <1>0 DEF MainCopyAnswer, Ended, Writing
<1> QED BY <1>1, <1>3, <1>4, <1>5, <1>7, <1>8, <1>9, <1>10

\* What the deferred WriteAll may leave behind.
LEMMA FlushAllOutcome ==
  ASSUME FlushAll, wstate \in {"ready", "failed"}
  PROVE  /\ asked' = asked
         /\ wstate = "ready" => \/ wstate' = "ready" /\ used' = 0
                                \/ wstate' = "failed"
         /\ wstate = "failed" => wstate' = "retried"
  BY DEF FlushAll, WriteAll, WriteAccepted

LEMMA MainFlushHInv ==
  ASSUME HInv, MainFlush
  PROVE  HInv'
<1> USE DEF HInv
<1>0. /\ wstate \in {"ready", "failed"} /\ asked' = asked
      /\ wstate = "ready" => \/ wstate' = "ready" /\ used' = 0
                             \/ wstate' = "failed"
      /\ wstate = "failed" => wstate' = "retried"
  BY FlushAllOutcome DEF MainFlush, Writing
<1>1. WInv'
  BY FlushAllWInv DEF MainFlush
<1>2. TypeOK'
  BY <1>1 DEF MainFlush, TypeOK, WInv, feederVars, workerVars
<1>3. Control' /\ Workers'
  BY DEF MainFlush, Control, Workers, feederVars, workerVars, Printing
<1>4. Answers'
  <2>1. \A j : CaseOf(j)' = CaseOf(j)
    BY SameReport DEF MainFlush
  <2> QED BY <2>1 DEF MainFlush, Answers, feederVars, workerVars
<1>5. Waited' /\ Writing'
  BY <1>0 DEF MainFlush, Waited, Writing, Printing
<1>6. Progress'
  <2>1. \A k : ReportByte(k)' = ReportByte(k)
    BY SameReport DEF MainFlush
  <2>2. Len(asked) \in Nat /\ LineLen * mi \in Nat
    BY LenProperties DEF TypeOK, WriterTypeOK, Text, LineLen
  <2> QED BY <1>0, <2>1, <2>2 DEF MainFlush, Progress
<1>7. Ended'
  BY <1>0 DEF MainFlush, Ended
<1> QED BY <1>1, <1>2, <1>3, <1>4, <1>5, <1>6, <1>7

LEMMA MainReturnHInv ==
  ASSUME HInv, exit = Running, MainReturn
  PROVE  HInv'
<1> USE DEF HInv
<1>1. WInv'
  BY StutterWInv DEF MainReturn
<1>2. TypeOK'
  BY <1>1 DEF MainReturn, TypeOK, WInv, feederVars, workerVars, writerVars
<1>3. Control' /\ Workers'
  BY DEF MainReturn, Control, Workers, feederVars, workerVars, Printing
<1>4. Answers'
  <2>1. \A j : CaseOf(j)' = CaseOf(j)
    BY SameReport DEF MainReturn
  <2> QED BY <2>1 DEF MainReturn, Answers, feederVars, workerVars
<1>5. Waited' /\ Writing' /\ Ended'
  BY DEF MainReturn, Waited, Writing, Ended, writerVars, Printing, Running
<1>6. Progress'
  <2>1. \A k : ReportByte(k)' = ReportByte(k)
    BY SameReport DEF MainReturn
  <2> QED BY <2>1 DEF MainReturn, Progress, writerVars
<1> QED BY <1>1, <1>2, <1>3, <1>4, <1>5, <1>6

\* The last WriteAll finds an empty buffer, so it cannot come up short.
LEMMA MainFinalHInv ==
  ASSUME HInv, MainFinal
  PROVE  HInv'
<1> USE DEF HInv
<1>0. wstate = "ready" /\ used = 0 /\ mi = tests
  BY DEF MainFinal, Writing
<1>1. WInv'
  BY FlushAllWInv DEF MainFinal
<1>2. asked' = asked /\ wstate' = "ready" /\ used' = 0
  <2>1. ~ WriteShort(buffer, used)
    BY <1>0, SizesAssumption DEF WriteShort, Shortfalls
  <2> QED BY <1>0, <2>1 DEF MainFinal, FlushAll, WriteAll, WriteAccepted
<1>3. TypeOK'
  BY <1>1, <1>2 DEF MainFinal, TypeOK, WInv, mainVars, feederVars, workerVars
<1>4. Control' /\ Workers'
  BY DEF MainFinal, Control, Workers, mainVars, feederVars, workerVars, Printing
<1>5. Answers'
  <2>1. \A j : CaseOf(j)' = CaseOf(j)
    BY SameReport DEF MainFinal
  <2> QED BY <2>1 DEF MainFinal, Answers, feederVars, workerVars
<1>6. Waited' /\ Writing' /\ Ended'
  BY <1>0, <1>2 DEF MainFinal, Waited, Writing, Ended, mainVars, Printing
<1>7. Progress'
  BY <1>0, <1>2, ProgressFrame DEF MainFinal, mainVars
<1> QED BY <1>1, <1>3, <1>4, <1>5, <1>6, <1>7

-----------------------------------------------------------------------------
LEMMA NextHInv == HInv /\ [Next]_vars => HInv'
<1> SUFFICES ASSUME HInv, [Next]_vars PROVE HInv'
  OBVIOUS
<1>1. CASE exit = Running /\ Main
  BY <1>1, MainSetupHInv, MainWaitHInv, MainLabelHInv, MainCopyLabelHInv,
     MainAnswerHInv, MainCopyAnswerHInv, MainFlushHInv, MainReturnHInv,
     MainFinalHInv
  DEF Main
<1>2. CASE Feeder
  BY <1>2, FeederReadHInv, FeederSpawnHInv DEF Feeder
<1>3. ASSUME NEW i \in Index, Worker(i) PROVE HInv'
  BY <1>3, WorkerSolveHInv, WorkerPanicHInv, WorkerExitHInv, WorkerDoneHInv,
     WorkerCountHInv
  DEF Worker
<1>4. CASE UNCHANGED vars
  <2> USE DEF HInv, vars
  <2>1. WInv'
    BY <1>4, StutterWInv
  <2>2. TypeOK'
    BY <1>4, <2>1
    DEF TypeOK, WInv, mainVars, feederVars, workerVars, writerVars
  <2>3. Control' /\ Writing' /\ Workers'
    BY <1>4, ControlFrame, WritingFrame DEF Workers, mainVars, feederVars, workerVars
  <2>4. \A j : CaseOf(j)' = CaseOf(j)
    BY <1>4, SameReport
  <2>5. Answers'
    BY <1>4, <2>4 DEF Answers, feederVars, workerVars
  <2>6. Waited' /\ Progress' /\ Ended'
    BY <1>4, WaitedFrame, ProgressFrame, EndedFrame DEF mainVars, writerVars
  <2> QED BY <2>1, <2>2, <2>3, <2>5, <2>6
<1> QED BY <1>1, <1>2, <1>3, <1>4 DEF Next, Halted

THEOREM HackercupInvariant == Spec => []HInv
<1>1. Init => HInv
  BY InitHInv
<1>2. HInv /\ [Next]_vars => HInv'
  BY NextHInv
<1> QED BY <1>1, <1>2, PTL DEF Spec

\* Every variable of the template keeps its type; in particular no WaitGroup
\* counter becomes negative, on which Go would panic (hackercup.go:27-44).
THEOREM TypeCorrect == Spec => []TypeOK
<1>1. HInv => TypeOK
  BY DEF HInv
<1> QED BY <1>1, HackercupInvariant, PTL

\* No two goroutines ever touch outputs[i] or an input without the WaitGroup
\* or the start of the goroutine between them (hackercup.go:36-61).
THEOREM RaceFree == Spec => []NoDataRace
<1>1. HInv => NoDataRace
  <2> SUFFICES ASSUME HInv PROVE NoDataRace
    OBVIOUS
  <2>1. mpc = "answer" => wpc[mi] \in {"count", "finished"}
    BY DEF HInv, Waited, Printing, Signalled
  <2>2. \A i \in Index : fpc = "read" /\ wpc[i] = "solve" => Cell(i) # Cell(fi)
    BY CasesAssumption DEF HInv, Workers, TypeOK, Cell, Index
  <2> QED BY <2>1, <2>2 DEF NoDataRace
<1> QED BY <1>1, HackercupInvariant, PTL

\* What the report owes when the first m cases can be solved.
LEMMA OwedAtLeast ==
  ASSUME stdin.announced \in Nat, NEW m \in 0..stdin.announced,
         \A i \in Nat : i < m => CaseOf(i) \notin Crashes
  PROVE  /\ Owed \in Nat /\ m <= Owed /\ Owed <= stdin.announced
<1> DEFINE Good == {i \in AnnouncedIndex : \A j \in 0..i : CaseOf(j) \notin Crashes}
<1>1. IsFiniteSet(AnnouncedIndex)
  BY FS_Interval DEF AnnouncedIndex
<1>2. IsFiniteSet(Good) /\ Cardinality(Good) \in Nat
  <2>1. Good \subseteq AnnouncedIndex
    OBVIOUS
  <2>2. IsFiniteSet(Good)
    BY <1>1, <2>1, FS_Subset
  <2> QED BY <2>2, FS_CardinalityType
<1>3. 0..m - 1 \subseteq Good
  BY DEF AnnouncedIndex
<1>4. Cardinality(0..m - 1) = m
  BY FS_Interval
<1>5. Cardinality(0..m - 1) <= Cardinality(Good)
  BY <1>2, <1>3, FS_Subset
<1>6. Cardinality(Good) <= Cardinality(AnnouncedIndex)
  BY <1>1, FS_Subset
<1>7. Cardinality(AnnouncedIndex) = stdin.announced
  BY FS_Interval DEF AnnouncedIndex
<1> QED BY <1>2, <1>4, <1>5, <1>6, <1>7 DEF Owed

\* Main prints along the report that is owed.
LEMMA PrintsAlongTheReport ==
  ASSUME HInv
  PROVE  PrintsTheReport /\ Owed \in Nat /\ Owed <= MaxTests
<1> USE DEF HInv
<1>0. /\ mi \in Nat /\ tests \in Nat /\ tests <= MaxTests /\ MaxTests \in Nat
      /\ stdin.announced \in Nat /\ Len(asked) \in Nat
      /\ mi <= tests /\ (tests = 0 \/ tests = stdin.announced)
  BY CasesAssumption, LenProperties
  DEF TypeOK, WriterTypeOK, Text, Control
<1>1. \A i \in Index : wpc[i] \in Signalled => CaseOf(i) \notin Crashes
  BY DEF Answers
<1>2. PICK m \in {mi, mi + 1} : /\ m <= tests /\ Len(asked) <= LineLen * m
                                /\ m = mi + 1 => wpc[mi] \in Signalled
  <2>1. /\ LineLen * (mi + 1) = LineLen * mi + LineLen
        /\ LineLen * mi + 3 <= LineLen * mi + LineLen
        /\ LineLen * mi \in Nat
    BY <1>0 DEF LineLen
  <2>2. \/ Len(asked) <= LineLen * mi
        \/ /\ mi < tests /\ wpc[mi] \in Signalled
           /\ Len(asked) <= LineLen * mi + LineLen
    BY <1>0, <2>1 DEF TypeOK, Control, Waited, Progress, Printing
  <2>3. CASE Len(asked) <= LineLen * mi
    BY <1>0, <2>3
  <2>4. CASE /\ mi < tests /\ wpc[mi] \in Signalled
             /\ Len(asked) <= LineLen * mi + LineLen
    BY <1>0, <2>1, <2>4
  <2> QED BY <2>2, <2>3, <2>4
<1>3. m \in 0..stdin.announced
  BY <1>0, <1>2
<1>4. \A i \in Nat : i < m => CaseOf(i) \notin Crashes
  <2>1. ASSUME NEW i \in Nat, i < m PROVE i \in Index /\ wpc[i] \in Signalled
    BY <1>0, <1>2, <2>1 DEF Waited, Index
  <2> QED BY <1>1, <2>1
<1>5. Owed \in Nat /\ m <= Owed /\ Owed <= stdin.announced
  BY <1>0, <1>3, <1>4, OwedAtLeast
<1>6. LineLen * m <= LineLen * Owed /\ LineLen * m \in Nat /\ LineLen * Owed \in Nat
  BY <1>0, <1>5 DEF LineLen
<1> QED BY <1>0, <1>2, <1>5, <1>6 DEF PrintsTheReport, Progress, TypeOK

\* However the workers are scheduled, what main prints is the report of the
\* input, in order, and stops before a case that makes solve panic
\* (hackercup.go:57-61).
THEOREM PrintsInOrder == Spec => []PrintsTheReport
<1>1. HInv => PrintsTheReport
  BY PrintsAlongTheReport
<1> QED BY <1>1, HackercupInvariant, PTL

LEMMA ExitsTruthfully ==
  ASSUME HInv
  PROVE  ExitTellsTheTruth
<1> USE DEF HInv
<1>1. ASSUME exit = 0
      PROVE  /\ NoCrash /\ file = Report(stdin.announced)
             /\ \A i \in AnnouncedIndex : wpc[i] \in {"count", "finished"}
  <2>1. /\ mpc = "final" /\ wstate = "ready" /\ used = 0
        /\ mi = tests /\ tests = stdin.announced
        /\ stdin.announced \in 0..MaxTests /\ MaxTests \in Nat
    BY <1>1, CasesAssumption DEF Ended, Writing, Control, TypeOK
  <2>2. \A i \in AnnouncedIndex : i \in Index /\ wpc[i] \in Signalled
    BY <2>1 DEF Waited, AnnouncedIndex, Index
  <2>3. NoCrash
    BY <2>2 DEF NoCrash, Answers
  <2>4. /\ file \in Text /\ buffer \in Text /\ Len(buffer) = 0 /\ rest = <<>>
        /\ file \o buffer \o rest = asked
    BY <2>1 DEF WInv, WriterTypeOK, RoomForOneMore, RestOnlyWhileCopying,
                NothingLostOrRepeated
  <2>5. file = asked
    <3>1. buffer = <<>>
      BY <2>4, EmptySeq DEF Text
    <3>2. file \o <<>> = file
      BY <2>4, ConcatEmptySeq DEF Text
    <3> QED BY <2>4, <3>1, <3>2
  <2>6. asked = Report(stdin.announced)
    <3>1. /\ Len(asked) = LineLen * stdin.announced
          /\ \A k \in 1..Len(asked) : asked[k] = ReportByte(k)
      BY <2>1 DEF Progress
    <3>2. asked = [k \in 1..Len(asked) |-> asked[k]]
      BY LenProperties DEF TypeOK, WriterTypeOK, Text
    <3> QED BY <3>1, <3>2 DEF Report
  <2> QED BY <2>2, <2>3, <2>5, <2>6 DEF Signalled
<1>2. ASSUME exit = 13
      PROVE  \/ \E i \in AnnouncedIndex : wpc[i] = "panicked"
             \/ wstate \in {"failed", "retried"}
  BY <1>2, CasesAssumption DEF Ended, Control, TypeOK, AnnouncedIndex, Index
<1>3. exit # 2
  BY DEF Ended
<1> QED BY <1>1, <1>2, <1>3 DEF ExitTellsTheTruth

\* The exit code tells the truth: 0 only with the whole report in the file,
\* 13 only after a panic, and never the 2 of an unrecovered panic
\* (main.go:36-39, hackercup.go:18-23, debug.go:28-33).
THEOREM TruthfulExit == Spec => []ExitTellsTheTruth
<1>1. HInv => ExitTellsTheTruth
  BY ExitsTruthfully
<1> QED BY <1>1, HackercupInvariant, PTL

-----------------------------------------------------------------------------
(* The refinement of Contest.                                              *)

\* As long as stdin stays, so do the report and the way the run must end.
LEMMA SameContest ==
  ASSUME stdin' = stdin
  PROVE  Report(Owed)' = Report(Owed) /\ NoCrash' = NoCrash
<1>1. Owed' = Owed /\ NoCrash' = NoCrash
  BY SameReport DEF Owed, NoCrash, AnnouncedIndex
<1> QED BY <1>1, SameReport DEF Report

\* The report is a text, and what was asked for is its beginning.
LEMMA AskedOfReport ==
  ASSUME HInv
  PROVE  /\ Report(Owed) \in Text /\ Len(Report(Owed)) \in Nat
         /\ Len(asked) <= Len(Report(Owed))
         /\ asked = SubSeq(Report(Owed), 1, Len(asked))
<1>1. /\ Owed \in Nat /\ Owed <= MaxTests /\ MaxTests \in Nat
      /\ PrintsTheReport
  BY PrintsAlongTheReport, CasesAssumption
<1>2. ASSUME NEW k \in 1..LineLen * Owed PROVE ReportByte(k) \in Byte
  <2> DEFINE i == (k - 1) \div LineLen
             column == (k - 1) % LineLen
  <2>1. i \in Index /\ column \in 0..4
    BY <1>1 DEF LineLen, Index
  <2>2. /\ LabelText(i) \in Seq(Byte) /\ Len(LabelText(i)) = 3
        /\ \A w \in BOOLEAN : AnswerText(w) \in Seq(Byte) /\ Len(AnswerText(w)) = 2
    BY <2>1, Texts DEF Text
  <2>3. (CaseOf(i) \in Wins) \in BOOLEAN
    OBVIOUS
  <2> HIDE DEF i, column
  <2>4. ASSUME column < 3 PROVE LabelText(i)[column + 1] \in Byte
    <3>1. column + 1 \in 1..Len(LabelText(i))
      BY <2>1, <2>2, <2>4
    <3> QED BY <2>2, <3>1, ElementOfSeq
  <2>5. ASSUME ~(column < 3) PROVE AnswerText(CaseOf(i) \in Wins)[column - 2] \in Byte
    <3> DEFINE text == AnswerText(CaseOf(i) \in Wins)
    <3>1. text \in Seq(Byte) /\ Len(text) = 2
      BY <2>2, <2>3
    <3> HIDE DEF text
    <3>2. column - 2 \in 1..Len(text)
      BY <2>1, <2>5, <3>1
    <3>3. text[column - 2] \in Byte
      BY <3>1, <3>2, ElementOfSeq
    <3> QED BY <3>3 DEF text
  <2> QED BY <2>4, <2>5 DEF ReportByte, i, column
<1>3. LineLen * Owed \in Nat
  BY <1>1 DEF LineLen
<1>4. Report(Owed) \in Text /\ Len(Report(Owed)) = LineLen * Owed
  BY <1>2, <1>3 DEF Report, Text
<1>5. asked \in Text /\ Len(asked) \in Nat
  BY LenProperties DEF HInv, TypeOK, WriterTypeOK, Text
<1>6. Len(asked) <= Len(Report(Owed))
  BY <1>1, <1>4 DEF PrintsTheReport
<1>7. \A k \in 1..Len(asked) : asked[k] = Report(Owed)[k]
  BY <1>1, <1>3, <1>4, <1>5, <1>6 DEF PrintsTheReport, Report
<1>8. asked = SubSeq(Report(Owed), 1, Len(asked))
  <2>1. /\ SubSeq(Report(Owed), 1, Len(asked)) \in Text
        /\ Len(SubSeq(Report(Owed), 1, Len(asked))) = Len(asked)
        /\ \A k \in 1..Len(asked) : SubSeq(Report(Owed), 1, Len(asked))[k] = Report(Owed)[k]
    BY <1>3, <1>4, <1>5, <1>6, SubSeqProperties DEF Text
  <2> QED BY <1>5, <1>7, <2>1, SeqEqual DEF Text
<1> QED BY <1>3, <1>4, <1>6, <1>8

LEMMA PrefixOfPrefix ==
  ASSUME NEW r \in Text, NEW a \in Nat, NEW b \in Nat, b <= a, a <= Len(r)
  PROVE  SubSeq(SubSeq(r, 1, a), 1, b) = SubSeq(r, 1, b)
<1>1. CASE b = 0
  BY <1>1, SubSeqEmpty
<1>2. CASE b > 0
  <2>1. /\ 1 \in 1..Len(r) /\ a \in 1..Len(r)
        /\ 1 \in 1..a - 1 + 1 /\ b \in 1..a - 1 + 1
        /\ 1 + 1 - 1 = 1 /\ 1 + b - 1 = b
    BY <1>2, LenProperties DEF Text
  <2>2. SubSeq(SubSeq(r, 1, a), 1, b) = SubSeq(r, 1 + 1 - 1, 1 + b - 1)
    BY <2>1, SubSeqOfSubSeq DEF Text
  <2> QED BY <2>1, <2>2
<1> QED BY <1>1, <1>2

LEMMA MiddleOfConcat ==
  ASSUME NEW s \in Text, NEW w \in Text, NEW t \in Text
  PROVE  SubSeq(s \o (w \o t), Len(s) + 1, Len(s) + Len(w)) = w
<1>1. /\ w \o t \in Text /\ Len(w \o t) = Len(w) + Len(t)
      /\ Len(s) \in Nat /\ Len(w) \in Nat /\ Len(t) \in Nat
  BY ConcatProperties, LenProperties DEF Text
<1>2. CASE Len(w) = 0
  BY <1>1, <1>2, SubSeqEmpty, EmptySeq DEF Text
<1>3. CASE Len(w) > 0
  <2> DEFINE u == w \o t
  <2>1. u \in Text /\ Len(u) = Len(w) + Len(t)
    BY <1>1
  <2> HIDE DEF u
  <2>2. /\ Len(s) + 1 \in Len(s) + 1..Len(s) + Len(u)
        /\ Len(s) + Len(w) \in Len(s) + 1..Len(s) + Len(u)
        /\ Len(s) + 1 - Len(s) = 1 /\ Len(s) + Len(w) - Len(s) = Len(w)
    BY <1>1, <1>3, <2>1
  <2>3. SubSeq(s \o u, Len(s) + 1, Len(s) + Len(w))
          = SubSeq(u, Len(s) + 1 - Len(s), Len(s) + Len(w) - Len(s))
    BY <2>1, <2>2, SubSeqOfConcat2 DEF Text
  <2>4. SubSeq(u, 1, Len(w)) = w
    BY PrefixOfConcat DEF u
  <2> QED BY <2>2, <2>3, <2>4 DEF u
<1> QED BY <1>1, <1>2, <1>3

\* As long as no write has been repeated, the file is a beginning of the
\* report.
LEMMA FileOfReport ==
  HInv /\ OInv /\ wstate # "retried" =>
    /\ Len(file) \in Nat /\ Len(file) <= Len(Report(Owed))
    /\ file = SubSeq(Report(Owed), 1, Len(file))
<1> SUFFICES ASSUME HInv, OInv, wstate # "retried"
             PROVE  /\ Len(file) \in Nat /\ Len(file) <= Len(Report(Owed))
                    /\ file = SubSeq(Report(Owed), 1, Len(file))
  OBVIOUS
<1>1. /\ Report(Owed) \in Text /\ Len(Report(Owed)) \in Nat
      /\ Len(asked) <= Len(Report(Owed))
      /\ asked = SubSeq(Report(Owed), 1, Len(asked))
  BY AskedOfReport
<1>2. /\ Len(file) <= Len(asked)
      /\ file = SubSeq(asked, 1, Len(file))
  BY InOrder DEF HInv, WrittenInOrder, FileIsPrefix
<1>3. Len(file) \in Nat /\ Len(asked) \in Nat
  BY LenProperties DEF HInv, TypeOK, WriterTypeOK, Text
<1>4. SubSeq(SubSeq(Report(Owed), 1, Len(asked)), 1, Len(file)) = SubSeq(Report(Owed), 1, Len(file))
  BY <1>1, <1>2, <1>3, PrefixOfPrefix
<1> QED BY <1>1, <1>2, <1>3, <1>4

\* WriteAll only appends to the file.
LEMMA WriteAllAppends ==
  ASSUME file \in Text, NEW b \in Text, NEW u, u = Len(b), u <= BuffSize,
         WriteAccepted(b, u) \/ WriteShort(b, u)
  PROVE  \E w \in Text : /\ file' = file \o w
                         /\ \E t \in Text : b = w \o t
<1>0. u \in Nat /\ BuffSize \in Nat
  BY LenProperties, SizesAssumption DEF Text
<1>1. CASE WriteAccepted(b, u)
  <2>1. file' = file \o b
    BY <1>1 DEF WriteAccepted
  <2>2. b \in Text /\ <<>> \in Text /\ b = b \o <<>>
    BY ConcatEmptySeq, EmptySeq DEF Text
  <2> QED BY <2>1, <2>2
<1>2. CASE WriteShort(b, u)
  <2>1. PICK n \in Shortfalls(u) : file' = file \o SubSeq(b, 1, n)
    BY <1>2 DEF WriteShort
  <2>2. n \in 0..Len(b)
    BY <1>0, <2>1 DEF Shortfalls
  <2> QED BY <2>1, <2>2, SplitText
<1> QED BY <1>1, <1>2

LEMMA LongerFile ==
  ASSUME file \in Text, NEW w \in Text, file' = file \o w
  PROVE  /\ file' \in Text /\ Len(file) \in Nat /\ Len(file') \in Nat
         /\ Len(file) <= Len(file')
<1>1. /\ file \o w \in Text /\ Len(file \o w) = Len(file) + Len(w)
      /\ Len(file) \in Nat /\ Len(w) \in Nat
  BY ConcatProperties, LenProperties DEF Text
<1> QED BY <1>1

LEMMA CopyChunkAppends ==
  ASSUME WInv, CopyChunk
  PROVE  Len(file) \in Nat /\ Len(file') \in Nat /\ Len(file) <= Len(file')
<1> DEFINE t == Smaller(BuffSize - used, Len(rest))
           b == buffer \o SubSeq(rest, 1, t)
<1>1. /\ wstate = "copying"
      /\ FlushIfNearlyFull(b, used + t, CopyingOr(rest'))
  BY DEF CopyChunk
<1>2. /\ file \in Text /\ buffer \in Text /\ rest \in Text
      /\ used \in Nat /\ used = Len(buffer) /\ used < BuffSize
      /\ Len(rest) \in Nat /\ BuffSize \in Nat /\ Len(file) \in Nat
  BY <1>1, LenProperties, SizesAssumption
  DEF WInv, WriterTypeOK, RoomForOneMore, Text
<1>3. t \in 0..Len(rest) /\ used + t <= BuffSize
  BY <1>2 DEF Smaller
<1>4. b \in Text /\ Len(b) = used + t
  <2>1. SubSeq(rest, 1, t) \in Text /\ Len(SubSeq(rest, 1, t)) = t
    BY <1>2, <1>3, SplitText
  <2> QED BY <1>2, <2>1, ConcatProperties DEF Text
<1> HIDE DEF t, b
<1>5. CASE WriteAccepted(b, used + t) \/ WriteShort(b, used + t)
  <2>1. PICK w \in Text : file' = file \o w
    BY <1>2, <1>3, <1>4, <1>5, WriteAllAppends
  <2> QED BY <1>2, <2>1, LongerFile
<1>6. CASE file' = file
  BY <1>2, <1>6
<1> QED BY <1>1, <1>5, <1>6 DEF FlushIfNearlyFull, WriteAll

LEMMA FlushAllAppends ==
  ASSUME WInv, FlushAll
  PROVE  Len(file) \in Nat /\ Len(file') \in Nat /\ Len(file) <= Len(file')
<1>1. /\ file \in Text /\ buffer \in Text /\ used = Len(buffer)
      /\ used \in 0..BuffSize
  BY DEF WInv, WriterTypeOK, RoomForOneMore
<1>2. WriteAccepted(buffer, used) \/ WriteShort(buffer, used)
  BY DEF FlushAll, WriteAll
<1>3. PICK w \in Text : file' = file \o w
  <2>1. used <= BuffSize
    BY <1>1, SizesAssumption
  <2> QED BY <1>1, <1>2, <2>1, WriteAllAppends
<1> QED BY <1>1, <1>3, LongerFile

-----------------------------------------------------------------------------

\* The steps that leave the writer alone.
Quiet ==
  \/ MainSetup \/ MainWait \/ MainReturn \/ Feeder
  \/ \E i \in Index : Worker(i)

LEMMA QuietWriter ==
  ASSUME Quiet
  PROVE  UNCHANGED <<stdin, writerVars>>
<1>1. ASSUME MainSetup \/ MainWait \/ MainReturn PROVE UNCHANGED <<stdin, writerVars>>
  BY <1>1 DEF MainSetup, MainWait, MainReturn
<1>2. ASSUME Feeder PROVE UNCHANGED <<stdin, writerVars>>
  BY <1>2 DEF Feeder, FeederRead, FeederSpawn
<1>3. ASSUME NEW i \in Index, Worker(i) PROVE UNCHANGED <<stdin, writerVars>>
  BY <1>3 DEF Worker, WorkerSolve, WorkerPanic, WorkerExit, WorkerDone, WorkerCount
<1> QED BY <1>1, <1>2, <1>3 DEF Quiet

LEMMA StutterOInv ==
  ASSUME OInv, UNCHANGED writerVars
  PROVE  OInv'
  BY DEF writerVars, OInv, FileIsPrefix, Resumable, WrittenAtLeastOnce

LEMMA NextOInv == HInv /\ OInv /\ [Next]_vars => OInv'
<1> SUFFICES ASSUME HInv, OInv, [Next]_vars PROVE OInv'
  OBVIOUS
<1>1. WInv
  BY DEF HInv
<1>2. CASE Quiet \/ UNCHANGED vars
  BY <1>2, QuietWriter, StutterOInv DEF vars
<1>3. CASE MainLabel \/ MainAnswer
  BY <1>3 DEF MainLabel, MainAnswer, String, CopyingOr, OInv
<1>4. CASE MainCopyLabel \/ MainCopyAnswer
  BY <1>1, <1>4, CopyChunkOInv DEF MainCopyLabel, MainCopyAnswer
<1>5. CASE MainFlush \/ MainFinal
  BY <1>1, <1>5, FlushAllOInv DEF MainFlush, MainFinal
<1> QED BY <1>2, <1>3, <1>4, <1>5 DEF Next, Main, Halted, Quiet

-----------------------------------------------------------------------------
\* The mapping of trouble.
Trouble(w) ==
  CASE w = "failed" -> "short" [] w = "retried" -> "rewritten" [] OTHER -> "none"

LEMMA TroubleCases ==
  /\ Trouble("failed") = "short" /\ Trouble("retried") = "rewritten"
  /\ \A w : w \notin {"failed", "retried"} => Trouble(w) = "none"
  BY DEF Trouble

\* Steps that a caller of the program does not see.
LEMMA Unseen ==
  ASSUME stdin' = stdin, file' = file, exit' = exit,
         wstate' = wstate \/ {wstate, wstate'} \subseteq {"ready", "copying"}
  PROVE  UNCHANGED Promise!contestVars
<1>1. Trouble(wstate') = Trouble(wstate)
  BY TroubleCases
<1>2. Report(Owed)' = Report(Owed) /\ NoCrash' = NoCrash
  BY SameContest
<1> QED BY <1>1, <1>2 DEF Promise!contestVars, Trouble

\* Writes that main makes until the first one that is short.
LEMMA Publishes ==
  ASSUME HInv, OInv, HInv', OInv', stdin' = stdin, exit = Running, exit' = exit,
         wstate \in {"ready", "copying"}, wstate' \in {"ready", "copying", "failed"},
         Len(file) \in Nat, Len(file') \in Nat, Len(file) <= Len(file')
  PROVE  Promise!Next
<1>1. Report(Owed)' = Report(Owed) /\ NoCrash' = NoCrash
  BY SameContest
<1>2. (HInv /\ OInv /\ wstate # "retried" =>
         /\ Len(file) \in Nat /\ Len(file) <= Len(Report(Owed))
         /\ file = SubSeq(Report(Owed), 1, Len(file)))'
  BY FileOfReport, PTL
<1>3. /\ Len(file') <= Len(Report(Owed)')
      /\ file' = SubSeq(Report(Owed)', 1, Len(file'))
  BY <1>2
<1> DEFINE R == Report(Owed)
<1>4. Len(R) \in Nat
  BY AskedOfReport
<1>5. R' = R /\ Len(file') <= Len(R) /\ file' = SubSeq(R, 1, Len(file'))
  BY <1>1, <1>3
<1> HIDE DEF R
<1>6. \E n \in Len(file)..Len(R) : file' = SubSeq(R, 1, n)
  <2>1. Len(file') \in Len(file)..Len(R)
    BY <1>4, <1>5
  <2> QED BY <1>5, <2>1
<1>7. Trouble(wstate) = "none" /\ Trouble(wstate') \in {"none", "short"}
  BY TroubleCases
<1>8. Promise!Publish
  BY <1>6, <1>7 DEF Promise!Publish, Trouble, R
<1> QED BY <1>1, <1>8 DEF Promise!Next, Running

\* The deferred WriteAll after a short write.
LEMMA Rewrites ==
  ASSUME HInv, OInv, stdin' = stdin, exit = Running, exit' = exit,
         wstate = "failed", wstate' = "retried",
         WriteAccepted(buffer, used) \/ WriteShort(buffer, used)
  PROVE  Promise!Next
<1> DEFINE R == Report(Owed)
           left == SubSeq(R, Len(asked) + 1, Len(R))
<1>1. Report(Owed)' = Report(Owed) /\ NoCrash' = NoCrash
  BY SameContest
<1>2. /\ file \in Text /\ buffer \in Text /\ rest \in Text /\ asked \in Text
      /\ used = Len(buffer) /\ used <= BuffSize
      /\ Len(file) \in Nat /\ Len(asked) \in Nat
  BY LenProperties, SizesAssumption DEF HInv, WInv, WriterTypeOK, RoomForOneMore, Text
<1>3. /\ R \in Text /\ Len(R) \in Nat /\ Len(asked) <= Len(R)
      /\ asked = SubSeq(R, 1, Len(asked))
  BY AskedOfReport
<1>4. left \in Text /\ R = asked \o left
  <2>1. Len(asked) \in 0..Len(R)
    BY <1>2, <1>3
  <2> QED BY <1>3, <2>1, SplitText
<1> HIDE DEF R, left
<1>5. PICK j \in 0..Len(file) : SubSeq(file, 1, j) \o buffer \o rest = asked
  BY DEF OInv, Resumable
<1> DEFINE head == SubSeq(file, 1, j)
<1>6. head \in Text /\ Len(head) = j
  BY <1>2, SplitText
<1> HIDE DEF head
<1>7. PICK w \in Text : file' = file \o w /\ \E t \in Text : buffer = w \o t
  BY <1>2, WriteAllAppends
<1>8. PICK t \in Text : buffer = w \o t
  BY <1>7
<1>9. \E u \in Text : R = head \o (w \o u)
  <2>1. R = ((head \o (w \o t)) \o rest) \o left
    BY <1>4, <1>5, <1>8 DEF head
  <2>2. w \o t \in Text /\ (w \o t) \o rest \in Text /\ t \o rest \in Text
        /\ (t \o rest) \o left \in Text
    BY <1>2, <1>4, ConcatProperties DEF Text
  <2>3. (head \o (w \o t)) \o rest = head \o ((w \o t) \o rest)
    BY <1>2, <1>6, <2>2, ConcatTextAssociative
  <2>4. (head \o ((w \o t) \o rest)) \o left = head \o (((w \o t) \o rest) \o left)
    BY <1>4, <1>6, <2>2, ConcatTextAssociative
  <2>5. (w \o t) \o rest = w \o (t \o rest)
    BY <1>2, ConcatTextAssociative
  <2>6. (w \o (t \o rest)) \o left = w \o ((t \o rest) \o left)
    BY <1>4, <2>2, ConcatTextAssociative
  <2> QED BY <2>1, <2>2, <2>3, <2>4, <2>5, <2>6
<1>10. PICK u \in Text : R = head \o (w \o u)
  BY <1>9
<1>11. SubSeq(R, j + 1, j + Len(w)) = w
  BY <1>6, <1>10, MiddleOfConcat
<1>12. Len(w) \in Nat /\ j + Len(w) <= Len(R)
  BY <1>6, <1>10, ConcatProperties, LenProperties DEF Text
<1>13. \E n \in j..Len(R) : file' = file \o SubSeq(R, j + 1, n)
  <2>1. j + Len(w) \in j..Len(R)
    BY <1>2, <1>3, <1>12
  <2> QED BY <1>7, <1>11, <2>1
<1>14. Trouble(wstate) = "short" /\ Trouble(wstate') = "rewritten"
  BY TroubleCases
<1>15. Promise!Rewrite
  BY <1>13, <1>14 DEF Promise!Rewrite, Trouble, R
<1> QED BY <1>1, <1>15 DEF Promise!Next, Running

\* A run on which solve panics does not owe the whole report, and a run on
\* which it does not owes all of it.
LEMMA WholeReport ==
  ASSUME HInv, NoCrash
  PROVE  Owed = stdin.announced
<1>1. stdin.announced \in Nat
  BY CasesAssumption DEF HInv, TypeOK
<1>2. \A i \in Nat : i < stdin.announced => CaseOf(i) \notin Crashes
  BY <1>1 DEF NoCrash, AnnouncedIndex
<1>3. Owed \in Nat /\ stdin.announced <= Owed /\ Owed <= stdin.announced
  BY <1>1, <1>2, OwedAtLeast
<1> QED BY <1>1, <1>3

LEMMA FailsRightly ==
  ASSUME stdin' = stdin, exit = Running, exit' = 13, UNCHANGED writerVars,
         ~NoCrash \/ wstate \in {"failed", "retried"}
  PROVE  Promise!Next
<1>1. Report(Owed)' = Report(Owed) /\ NoCrash' = NoCrash
  BY SameContest
<1>2. Trouble(wstate) # "none" \/ ~NoCrash
  BY TroubleCases
<1>3. file' = file /\ Trouble(wstate') = Trouble(wstate)
  BY DEF writerVars
<1>4. Promise!Fail
  BY <1>2, <1>3 DEF Promise!Fail, Trouble
<1> QED BY <1>1, <1>4 DEF Promise!Next, Running

LEMMA FinalRefines ==
  ASSUME HInv, HInv', exit = Running, MainFinal
  PROVE  Promise!Next
<1>1. wstate = "ready" /\ used = 0 /\ buffer = <<>> /\ file \in Text /\ stdin' = stdin
  <2>1. /\ wstate = "ready" /\ used = 0 /\ buffer \in Text /\ Len(buffer) = 0
        /\ file \in Text
    BY DEF MainFinal, HInv, Writing, WInv, WriterTypeOK, RoomForOneMore
  <2> QED BY <2>1, EmptySeq DEF MainFinal, Text
<1>2. wstate' = "ready" /\ file' = file
  <2>1. ~ WriteShort(buffer, used)
    BY <1>1, SizesAssumption DEF WriteShort, Shortfalls
  <2>2. file' = file \o <<>> /\ wstate' = "ready"
    BY <1>1, <2>1 DEF MainFinal, FlushAll, WriteAll, WriteAccepted
  <2> QED BY <1>1, <2>2, ConcatEmptySeq DEF Text
<1>3. exit' = 0
  BY <1>2 DEF MainFinal
<1>4. (HInv => ExitTellsTheTruth)'
  BY ExitsTruthfully, PTL
<1>5. (HInv /\ NoCrash => Owed = stdin.announced)'
  BY WholeReport, PTL
<1>6. NoCrash' /\ file' = Report(Owed)'
  <2>1. (exit = 0 => NoCrash /\ file = Report(stdin.announced))'
    BY <1>4 DEF ExitTellsTheTruth
  <2>2. NoCrash' /\ file' = Report(stdin.announced)' /\ Owed' = stdin.announced'
    BY <1>3, <1>5, <2>1
  <2> QED BY <2>2 DEF Report, ReportByte, CaseOf
<1>7. Report(Owed)' = Report(Owed) /\ NoCrash' = NoCrash
  BY <1>1, SameContest
<1>8. Trouble(wstate) = "none" /\ Trouble(wstate') = "none"
  BY <1>1, <1>2, TroubleCases
<1>9. Promise!Succeed
  BY <1>2, <1>3, <1>6, <1>7, <1>8 DEF Promise!Succeed, Trouble
<1> QED BY <1>7, <1>9 DEF Promise!Next, Running

\* Every step of the template is one of Contest, or one that a caller of the
\* program does not see.
LEMMA NextRefines ==
  HInv /\ OInv /\ HInv' /\ OInv' /\ [Next]_vars => [Promise!Next]_(Promise!contestVars)
<1> SUFFICES ASSUME HInv, OInv, HInv', OInv', [Next]_vars
             PROVE  Promise!Next \/ UNCHANGED Promise!contestVars
  OBVIOUS
<1>1. CASE UNCHANGED vars
  <2>1. stdin' = stdin /\ file' = file /\ exit' = exit /\ wstate' = wstate
    BY <1>1 DEF vars, writerVars
  <2> QED BY <2>1, Unseen
<1>2. CASE exit = Running /\ (MainSetup \/ MainWait \/ Feeder)
  <2>1. UNCHANGED <<stdin, writerVars, exit>>
    BY <1>2 DEF MainSetup, MainWait, Feeder, FeederRead, FeederSpawn
  <2> QED BY <2>1, Unseen DEF writerVars
<1>3. CASE exit = Running /\ MainReturn
  <2>1. UNCHANGED <<stdin, writerVars>>
    BY <1>3 DEF MainReturn
  <2>2. CASE exit' = exit
    BY <2>1, <2>2, Unseen DEF writerVars
  <2>3. CASE exit' # exit
    <3>1. exit' = 13 /\ wstate \in {"failed", "retried"}
      BY <1>3, <2>3 DEF MainReturn, HInv, Writing
    <3> QED BY <1>3, <2>1, <3>1, FailsRightly
  <2> QED BY <2>2, <2>3
<1>4. ASSUME NEW i \in Index, exit = Running, Worker(i)
      PROVE  Promise!Next \/ UNCHANGED Promise!contestVars
  <2>1. UNCHANGED <<stdin, writerVars>>
    BY <1>4, QuietWriter DEF Quiet
  <2>2. CASE WorkerExit(i)
    <3>1. exit' = 13 /\ wpc[i] = "panicked"
      BY <2>2 DEF WorkerExit
    <3>2. i \in AnnouncedIndex /\ CaseOf(i) \in Crashes
      BY <3>1, CasesAssumption
      DEF HInv, Workers, Control, Answers, AnnouncedIndex, TypeOK, Index
    <3> QED BY <1>4, <2>1, <3>1, <3>2, FailsRightly DEF NoCrash
  <2>3. CASE ~WorkerExit(i)
    <3>1. exit' = exit
      BY <1>4, <2>3 DEF Worker, WorkerSolve, WorkerPanic, WorkerDone, WorkerCount
    <3> QED BY <2>1, <3>1, Unseen DEF writerVars
  <2> QED BY <2>2, <2>3
<1>5. CASE exit = Running /\ (MainLabel \/ MainAnswer)
  <2>1. /\ stdin' = stdin /\ file' = file /\ exit' = exit
        /\ wstate = "ready" /\ wstate' \in {"ready", "copying"}
    BY <1>5 DEF MainLabel, MainAnswer, String, CopyingOr
  <2> QED BY <2>1, Unseen
<1>6. CASE exit = Running /\ (MainCopyLabel \/ MainCopyAnswer)
  <2>1. CopyChunk /\ stdin' = stdin /\ exit' = exit
    BY <1>6 DEF MainCopyLabel, MainCopyAnswer
  <2>2. wstate = "copying" /\ wstate' \in {"ready", "copying", "failed"}
    BY <2>1, CopyChunkOutcome DEF CopyChunk
  <2>3. Len(file) \in Nat /\ Len(file') \in Nat /\ Len(file) <= Len(file')
    BY <2>1, CopyChunkAppends DEF HInv
  <2> QED BY <1>6, <2>1, <2>2, <2>3, Publishes
<1>7. CASE exit = Running /\ MainFlush
  <2>1. FlushAll /\ stdin' = stdin /\ exit' = exit /\ wstate \in {"ready", "failed"}
    BY <1>7 DEF MainFlush, HInv, Writing
  <2>2. CASE wstate = "ready"
    <3>1. wstate' \in {"ready", "failed"}
      BY <2>1, <2>2 DEF FlushAll, WriteAll
    <3>2. Len(file) \in Nat /\ Len(file') \in Nat /\ Len(file) <= Len(file')
      BY <2>1, FlushAllAppends DEF HInv
    <3> QED BY <1>7, <2>1, <2>2, <3>1, <3>2, Publishes
  <2>3. CASE wstate = "failed"
    <3>1. /\ wstate' = "retried"
          /\ WriteAccepted(buffer, used) \/ WriteShort(buffer, used)
      BY <2>1, <2>3 DEF FlushAll, WriteAll
    <3> QED BY <1>7, <2>1, <2>3, <3>1, Rewrites
  <2> QED BY <2>1, <2>2, <2>3
<1>8. CASE exit = Running /\ MainFinal
  BY <1>8, FinalRefines
<1> QED BY <1>1, <1>2, <1>3, <1>4, <1>5, <1>6, <1>7, <1>8 DEF Next, Main, Halted

LEMMA InitRefines == Init => Promise!Init
<1> SUFFICES ASSUME Init PROVE Promise!Init
  OBVIOUS
<1>1. Trouble(wstate) = "none"
  BY TroubleCases DEF Init, WriterInit
<1>2. NoCrash \in BOOLEAN
  BY DEF NoCrash
<1> QED BY <1>1, <1>2 DEF Init, WriterInit, Promise!Init, Trouble, Running

\* Seen from outside, the template with its goroutines, its WaitGroups and
\* its buffer does what the program without them would do: it prints along
\* the report that the input alone determines, ends with 0 only when all of
\* it is there, and with 13 only after a panic or a short write, after which
\* at most one stretch of it is written twice (main.go:34-41,
\* hackercup.go:15-63, writer.go:20-52).
THEOREM RefinesContest == Spec => ImplementsContest
<1>1. Init => HInv /\ OInv
  BY InitHInv DEF Init, WriterInit, OInv
<1>2. HInv /\ OInv /\ [Next]_vars => HInv' /\ OInv'
  BY NextHInv, NextOInv
<1> QED BY <1>1, <1>2, InitRefines, NextRefines, PTL
        DEF Spec, ImplementsContest, Promise!Spec

=============================================================================
