----------------------------- MODULE FastReader -----------------------------
(***************************************************************************)
(* The buffered reader of fastio/reader.go.  The file hands over its bytes *)
(* in reads of any size from 1 up to the buffer; a call runs through the   *)
(* buffer and reads again when it is used up.  One step is one turn of the *)
(* loop of Int or Uint, or one buffer full of the loop of String or Line.  *)
(* Uint32 is Uint with another Half; Int2, Ints, Strings and the like are  *)
(* sequences of these calls.                                               *)
(***************************************************************************)
EXTENDS Integers, Sequences

CONSTANTS
  DigitValue, White, NewLine, Minus, Other, Half,    \* see TokenStream
  BuffSize,    \* buffSize, the length of Reader.bytes
  MaxStream,   \* bound: the length of the input
  MaxCalls     \* bound: the number of calls

ASSUME ReaderAssumption ==
  /\ BuffSize \in Nat \ {0} /\ MaxStream \in Nat /\ MaxCalls \in Nat
  /\ Half \in Nat \ {0}
  /\ \A d \in DOMAIN DigitValue : DigitValue[d] \in 0..Half - 1
  /\ Minus \notin DOMAIN DigitValue
  /\ NewLine \subseteq White

VARIABLES
  stream,      \* the bytes of the file
  base,        \* how many of them lie before the current buffer
  from, to,    \* Reader.from and Reader.to: bytes[from:to] is unread
  call,        \* the running call and its place, or "none"
  n, neg,      \* Int, Uint: n and the negation of pos
  res,         \* String, Line: res
  afterWhite,  \* String, Line: afterWhite
  started,     \* history: the position at which the running call began
  results      \* history: what the calls have returned

bufferVars == <<base, from, to>>
localVars == <<n, neg, res, afterWhite>>
vars == <<stream, bufferVars, call, localVars, started, results>>

Digit == DOMAIN DigitValue
Alphabet == Digit \cup White \cup {Minus, Other}

\* Mutant of Wrap: integers without a width.
WrapNever(m) == m

Wrap(m) ==
  IF call.name = "Int"
  THEN ((m + Half) % (2 * Half)) - Half
  ELSE m % (2 * Half)

Idle == [name |-> "none", at |-> "start"]

Init ==
  /\ stream \in UNION {[1..k -> Alphabet] : k \in 0..MaxStream}
  /\ base = 0 /\ from = 0 /\ to = 0
  /\ call = Idle
  /\ n = 0 /\ neg = FALSE /\ res = <<>> /\ afterWhite = FALSE
  /\ started = 0
  /\ results = <<>>

-----------------------------------------------------------------------------
(* A buffer is what read leaves behind: the bytes base + from + 1 ..       *)
(* base + to of the file are unread.                                       *)

Smaller(a, b) == IF a <= b THEN a ELSE b

\* The buffers read may leave: File.Read delivers at least one byte, or
\* none at the end of the file.
Read ==
  LET left == Len(stream) - base - to
  IN {[base |-> base + to, from |-> 0, to |-> k] : k \in 1..Smaller(BuffSize, left)}

Buffer == [base |-> base, from |-> from, to |-> to]

\* The buffers peek may leave; {} is its answer (0, false).
Peek == IF from = to THEN Read ELSE {Buffer}

ByteOf(b, i) == stream[b.base + i + 1]

SetBuffer(b, f) == base' = b.base /\ from' = f /\ to' = b.to

\* seek, in the buffer that peek left
Seek(b) == SetBuffer(b, b.from + 1)

Return(value) ==
  /\ results' = Append(results, [call |-> call.name, value |-> value])
  /\ call' = Idle
  /\ n' = 0 /\ neg' = FALSE /\ res' = <<>> /\ afterWhite' = FALSE
  /\ UNCHANGED <<stream, started>>

GoOn(place) ==
  /\ call' = [call EXCEPT !.at = place]
  /\ UNCHANGED <<stream, started, results>>

-----------------------------------------------------------------------------
(* Int and Uint.                                                           *)

Negated == Wrap(IF neg THEN -n ELSE n)

\* The first loop: skip to a digit or, in Int, to a minus.
SkipToNumber ==
  /\ call.at = "skip"
  /\ \/ Peek = {} /\ Return(0) /\ UNCHANGED bufferVars
     \/ \E b \in Peek :
          LET c == ByteOf(b, b.from)
              starts == c \in Digit \/ (c = Minus /\ call.name = "Int")
          IN /\ Seek(b)
             /\ GoOn(IF starts THEN "digits" ELSE "skip")
             /\ n' = IF c \in Digit THEN DigitValue[c] ELSE n
             /\ neg' = (starts /\ c = Minus)
             /\ UNCHANGED <<res, afterWhite>>

\* The second loop: the digits, and the byte behind them.
TakeDigits ==
  /\ call.at = "digits"
  /\ \/ Peek = {} /\ Return(Negated) /\ UNCHANGED bufferVars
     \/ \E b \in Peek :
          LET c == ByteOf(b, b.from)
          IN /\ Seek(b)
             /\ IF c \in Digit
                THEN /\ GoOn("digits")
                     /\ n' = Wrap(n * 10 + DigitValue[c])
                     /\ UNCHANGED <<neg, res, afterWhite>>
                ELSE Return(Negated)

-----------------------------------------------------------------------------
(* String and Line.                                                        *)

Separator == IF call.name = "String" THEN White ELSE NewLine

\* Before the loop: read if the buffer is used up.
FillForRun ==
  /\ call.at = "fill"
  /\ \/ Peek = {} /\ Return(<<>>) /\ UNCHANGED bufferVars
     \/ \E b \in Peek :
          SetBuffer(b, b.from) /\ GoOn("scan") /\ UNCHANGED localVars

\* The first of the places S in the buffer, or its end.
FirstPlace(S) == IF S = {} THEN to ELSE CHOOSE i \in S : \A j \in S : i <= j

\* The bytes [fr, stop) of the buffer belong to the word.
RunFrom ==
  IF afterWhite THEN from
  ELSE FirstPlace({i \in from..to - 1 : ByteOf(Buffer, i) \notin Separator})
RunTo == FirstPlace({i \in RunFrom..to - 1 : ByteOf(Buffer, i) \in Separator})

\* The inner loop, over the unread bytes of the buffer, and the append that
\* follows it.
ScanBuffer ==
  LET fr == RunFrom
      stop == RunTo
      found == res \o SubSeq(stream, base + fr + 1, base + stop)
  IN /\ call.at = "scan"
     /\ IF stop < to
        THEN from' = stop + 1 /\ Return(found) /\ UNCHANGED <<base, to>>
        ELSE /\ from' = to
             /\ res' = found
             /\ afterWhite' = (afterWhite \/ fr < to)
             /\ GoOn("refill")
             /\ UNCHANGED <<base, to, n, neg>>

\* Mutant of Refill: afterWhite is declared inside the loop.
RefillForgetting ==
  /\ call.at = "refill"
  /\ \/ Read = {} /\ Return(res) /\ UNCHANGED bufferVars
     \/ \E b \in Read :
          /\ SetBuffer(b, b.from) /\ GoOn("scan")
          /\ afterWhite' = FALSE /\ UNCHANGED <<n, neg, res>>

\* Mutant of Refill: no break at the end of the file.
RefillForever ==
  /\ call.at = "refill"
  /\ UNCHANGED localVars
  /\ GoOn("scan")
  /\ \/ Read = {} /\ UNCHANGED bufferVars
     \/ \E b \in Read : SetBuffer(b, b.from)

\* The end of the outer loop: read again, or break at the end of the file.
Refill ==
  /\ call.at = "refill"
  /\ \/ Read = {} /\ Return(res) /\ UNCHANGED bufferVars
     \/ \E b \in Read :
          SetBuffer(b, b.from) /\ GoOn("scan") /\ UNCHANGED localVars

-----------------------------------------------------------------------------
Start(kind) ==
  /\ call = Idle
  /\ call' = [name |-> kind,
              at |-> IF kind \in {"Int", "Uint"} THEN "skip" ELSE "fill"]
  /\ started' = base + from
  /\ UNCHANGED <<stream, bufferVars, localVars, results>>

Working == SkipToNumber \/ TakeDigits \/ FillForRun \/ ScanBuffer \/ Refill

Next ==
  \/ \E kind \in {"Int", "Uint", "String", "Line"} :
       Len(results) < MaxCalls /\ Start(kind)
  \/ Working

\* A call runs on; File.Read returns.
Spec == Init /\ [][Next]_vars /\ WF_vars(Working)

-----------------------------------------------------------------------------
ReaderTypeOK ==
  /\ stream \in Seq(Alphabet)
  /\ base \in 0..Len(stream) /\ to \in 0..BuffSize /\ from \in 0..to
  /\ base + to <= Len(stream)
  /\ call \in [name : {"none", "Int", "Uint", "String", "Line"},
               at : {"start", "skip", "digits", "fill", "scan", "refill"}]
  /\ n \in -Half .. 2 * Half - 1
  /\ neg \in BOOLEAN /\ afterWhite \in BOOLEAN
  /\ res \in Seq(Alphabet)
  /\ started \in 0..Len(stream)

\* Whatever the sizes of the reads, the calls return the numbers, words and
\* lines of the stream in order, and the next call starts right behind the
\* byte that ended the last one (reader.go:39-101, 163-231).
Tokens == INSTANCE TokenStream WITH
  pos <- IF call = Idle THEN base + from ELSE started

ImplementsTokenStream == Tokens!Spec

\* Every call returns, also at the end of the file (reader.go:42-56,
\* 171-190).
CallsReturn == (call # Idle) ~> (call = Idle)

=============================================================================
