----------------------------- MODULE FastWriter -----------------------------
(***************************************************************************)
(* The buffered writer of fastio/writer.go.  It has one owner, so a call   *)
(* is a sequence of steps of that owner: bytes and WriteAll are one step   *)
(* each, String is one step per turn of its copying loop, because every    *)
(* turn may call File.Write and panic.                                     *)
(*                                                                         *)
(* Int, Uint, Uint32, Char and Float hand their digits to bytes; Printf    *)
(* hands its text to String.  What the digits are is the business of       *)
(* module Helpers; here a text is any sequence of Byte.                    *)
(***************************************************************************)
EXTENDS Integers, Sequences

CONSTANTS
  Byte,        \* the bytes a text is made of
  BuffSize,    \* buffSize, the length of Writer.buffer
  MaxIntSize   \* maxIntSize, the length of Writer.intBuffer

ASSUME SizesAssumption ==
  /\ BuffSize \in Nat /\ MaxIntSize \in Nat
  /\ 0 < MaxIntSize /\ MaxIntSize < BuffSize

VARIABLES
  buffer,      \* the meaningful part of Writer.buffer: buffer[:used]
  used,        \* Writer.used
  file,        \* what File has received
  rest,        \* what String has still to copy: s[fr:]
  wstate,      \* where the owner stands, see WriterStates
  asked        \* history: every byte accepted by a call so far

writerVars == <<buffer, used, file, rest, wstate, asked>>

(***************************************************************************)
(*   ready     between two calls, none of which has panicked               *)
(*   copying   inside the loop of String                                   *)
(*   refused   bytes has panicked ("bytes too long")                       *)
(*   failed    File.Write was short and WriteAll has panicked              *)
(*   retried   a deferred WriteAll has run after "failed"                  *)
(***************************************************************************)
WriterStates == {"ready", "copying", "refused", "failed", "retried"}

Text == Seq(Byte)

\* Mutant of FlushAt: the reserve added instead of subtracted.
FlushPastTheEnd == BuffSize + MaxIntSize

\* The level at which bytes and String empty the buffer.
FlushAt == BuffSize - MaxIntSize

Smaller(a, b) == IF a <= b THEN a ELSE b

WriterInit ==
  /\ buffer = <<>>
  /\ used = 0
  /\ file = <<>>
  /\ rest = <<>>
  /\ wstate = "ready"
  /\ asked = <<>>

-----------------------------------------------------------------------------
(* File.Write accepts all of buffer[:used], or it accepts a part of it and *)
(* reports an error, on which WriteAll panics before used is reset.  A     *)
(* slice buffer[:used] with used beyond the array panics before any write. *)

\* Mutant of WriteAccepted: used is not reset.
WriteAcceptedKeeping(b, u) ==
  /\ u <= BuffSize
  /\ file' = file \o b
  /\ buffer' = b
  /\ used' = u

WriteAccepted(b, u) ==
  /\ u <= BuffSize
  /\ file' = file \o b
  /\ buffer' = <<>>
  /\ used' = 0

Shortfalls(u) == IF u > BuffSize THEN {0} ELSE {n \in 0..u : n < u}

\* Mutant of WriteShort: used is reset before the result is looked at.
WriteShortForgetting(b, u) ==
  /\ \E n \in Shortfalls(u) : file' = file \o SubSeq(b, 1, n)
  /\ buffer' = <<>>
  /\ used' = 0

WriteShort(b, u) ==
  /\ \E n \in Shortfalls(u) : file' = file \o SubSeq(b, 1, n)
  /\ buffer' = b
  /\ used' = u

\* WriteAll called with b and u in the buffer: the owner is then in state
\* ok, or in state bad if the call panics.
WriteAll(b, u, ok, bad) ==
  \/ WriteAccepted(b, u) /\ wstate' = ok
  \/ WriteShort(b, u) /\ wstate' = bad

\* The tail that bytes and String share: call WriteAll near the end of the
\* buffer.
FlushIfNearlyFull(b, u, ok) ==
  IF u >= FlushAt
  THEN WriteAll(b, u, ok, "failed")
  ELSE buffer' = b /\ used' = u /\ wstate' = ok /\ UNCHANGED file

\* copy(buffer[used:], c): what does not fit is dropped without a word.
CopyInto(c) == buffer \o SubSeq(c, 1, Smaller(Len(c), BuffSize - used))

Bytes(c) ==
  /\ wstate = "ready"
  /\ Len(c) < MaxIntSize
  /\ FlushIfNearlyFull(CopyInto(c), used + Len(c), "ready")
  /\ asked' = asked \o c
  /\ UNCHANGED rest

\* The panic of bytes on a text as long as intBuffer (a Float printed with
\* all its digits may be).
BytesTooLong(c) ==
  /\ wstate = "ready"
  /\ Len(c) >= MaxIntSize
  /\ wstate' = "refused"
  /\ UNCHANGED <<buffer, used, file, rest, asked>>

-----------------------------------------------------------------------------
CopyingOr(r) == IF r = <<>> THEN "ready" ELSE "copying"

\* Entering String: fr = 0, to = len(s).
String(s) ==
  /\ wstate = "ready"
  /\ rest' = s
  /\ wstate' = CopyingOr(s)
  /\ asked' = asked \o s
  /\ UNCHANGED <<buffer, used, file>>

\* One turn of the loop of String.
CopyChunk ==
  LET left == BuffSize - used
      toCopy == Smaller(left, Len(rest))
  IN /\ wstate = "copying"
     /\ rest' = SubSeq(rest, toCopy + 1, Len(rest))
     /\ FlushIfNearlyFull(buffer \o SubSeq(rest, 1, toCopy), used + toCopy,
                          CopyingOr(rest'))
     /\ UNCHANGED asked

\* WriteAll called by the owner: at the end of its work, or by a deferred
\* call while a panic unwinds.
FlushAll ==
  /\ wstate # "copying"
  /\ IF wstate \in {"failed", "retried"}
     THEN WriteAll(buffer, used, "retried", "retried")
     ELSE WriteAll(buffer, used, wstate, "failed")
  /\ UNCHANGED <<rest, asked>>

-----------------------------------------------------------------------------
(* What every owner of a writer may rely on.                               *)

WriterTypeOK ==
  /\ buffer \in Text /\ file \in Text /\ rest \in Text /\ asked \in Text
  /\ used \in 0..BuffSize
  /\ wstate \in WriterStates

\* As long as no write has come up short, what was asked for is, in order,
\* in the file, in the buffer or in the text being copied: nothing is lost,
\* repeated or reordered by bytes, String and WriteAll, wherever the
\* buffer's end falls (writer.go:20-52).
NothingLostOrRepeated ==
  wstate \in {"ready", "copying", "refused"} =>
    file \o buffer \o rest = asked

\* Until a deferred WriteAll runs after a short write, the file is a prefix
\* of what was asked for (writer.go:20-26).
FileIsPrefix ==
  wstate # "retried" =>
    /\ Len(file) <= Len(asked)
    /\ file = SubSeq(asked, 1, Len(file))

\* WriteAll does not move the unwritten bytes to the front after a short
\* write, so a deferred WriteAll writes the accepted part again.  Still no
\* byte is lost: without one contiguous stretch the file is what was asked
\* for (writer.go:21-25 with the deferred calls of hackercup.go:19-23).
WrittenAtLeastOnce ==
  \E j \in 0..Len(file) : \E k \in j..Len(file) :
    SubSeq(file, 1, j) \o SubSeq(file, k + 1, Len(file)) \o buffer \o rest = asked

\* Short writes and the flushes that follow them lose nothing.
WrittenInOrder == FileIsPrefix /\ WrittenAtLeastOnce

\* Between two calls the buffer has room for one more call of bytes, so the
\* copy in bytes never drops a byte and the loop of String always has room
\* (writer.go:32-36, 43-50).
RoomForOneMore ==
  /\ used = Len(buffer)
  /\ wstate \in {"ready", "copying", "refused"} => used + MaxIntSize < BuffSize

=============================================================================
