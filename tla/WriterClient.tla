---------------------------- MODULE WriterClient ----------------------------
(***************************************************************************)
(* The most general owner of a FastWriter: it calls Bytes, String and      *)
(* FlushAll in any order, with any text of Payload.  After a panic it only *)
(* calls FlushAll, as the deferred calls of main.go and hackercup.go do.   *)
(***************************************************************************)
EXTENDS FastWriter

CONSTANTS
  Payload,     \* the texts a call may be given
  MaxAsked     \* bound: the client makes no new call beyond so many bytes

ASSUME ClientAssumption == Payload \subseteq Seq(Byte) /\ MaxAsked \in Nat

ClientNext ==
  \/ \E c \in Payload : Len(asked) < MaxAsked /\ Bytes(c)
  \/ \E c \in Payload : BytesTooLong(c)
  \/ \E s \in Payload : Len(asked) < MaxAsked /\ String(s)
  \/ CopyChunk
  \/ FlushAll /\ Len(file) <= MaxAsked

\* A goroutine inside String keeps running: nothing in the loop blocks but
\* File.Write, which returns.
ClientSpec == WriterInit /\ [][ClientNext]_writerVars /\ WF_writerVars(CopyChunk)

\* The loop of String ends, whatever the length of the text and the level
\* of the buffer: each turn finds room (writer.go:42-51).
StringReturns == (wstate = "copying") ~> (wstate # "copying")

=============================================================================
