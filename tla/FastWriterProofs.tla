-------------------------- MODULE FastWriterProofs --------------------------
(***************************************************************************)
(* The buffered writer, for every size of the buffer and every text: first *)
(* what one call does to the invariant WInv, stated per operation so that  *)
(* every owner of a writer (WriterClient, Hackercup) can use it; then what *)
(* holds under any sequence of calls.                                      *)
(***************************************************************************)
EXTENDS WriterClient, SequenceTheorems, TLAPS

\* Outside of String there is nothing left to copy.
RestOnlyWhileCopying == wstate \in {"ready", "refused"} => rest = <<>>

\* The inductive invariant: the two halves of a flush, used against buffer
\* and buffer against asked, depend on each other.
WInv ==
  /\ WriterTypeOK
  /\ RoomForOneMore
  /\ NothingLostOrRepeated
  /\ RestOnlyWhileCopying

LEMMA InitWInv == WriterInit => WInv
  BY SizesAssumption, EmptySeq
  DEF WriterInit, WInv, WriterTypeOK, RoomForOneMore, NothingLostOrRepeated,
      RestOnlyWhileCopying, Text, WriterStates

\* Concatenation of texts is associative.
LEMMA ConcatTextAssociative ==
  ASSUME NEW s \in Text, NEW t \in Text, NEW u \in Text
  PROVE  (s \o t) \o u = s \o (t \o u)
  BY ConcatAssociative DEF Text

\* A text is its first t bytes followed by the others.
LEMMA SplitText ==
  ASSUME NEW s \in Text, NEW t \in 0..Len(s)
  PROVE  /\ SubSeq(s, 1, t) \in Text
         /\ Len(SubSeq(s, 1, t)) = t
         /\ SubSeq(s, t + 1, Len(s)) \in Text
         /\ Len(SubSeq(s, t + 1, Len(s))) = Len(s) - t
         /\ SubSeq(s, 1, t) \o SubSeq(s, t + 1, Len(s)) = s
<1>1. Len(s) \in Nat /\ \A i \in 1..Len(s) : s[i] \in Byte
  BY LenProperties, ElementOfSeq DEF Text
<1>2. SubSeq(s, 1, t) \in Text /\ Len(SubSeq(s, 1, t)) = t
  BY <1>1, SubSeqProperties DEF Text
<1>3. /\ SubSeq(s, t + 1, Len(s)) \in Text
      /\ Len(SubSeq(s, t + 1, Len(s))) = Len(s) - t
  BY <1>1, SubSeqProperties DEF Text
<1>4. SubSeq(s, 1, t) \o SubSeq(s, t + 1, Len(s)) = s
  <2>1. /\ 1 \in 1..Len(s) + 1 /\ t \in 1 - 1..Len(s) /\ Len(s) \in t..Len(s)
    BY <1>1
  <2>2. SubSeq(s, 1, t) \o SubSeq(s, t + 1, Len(s)) = SubSeq(s, 1, Len(s))
    BY <2>1, ConcatAdjacentSubSeq DEF Text
  <2> QED BY <2>2, SubSeqFull DEF Text
<1> QED BY <1>2, <1>3, <1>4

\* The tail of bytes and String, called with the u bytes b in the buffer:
\* either the flush succeeds, nothing of file and buffer is lost and there is
\* room again, or the write was short and the owner has panicked.
LEMMA FlushIfNearlyFullKeeps ==
  ASSUME file \in Text, NEW b \in Text, NEW ok \in {"ready", "copying"},
         Len(b) <= BuffSize,
         FlushIfNearlyFull(b, Len(b), ok)
  PROVE  /\ file' \in Text /\ buffer' \in Text
         /\ used' \in 0..BuffSize /\ used' = Len(buffer')
         /\ \/ /\ wstate' = ok
               /\ used' + MaxIntSize < BuffSize
               /\ file' \o buffer' = file \o b
            \/ /\ wstate' = "failed"
               /\ buffer' = b
               /\ \E n \in 0..Len(b) : file' = file \o SubSeq(b, 1, n)
<1>0. Len(b) \in Nat /\ BuffSize \in Nat /\ MaxIntSize \in Nat
  BY LenProperties, SizesAssumption DEF Text
<1>1. CASE Len(b) < FlushAt
  <2>1. buffer' = b /\ used' = Len(b) /\ wstate' = ok /\ file' = file
    BY <1>0, <1>1, SizesAssumption DEF FlushIfNearlyFull, FlushAt
  <2> QED BY <1>0, <1>1, <2>1, SizesAssumption DEF FlushAt
<1>2. CASE Len(b) >= FlushAt
  <2>1. WriteAll(b, Len(b), ok, "failed")
    BY <1>0, <1>2, SizesAssumption DEF FlushIfNearlyFull
  <2>2. CASE WriteAccepted(b, Len(b)) /\ wstate' = ok
    <3>1. file' = file \o b /\ buffer' = <<>> /\ used' = 0 /\ wstate' = ok
      BY <2>2 DEF WriteAccepted
    <3>2. file' \in Text /\ file' \o <<>> = file'
      BY <3>1, ConcatProperties, ConcatEmptySeq DEF Text
    <3>3. buffer' \in Text /\ Len(buffer') = 0
      BY <3>1, EmptySeq DEF Text
    <3> QED BY <3>1, <3>2, <3>3, SizesAssumption
  <2>3. CASE WriteShort(b, Len(b)) /\ wstate' = "failed"
    <3>1. PICK n \in Shortfalls(Len(b)) : file' = file \o SubSeq(b, 1, n)
      BY <2>3 DEF WriteShort
    <3>2. n \in 0..Len(b)
      BY <3>1, <1>0 DEF Shortfalls
    <3>3. SubSeq(b, 1, n) \in Text
      BY <3>2, SplitText
    <3>4. file' \in Text
      BY <3>1, <3>3, ConcatProperties DEF Text
    <3>5. buffer' = b /\ used' = Len(b)
      BY <2>3 DEF WriteShort
    <3>6. \E m \in 0..Len(b) : file' = file \o SubSeq(b, 1, m)
      BY <3>1, <3>2
    <3>7. buffer' \in Text /\ used' = Len(buffer') /\ used' \in 0..BuffSize
      BY <1>0, <3>5
    <3> QED BY <2>3, <3>4, <3>5, <3>6, <3>7
  <2> QED BY <2>1, <2>2, <2>3 DEF WriteAll
<1>3. Len(b) < FlushAt \/ Len(b) >= FlushAt
  BY <1>0, SizesAssumption DEF FlushAt
<1> QED BY <1>1, <1>2, <1>3

\* bytes never truncates: the text fits behind what is buffered.
LEMMA CopyIntoFits ==
  ASSUME WInv, wstate = "ready", NEW c \in Text, Len(c) < MaxIntSize
  PROVE  /\ CopyInto(c) = buffer \o c
         /\ CopyInto(c) \in Text
         /\ Len(CopyInto(c)) = used + Len(c)
         /\ used + Len(c) <= BuffSize
<1>1. /\ buffer \in Text /\ used = Len(buffer) /\ used \in Nat
      /\ used + MaxIntSize < BuffSize /\ Len(c) \in Nat
  BY LenProperties, SizesAssumption
  DEF WInv, WriterTypeOK, RoomForOneMore, Text, WriterStates
<1>2. Smaller(Len(c), BuffSize - used) = Len(c)
  BY <1>1, SizesAssumption DEF Smaller
<1>3. CopyInto(c) = buffer \o c
  BY <1>2, SubSeqFull DEF CopyInto, Text
<1>4. buffer \o c \in Text /\ Len(buffer \o c) = Len(buffer) + Len(c)
  BY <1>1, ConcatProperties DEF Text
<1> QED BY <1>1, <1>3, <1>4, SizesAssumption

LEMMA BytesWInv ==
  ASSUME WInv, NEW c \in Text, Bytes(c)
  PROVE  WInv'
<1>1. /\ wstate = "ready" /\ Len(c) < MaxIntSize /\ rest' = rest
      /\ asked' = asked \o c
      /\ FlushIfNearlyFull(CopyInto(c), used + Len(c), "ready")
  BY DEF Bytes
<1>2. /\ file \in Text /\ buffer \in Text /\ asked \in Text /\ rest = <<>>
      /\ file \o buffer \o rest = asked
  BY <1>1 DEF WInv, WriterTypeOK, RestOnlyWhileCopying, NothingLostOrRepeated
<1>3. /\ CopyInto(c) = buffer \o c /\ CopyInto(c) \in Text
      /\ Len(CopyInto(c)) = used + Len(c) /\ used + Len(c) <= BuffSize
  BY <1>1, CopyIntoFits
<1>4. /\ file' \in Text /\ buffer' \in Text
      /\ used' \in 0..BuffSize /\ used' = Len(buffer')
      /\ \/ /\ wstate' = "ready"
            /\ used' + MaxIntSize < BuffSize
            /\ file' \o buffer' = file \o CopyInto(c)
         \/ wstate' = "failed"
  BY <1>1, <1>2, <1>3, FlushIfNearlyFullKeeps
<1>5. asked' \in Text
  BY <1>1, <1>2, ConcatProperties DEF Text
<1>6. WriterTypeOK' /\ RoomForOneMore' /\ RestOnlyWhileCopying'
  BY <1>1, <1>2, <1>4, <1>5
  DEF WInv, WriterTypeOK, RoomForOneMore, RestOnlyWhileCopying, WriterStates
<1>7. ASSUME wstate' = "ready" PROVE file' \o buffer' \o rest' = asked'
  <2>1. file \o buffer \in Text /\ file \o buffer = asked
    BY <1>2, ConcatProperties, ConcatEmptySeq DEF Text
  <2>2. file' \o buffer' = file \o (buffer \o c)
    BY <1>3, <1>4, <1>7
  <2>3. file \o (buffer \o c) = asked \o c
    <3>1. (file \o buffer) \o c = file \o (buffer \o c)
      <4>1. file \in Text /\ buffer \in Text
        BY <1>2
      <4> QED BY <4>1, ConcatTextAssociative
    <3> QED BY <2>1, <3>1
  <2>4. asked' \o <<>> = asked'
    BY <1>5, ConcatEmptySeq DEF Text
  <2> QED BY <1>1, <1>2, <2>2, <2>3, <2>4
<1> QED BY <1>4, <1>6, <1>7 DEF WInv, NothingLostOrRepeated

LEMMA BytesTooLongWInv ==
  ASSUME WInv, NEW c \in Text, BytesTooLong(c)
  PROVE  WInv'
  BY DEF BytesTooLong, WInv, WriterTypeOK, RoomForOneMore,
         NothingLostOrRepeated, RestOnlyWhileCopying, WriterStates

LEMMA StringWInv ==
  ASSUME WInv, NEW s \in Text, String(s)
  PROVE  WInv'
<1>1. /\ wstate = "ready" /\ rest' = s /\ asked' = asked \o s
      /\ wstate' = CopyingOr(s)
      /\ buffer' = buffer /\ used' = used /\ file' = file
  BY DEF String
<1>2. /\ file \in Text /\ buffer \in Text /\ asked \in Text /\ rest = <<>>
      /\ file \o buffer \o rest = asked
  BY <1>1 DEF WInv, WriterTypeOK, RestOnlyWhileCopying, NothingLostOrRepeated
<1>3. asked' \in Text
  BY <1>1, <1>2, ConcatProperties DEF Text
<1>4. WriterTypeOK' /\ RoomForOneMore' /\ RestOnlyWhileCopying'
  BY <1>1, <1>3
  DEF WInv, WriterTypeOK, RoomForOneMore, RestOnlyWhileCopying, WriterStates,
      CopyingOr
<1>5. file \o buffer = asked
  BY <1>2, ConcatProperties, ConcatEmptySeq DEF Text
<1>6. file' \o buffer' \o rest' = asked'
  BY <1>1, <1>5
<1> QED BY <1>4, <1>6 DEF WInv, NothingLostOrRepeated

LEMMA CopyChunkWInv ==
  ASSUME WInv, CopyChunk
  PROVE  WInv'
<1> DEFINE t == Smaller(BuffSize - used, Len(rest))
           head == SubSeq(rest, 1, t)
           b == buffer \o head
<1>1. /\ wstate = "copying" /\ asked' = asked
      /\ rest' = SubSeq(rest, t + 1, Len(rest))
      /\ FlushIfNearlyFull(b, used + t, CopyingOr(rest'))
  BY DEF CopyChunk
<1>2. /\ file \in Text /\ buffer \in Text /\ rest \in Text /\ asked \in Text
      /\ used \in Nat /\ used = Len(buffer) /\ used < BuffSize
      /\ Len(rest) \in Nat /\ BuffSize \in Nat
      /\ file \o buffer \o rest = asked
  BY <1>1, LenProperties, SizesAssumption
  DEF WInv, WriterTypeOK, RoomForOneMore, NothingLostOrRepeated, Text
<1>3. t \in 0..Len(rest) /\ used + t <= BuffSize
  BY <1>2 DEF Smaller
<1>4. /\ head \in Text /\ Len(head) = t /\ rest' \in Text
      /\ head \o rest' = rest
  BY <1>1, <1>2, <1>3, SplitText
<1>5. b \in Text /\ Len(b) = used + t
  BY <1>2, <1>4, ConcatProperties DEF Text
<1>6. CopyingOr(rest') \in {"ready", "copying"}
  BY DEF CopyingOr
<1> HIDE DEF t, head, b
<1>7. /\ file' \in Text /\ buffer' \in Text
      /\ used' \in 0..BuffSize /\ used' = Len(buffer')
      /\ \/ /\ wstate' = CopyingOr(rest')
            /\ used' + MaxIntSize < BuffSize
            /\ file' \o buffer' = file \o b
         \/ wstate' = "failed"
  BY <1>1, <1>2, <1>3, <1>5, <1>6, FlushIfNearlyFullKeeps
<1>8. WriterTypeOK' /\ RoomForOneMore' /\ RestOnlyWhileCopying'
  BY <1>1, <1>2, <1>4, <1>7
  DEF WriterTypeOK, RoomForOneMore, RestOnlyWhileCopying, WriterStates, CopyingOr
<1>9. ASSUME wstate' # "failed" PROVE file' \o buffer' \o rest' = asked'
  <2>1. file' \o buffer' = file \o b
    BY <1>7, <1>9
  <2> /\ file \in Text /\ buffer \in Text
      /\ head \in Text /\ rest' \in Text
    BY <1>2, <1>4
  <2>2. file \o b = (file \o buffer) \o head
    <3>1. (file \o buffer) \o head = file \o (buffer \o head)
      BY ConcatTextAssociative
    <3> QED BY <3>1 DEF b
  <2>3. ((file \o buffer) \o head) \o rest' = (file \o buffer) \o (head \o rest')
    <3>1. file \o buffer \in Text
      BY ConcatProperties DEF Text
    <3> QED BY <3>1, ConcatTextAssociative
  <2> QED BY <1>1, <1>2, <1>4, <2>1, <2>2, <2>3
<1> QED BY <1>8, <1>9 DEF WInv, NothingLostOrRepeated

LEMMA FlushAllWInv ==
  ASSUME WInv, FlushAll
  PROVE  WInv'
<1>1. /\ wstate # "copying" /\ rest' = rest /\ asked' = asked
      /\ \/ WriteAccepted(buffer, used)
         \/ WriteShort(buffer, used)
      /\ wstate \in {"failed", "retried"} => wstate' = "retried"
      /\ wstate \notin {"failed", "retried"} =>
           \/ WriteAccepted(buffer, used) /\ wstate' = wstate
           \/ wstate' = "failed"
  BY DEF FlushAll, WriteAll
<1>2. /\ file \in Text /\ buffer \in Text /\ asked \in Text /\ rest \in Text
      /\ used \in 0..BuffSize /\ used = Len(buffer) /\ wstate \in WriterStates
      /\ wstate \in {"ready", "refused"} => rest = <<>>
      /\ wstate \in {"ready", "refused"} => file \o buffer \o rest = asked
  BY DEF WInv, WriterTypeOK, RoomForOneMore, RestOnlyWhileCopying,
         NothingLostOrRepeated
<1>3. CASE WriteAccepted(buffer, used)
  <2>1. file' = file \o buffer /\ buffer' = <<>> /\ used' = 0
    BY <1>3 DEF WriteAccepted
  <2>2. file' \in Text /\ buffer' \in Text /\ Len(buffer') = 0
    BY <1>2, <2>1, ConcatProperties, EmptySeq DEF Text
  <2>3. file' \o buffer' = file \o buffer
    BY <2>1, <2>2, ConcatEmptySeq DEF Text
  <2> QED BY <1>1, <1>2, <2>1, <2>2, <2>3, SizesAssumption
          DEF WInv, WriterTypeOK, RoomForOneMore, RestOnlyWhileCopying,
              NothingLostOrRepeated, WriterStates
<1>4. CASE WriteShort(buffer, used)
  <2>1. PICK n \in Shortfalls(used) : file' = file \o SubSeq(buffer, 1, n)
    BY <1>4 DEF WriteShort
  <2>2. n \in 0..Len(buffer)
    BY <1>2, <2>1, SizesAssumption DEF Shortfalls
  <2>3. SubSeq(buffer, 1, n) \in Text
    BY <1>2, <2>2, SplitText
  <2>4. file' \in Text
    BY <1>2, <2>1, <2>3, ConcatProperties DEF Text
  <2>5. buffer' = buffer /\ used' = used
    BY <1>4 DEF WriteShort
  <2>6. wstate' \in {"failed", "retried"} \/ WriteAccepted(buffer, used)
    BY <1>1
  <2>7. CASE wstate' \in {"failed", "retried"}
    BY <1>1, <1>2, <2>4, <2>5, <2>7
    DEF WInv, WriterTypeOK, RoomForOneMore, RestOnlyWhileCopying,
        NothingLostOrRepeated, WriterStates
  <2> QED BY <1>3, <2>6, <2>7
<1> QED BY <1>1, <1>3, <1>4

\* Steps that leave the writer alone.
LEMMA StutterWInv ==
  ASSUME WInv, UNCHANGED writerVars
  PROVE  WInv'
  BY DEF writerVars, WInv, WriterTypeOK, RoomForOneMore, NothingLostOrRepeated,
         RestOnlyWhileCopying

-----------------------------------------------------------------------------
(* After a short write.                                                    *)

\* What is buffered goes on from some place in the file.
Resumable == \E j \in 0..Len(file) : SubSeq(file, 1, j) \o buffer \o rest = asked

\* WrittenInOrder speaks of the file; what a later flush will do to it
\* depends on where the buffer goes on.
OInv ==
  /\ wstate = "failed" => FileIsPrefix /\ Resumable
  /\ wstate = "retried" => Resumable \/ (buffer = <<>> /\ WrittenAtLeastOnce)

LEMMA PrefixOfConcat ==
  ASSUME NEW s \in Text, NEW t \in Text
  PROVE  /\ Len(s) \in Nat /\ Len(s) <= Len(s \o t)
         /\ SubSeq(s \o t, 1, Len(s)) = s
         /\ SubSeq(s \o t, Len(s) + 1, Len(s \o t)) = t
<1>1. /\ Len(s) \in Nat /\ Len(t) \in Nat /\ s \o t \in Seq(Byte)
      /\ Len(s \o t) = Len(s) + Len(t)
  BY LenProperties, ConcatProperties DEF Text
<1>2. SubSeq(s \o t, 1, Len(s)) = s
  <2>1. CASE Len(s) = 0
    <3>1. s = <<>>
      BY <2>1, EmptySeq DEF Text
    <3> QED BY <1>1, <2>1, <3>1, SubSeqEmpty
  <2>2. CASE Len(s) > 0
    <3>1. SubSeq(s \o t, 1, Len(s)) = SubSeq(s, 1, Len(s))
      <4>1. 1 \in 1..Len(s) /\ Len(s) \in 1..Len(s)
        BY <1>1, <2>2
      <4> QED BY <4>1, SubSeqOfConcat1 DEF Text
    <3> QED BY <3>1, SubSeqFull DEF Text
  <2> QED BY <1>1, <2>1, <2>2
<1>3. SubSeq(s \o t, Len(s) + 1, Len(s \o t)) = t
  <2>1. CASE Len(t) = 0
    <3>1. t = <<>>
      BY <2>1, EmptySeq DEF Text
    <3> QED BY <1>1, <2>1, <3>1, SubSeqEmpty
  <2>2. CASE Len(t) > 0
    <3>1. SubSeq(s \o t, Len(s) + 1, Len(s) + Len(t)) = SubSeq(t, 1, Len(t))
      <4>1. /\ Len(s) + 1 \in Len(s) + 1..Len(s) + Len(t)
            /\ Len(s) + Len(t) \in Len(s) + 1..Len(s) + Len(t)
            /\ Len(s) + 1 - Len(s) = 1 /\ Len(s) + Len(t) - Len(s) = Len(t)
        BY <1>1, <2>2
      <4>2. SubSeq(s \o t, Len(s) + 1, Len(s) + Len(t))
              = SubSeq(t, Len(s) + 1 - Len(s), Len(s) + Len(t) - Len(s))
        BY <4>1, SubSeqOfConcat2 DEF Text
      <4> QED BY <4>1, <4>2
    <3> QED BY <1>1, <3>1, SubSeqFull DEF Text
  <2> QED BY <1>1, <2>1, <2>2
<1> QED BY <1>1, <1>2, <1>3

\* A short write of b, when f \o b \o r was asked for.
LEMMA ShortWriteResumes ==
  ASSUME NEW f \in Text, NEW b \in Text, NEW r \in Text, NEW n \in 0..Len(b),
         file' = f \o SubSeq(b, 1, n), buffer' = b, rest' = r, asked' = f \o b \o r
  PROVE  FileIsPrefix' /\ Resumable'
<1> DEFINE head == SubSeq(b, 1, n)
           tail == SubSeq(b, n + 1, Len(b))
           written == f \o head
           left == tail \o r
<1>1. head \in Text /\ tail \in Text /\ head \o tail = b
  BY SplitText
<1> HIDE DEF head, tail
<1>2. file' = written
  BY DEF head
<1>3. written \in Text /\ left \in Text
  BY <1>1, ConcatProperties DEF Text
<1>4. f \o b = written \o tail
  BY <1>1, ConcatTextAssociative
<1>5. SubSeq(written, 1, Len(f)) = f /\ Len(f) \in Nat /\ Len(f) <= Len(written)
  BY <1>1, PrefixOfConcat
<1> HIDE DEF written
<1>6. asked' = written \o left
  <2>0. tail \in Text /\ written \in Text /\ r \in Text
    BY <1>1, <1>3
  <2> HIDE DEF left
  <2>1. (written \o tail) \o r = written \o (tail \o r)
    BY ONLY <2>0, ConcatTextAssociative
  <2> QED BY <1>4, <2>1 DEF left
<1> HIDE DEF left
<1>7. FileIsPrefix'
  <2>1. Len(written) <= Len(written \o left)
        /\ SubSeq(written \o left, 1, Len(written)) = written
    BY <1>3, PrefixOfConcat
  <2> QED BY <1>2, <1>6, <2>1 DEF FileIsPrefix
<1>8. Resumable'
  <2>1. Len(written) \in Nat
    BY <1>3, LenProperties DEF Text
  <2>2. Len(f) \in 0..Len(file')
    BY <1>2, <1>5, <2>1
  <2>3. SubSeq(file', 1, Len(f)) = f
    BY <1>2, <1>5
  <2>4. SubSeq(file', 1, Len(f)) \o buffer' \o rest' = asked'
    BY <2>3
  <2> QED BY <2>2, <2>4 DEF Resumable
<1> QED BY <1>7, <1>8

LEMMA BytesOInv ==
  ASSUME WInv, NEW c \in Text, Bytes(c)
  PROVE  OInv'
<1>1. /\ wstate = "ready" /\ rest' = rest /\ asked' = asked \o c
      /\ FlushIfNearlyFull(CopyInto(c), used + Len(c), "ready")
      /\ Len(c) < MaxIntSize
  BY DEF Bytes
<1>2. /\ file \in Text /\ buffer \in Text /\ rest = <<>> /\ asked \in Text
      /\ file \o buffer \o rest = asked
  BY <1>1 DEF WInv, WriterTypeOK, RestOnlyWhileCopying, NothingLostOrRepeated
<1>3. /\ CopyInto(c) = buffer \o c /\ CopyInto(c) \in Text
      /\ Len(CopyInto(c)) = used + Len(c) /\ used + Len(c) <= BuffSize
  BY <1>1, CopyIntoFits
<1>4. \/ wstate' = "ready"
      \/ /\ wstate' = "failed" /\ buffer' = CopyInto(c)
         /\ \E n \in 0..Len(CopyInto(c)) : file' = file \o SubSeq(CopyInto(c), 1, n)
  BY <1>1, <1>2, <1>3, FlushIfNearlyFullKeeps
<1>5. file \o CopyInto(c) \o rest' = asked'
  <2>1. file \o buffer \in Text /\ file \o buffer = asked
    BY <1>2, ConcatProperties, ConcatEmptySeq DEF Text
  <2>2. (file \o buffer) \o c = file \o (buffer \o c)
    BY <1>2, ConcatTextAssociative
  <2>3. file \o CopyInto(c) \in Text
    BY <1>2, <1>3, ConcatProperties DEF Text
  <2>4. (file \o CopyInto(c)) \o <<>> = file \o CopyInto(c)
    BY <2>3, ConcatEmptySeq DEF Text
  <2> QED BY <1>1, <1>2, <1>3, <2>1, <2>2, <2>4
<1>6. rest' \in Text
  BY <1>1 DEF WInv, WriterTypeOK
<1>7. CASE wstate' = "failed"
  BY <1>2, <1>3, <1>4, <1>5, <1>6, <1>7, ShortWriteResumes DEF OInv
<1> QED BY <1>4, <1>7 DEF OInv

LEMMA CopyChunkOInv ==
  ASSUME WInv, CopyChunk
  PROVE  OInv'
<1> DEFINE t == Smaller(BuffSize - used, Len(rest))
           head == SubSeq(rest, 1, t)
           b == buffer \o head
<1>1. /\ wstate = "copying" /\ asked' = asked
      /\ rest' = SubSeq(rest, t + 1, Len(rest))
      /\ FlushIfNearlyFull(b, used + t, CopyingOr(rest'))
  BY DEF CopyChunk
<1>2. /\ file \in Text /\ buffer \in Text /\ rest \in Text
      /\ used \in Nat /\ used = Len(buffer) /\ used < BuffSize
      /\ Len(rest) \in Nat /\ BuffSize \in Nat
      /\ file \o buffer \o rest = asked
  BY <1>1, LenProperties, SizesAssumption
  DEF WInv, WriterTypeOK, RoomForOneMore, NothingLostOrRepeated, Text
<1>3. t \in 0..Len(rest) /\ used + t <= BuffSize
  BY <1>2 DEF Smaller
<1>4. /\ head \in Text /\ Len(head) = t /\ rest' \in Text
      /\ head \o rest' = rest
  BY <1>1, <1>2, <1>3, SplitText
<1>5. b \in Text /\ Len(b) = used + t
  BY <1>2, <1>4, ConcatProperties DEF Text
<1>6. CopyingOr(rest') \in {"ready", "copying"}
  BY DEF CopyingOr
<1> HIDE DEF t, head, b
<1>7. \/ wstate' \in {"ready", "copying"}
      \/ /\ wstate' = "failed" /\ buffer' = b
         /\ \E n \in 0..Len(b) : file' = file \o SubSeq(b, 1, n)
  BY <1>1, <1>2, <1>3, <1>5, <1>6, FlushIfNearlyFullKeeps
<1>8. file \o b \o rest' = asked'
  <2>1. (file \o buffer) \o head = file \o b
    BY <1>2, <1>4, ConcatTextAssociative DEF b
  <2>2. file \o buffer \in Text
    BY <1>2, ConcatProperties DEF Text
  <2>3. ((file \o buffer) \o head) \o rest' = (file \o buffer) \o (head \o rest')
    BY <1>4, <2>2, ConcatTextAssociative
  <2> QED BY <1>1, <1>2, <1>4, <2>1, <2>3
<1>9. CASE wstate' = "failed"
  BY <1>2, <1>4, <1>5, <1>7, <1>8, <1>9, ShortWriteResumes DEF OInv
<1> QED BY <1>7, <1>9 DEF OInv

\* A flush after a short write: the buffer is written again, in whole, or in
\* part once more.
LEMMA RetryKeepsResumable ==
  ASSUME WInv, Resumable, UNCHANGED <<rest, asked>>,
         WriteAccepted(buffer, used) \/ WriteShort(buffer, used)
  PROVE  Resumable' \/ (buffer' = <<>> /\ WrittenAtLeastOnce')
<1>1. /\ file \in Text /\ buffer \in Text /\ rest \in Text
      /\ used = Len(buffer) /\ Len(file) \in Nat /\ used \in Nat
  BY LenProperties DEF WInv, WriterTypeOK, RoomForOneMore, Text
<1>2. PICK j \in 0..Len(file) : SubSeq(file, 1, j) \o buffer \o rest = asked
  BY DEF Resumable
<1>3. ASSUME NEW w \in Text
      PROVE  /\ SubSeq(file \o w, 1, j) = SubSeq(file, 1, j)
             /\ Len(file \o w) = Len(file) + Len(w) /\ Len(w) \in Nat
  <2>1. /\ SubSeq(file, 1, j) \in Text /\ Len(SubSeq(file, 1, j)) = j
        /\ SubSeq(file, j + 1, Len(file)) \in Text
        /\ SubSeq(file, 1, j) \o SubSeq(file, j + 1, Len(file)) = file
    BY <1>1, <1>2, SplitText
  <2> DEFINE head == SubSeq(file, 1, j)
             tail == SubSeq(file, j + 1, Len(file))
  <2>2. head \in Text /\ tail \in Text /\ head \o tail = file /\ Len(head) = j
    BY <2>1
  <2> HIDE DEF head, tail
  <2>3. file \o w = head \o (tail \o w) /\ tail \o w \in Text
    BY <2>2, ConcatTextAssociative, ConcatProperties DEF Text
  <2>4. SubSeq(file \o w, 1, j) = head
    BY <2>2, <2>3, PrefixOfConcat
  <2>5. Len(file \o w) = Len(file) + Len(w) /\ Len(w) \in Nat
    BY <1>1, ConcatProperties, LenProperties DEF Text
  <2> QED BY <2>4, <2>5 DEF head
<1>4. CASE WriteAccepted(buffer, used)
  <2>1. file' = file \o buffer /\ buffer' = <<>>
    BY <1>4 DEF WriteAccepted
  <2>2. SubSeq(file', Len(file) + 1, Len(file')) = buffer
    BY <1>1, <2>1, PrefixOfConcat
  <2>3. /\ j \in 0..Len(file') /\ Len(file) \in j..Len(file')
        /\ SubSeq(file', 1, j) = SubSeq(file, 1, j)
    BY <1>1, <1>2, <1>3, <2>1
  <2>4. (SubSeq(file, 1, j) \o buffer) \o <<>> = SubSeq(file, 1, j) \o buffer
    <3>1. SubSeq(file, 1, j) \in Text
      BY <1>1, <1>2, SplitText
    <3> QED BY <1>1, <3>1, ConcatProperties, ConcatEmptySeq DEF Text
  <2>5. SubSeq(file', 1, j) \o SubSeq(file', Len(file) + 1, Len(file')) \o buffer' \o rest' = asked'
    BY <1>2, <2>1, <2>2, <2>3, <2>4
  <2> QED BY <2>1, <2>3, <2>5 DEF WrittenAtLeastOnce
<1>5. CASE WriteShort(buffer, used)
  <2>1. PICK n \in Shortfalls(used) : file' = file \o SubSeq(buffer, 1, n)
    BY <1>5 DEF WriteShort
  <2>2. n \in 0..Len(buffer)
    BY <1>1, <2>1, SizesAssumption DEF Shortfalls
  <2>3. buffer' = buffer
    BY <1>5 DEF WriteShort
  <2>4. SubSeq(buffer, 1, n) \in Text
    BY <1>1, <2>2, SplitText
  <2> DEFINE w == SubSeq(buffer, 1, n)
  <2> HIDE DEF w
  <2>5. w \in Text /\ file' = file \o w
    BY <2>1, <2>4 DEF w
  <2>6. /\ SubSeq(file', 1, j) = SubSeq(file, 1, j)
        /\ Len(file') = Len(file) + Len(w) /\ Len(w) \in Nat
    BY <1>3, <2>5
  <2>7. j \in 0..Len(file')
    BY <1>1, <1>2, <2>6
  <2> QED BY <1>2, <2>3, <2>6, <2>7 DEF Resumable
<1> QED BY <1>4, <1>5

LEMMA FlushAllOInv ==
  ASSUME WInv, OInv, FlushAll
  PROVE  OInv'
<1>1. /\ wstate # "copying" /\ rest' = rest /\ asked' = asked
      /\ \/ WriteAccepted(buffer, used)
         \/ WriteShort(buffer, used)
      /\ wstate \in {"failed", "retried"} => wstate' = "retried"
      /\ wstate \notin {"failed", "retried"} =>
           \/ WriteAccepted(buffer, used) /\ wstate' = wstate
           \/ WriteShort(buffer, used) /\ wstate' = "failed"
  BY DEF FlushAll, WriteAll
<1>2. /\ file \in Text /\ buffer \in Text /\ rest \in Text
      /\ used = Len(buffer) /\ used \in 0..BuffSize /\ wstate \in WriterStates
  BY DEF WInv, WriterTypeOK, RoomForOneMore
<1>3. CASE wstate \notin {"failed", "retried"}
  <2>1. file \o buffer \o rest = asked
    BY <1>1, <1>2, <1>3 DEF WInv, NothingLostOrRepeated, WriterStates
  <2>2. CASE WriteShort(buffer, used) /\ wstate' = "failed"
    <3>1. PICK n \in Shortfalls(used) : file' = file \o SubSeq(buffer, 1, n)
      BY <2>2 DEF WriteShort
    <3>2. n \in 0..Len(buffer) /\ buffer' = buffer
      BY <1>2, <2>2, <3>1, SizesAssumption DEF Shortfalls, WriteShort
    <3>3. FileIsPrefix' /\ Resumable'
      BY <1>1, <1>2, <2>1, <3>1, <3>2, ShortWriteResumes
    <3> QED BY <2>2, <3>3 DEF OInv
  <2>3. CASE wstate' = wstate
    BY <1>3, <2>3 DEF OInv
  <2> QED BY <1>1, <1>3, <2>2, <2>3
<1>4. CASE wstate \in {"failed", "retried"} /\ Resumable
  <2>1. Resumable' \/ (buffer' = <<>> /\ WrittenAtLeastOnce')
    BY <1>1, <1>4, RetryKeepsResumable
  <2> QED BY <1>1, <1>4, <2>1 DEF OInv
<1>5. CASE wstate = "retried" /\ buffer = <<>> /\ WrittenAtLeastOnce
  <2>1. used = 0
    BY <1>2, <1>5
  <2>2. file' = file /\ buffer' = buffer
    <3>1. Shortfalls(0) = {}
      BY SizesAssumption DEF Shortfalls
    <3>2. ~WriteShort(buffer, used)
      BY <2>1, <3>1 DEF WriteShort
    <3>3. file' = file \o <<>> /\ buffer' = <<>>
      BY <1>1, <1>5, <3>2 DEF WriteAccepted
    <3> QED BY <1>2, <1>5, <3>3, ConcatEmptySeq DEF Text
  <2> QED BY <1>1, <1>5, <2>2 DEF OInv, WrittenAtLeastOnce
<1> QED BY <1>3, <1>4, <1>5 DEF OInv

LEMMA InOrder ==
  ASSUME WInv, OInv
  PROVE  WrittenInOrder
<1>1. /\ file \in Text /\ buffer \in Text /\ rest \in Text
      /\ Len(file) \in Nat /\ wstate \in WriterStates
  BY LenProperties DEF WInv, WriterTypeOK, Text
<1>2. ASSUME Resumable PROVE WrittenAtLeastOnce
  <2>1. PICK j \in 0..Len(file) : SubSeq(file, 1, j) \o buffer \o rest = asked
    BY <1>2 DEF Resumable
  <2>2. SubSeq(file, Len(file) + 1, Len(file)) = <<>>
    BY <1>1, SubSeqEmpty
  <2>3. SubSeq(file, 1, j) \o <<>> = SubSeq(file, 1, j)
    <3>1. SubSeq(file, 1, j) \in Text
      BY <1>1, <2>1, SplitText
    <3> QED BY <3>1, ConcatEmptySeq DEF Text
  <2>4. Len(file) \in j..Len(file)
    BY <1>1, <2>1
  <2>5. SubSeq(file, 1, j) \o SubSeq(file, Len(file) + 1, Len(file)) \o buffer \o rest = asked
    BY <2>1, <2>2, <2>3
  <2> QED BY <2>1, <2>4, <2>5 DEF WrittenAtLeastOnce
<1>3. CASE wstate \in {"ready", "copying", "refused"}
  <2>1. file \o buffer \o rest = asked
    BY <1>3 DEF WInv, NothingLostOrRepeated
  <2>2. SubSeq(file, 1, Len(file)) = file
    BY <1>1, SubSeqFull DEF Text
  <2>3. Resumable
    <3>1. Len(file) \in 0..Len(file)
      BY <1>1
    <3>2. SubSeq(file, 1, Len(file)) \o buffer \o rest = asked
      BY <2>1, <2>2
    <3> QED BY <3>1, <3>2 DEF Resumable
  <2>4. buffer \o rest \in Text /\ asked = file \o (buffer \o rest)
    BY <1>1, <2>1, ConcatTextAssociative, ConcatProperties DEF Text
  <2>5. FileIsPrefix
    BY <1>1, <2>4, PrefixOfConcat DEF FileIsPrefix
  <2> QED BY <1>2, <2>3, <2>5 DEF WrittenInOrder
<1>4. CASE wstate = "failed"
  BY <1>2, <1>4 DEF OInv, WrittenInOrder
<1>5. CASE wstate = "retried"
  BY <1>2, <1>5 DEF OInv, WrittenInOrder, FileIsPrefix
<1> QED BY <1>1, <1>3, <1>4, <1>5 DEF WriterStates

(***************************************************************************)
(* Any sequence of calls.                                                  *)
(***************************************************************************)

LEMMA ClientNextWInv == WInv /\ [ClientNext]_writerVars => WInv'
<1> SUFFICES ASSUME WInv, [ClientNext]_writerVars PROVE WInv'
  OBVIOUS
<1>0. \A c \in Payload : c \in Text
  BY ClientAssumption DEF Text
<1>1. ASSUME NEW c \in Payload, Bytes(c) PROVE WInv'
  BY <1>0, <1>1, BytesWInv
<1>2. ASSUME NEW c \in Payload, BytesTooLong(c) PROVE WInv'
  BY <1>0, <1>2, BytesTooLongWInv
<1>3. ASSUME NEW s \in Payload, String(s) PROVE WInv'
  BY <1>0, <1>3, StringWInv
<1>4. CASE CopyChunk
  BY <1>4, CopyChunkWInv
<1>5. CASE FlushAll
  BY <1>5, FlushAllWInv
<1>6. CASE UNCHANGED writerVars
  BY <1>6, StutterWInv
<1> QED BY <1>1, <1>2, <1>3, <1>4, <1>5, <1>6 DEF ClientNext

THEOREM WriterInvariant == ClientSpec => []WInv
<1>1. WriterInit => WInv
  BY InitWInv
<1>2. WInv /\ [ClientNext]_writerVars => WInv'
  BY ClientNextWInv
<1> QED BY <1>1, <1>2, PTL DEF ClientSpec

\* The state of the writer stays well typed and used stays within the buffer
\* (writer.go:13-18).
THEOREM WriterTypeCorrect == ClientSpec => []WriterTypeOK
<1>1. WInv => WriterTypeOK
  BY DEF WInv
<1> QED BY <1>1, WriterInvariant, PTL

\* Whatever the calls and wherever the end of the buffer falls in a text,
\* no byte is lost, repeated or moved while writes succeed
\* (writer.go:20-52).
THEOREM WriterKeepsEveryByte == ClientSpec => []NothingLostOrRepeated
<1>1. WInv => NothingLostOrRepeated
  BY DEF WInv
<1> QED BY <1>1, WriterInvariant, PTL

\* Between two calls there is room for a whole call of bytes, so its copy
\* never truncates and no turn of the loop of String copies nothing
\* (writer.go:32-36, 43-50).
THEOREM WriterHasRoom == ClientSpec => []RoomForOneMore
<1>1. WInv => RoomForOneMore
  BY DEF WInv
<1> QED BY <1>1, WriterInvariant, PTL

LEMMA ClientNextOInv == WInv /\ OInv /\ [ClientNext]_writerVars => OInv'
<1> SUFFICES ASSUME WInv, OInv, [ClientNext]_writerVars PROVE OInv'
  OBVIOUS
<1>0. \A c \in Payload : c \in Text
  BY ClientAssumption DEF Text
<1>1. ASSUME NEW c \in Payload, Bytes(c) PROVE OInv'
  BY <1>0, <1>1, BytesOInv
<1>2. ASSUME NEW c \in Payload, BytesTooLong(c) PROVE OInv'
  BY <1>2 DEF BytesTooLong, OInv
<1>3. ASSUME NEW s \in Payload, String(s) PROVE OInv'
  BY <1>3 DEF String, CopyingOr, OInv
<1>4. CASE CopyChunk
  BY <1>4, CopyChunkOInv
<1>5. CASE FlushAll
  BY <1>5, FlushAllOInv
<1>6. CASE UNCHANGED writerVars
  BY <1>6 DEF writerVars, OInv, FileIsPrefix, Resumable, WrittenAtLeastOnce
<1> QED BY <1>1, <1>2, <1>3, <1>4, <1>5, <1>6 DEF ClientNext

\* After a short write the file is a prefix of what was asked for, and
\* whatever flushes follow it, no byte is lost: without one contiguous
\* stretch, file and buffer are what was asked for (writer.go:20-26 with the
\* deferred calls of hackercup.go:19-23).
THEOREM WriterWritesInOrder == ClientSpec => []WrittenInOrder
<1>1. WriterInit => OInv
  BY DEF WriterInit, OInv
<1>2. WInv /\ OInv => WrittenInOrder
  BY InOrder
<1> QED BY <1>1, <1>2, ClientNextOInv, WriterInvariant, PTL DEF ClientSpec

=============================================================================
