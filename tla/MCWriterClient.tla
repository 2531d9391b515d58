--------------------------- MODULE MCWriterClient ---------------------------
EXTENDS WriterClient

CONSTANT MaxLen   \* bound: the longest text of a call

MCPayload == UNION {[1..n -> Byte] : n \in 0..MaxLen}
=============================================================================
