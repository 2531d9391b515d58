CONSTANTS
  Byte = {a, b}
  a = a
  b = b
  BuffSize = 5
  MaxIntSize = 2
  MaxLen = 4
  MaxAsked = 6
  Payload <- MCPayload
SPECIFICATION ClientSpec
INVARIANTS WriterTypeOK NothingLostOrRepeated WrittenInOrder
PROPERTY StringReturns
\* A client may stop calling, and after a panic it does.
CHECK_DEADLOCK FALSE
