CONSTANTS
  DigitValue <- MCDigitValue
  White <- MCWhite
  NewLine <- MCNewLine
  Minus = "-"
  Other = "x"
  Half = 32
  BuffSize = 2
  MaxStream = 4
  MaxCalls = 2
SPECIFICATION Spec
INVARIANT ReaderTypeOK
PROPERTIES ImplementsTokenStream CallsReturn
\* The program stops asking for input.
CHECK_DEADLOCK FALSE
