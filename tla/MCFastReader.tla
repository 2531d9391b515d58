---------------------------- MODULE MCFastReader ----------------------------
EXTENDS FastReader, TLC

MCDigitValue == "1" :> 1 @@ "9" :> 9
MCWhite == {" ", "newline"}
MCNewLine == {"newline"}
=============================================================================
