---------------------------- MODULE TokenStream -----------------------------
(***************************************************************************)
(* What a caller of fastio.Reader relies on: the input is one stream of    *)
(* bytes, every call takes the next number, word or line of it, and where  *)
(* the file happens to be cut into reads does not matter.                  *)
(***************************************************************************)
EXTENDS Integers, Sequences

CONSTANTS
  DigitValue,   \* function: the digits of the alphabet and their values
  White,        \* the bytes isWhite accepts
  NewLine,      \* the bytes isNewLine accepts
  Minus,        \* the byte '-'
  Other,        \* any other byte
  Half          \* 2^(w - 1), where w is the number of bits of int and uint

VARIABLES
  stream,       \* the bytes of the input
  pos,          \* how many of them the calls so far have taken
  results       \* what the calls have returned, with their names

tokenVars == <<stream, pos, results>>

Digit == DOMAIN DigitValue
Alphabet == Digit \cup White \cup {Minus, Other}

\* The first index after p whose byte is in S, or Len(stream) + 1.
FirstIn(S, p) ==
  CHOOSE i \in p + 1 .. Len(stream) + 1 :
    /\ i <= Len(stream) => stream[i] \in S
    /\ \A j \in p + 1 .. i - 1 : stream[j] \notin S

Upto(i) == IF i <= Len(stream) THEN i ELSE Len(stream)

Decimal(digits) ==
  LET value[i \in 0..Len(digits)] ==
        IF i = 0 THEN 0 ELSE 10 * value[i - 1] + DigitValue[digits[i]]
  IN value[Len(digits)]

Unsigned(n) == n % (2 * Half)
Signed(n) == ((n + Half) % (2 * Half)) - Half

\* A number starts at the first digit (or, if it is signed, minus) and ends
\* with the byte behind its digits, which is taken too.  Without a number
\* the rest of the stream is taken and the result is 0.
Number(kind) ==
  LET first == FirstIn(IF kind = "Int" THEN Digit \cup {Minus} ELSE Digit, pos)
      negative == stream[first] = Minus
      from == IF negative THEN first + 1 ELSE first
      end == FirstIn(Alphabet \ Digit, from - 1)
      value == Decimal(SubSeq(stream, from, end - 1))
  IN IF first > Len(stream)
     THEN [value |-> 0, end |-> Len(stream)]
     ELSE [value |-> IF kind = "Int"
                     THEN Signed(IF negative THEN -value ELSE value)
                     ELSE Unsigned(value),
           end |-> Upto(end)]

\* A word is the first run of bytes outside of the separators; the separator
\* behind it is taken too.
Run(separators) ==
  LET first == FirstIn(Alphabet \ separators, pos)
      end == FirstIn(separators, first)
  IN IF first > Len(stream)
     THEN [value |-> <<>>, end |-> Len(stream)]
     ELSE [value |-> SubSeq(stream, first, end - 1), end |-> Upto(end)]

Call(kind) ==
  LET token == CASE kind \in {"Int", "Uint"} -> Number(kind)
                 [] kind = "String" -> Run(White)
                 [] kind = "Line" -> Run(NewLine)
  IN /\ results' = Append(results, [call |-> kind, value |-> token.value])
     /\ pos' = token.end
     /\ UNCHANGED stream

Init == pos = 0 /\ results = <<>>

Next == \E kind \in {"Int", "Uint", "String", "Line"} : Call(kind)

Spec == Init /\ [][Next]_tokenVars

=============================================================================
