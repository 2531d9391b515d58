------------------------------ MODULE XorSpan -------------------------------
(***************************************************************************)
(* xor_span/xor_span.go: a basis of the ints added so far under xor, with  *)
(* the place of a vector given by the highest bit of its low word.  An int *)
(* is the set of the bits it has, so that xor is the symmetric difference. *)
(* One turn of the loop in Add is a step.                                  *)
(***************************************************************************)
EXTENDS Integers, FiniteSets

CONSTANTS
  Places,    \* the length of XorSpan, 20 in the code
  LowBits,   \* the width of what LeadingZeros32 looks at, 32
  Width,     \* the width of an int, 64
  Added,     \* the ints that are added
  MaxAdds    \* bound: the number of different ints that are added

Bits == 0..Width - 1

ASSUME XorAssumption ==
  /\ Places \in Nat /\ LowBits \in Nat /\ Width \in Nat
  /\ Places <= LowBits /\ LowBits <= Width
  /\ Added \subseteq SUBSET Bits /\ MaxAdds \in Nat

VARIABLES
  x,         \* *x
  left,      \* what is left of v while Add runs
  xorAnswer, \* what the last Add has returned, that it is adding or has panicked
  given,     \* history: what v was
  added,     \* history: the ints added
  span,      \* history: what the ints span whose Add has ended
  spanned    \* history: whether the last int was in it

xorVars == <<x, left, xorAnswer, given, added, span, spanned>>

XorInit ==
  /\ x = [i \in 0..Places - 1 |-> {}]
  /\ left = {} /\ xorAnswer = "none"
  /\ given = {} /\ added = {} /\ span = {{}} /\ spanned = FALSE

Xor(u, w) == (u \cup w) \ (u \cap w)

Low(w) == {b \in w : b < LowBits}

\* 31 - LeadingZeros32(uint32(w)), which is -1 of 0.
HighestBit(w) ==
  IF Low(w) = {} THEN -1 ELSE CHOOSE b \in Low(w) : \A c \in Low(w) : c <= b

\* After a panic the program ends.
Add(v) ==
  /\ xorAnswer \notin {"adding", "panic"}
  /\ Cardinality(added) < MaxAdds
  /\ left' = v /\ given' = v /\ xorAnswer' = "adding"
  /\ added' = added \cup {v}
  /\ spanned' = (v \in span)
  /\ UNCHANGED <<x, span>>

Ends(answer) ==
  /\ xorAnswer' = answer
  /\ left' = {}
  /\ span' = span \cup {Xor(s, given) : s \in span}
  /\ UNCHANGED <<given, added, spanned>>

\* Mutant of Reduce: an int whose place is taken is not looked at further.
ReduceNever ==
  /\ xorAnswer = "adding" /\ left # {}
  /\ HighestBit(left) \in DOMAIN x /\ x[HighestBit(left)] # {}
  /\ Ends("false")
  /\ UNCHANGED x

\* v ^= x[i]
Reduce ==
  /\ xorAnswer = "adding" /\ left # {}
  /\ HighestBit(left) \in DOMAIN x /\ x[HighestBit(left)] # {}
  /\ left' = Xor(left, x[HighestBit(left)])
  /\ UNCHANGED <<x, xorAnswer, given, added, span, spanned>>

\* x[i] = v and true
Store ==
  /\ xorAnswer = "adding" /\ left # {}
  /\ HighestBit(left) \in DOMAIN x /\ x[HighestBit(left)] = {}
  /\ x' = [x EXCEPT ![HighestBit(left)] = left]
  /\ Ends("true")

\* The loop ends, false
Vanish == xorAnswer = "adding" /\ left = {} /\ Ends("false") /\ UNCHANGED x

\* The index is outside the array.
IndexPanics ==
  /\ xorAnswer = "adding" /\ left # {}
  /\ HighestBit(left) \notin DOMAIN x
  /\ Ends("panic")
  /\ UNCHANGED x

XorNext == (\E v \in Added : Add(v)) \/ Reduce \/ Store \/ Vanish \/ IndexPanics

XorSpec == XorInit /\ [][XorNext]_xorVars

-----------------------------------------------------------------------------
\* Every variable has its type, and place i holds nothing or a vector whose
\* highest bit, among the low ones, is i: this is why the loop ends.
XorTypeOK ==
  /\ x \in [0..Places - 1 -> SUBSET Bits]
  /\ left \in SUBSET Bits /\ given \in SUBSET Bits
  /\ xorAnswer \in {"none", "adding", "true", "false", "panic"}
  /\ added \subseteq Added /\ span \subseteq SUBSET Bits /\ spanned \in BOOLEAN
  /\ \A i \in DOMAIN x : x[i] # {} => HighestBit(x[i]) = i

Fits(w) == w \subseteq 0..Places - 1

\* As long as all ints fit in the places, Add tells whether the int is new,
\* never panics, and keeps an echelon form of the span: its vectors are in
\* it, and a place is taken exactly if it is the highest bit of something in
\* it.  An int with a bit of its low word above the places panics.
XorAnswers ==
  xorAnswer # "adding" =>
    /\ (\A v \in added : Fits(v)) =>
         /\ xorAnswer \in {"none", IF spanned THEN "false" ELSE "true"}
         /\ \A i \in DOMAIN x : x[i] \in span
         /\ {HighestBit(s) : s \in span \ {{}}} = {i \in DOMAIN x : x[i] # {}}
    /\ (\E v \in added : ~Fits(Low(v))) => xorAnswer = "panic"
=============================================================================
