-------------------------- MODULE FastReaderProofs --------------------------
(***************************************************************************)
(* Every call of the reader returns what the uncut stream has next, for    *)
(* inputs of every length, reads of every size and integers of every       *)
(* width.                                                                  *)
(***************************************************************************)
EXTENDS FastReader, SequenceTheorems, WellFoundedInduction, TLAPS

-----------------------------------------------------------------------------
(* Numbers                                                                 *)

LEMMA LeastOf ==
  ASSUME NEW S \in SUBSET Nat, S # {}
  PROVE  \E i \in S : \A j \in S : i <= j
<1>1. PICK x \in S : \A y \in S : ~(<<y, x>> \in OpToRel(<, Nat))
  BY NatLessThanWellFounded, WFMin
<1>2. ASSUME NEW y \in S PROVE x <= y
  <2>1. x \in Nat /\ y \in Nat
    OBVIOUS
  <2>2. y < x => <<y, x>> \in OpToRel(<, Nat)
    BY <2>1 DEF OpToRel
  <2>3. ~ (<<y, x>> \in OpToRel(<, Nat))
    BY <1>1
  <2>4. ~ (y < x)
    BY <2>2, <2>3
  <2> QED BY <2>1, <2>4
<1> QED BY <1>2

\* Two integers that are the same within the width.
Congruent(a, b) == \E q \in Int : a = b + q * (2 * Half)

LEMMA SameRemainder ==
  ASSUME NEW p \in Int, NEW m \in Nat \ {0}, NEW r \in 0..m - 1, NEW s \in 0..m - 1,
         p * m + r = s
  PROVE  r = s
<1>1. CASE p > 0
  <2>1. p * m >= m
    BY <1>1
  <2> QED BY <2>1
<1>2. CASE p < 0
  <2>1. p * m <= -m
    BY <1>2
  <2> QED BY <2>1
<1>3. CASE p = 0
  BY <1>3
<1> QED BY <1>1, <1>2, <1>3

LEMMA Remainder ==
  ASSUME NEW m \in Nat \ {0}, NEW a \in Int
  PROVE  (a % m) \in 0..m - 1 /\ \E k \in Int : a = k * m + (a % m)
<1>1. (a \div m) \in Int /\ (a % m) \in 0..m - 1
  OBVIOUS
<1>2. a = ((a \div m) * m) + (a % m)
  OBVIOUS
<1> QED BY <1>1, <1>2

LEMMA ShiftedRemainder ==
  ASSUME NEW m \in Nat \ {0}, NEW a \in Int, NEW q \in Int
  PROVE  (a + q * m) % m = a % m
<1> DEFINE b == a + q * m
<1>1. b \in Int
  OBVIOUS
<1>2. PICK k \in Int : a = k * m + (a % m)
  BY Remainder
<1> HIDE DEF b
<1>3. PICK l \in Int : b = l * m + (b % m)
  BY <1>1, Remainder
<1>4. (a % m) \in 0..m - 1 /\ (b % m) \in 0..m - 1
  BY <1>1, Remainder
<1> DEFINE r == a % m
           s == b % m
<1> HIDE DEF r, s
<1>5. l * m + s = (k * m + r) + q * m
  BY <1>2, <1>3 DEF b, r, s
<1>6. (k + q - l) * m + r = s
  <2>1. r \in Int /\ s \in Int
    BY <1>4 DEF r, s
  <2>2. (k + q - l) * m = k * m + q * m - l * m
    OBVIOUS
  <2>3. k * m \in Int /\ q * m \in Int /\ l * m \in Int
    OBVIOUS
  <2> QED BY <1>5, <2>1, <2>2, <2>3
<1>7. r = s
  <2>1. k + q - l \in Int
    OBVIOUS
  <2> QED BY <1>4, <1>6, <2>1, SameRemainder DEF r, s
<1> QED BY <1>7 DEF r, s, b

\* The numbers that are the same within the width are read as one.
LEMMA WrapCongruent ==
  ASSUME NEW a \in Int, NEW b \in Int, Congruent(a, b)
  PROVE  /\ Tokens!Unsigned(a) = Tokens!Unsigned(b)
         /\ Tokens!Signed(a) = Tokens!Signed(b)
<1> DEFINE m == 2 * Half
<1>1. m \in Nat \ {0} /\ Half \in Nat
  BY ReaderAssumption
<1>2. PICK q \in Int : a = b + q * m
  BY DEF Congruent
<1> HIDE DEF m
<1>3. a % m = b % m
  BY <1>1, <1>2, ShiftedRemainder
<1>4. (a + Half) % m = (b + Half) % m
  <2>1. b + Half \in Int /\ a + Half = (b + Half) + q * m
    <3>1. q * m \in Int
      BY <1>1
    <3> QED BY <1>1, <1>2, <3>1
  <2> QED BY <1>1, <2>1, ShiftedRemainder
<1> QED BY <1>3, <1>4 DEF m, Tokens!Unsigned, Tokens!Signed

LEMMA WrapIs ==
  ASSUME NEW a \in Int
  PROVE  /\ Wrap(a) = IF call.name = "Int" THEN Tokens!Signed(a) ELSE Tokens!Unsigned(a)
         /\ Wrap(a) \in -Half .. 2 * Half - 1
         /\ Congruent(Wrap(a), a)
<1> DEFINE m == 2 * Half
<1>1. m \in Nat \ {0} /\ Half \in Nat /\ m = 2 * Half
  BY ReaderAssumption
<1>2. Wrap(a) = IF call.name = "Int" THEN Tokens!Signed(a) ELSE Tokens!Unsigned(a)
  BY DEF Wrap, Tokens!Signed, Tokens!Unsigned
<1>3. Wrap(a) = IF call.name = "Int" THEN ((a + Half) % m) - Half ELSE a % m
  BY DEF Wrap
<1> HIDE DEF m
<1>4. CASE call.name = "Int"
  <2> DEFINE r == (a + Half) % m
  <2> DEFINE b == a + Half
  <2> HIDE DEF b
  <2>1. PICK k \in Int : a + Half = k * m + r
    <3>1. b \in Int
      BY <1>1 DEF b
    <3>2. \E k \in Int : b = k * m + (b % m)
      BY <1>1, <3>1, Remainder
    <3> QED BY <3>2 DEF b
  <2>2. r \in 0..m - 1
    BY <1>1, Remainder
  <2> HIDE DEF r
  <2>3. Wrap(a) = r - Half
    BY <1>3, <1>4 DEF r
  <2>4. Wrap(a) = a + (-k) * m
    <3>1. k * m \in Int /\ (-k) * m = -(k * m)
      BY <1>1
    <3> QED BY <1>1, <2>1, <2>2, <2>3, <3>1
  <2>5. Congruent(Wrap(a), a)
    BY <2>4, -k \in Int DEF Congruent, m
  <2>6. Wrap(a) \in -Half .. 2 * Half - 1
    BY <1>1, <2>2, <2>3
  <2> QED BY <1>2, <2>5, <2>6
<1>5. CASE call.name # "Int"
  <2> DEFINE r == a % m
  <2>1. PICK k \in Int : a = k * m + r
    BY <1>1, Remainder
  <2>2. r \in 0..m - 1
    BY <1>1, Remainder
  <2> HIDE DEF r
  <2>3. Wrap(a) = r
    BY <1>3, <1>5 DEF r
  <2>4. Wrap(a) = a + (-k) * m
    <3>1. k * m \in Int /\ (-k) * m = -(k * m)
      BY <1>1
    <3> QED BY <1>1, <2>1, <2>2, <2>3, <3>1
  <2>5. Congruent(Wrap(a), a)
    BY <2>4, -k \in Int DEF Congruent, m
  <2>6. Wrap(a) \in -Half .. 2 * Half - 1
    BY <1>1, <2>2, <2>3
  <2> QED BY <1>2, <2>5, <2>6
<1> QED BY <1>4, <1>5

\* Reading one more digit, and the sign, keep what is congruent so.
LEMMA CongruentStep ==
  ASSUME NEW a \in Int, NEW b \in Int, Congruent(a, b), NEW d \in Int
  PROVE  /\ Congruent(Wrap(a * 10 + d), 10 * b + d)
         /\ Congruent(-a, -b)
<1> DEFINE m == 2 * Half
<1>1. m \in Int
  BY ReaderAssumption
<1>2. PICK q \in Int : a = b + q * m
  BY DEF Congruent
<1>3. PICK p \in Int : Wrap(a * 10 + d) = (a * 10 + d) + p * m
  BY WrapIs DEF Congruent
<1> HIDE DEF m
<1>4. Wrap(a * 10 + d) = (10 * b + d) + (10 * q + p) * m
  <2>1. q * m \in Int /\ p * m \in Int /\ (10 * q + p) * m = 10 * (q * m) + p * m
    BY <1>1
  <2> DEFINE x == q * m
             y == p * m
  <2>2. x \in Int /\ y \in Int /\ a = b + x /\ Wrap(a * 10 + d) = (a * 10 + d) + y
        /\ (10 * q + p) * m = 10 * x + y
    BY <1>2, <1>3, <2>1
  <2> HIDE DEF x, y
  <2> QED BY <2>2
<1>5. -a = -b + (-q) * m
  <2>1. q * m \in Int /\ (-q) * m = -(q * m)
    BY <1>1
  <2> QED BY <1>2, <2>1
<1>6. 10 * q + p \in Int /\ -q \in Int
  OBVIOUS
<1> QED BY <1>4, <1>5, <1>6 DEF Congruent, m

LEMMA CongruentItself ==
  ASSUME NEW a \in Int
  PROVE  Congruent(a, a)
<1>1. 2 * Half \in Int
  BY ReaderAssumption
<1>2. a = a + 0 * (2 * Half)
  BY <1>1
<1> QED BY <1>2 DEF Congruent
-----------------------------------------------------------------------------
(* The value of a number's digits                                          *)

\* v holds the values of the first k of these digits, for k up to m.
Values(digits, m, v) ==
  v = [i \in 0..m |-> IF i = 0 THEN 0 ELSE 10 * v[i - 1] + DigitValue[digits[i]]]

LEMMA DigitsAreNumbers ==
  \A d \in Digit : DigitValue[d] \in 0..Half - 1 /\ DigitValue[d] \in Nat
<1>1. Half \in Nat /\ \A d \in DOMAIN DigitValue : DigitValue[d] \in 0..Half - 1
  BY ReaderAssumption
<1>2. ASSUME NEW d \in Digit PROVE DigitValue[d] \in 0..Half - 1
  BY <1>1 DEF Digit
<1>3. ASSUME NEW d \in Digit PROVE DigitValue[d] \in Nat
  BY <1>1, <1>2
<1> QED BY <1>2, <1>3

LEMMA ValuesExist ==
  ASSUME NEW digits, NEW m \in Nat
  PROVE  \E v : Values(digits, m, v)
<1> DEFINE T == {k \in Nat : ~ \E v : Values(digits, k, v)}
<1> SUFFICES ASSUME T # {} PROVE FALSE
  OBVIOUS
<1>1. PICK k \in T : \A j \in T : k <= j
  BY LeastOf
<1>2. k \in Nat /\ ~ \E v : Values(digits, k, v)
  OBVIOUS
<1> HIDE DEF T
<1>3. CASE k = 0
  <2> DEFINE w == [i \in 0..0 |-> 0]
  <2>1. w = [i \in 0..0 |-> IF i = 0 THEN 0 ELSE 10 * w[i - 1] + DigitValue[digits[i]]]
    OBVIOUS
  <2>2. Values(digits, 0, w)
    BY <2>1 DEF Values
  <2> QED BY <1>2, <1>3, <2>2
<1>4. CASE k # 0
  <2>1. k - 1 \in Nat /\ k - 1 \notin T
    BY <1>1, <1>2, <1>4
  <2>2. PICK u : Values(digits, k - 1, u)
    BY <2>1 DEF T
  <2> DEFINE w == [i \in 0..k |-> IF i = k THEN 10 * u[k - 1] + DigitValue[digits[k]] ELSE u[i]]
             step(v, i) == IF i = 0 THEN 0 ELSE 10 * v[i - 1] + DigitValue[digits[i]]
  <2>3. \A i \in 0..(k - 1) : u[i] = step(u, i)
    BY <2>1, <2>2 DEF Values
  <2>4. \A i \in 0..k : w[i] = step(w, i)
    <3> SUFFICES ASSUME NEW i \in 0..k PROVE w[i] = step(w, i)
      OBVIOUS
    <3>1. CASE i = k
      <4>1. w[k - 1] = u[k - 1] /\ k # 0
        BY <1>2, <1>4
      <4> QED BY <3>1, <4>1
    <3>2. CASE i # k /\ i # 0
      <4>1. i - 1 \in 0..k /\ i - 1 # k /\ i \in 0..(k - 1)
        BY <1>2, <3>2
      <4>2. w[i] = u[i] /\ w[i - 1] = u[i - 1]
        BY <1>2, <3>2, <4>1
      <4> QED BY <2>3, <4>1, <4>2
    <3>3. CASE i # k /\ i = 0
      <4>1. w[i] = u[i] /\ i \in 0..(k - 1)
        BY <1>2, <3>3
      <4> QED BY <2>3, <3>3, <4>1
    <3> QED BY <3>1, <3>2, <3>3
  <2>5. w = [i \in 0..k |-> step(w, i)]
    BY <2>4
  <2>6. Values(digits, k, w)
    BY <2>5 DEF Values
  <2> QED BY <1>2, <2>6
<1> QED BY <1>3, <1>4

LEMMA ValuesAre ==
  ASSUME NEW digits, NEW m \in Nat, NEW v, Values(digits, m, v)
  PROVE  v[0] = 0 /\ \A i \in 1..m : v[i] = 10 * v[i - 1] + DigitValue[digits[i]]
<1>1. \A i \in 0..m : v[i] = IF i = 0 THEN 0 ELSE 10 * v[i - 1] + DigitValue[digits[i]]
  BY DEF Values
<1> QED BY <1>1

\* Where two texts agree, so do the values of their digits.
DigitsAgree(s, t, m) == \A i \in 1..m : s[i] = t[i] /\ DigitValue[s[i]] \in Nat

LEMMA ValuesAgree ==
  ASSUME NEW s, NEW t, NEW k \in Nat, NEW l \in Nat, NEW m \in Nat, m <= k, m <= l,
         DigitsAgree(s, t, m),
         NEW u, NEW v, Values(s, k, u), Values(t, l, v)
  PROVE  u[m] = v[m] /\ u[m] \in Nat
<1> USE DEF DigitsAgree
<1> DEFINE T == {i \in 0..m : ~ (u[i] = v[i] /\ u[i] \in Nat)}
<1>1. /\ u[0] = 0 /\ \A i \in 1..k : u[i] = 10 * u[i - 1] + DigitValue[s[i]]
      /\ v[0] = 0 /\ \A i \in 1..l : v[i] = 10 * v[i - 1] + DigitValue[t[i]]
  BY ValuesAre
<1>2. T = {}
  <2> SUFFICES ASSUME T # {} PROVE FALSE
    OBVIOUS
  <2>1. PICK i \in T : \A j \in T : i <= j
    <3>1. T \in SUBSET Nat
      OBVIOUS
    <3> HIDE DEF T
    <3> QED BY <3>1, LeastOf
  <2>2. i \in 0..m /\ ~ (u[i] = v[i] /\ u[i] \in Nat)
    OBVIOUS
  <2>3. i # 0
    BY <1>1, <2>2
  <2>4. i - 1 \in 0..m /\ i - 1 \notin T
    BY <2>1, <2>2, <2>3
  <2>5. u[i - 1] = v[i - 1] /\ u[i - 1] \in Nat
    BY <2>4
  <2>6. i \in 1..k /\ i \in 1..l /\ i \in 1..m
    BY <2>2, <2>3
  <2> HIDE DEF T
  <2>7. u[i] = v[i] /\ u[i] \in Nat
    <3> DEFINE d == DigitValue[s[i]]
               x == u[i - 1]
    <3>1. d \in Nat /\ x \in Nat /\ u[i] = 10 * x + d /\ v[i] = 10 * x + d
      BY <1>1, <2>5, <2>6
    <3> HIDE DEF d, x
    <3> QED BY <3>1
  <2> QED BY <2>2, <2>7
<1>3. m \in 0..m
  OBVIOUS
<1> QED BY <1>2, <1>3

LEMMA DecimalIs ==
  ASSUME NEW digits, Len(digits) \in Nat
  PROVE  \E v : Values(digits, Len(digits), v) /\ Tokens!Decimal(digits) = v[Len(digits)]
<1> DEFINE v == CHOOSE v : Values(digits, Len(digits), v)
<1>1. Values(digits, Len(digits), v)
  BY ValuesExist
<1>2. Tokens!Decimal(digits) = v[Len(digits)]
  BY DEF Tokens!Decimal, Values
<1> QED BY <1>1, <1>2

LEMMA DecimalEmpty == Tokens!Decimal(<<>>) = 0
<1>1. PICK v : Values(<<>>, 0, v) /\ Tokens!Decimal(<<>>) = v[0]
  BY DecimalIs
<1> QED BY <1>1, ValuesAre

LEMMA DecimalAppend ==
  ASSUME NEW s \in Seq(Digit), NEW c \in Digit
  PROVE  /\ Tokens!Decimal(s) \in Nat
         /\ Tokens!Decimal(Append(s, c)) = 10 * Tokens!Decimal(s) + DigitValue[c]
<1> DEFINE t == Append(s, c)
           k == Len(s)
<1>1. k \in Nat /\ Len(t) = k + 1 /\ t[k + 1] = c /\ \A i \in 1..k : s[i] = t[i] /\ s[i] \in Digit
  OBVIOUS
<1>2. \A d \in Digit : DigitValue[d] \in Nat
  BY DigitsAreNumbers
<1>3. PICK u : Values(s, k, u) /\ Tokens!Decimal(s) = u[k]
  BY <1>1, DecimalIs
<1>4. PICK v : Values(t, k + 1, v) /\ Tokens!Decimal(t) = v[k + 1]
  <2>1. Len(t) \in Nat
    BY <1>1
  <2> HIDE DEF t, k
  <2> QED BY <1>1, <2>1, DecimalIs
<1> HIDE DEF t, k
<1>5. u[k] = v[k] /\ u[k] \in Nat
  <2>1. DigitsAgree(s, t, k)
    BY <1>1, <1>2 DEF DigitsAgree
  <2>2. k \in Nat /\ k + 1 \in Nat /\ k <= k + 1 /\ k <= k
    BY <1>1
  <2>3. Values(s, k, u) /\ Values(t, k + 1, v)
    BY <1>3, <1>4
  <2> QED BY ONLY <2>1, <2>2, <2>3, ValuesAgree
<1>6. v[k + 1] = 10 * v[k] + DigitValue[c]
  <2>1. k + 1 \in Nat /\ k + 1 \in 1..(k + 1) /\ (k + 1) - 1 = k
    BY <1>1
  <2>2. \A i \in 1..(k + 1) : v[i] = 10 * v[i - 1] + DigitValue[t[i]]
    BY <1>4, <2>1, ValuesAre
  <2> QED BY <1>1, <2>1, <2>2
<1> QED BY <1>3, <1>4, <1>5, <1>6 DEF t
-----------------------------------------------------------------------------
(* The invariant                                                           *)

\* How many bytes of the stream lie behind the reader.
Here == base + from

BufferOK ==
  /\ stream \in Seq(Alphabet)
  /\ base \in Nat /\ to \in 0..BuffSize /\ from \in 0..to
  /\ base + to <= Len(stream)
  /\ started \in 0..Here

CallOK ==
  \/ call = Idle
  \/ /\ call \in [name : {"Int", "Uint"}, at : {"skip", "digits"}]
     /\ res = <<>> /\ ~ afterWhite
  \/ /\ call \in [name : {"String", "Line"}, at : {"fill", "scan", "refill"}]
     /\ n = 0 /\ ~ neg

LocalsOK ==
  /\ n \in -Half .. 2 * Half - 1
  /\ neg \in BOOLEAN /\ afterWhite \in BOOLEAN
  /\ res \in Seq(Alphabet)

\* Between calls the locals are as a call declares them.
Resting == call = Idle => n = 0 /\ ~ neg /\ res = <<>> /\ ~ afterWhite

\* The bytes with which the number that is looked for may start.
Starts == IF call.name = "Int" THEN Digit \cup {Minus} ELSE Digit

\* No number has started yet.
Skipping ==
  call.at = "skip" =>
    n = 0 /\ ~ neg /\ \A j \in started + 1..Here : stream[j] \notin Starts

\* A number has started at f, and n is the value of its digits so far.
NumberFrom(f) ==
  /\ \A j \in started + 1..f - 1 : stream[j] \notin Starts
  /\ stream[f] \in Starts
  /\ neg <=> stream[f] = Minus
  /\ \A j \in f + 1..Here : stream[j] \in Digit
  /\ Congruent(n, Tokens!Decimal(SubSeq(stream, IF neg THEN f + 1 ELSE f, Here)))

Taking == call.at = "digits" => \E f \in started + 1..Here : NumberFrom(f)

Filling == call.at = "fill" => started = Here /\ res = <<>> /\ ~ afterWhite

\* A word or a line has begun at f, and res holds it so far.
RunBegan(f) ==
  /\ \A j \in started + 1..f - 1 : stream[j] \in Separator
  /\ \A j \in f..Here : stream[j] \notin Separator
  /\ res = SubSeq(stream, f, Here)

Scanning ==
  call.at \in {"scan", "refill"} =>
    IF afterWhite THEN \E f \in started + 1..Here : RunBegan(f)
    ELSE res = <<>> /\ \A j \in started + 1..Here : stream[j] \in Separator

\* The buffer is used up before it is filled again.
UsedUp == call.at = "refill" => from = to

ReaderInv ==
  /\ BufferOK /\ CallOK /\ LocalsOK
  /\ Resting /\ Skipping /\ Taking /\ Filling /\ Scanning /\ UsedUp

-----------------------------------------------------------------------------
(* Tokens of the stream                                                    *)

LEMMA FirstIs ==
  ASSUME Len(stream) \in Nat, NEW S, NEW p \in Nat, NEW i \in p + 1..Len(stream) + 1,
         i <= Len(stream) => stream[i] \in S, \A j \in p + 1..i - 1 : stream[j] \notin S
  PROVE  Tokens!FirstIn(S, p) = i
<1> DEFINE P(k) == /\ k <= Len(stream) => stream[k] \in S
                   /\ \A j \in p + 1..k - 1 : stream[j] \notin S
<1>1. P(i)
  OBVIOUS
<1>2. ASSUME NEW k \in p + 1..Len(stream) + 1, P(k) PROVE k = i
  <2>1. k \in Int /\ i \in Int
    OBVIOUS
  <2>2. CASE k < i
    <3>1. k \in p + 1..i - 1 /\ k <= Len(stream)
      BY <2>2
    <3> QED BY <1>2, <3>1
  <2>3. CASE i < k
    <3>1. i \in p + 1..k - 1 /\ i <= Len(stream)
      BY <2>3
    <3> QED BY <1>2, <3>1
  <2> QED BY <2>1, <2>2, <2>3
<1>3. Tokens!FirstIn(S, p) = CHOOSE k \in p + 1..Len(stream) + 1 : P(k)
  BY DEF Tokens!FirstIn
<1> HIDE DEF P
<1> QED BY <1>1, <1>2, <1>3

LEMMA StreamBytes ==
  ASSUME BufferOK
  PROVE  /\ Len(stream) \in Nat /\ \A j \in 1..Len(stream) : stream[j] \in Alphabet
         /\ Here \in Nat /\ Here <= Len(stream) /\ started \in Nat /\ started <= Here
<1>1. Len(stream) \in Nat /\ \A j \in 1..Len(stream) : stream[j] \in Alphabet
  BY DEF BufferOK
<1>2. BuffSize \in Nat
  BY ReaderAssumption
<1>3. from \in Nat /\ from <= to /\ to \in Nat /\ base \in Nat /\ base + to <= Len(stream)
  BY <1>2 DEF BufferOK
<1> QED BY <1>1, <1>3 DEF BufferOK, Here

LEMMA NumberIs ==
  ASSUME BufferOK, call # Idle, NEW f \in started + 1..Len(stream),
         \A j \in started + 1..f - 1 : stream[j] \notin Starts, stream[f] \in Starts,
         NEW e \in f + 1..Len(stream) + 1, \A j \in f + 1..e - 1 : stream[j] \in Digit,
         e <= Len(stream) => stream[e] \notin Digit,
         NEW d, d = Tokens!Decimal(SubSeq(stream, IF stream[f] = Minus THEN f + 1 ELSE f, e - 1))
  PROVE  Tokens!Number(call.name)
           = [value |-> IF call.name = "Int"
                        THEN Tokens!Signed(IF stream[f] = Minus THEN -d ELSE d)
                        ELSE Tokens!Unsigned(d),
              end |-> IF e <= Len(stream) THEN e ELSE Len(stream)]
<1>1. /\ Len(stream) \in Nat /\ \A j \in 1..Len(stream) : stream[j] \in Alphabet
      /\ started \in Nat
  BY StreamBytes
<1> DEFINE starts == IF call.name = "Int" THEN Tokens!Digit \cup {Minus} ELSE Tokens!Digit
           lo == IF stream[f] = Minus THEN f + 1 ELSE f
<1>2. Tokens!Digit = Digit /\ Tokens!Alphabet = Alphabet
  BY DEF Tokens!Digit, Tokens!Alphabet, Digit, Alphabet
<1>3. Tokens!FirstIn(starts, started) = f
  <2>1. f \in started + 1..Len(stream) + 1 /\ stream[f] \in starts
        /\ \A j \in started + 1..f - 1 : stream[j] \notin starts
    BY <1>1, <1>2 DEF Starts
  <2> HIDE DEF starts
  <2> QED BY <1>1, <2>1, FirstIs
<1>4. Minus \notin Digit
  BY ReaderAssumption DEF Digit
<1>5. lo \in Nat \ {0} /\ lo \in f..f + 1 /\ (stream[f] = Minus => lo = f + 1)
      /\ (stream[f] # Minus => lo = f)
  BY <1>1
<1>6. stream[f] # Minus => stream[f] \in Digit
  BY DEF Starts
<1> HIDE DEF lo
<1>7. Tokens!FirstIn(Tokens!Alphabet \ Tokens!Digit, lo - 1) = e
  <2> DEFINE others == Tokens!Alphabet \ Tokens!Digit
             p == lo - 1
  <2>1. p \in Nat /\ e \in p + 1..Len(stream) + 1
    BY <1>1, <1>5
  <2>2. e <= Len(stream) => stream[e] \in others
    <3>1. e <= Len(stream) => stream[e] \in Alphabet
      BY <1>1
    <3> QED BY <1>2, <3>1
  <2>3. ASSUME NEW j \in p + 1..e - 1 PROVE stream[j] \notin others
    <3>1. j = f \/ j \in f + 1..e - 1
      BY <1>1, <1>5
    <3>2. j = f => stream[f] \in Digit
      BY <1>1, <1>5, <1>6
    <3> QED BY <1>2, <3>1, <3>2
  <2> HIDE DEF others, p
  <2>4. Tokens!FirstIn(others, p) = e
    BY <1>1, <2>1, <2>2, <2>3, FirstIs
  <2> QED BY <2>4 DEF others, p
<1>8. ~ (f > Len(stream))
  BY <1>1
<1>9. Tokens!Upto(e) = IF e <= Len(stream) THEN e ELSE Len(stream)
  BY DEF Tokens!Upto
<1>10. d = Tokens!Decimal(SubSeq(stream, lo, e - 1))
  BY DEF lo
<1> HIDE DEF starts
<1>11. Tokens!Number(call.name)
        = [value |-> IF call.name = "Int"
                     THEN Tokens!Signed(IF stream[f] = Minus THEN -d ELSE d)
                     ELSE Tokens!Unsigned(d),
           end |-> Tokens!Upto(e)]
  BY <1>3, <1>7, <1>8, <1>10 DEF Tokens!Number, starts, lo
<1> QED BY <1>9, <1>11

LEMMA NumberIsNot ==
  ASSUME BufferOK, call # Idle,
         \A j \in started + 1..Len(stream) : stream[j] \notin Starts
  PROVE  Tokens!Number(call.name) = [value |-> 0, end |-> Len(stream)]
<1>1. Len(stream) \in Nat /\ started \in Nat /\ started <= Len(stream)
  BY StreamBytes
<1> DEFINE starts == IF call.name = "Int" THEN Tokens!Digit \cup {Minus} ELSE Tokens!Digit
           f == Len(stream) + 1
<1>2. starts = Starts
  BY DEF Starts, Tokens!Digit, Digit
<1>3. /\ f \in started + 1..Len(stream) + 1 /\ f > Len(stream)
      /\ \A j \in started + 1..f - 1 : stream[j] \notin starts
      /\ ~ (f <= Len(stream))
  BY <1>1, <1>2
<1> HIDE DEF starts, f
<1>4. Tokens!FirstIn(starts, started) = f
  BY <1>1, <1>3, FirstIs
<1> QED BY <1>3, <1>4 DEF Tokens!Number, starts

LEMMA RunIs ==
  ASSUME BufferOK, call # Idle, NEW separators, NEW f \in started + 1..Len(stream),
         \A j \in started + 1..f - 1 : stream[j] \in separators, stream[f] \notin separators,
         NEW e \in f + 1..Len(stream) + 1, \A j \in f + 1..e - 1 : stream[j] \notin separators,
         e <= Len(stream) => stream[e] \in separators
  PROVE  Tokens!Run(separators)
           = [value |-> SubSeq(stream, f, e - 1),
              end |-> IF e <= Len(stream) THEN e ELSE Len(stream)]
<1>1. /\ Len(stream) \in Nat /\ \A j \in 1..Len(stream) : stream[j] \in Alphabet
      /\ started \in Nat /\ f \in Nat
  BY StreamBytes
<1>2. Tokens!Alphabet = Alphabet
  BY DEF Tokens!Digit, Tokens!Alphabet, Digit, Alphabet
<1>3. Tokens!FirstIn(Tokens!Alphabet \ separators, started) = f
  <2> DEFINE others == Tokens!Alphabet \ separators
  <2>1. f \in started + 1..Len(stream) + 1 /\ stream[f] \in others
        /\ \A j \in started + 1..f - 1 : stream[j] \notin others
    BY <1>1, <1>2
  <2> HIDE DEF others
  <2>2. Tokens!FirstIn(others, started) = f
    BY <1>1, <2>1, FirstIs
  <2> QED BY <2>2 DEF others
<1>4. Tokens!FirstIn(separators, f) = e
  BY <1>1, FirstIs
<1>5. ~ (f > Len(stream))
  BY <1>1
<1> QED BY <1>3, <1>4, <1>5 DEF Tokens!Run, Tokens!Upto

LEMMA RunIsNot ==
  ASSUME BufferOK, call # Idle, NEW separators,
         \A j \in started + 1..Len(stream) : stream[j] \in separators
  PROVE  Tokens!Run(separators) = [value |-> <<>>, end |-> Len(stream)]
<1>1. Len(stream) \in Nat /\ started \in Nat /\ started <= Len(stream)
  BY StreamBytes
<1> DEFINE others == Tokens!Alphabet \ separators
           f == Len(stream) + 1
<1>2. /\ f \in started + 1..Len(stream) + 1 /\ f > Len(stream)
      /\ \A j \in started + 1..f - 1 : stream[j] \notin others
      /\ ~ (f <= Len(stream))
  BY <1>1
<1> HIDE DEF others, f
<1>3. Tokens!FirstIn(others, started) = f
  BY <1>1, <1>2, FirstIs
<1> QED BY <1>2, <1>3 DEF Tokens!Run, others

\* A call that returns what the stream has next is a step of TokenStream.
LEMMA NumberReturned ==
  ASSUME call # Idle, call.name \in {"Int", "Uint"}, NEW v, NEW e, Return(v),
         base' + from' = e, Tokens!Number(call.name) = [value |-> v, end |-> e]
  PROVE  Tokens!Next
<1>1. Tokens!Call(call.name)
  BY DEF Tokens!Call, Return
<1> QED BY <1>1 DEF Tokens!Next

LEMMA RunReturned ==
  ASSUME call # Idle, call.name \in {"String", "Line"}, NEW v, NEW e, Return(v),
         base' + from' = e, Tokens!Run(Separator) = [value |-> v, end |-> e]
  PROVE  Tokens!Next
<1>1. Tokens!Call(call.name)
  BY DEF Tokens!Call, Return, Separator
<1> QED BY <1>1 DEF Tokens!Next

-----------------------------------------------------------------------------
(* The buffer                                                              *)

LEMMA BufferNumbers ==
  ASSUME BufferOK
  PROVE  /\ base \in Nat /\ from \in Nat /\ to \in Nat /\ from <= to /\ to <= BuffSize
         /\ base + to <= Len(stream) /\ Len(stream) \in Nat
         /\ BuffSize \in Nat \ {0} /\ Here = base + from /\ started \in Nat /\ started <= Here
<1>1. BuffSize \in Nat \ {0}
  BY ReaderAssumption
<1> QED BY <1>1 DEF BufferOK, Here

LEMMA ReadOK ==
  ASSUME BufferOK
  PROVE  /\ Read = {} => base + to = Len(stream)
         /\ \A b \in Read : /\ b.base = base + to /\ b.from = 0 /\ b.to \in 1..BuffSize
                            /\ b.base + b.to <= Len(stream)
<1> DEFINE left == Len(stream) - base - to
           most == Smaller(BuffSize, left)
<1>1. left \in Nat /\ BuffSize \in Nat \ {0}
  BY BufferNumbers
<1>2. most \in Nat /\ most <= left /\ most <= BuffSize /\ (left # 0 => most >= 1)
  BY <1>1 DEF Smaller
<1>3. Read = {[base |-> base + to, from |-> 0, to |-> k] : k \in 1..most}
  BY DEF Read
<1> HIDE DEF most
<1>4. ASSUME Read = {} PROVE left = 0
  <2>1. 1..most = {}
    BY <1>3, <1>4
  <2> QED BY <1>1, <1>2, <2>1
<1>5. ASSUME NEW b \in Read
      PROVE  b.base = base + to /\ b.from = 0 /\ b.to \in 1..BuffSize /\ b.base + b.to <= Len(stream)
  <2>1. PICK k \in 1..most : b = [base |-> base + to, from |-> 0, to |-> k]
    BY <1>3, <1>5
  <2>2. b.base = base + to /\ b.from = 0 /\ b.to = k
    BY <2>1
  <2>3. k \in 1..BuffSize /\ (base + to) + k <= Len(stream)
    BY <1>1, <1>2, BufferNumbers
  <2> QED BY <2>2, <2>3
<1> QED BY <1>1, <1>4, <1>5, BufferNumbers

\* What peek leaves has the next byte of the stream in its first place.
LEMMA PeekOK ==
  ASSUME BufferOK
  PROVE  /\ Peek = {} => Here = Len(stream)
         /\ \A b \in Peek : /\ b.base \in Nat /\ b.to \in 0..BuffSize /\ b.from \in 0..b.to - 1
                            /\ b.base + b.to <= Len(stream) /\ b.base + b.from = Here
                            /\ ByteOf(b, b.from) = stream[Here + 1]
                            /\ Here + 1 \in 1..Len(stream)
<1>1. CASE from = to
  <2>1. Peek = Read /\ Here = base + to
    BY <1>1 DEF Peek, Here
  <2>2. Read = {} => Here = Len(stream)
    BY <2>1, ReadOK
  <2>3. ASSUME NEW b \in Read
        PROVE  /\ b.base \in Nat /\ b.to \in 0..BuffSize /\ b.from \in 0..b.to - 1
               /\ b.base + b.to <= Len(stream) /\ b.base + b.from = Here
               /\ Here + 1 \in 1..Len(stream)
    <3>1. b.base = base + to /\ b.from = 0 /\ b.to \in 1..BuffSize /\ b.base + b.to <= Len(stream)
      BY ReadOK
    <3> DEFINE x == b.base
               y == b.to
    <3> HIDE DEF x, y
    <3>2. x = base + to /\ y \in 1..BuffSize /\ x + y <= Len(stream)
      BY <3>1 DEF x, y
    <3>3. /\ x \in Nat /\ y \in 0..BuffSize /\ 0 \in 0..y - 1 /\ x + 0 = Here
          /\ Here + 1 \in 1..Len(stream)
      BY <2>1, <3>2, BufferNumbers
    <3> QED BY <3>1, <3>3 DEF x, y
  <2> QED BY <2>1, <2>2, <2>3 DEF ByteOf
<1>2. CASE from # to
  <2>1. Peek = {Buffer} /\ Buffer.base = base /\ Buffer.from = from /\ Buffer.to = to
    BY <1>2 DEF Peek, Buffer
  <2>2. /\ base \in Nat /\ to \in 0..BuffSize /\ from \in 0..to - 1
        /\ base + to <= Len(stream) /\ base + from = Here /\ Here + 1 \in 1..Len(stream)
    BY <1>2, BufferNumbers
  <2> QED BY <2>1, <2>2 DEF ByteOf
<1> QED BY <1>1, <1>2

-----------------------------------------------------------------------------
(* Pieces of the stream                                                    *)

LEMMA PieceSeq ==
  ASSUME NEW T, NEW s, Len(s) \in Nat, NEW lo \in Nat \ {0}, NEW h \in Nat, lo <= h + 1,
         h <= Len(s), \A j \in lo..h : s[j] \in T
  PROVE  /\ SubSeq(s, lo, h) \in Seq(T) /\ Len(SubSeq(s, lo, h)) = (h - lo) + 1
         /\ \A i \in 1..(h - lo) + 1 : SubSeq(s, lo, h)[i] = s[(lo + i) - 1]
<1> DEFINE m == (h - lo) + 1
           t == SubSeq(s, lo, h)
<1>1. m \in Nat
  OBVIOUS
<1>2. t = [i \in 1..m |-> s[(lo + i) - 1]]
  OBVIOUS
<1>3. \A i \in 1..m : (lo + i) - 1 \in lo..h
  OBVIOUS
<1>4. \A i \in 1..m : s[(lo + i) - 1] \in T
  BY <1>3
<1>5. t \in [1..m -> T] /\ \A i \in 1..m : t[i] = s[(lo + i) - 1]
  BY <1>2, <1>4
<1> HIDE DEF m, t
<1>6. t \in Seq(T) /\ Len(t) = m
  BY <1>1, <1>5
<1> QED BY <1>5, <1>6 DEF m, t

LEMMA PieceEmpty ==
  ASSUME NEW s, NEW f \in Nat
  PROVE  SubSeq(s, f + 1, f) = <<>>
  OBVIOUS

LEMMA PieceAppend ==
  ASSUME NEW T, NEW s, Len(s) \in Nat, NEW lo \in Nat \ {0}, NEW h \in Nat, lo <= h + 1,
         h + 1 <= Len(s), \A j \in lo..h + 1 : s[j] \in T
  PROVE  SubSeq(s, lo, h + 1) = Append(SubSeq(s, lo, h), s[h + 1])
<1> DEFINE k == (h - lo) + 1
           u == SubSeq(s, lo, h)
           v == SubSeq(s, lo, h + 1)
           w == Append(u, s[h + 1])
<1>1. k \in Nat /\ ((h + 1) - lo) + 1 = k + 1 /\ (lo + (k + 1)) - 1 = h + 1
  OBVIOUS
<1>2. u \in Seq(T) /\ Len(u) = k /\ \A i \in 1..k : u[i] = s[(lo + i) - 1]
  <2>1. \A j \in lo..h : s[j] \in T
    OBVIOUS
  <2> QED BY <2>1, PieceSeq
<1>3. v \in Seq(T) /\ Len(v) = k + 1 /\ \A i \in 1..k + 1 : v[i] = s[(lo + i) - 1]
  <2>1. h + 1 \in Nat /\ lo <= (h + 1) + 1
    OBVIOUS
  <2>2. v \in Seq(T) /\ Len(v) = ((h + 1) - lo) + 1
        /\ \A i \in 1..((h + 1) - lo) + 1 : v[i] = s[(lo + i) - 1]
    BY <2>1, PieceSeq
  <2> QED BY <1>1, <2>2
<1>4. s[h + 1] \in T
  OBVIOUS
<1> HIDE DEF u, v, k
<1>5. w \in Seq(T) /\ Len(w) = k + 1 /\ w[k + 1] = s[h + 1] /\ \A i \in 1..k : w[i] = u[i]
  BY <1>1, <1>2, <1>4
<1>6. ASSUME NEW i \in 1..k + 1 PROVE v[i] = w[i]
  <2>1. CASE i = k + 1
    BY <1>1, <1>3, <1>5, <2>1
  <2>2. CASE i # k + 1
    <3>1. i \in 1..k
      BY <1>1, <2>2
    <3> QED BY <1>2, <1>3, <1>5, <3>1
  <2> QED BY <2>1, <2>2
<1> HIDE DEF w
<1>7. v = w
  BY <1>3, <1>5, <1>6, SeqEqual
<1> QED BY <1>7 DEF v, w, u

LEMMA PieceConcat ==
  ASSUME NEW T, NEW s, Len(s) \in Nat, NEW lo \in Nat \ {0}, NEW h \in Nat, lo <= h + 1,
         NEW e \in Nat, h <= e, e <= Len(s), \A j \in lo..e : s[j] \in T
  PROVE  SubSeq(s, lo, h) \o SubSeq(s, h + 1, e) = SubSeq(s, lo, e)
<1> DEFINE a == (h - lo) + 1
           b == e - h
           u == SubSeq(s, lo, h)
           v == SubSeq(s, h + 1, e)
           w == SubSeq(s, lo, e)
           x == u \o v
<1>1. a \in Nat /\ b \in Nat /\ a + b = (e - lo) + 1 /\ (e - (h + 1)) + 1 = b
      /\ h + 1 \in Nat \ {0} /\ h + 1 <= e + 1 /\ h <= Len(s) /\ lo <= e + 1
  OBVIOUS
<1>2. u \in Seq(T) /\ Len(u) = a /\ \A i \in 1..a : u[i] = s[(lo + i) - 1]
  <2>1. \A j \in lo..h : s[j] \in T
    OBVIOUS
  <2> QED BY <1>1, <2>1, PieceSeq
<1>3. v \in Seq(T) /\ Len(v) = b /\ \A i \in 1..b : v[i] = s[((h + 1) + i) - 1]
  <2>1. ASSUME NEW j \in h + 1..e PROVE s[j] \in T
    <3>1. j \in lo..e
      OBVIOUS
    <3> QED BY <3>1
  <2> DEFINE g == h + 1
  <2>3. g \in Nat \ {0} /\ g <= e + 1 /\ \A j \in g..e : s[j] \in T
    BY <1>1, <2>1
  <2> HIDE DEF g
  <2>4. /\ SubSeq(s, g, e) \in Seq(T) /\ Len(SubSeq(s, g, e)) = (e - g) + 1
        /\ \A i \in 1..(e - g) + 1 : SubSeq(s, g, e)[i] = s[(g + i) - 1]
    BY <2>3, PieceSeq
  <2>2. v \in Seq(T) /\ Len(v) = (e - (h + 1)) + 1
        /\ \A i \in 1..(e - (h + 1)) + 1 : v[i] = s[((h + 1) + i) - 1]
    BY <2>4 DEF g
  <2> QED BY <1>1, <2>2
<1>4. w \in Seq(T) /\ Len(w) = a + b /\ \A i \in 1..a + b : w[i] = s[(lo + i) - 1]
  <2>1. w \in Seq(T) /\ Len(w) = (e - lo) + 1
        /\ \A i \in 1..(e - lo) + 1 : w[i] = s[(lo + i) - 1]
    BY ONLY <1>1, Len(s) \in Nat, lo \in Nat \ {0}, e \in Nat, e <= Len(s),
            \A j \in lo..e : s[j] \in T, PieceSeq
  <2> QED BY <1>1, <2>1
<1>5. h + 1 = lo + a
  OBVIOUS
<1> HIDE DEF u, v, w, a, b
<1>6. /\ x \in Seq(T) /\ Len(x) = a + b /\ \A i \in 1..a : x[i] = u[i]
      /\ \A i \in a + 1..a + b : x[i] = v[i - a]
  <2>1. /\ x \in Seq(T) /\ Len(x) = Len(u) + Len(v)
        /\ \A i \in 1..Len(u) + Len(v) : x[i] = IF i <= Len(u) THEN u[i] ELSE v[i - Len(u)]
    BY <1>2, <1>3, ConcatProperties
  <2> HIDE DEF x
  <2>2. /\ x \in Seq(T) /\ Len(x) = a + b
        /\ \A i \in 1..a + b : x[i] = IF i <= a THEN u[i] ELSE v[i - a]
    BY <1>2, <1>3, <2>1
  <2>3. ASSUME NEW i \in 1..a PROVE x[i] = u[i]
    BY <1>1, <2>2
  <2>4. ASSUME NEW i \in a + 1..a + b PROVE x[i] = v[i - a]
    <3>1. i \in 1..a + b /\ ~ (i <= a)
      BY <1>1
    <3> QED BY <2>2, <3>1
  <2> QED BY <2>2, <2>3, <2>4
<1> HIDE DEF x
<1>7. ASSUME NEW i \in 1..a + b PROVE x[i] = w[i]
  <2>1. CASE i <= a
    <3>1. i \in 1..a
      BY <1>1, <2>1
    <3> QED BY <1>2, <1>4, <1>6, <3>1
  <2>2. CASE i > a
    <3>1. i - a \in 1..b /\ ((h + 1) + (i - a)) - 1 = (lo + i) - 1 /\ i \in a + 1..a + b
      BY <1>1, <1>5, <2>2
    <3> QED BY <1>3, <1>4, <1>6, <3>1
  <2>3. i <= a \/ i > a
    BY <1>1
  <2> QED BY <2>1, <2>2, <2>3
<1>8. x = w
  BY <1>4, <1>6, <1>7, SeqEqual
<1> QED BY <1>8 DEF x, u, v, w

-----------------------------------------------------------------------------
(* Steps of the buffer                                                     *)

LEMMA SeekKeeps ==
  ASSUME BufferOK, NEW b \in Peek, Seek(b), UNCHANGED <<stream, started>>
  PROVE  /\ BufferOK' /\ Here' = Here + 1 /\ base' + from' = Here + 1
         /\ Here + 1 \in started + 1..Len(stream)
         /\ ByteOf(b, b.from) = stream[Here + 1] /\ stream[Here + 1] \in Alphabet
<1> DEFINE x == b.base
           y == b.from
           z == b.to
<1>1. /\ x \in Nat /\ z \in 0..BuffSize /\ y \in 0..z - 1 /\ x + z <= Len(stream)
      /\ x + y = Here /\ ByteOf(b, b.from) = stream[Here + 1] /\ Here + 1 \in 1..Len(stream)
  BY PeekOK
<1>2. base' = x /\ from' = y + 1 /\ to' = z /\ stream' = stream /\ started' = started
  BY DEF Seek, SetBuffer
<1> HIDE DEF x, y, z
<1>3. base' + from' = Here + 1 /\ Here' = base' + from'
  BY <1>1, <1>2, BufferNumbers DEF Here
<1>4. y + 1 \in 0..z /\ started \in 0..Here + 1 /\ Here + 1 \in started + 1..Len(stream)
  BY <1>1, BufferNumbers
<1>5. BufferOK'
  BY <1>1, <1>2, <1>3, <1>4 DEF BufferOK
<1>6. stream[Here + 1] \in Alphabet
  BY <1>1, StreamBytes
<1> QED BY <1>1, <1>3, <1>4, <1>5, <1>6

LEMMA FillKeeps ==
  ASSUME BufferOK, NEW b \in Peek, SetBuffer(b, b.from), UNCHANGED <<stream, started>>
  PROVE  BufferOK' /\ Here' = Here
<1> DEFINE x == b.base
           y == b.from
           z == b.to
<1>1. /\ x \in Nat /\ z \in 0..BuffSize /\ y \in 0..z - 1 /\ x + z <= Len(stream)
      /\ x + y = Here
  BY PeekOK
<1>2. base' = x /\ from' = y /\ to' = z /\ stream' = stream /\ started' = started
  BY DEF SetBuffer
<1> HIDE DEF x, y, z
<1>3. Here' = Here
  BY <1>1, <1>2 DEF Here
<1>4. y \in 0..z
  BY <1>1
<1>5. BufferOK'
  BY <1>1, <1>2, <1>3, <1>4 DEF BufferOK
<1> QED BY <1>3, <1>5

LEMMA StillBuffer ==
  ASSUME BufferOK, UNCHANGED <<stream, bufferVars, started>>
  PROVE  BufferOK' /\ Here' = Here
  BY DEF BufferOK, bufferVars, Here

\* A call that returns leaves what a fresh call needs.
LEMMA ReturnKeeps ==
  ASSUME ReaderInv, BufferOK', NEW v, Return(v)
  PROVE  ReaderInv'
<1>1. call' = Idle /\ n' = 0 /\ neg' = FALSE /\ res' = <<>> /\ afterWhite' = FALSE
  BY DEF Return
<1>2. call'.at = "start"
  BY <1>1 DEF Idle
<1>3. CallOK' /\ Resting'
  BY <1>1 DEF CallOK, Resting
<1>4. LocalsOK'
  <2>1. 0 \in -Half .. 2 * Half - 1
    BY ReaderAssumption
  <2>2. <<>> \in Seq(Alphabet)
    OBVIOUS
  <2> QED BY <1>1, <2>1, <2>2 DEF LocalsOK
<1>5. Skipping' /\ Taking' /\ Filling' /\ Scanning' /\ UsedUp'
  BY <1>2 DEF Skipping, Taking, Filling, Scanning, UsedUp
<1> QED BY <1>3, <1>4, <1>5 DEF ReaderInv

-----------------------------------------------------------------------------
(* Int and Uint                                                            *)

\* What a step of the reader is to a caller who sees only whole calls.
SeenStep == Tokens!Next \/ UNCHANGED Tokens!tokenVars

LEMMA GoesOn ==
  ASSUME call # Idle, call' # Idle, UNCHANGED <<stream, started, results>>
  PROVE  SeenStep
  BY DEF SeenStep, Tokens!tokenVars

LEMMA NegatedIs ==
  ASSUME neg \in BOOLEAN, n \in Int, NEW d \in Int, Congruent(n, d), call.name # "Int" => ~ neg
  PROVE  Negated = IF call.name = "Int" THEN Tokens!Signed(IF neg THEN -d ELSE d)
                   ELSE Tokens!Unsigned(d)
<1> DEFINE a == IF neg THEN -n ELSE n
           b == IF neg THEN -d ELSE d
<1>1. a \in Int /\ b \in Int
  OBVIOUS
<1>2. Congruent(-n, -d)
  BY CongruentStep
<1>3. Congruent(a, b)
  BY <1>2
<1>4. Negated = Wrap(a)
  BY DEF Negated
<1>5. call.name # "Int" => b = d
  OBVIOUS
<1> HIDE DEF a, b
<1>6. Wrap(a) = IF call.name = "Int" THEN Tokens!Signed(a) ELSE Tokens!Unsigned(a)
  BY <1>1, WrapIs
<1>7. Tokens!Unsigned(a) = Tokens!Unsigned(b) /\ Tokens!Signed(a) = Tokens!Signed(b)
  BY <1>1, <1>3, WrapCongruent
<1> QED BY <1>4, <1>5, <1>6, <1>7 DEF b

LEMMA SkipStarted ==
  ASSUME ReaderInv, call.at = "skip"
  PROVE  /\ call # Idle /\ call.name \in {"Int", "Uint"} /\ call = [call EXCEPT !.at = "skip"]
         /\ n = 0 /\ ~ neg /\ res = <<>> /\ ~ afterWhite
         /\ \A j \in started + 1..Here : stream[j] \notin Starts
<1>1. call # Idle
  BY DEF Idle
<1>2. call \in [name : {"Int", "Uint"}, at : {"skip", "digits"}] /\ res = <<>> /\ ~ afterWhite
  BY <1>1 DEF ReaderInv, CallOK
<1>3. n = 0 /\ ~ neg /\ \A j \in started + 1..Here : stream[j] \notin Starts
  BY DEF ReaderInv, Skipping
<1> QED BY <1>1, <1>2, <1>3

\* The end of the input before a number.
LEMMA SkipEnd ==
  ASSUME ReaderInv, call.at = "skip", Peek = {}, Return(0), UNCHANGED bufferVars
  PROVE  ReaderInv' /\ SeenStep
<1>1. BufferOK
  BY DEF ReaderInv
<1>2. BufferOK'
  BY <1>1, StillBuffer DEF Return
<1>3. Here = Len(stream) /\ base' + from' = Len(stream)
  <2>1. Here = Len(stream)
    BY <1>1, PeekOK
  <2> QED BY <2>1 DEF Here, bufferVars
<1>4. Tokens!Number(call.name) = [value |-> 0, end |-> Len(stream)]
  BY <1>1, <1>3, SkipStarted, NumberIsNot
<1>5. SeenStep
  BY <1>3, <1>4, SkipStarted, NumberReturned DEF SeenStep
<1> QED BY <1>2, <1>5, ReturnKeeps

\* A byte before a number.
LEMMA SkipByte ==
  ASSUME ReaderInv, call.at = "skip", NEW b \in Peek, Seek(b), GoOn("skip"),
         stream[Here + 1] \notin Starts, n' = n, neg' = FALSE, UNCHANGED <<res, afterWhite>>
  PROVE  ReaderInv' /\ SeenStep
<1>1. BufferOK /\ LocalsOK
  BY DEF ReaderInv
<1>2. call' = [call EXCEPT !.at = "skip"] /\ UNCHANGED <<stream, started, results>>
  BY DEF GoOn
<1>3. call' = call /\ call' # Idle /\ call'.at = "skip"
  BY <1>2, SkipStarted
<1>4. BufferOK' /\ Here' = Here + 1
  BY <1>1, <1>2, SeekKeeps
<1>5. Here \in Nat /\ started \in Nat
  BY <1>1, BufferNumbers, StreamBytes
<1>6. CallOK'
  BY <1>3, SkipStarted DEF ReaderInv, CallOK
<1>7. LocalsOK'
  BY <1>1 DEF LocalsOK
<1>8. Skipping'
  <2>1. Starts' = Starts
    BY <1>3 DEF Starts
  <2>2. ASSUME NEW j \in started + 1..Here + 1 PROVE stream[j] \notin Starts
    <3>1. j \in started + 1..Here \/ j = Here + 1
      BY <1>5
    <3> QED BY <3>1, SkipStarted
  <2>3. n' = 0 /\ ~ neg'
    BY SkipStarted
  <2> QED BY <1>2, <1>4, <2>1, <2>2, <2>3 DEF Skipping
<1>9. Resting' /\ Taking' /\ Filling' /\ Scanning' /\ UsedUp'
  BY <1>3 DEF Resting, Taking, Filling, Scanning, UsedUp
<1>10. SeenStep
  BY <1>2, <1>3, GoesOn
<1> QED BY <1>4, <1>6, <1>7, <1>8, <1>9, <1>10 DEF ReaderInv

\* The first byte of a number: a digit or a minus.
LEMMA SkipOver ==
  ASSUME ReaderInv, call.at = "skip", NEW b \in Peek, Seek(b), GoOn("digits"),
         NEW c, c = stream[Here + 1], c \in Starts,
         n' = IF c \in Digit THEN DigitValue[c] ELSE n, neg' = (c = Minus),
         UNCHANGED <<res, afterWhite>>
  PROVE  ReaderInv' /\ SeenStep
<1>1. BufferOK /\ LocalsOK
  BY DEF ReaderInv
<1>2. call' = [call EXCEPT !.at = "digits"] /\ UNCHANGED <<stream, started, results>>
  BY DEF GoOn
<1>3. call' # Idle /\ call'.at = "digits" /\ call'.name = call.name
      /\ call \in [name : {"Int", "Uint"}, at : {"skip", "digits"}]
      /\ call' \in [name : {"Int", "Uint"}, at : {"skip", "digits"}]
  <2>1. call \in [name : {"Int", "Uint"}, at : {"skip", "digits"}]
    BY SkipStarted DEF ReaderInv, CallOK
  <2>2. call' \in [name : {"Int", "Uint"}, at : {"skip", "digits"}]
        /\ call'.at = "digits" /\ call'.name = call.name
    BY <1>2, <2>1
  <2> QED BY <2>1, <2>2 DEF Idle
<1>4. BufferOK' /\ Here' = Here + 1 /\ Here + 1 \in started + 1..Len(stream)
  BY <1>1, <1>2, SeekKeeps
<1>5. Here \in Nat /\ started \in Nat /\ Len(stream) \in Nat
  BY <1>1, BufferNumbers, StreamBytes
<1>6. CallOK'
  BY <1>3, SkipStarted DEF CallOK
<1>7. Minus \notin Digit
  BY ReaderAssumption DEF Digit
<1>8. n' \in -Half .. 2 * Half - 1
  <2>1. Half \in Nat
    BY ReaderAssumption
  <2>2. ASSUME c \in Digit PROVE n' \in -Half .. 2 * Half - 1
    <3>1. DigitValue[c] \in 0..Half - 1
      BY <2>2, DigitsAreNumbers
    <3> QED BY <2>1, <2>2, <3>1
  <2> QED BY <1>1, <2>2 DEF LocalsOK
<1>9. LocalsOK'
  BY <1>1, <1>8 DEF LocalsOK
<1> DEFINE h == Here + 1
           d == Tokens!Decimal(SubSeq(stream, IF neg' THEN h + 1 ELSE h, h))
<1>10. Congruent(n', d)
  <2>1. CASE c = Minus
    <3>1. n' = 0 /\ SubSeq(stream, h + 1, h) = <<>>
      BY <1>5, <1>7, <2>1, SkipStarted, PieceEmpty
    <3>2. d = 0
      BY <2>1, <3>1, DecimalEmpty
    <3> QED BY <3>1, <3>2, CongruentItself
  <2>2. CASE c # Minus
    <3>1. c \in Digit
      BY <2>2 DEF Starts
    <3>2. n' = DigitValue[c] /\ n' \in Nat
      BY <3>1, DigitsAreNumbers
    <3>3. SubSeq(stream, h, h) = Append(<<>>, c)
      <4>1. \A j \in h..Here + 1 : stream[j] \in {c}
        BY <1>5
      <4>2. h \in Nat \ {0} /\ h <= Here + 1 /\ Here + 1 <= Len(stream)
        BY <1>4, <1>5
      <4>3. SubSeq(stream, h, Here) = <<>>
        BY <1>5, PieceEmpty
      <4> HIDE DEF h
      <4>4. SubSeq(stream, h, Here + 1) = Append(SubSeq(stream, h, Here), stream[Here + 1])
        BY <1>5, <4>1, <4>2, PieceAppend
      <4> QED BY <4>3, <4>4 DEF h
    <3>4. Tokens!Decimal(Append(<<>>, c)) = DigitValue[c]
      <4>1. <<>> \in Seq(Digit)
        OBVIOUS
      <4>2. Tokens!Decimal(Append(<<>>, c)) = 10 * Tokens!Decimal(<<>>) + DigitValue[c]
        BY <3>1, <4>1, DecimalAppend
      <4> QED BY <3>1, <4>2, DecimalEmpty, DigitsAreNumbers
    <3>5. d = n'
      BY <2>2, <3>2, <3>3, <3>4
    <3> QED BY <3>2, <3>5, CongruentItself
  <2> QED BY <2>1, <2>2
<1>11. Taking'
  <2>1. h \in started' + 1..Here' /\ h = Here' /\ h - 1 = Here /\ stream'[h] = c /\ stream' = stream
    BY <1>2, <1>4, <1>5
  <2>2. Starts' = Starts
    BY <1>3 DEF Starts
  <2>3. \A j \in started' + 1..h - 1 : stream'[j] \notin Starts'
    BY <1>2, <2>1, <2>2, SkipStarted
  <2>4. \A j \in h + 1..Here' : stream'[j] \in Digit
    BY <1>5, <2>1
  <2>5. neg' <=> stream'[h] = Minus
    BY <2>1
  <2>6. stream'[h] \in Starts'
    BY <2>1, <2>2
  <2>7. Congruent(n', Tokens!Decimal(SubSeq(stream', IF neg' THEN h + 1 ELSE h, Here')))
    BY <1>10, <2>1
  <2> HIDE DEF h, d
  <2> QED BY <2>1, <2>3, <2>4, <2>5, <2>6, <2>7 DEF Taking, NumberFrom
<1>12. Resting' /\ Skipping' /\ Filling' /\ Scanning' /\ UsedUp'
  BY <1>3 DEF Resting, Skipping, Filling, Scanning, UsedUp
<1>13. SeenStep
  BY <1>2, <1>3, GoesOn, SkipStarted
<1> QED BY <1>4, <1>6, <1>9, <1>11, <1>12, <1>13 DEF ReaderInv

LEMMA SkipStep ==
  ASSUME ReaderInv, SkipToNumber
  PROVE  ReaderInv' /\ SeenStep
<1>1. call.at = "skip" /\ BufferOK
  BY DEF SkipToNumber, ReaderInv
<1>2. CASE Peek = {} /\ Return(0) /\ UNCHANGED bufferVars
  BY <1>1, <1>2, SkipEnd
<1>3. ASSUME NEW b \in Peek, NEW c, c = ByteOf(b, b.from),
             NEW starts \in BOOLEAN, starts = (c \in Digit \/ (c = Minus /\ call.name = "Int")),
             Seek(b), GoOn(IF starts THEN "digits" ELSE "skip"),
             n' = IF c \in Digit THEN DigitValue[c] ELSE n,
             neg' = (starts /\ c = Minus), UNCHANGED <<res, afterWhite>>
      PROVE  ReaderInv' /\ SeenStep
  <2>1. c = stream[Here + 1]
    BY <1>1, <1>3, PeekOK
  <2>2. starts <=> c \in Starts
    BY <1>3 DEF Starts
  <2>3. CASE starts
    <3>1. GoOn("digits") /\ neg' = (c = Minus)
      BY <1>3, <2>3
    <3> QED BY <1>1, <1>3, <2>1, <2>2, <2>3, <3>1, SkipOver
  <2>4. CASE ~ starts
    <3>1. GoOn("skip") /\ neg' = FALSE /\ n' = n
      BY <1>3, <2>4
    <3> QED BY <1>1, <1>3, <2>1, <2>2, <2>4, <3>1, SkipByte
  <2> QED BY <2>3, <2>4
<1>4. \/ Peek = {} /\ Return(0) /\ UNCHANGED bufferVars
      \/ \E b \in Peek : \E c, starts :
           /\ c = ByteOf(b, b.from)
           /\ starts \in BOOLEAN /\ starts = (c \in Digit \/ (c = Minus /\ call.name = "Int"))
           /\ Seek(b) /\ GoOn(IF starts THEN "digits" ELSE "skip")
           /\ n' = IF c \in Digit THEN DigitValue[c] ELSE n
           /\ neg' = (starts /\ c = Minus) /\ UNCHANGED <<res, afterWhite>>
  BY Zenon DEF SkipToNumber
<1> QED BY <1>2, <1>3, <1>4

LEMMA TakeStarted ==
  ASSUME ReaderInv, call.at = "digits"
  PROVE  /\ call # Idle /\ call.name \in {"Int", "Uint"} /\ call = [call EXCEPT !.at = "digits"]
         /\ res = <<>> /\ ~ afterWhite
         /\ neg \in BOOLEAN /\ n \in Int
         /\ \E f \in started + 1..Here : NumberFrom(f)
<1>1. call # Idle
  BY DEF Idle
<1>2. call \in [name : {"Int", "Uint"}, at : {"skip", "digits"}] /\ res = <<>> /\ ~ afterWhite
  BY <1>1 DEF ReaderInv, CallOK
<1>3. \E f \in started + 1..Here : NumberFrom(f)
  BY DEF ReaderInv, Taking
<1>4. neg \in BOOLEAN /\ n \in Int
  <2>1. Half \in Nat
    BY ReaderAssumption
  <2> QED BY <2>1 DEF ReaderInv, LocalsOK
<1> QED BY <1>1, <1>2, <1>3, <1>4

\* What has been read of a number is a sequence of digits.
LEMMA DigitsSoFar ==
  ASSUME BufferOK, neg \in BOOLEAN, NEW f \in started + 1..Here, NumberFrom(f),
         NEW lo, lo = IF neg THEN f + 1 ELSE f
  PROVE  /\ lo \in Nat \ {0} /\ lo <= Here + 1
         /\ \A j \in lo..Here : stream[j] \in Digit
         /\ SubSeq(stream, lo, Here) \in Seq(Digit)
         /\ Tokens!Decimal(SubSeq(stream, lo, Here)) \in Nat
<1>1. Here \in Nat /\ started \in Nat /\ Len(stream) \in Nat /\ Here <= Len(stream)
  BY BufferNumbers, StreamBytes
<1>2. lo \in Nat \ {0} /\ lo <= Here + 1 /\ lo >= f /\ (~ neg => lo = f) /\ (neg => lo = f + 1)
      /\ f \in Nat
  BY <1>1
<1>3. ASSUME NEW j \in lo..Here PROVE stream[j] \in Digit
  <2>1. j \in f + 1..Here \/ (j = f /\ ~ neg)
    BY <1>1, <1>2
  <2>2. j \in f + 1..Here => stream[j] \in Digit
    BY DEF NumberFrom
  <2>3. ~ neg => stream[f] \in Digit
    BY DEF NumberFrom, Starts
  <2> QED BY <2>1, <2>2, <2>3
<1> DEFINE s == SubSeq(stream, lo, Here)
<1>4. s \in Seq(Digit)
  BY <1>1, <1>2, <1>3, PieceSeq
<1> HIDE DEF s
<1>5. Tokens!Decimal(s) \in Nat
  <2>1. CASE s = <<>>
    BY <2>1, DecimalEmpty
  <2>2. CASE s # <<>>
    <3>1. s[1] \in Digit
      BY <1>4, <2>2
    <3> QED BY <1>4, <3>1, DecimalAppend
  <2> QED BY <2>1, <2>2
<1> QED BY <1>2, <1>3, <1>4, <1>5 DEF s

\* The byte behind the digits, or the end of the input.
LEMMA NumberEnds ==
  ASSUME ReaderInv, call.at = "digits", Here + 1 <= Len(stream) => stream[Here + 1] \notin Digit
  PROVE  Tokens!Number(call.name)
           = [value |-> Negated,
              end |-> IF Here + 1 <= Len(stream) THEN Here + 1 ELSE Len(stream)]
<1>1. BufferOK
  BY DEF ReaderInv
<1>2. Here \in Nat /\ started \in Nat /\ Len(stream) \in Nat /\ Here <= Len(stream)
  BY <1>1, BufferNumbers, StreamBytes
<1>3. /\ call # Idle /\ call.name \in {"Int", "Uint"} /\ neg \in BOOLEAN /\ n \in Int
      /\ \E f \in started + 1..Here : NumberFrom(f)
  BY TakeStarted
<1>4. PICK f \in started + 1..Here : NumberFrom(f)
  BY <1>3
<1> DEFINE lo == IF neg THEN f + 1 ELSE f
           e == Here + 1
           d == Tokens!Decimal(SubSeq(stream, lo, e - 1))
<1>5. e - 1 = Here /\ e \in f + 1..Len(stream) + 1 /\ f \in started + 1..Len(stream)
  BY <1>2
<1>6. d \in Nat /\ Congruent(n, d)
  <2>1. d = Tokens!Decimal(SubSeq(stream, lo, Here))
    BY <1>5
  <2>2. Tokens!Decimal(SubSeq(stream, lo, Here)) \in Nat
    BY <1>1, <1>3, <1>4, DigitsSoFar
  <2>3. Congruent(n, Tokens!Decimal(SubSeq(stream, lo, Here)))
    BY <1>4 DEF NumberFrom
  <2> QED BY <2>1, <2>2, <2>3
<1>7. neg = (stream[f] = Minus)
  BY <1>3, <1>4 DEF NumberFrom
<1>8. /\ \A j \in started + 1..f - 1 : stream[j] \notin Starts
      /\ stream[f] \in Starts
      /\ \A j \in f + 1..e - 1 : stream[j] \in Digit
  BY <1>4, <1>5 DEF NumberFrom
<1>9. d = Tokens!Decimal(SubSeq(stream, IF stream[f] = Minus THEN f + 1 ELSE f, e - 1))
  BY <1>7
<1>10. e <= Len(stream) => stream[e] \notin Digit
  OBVIOUS
<1>11. call.name # "Int" => ~ neg
  <2>1. Minus \notin Digit
    BY ReaderAssumption DEF Digit
  <2> QED BY <1>7, <1>8, <2>1 DEF Starts
<1> HIDE DEF d
<1>12. Negated = IF call.name = "Int" THEN Tokens!Signed(IF neg THEN -d ELSE d)
                 ELSE Tokens!Unsigned(d)
  <2>1. d \in Int
    BY <1>6
  <2> QED BY <1>3, <1>6, <1>11, <2>1, NegatedIs
<1> HIDE DEF e, lo
<1>13. Tokens!Number(call.name)
        = [value |-> IF call.name = "Int"
                     THEN Tokens!Signed(IF stream[f] = Minus THEN -d ELSE d)
                     ELSE Tokens!Unsigned(d),
           end |-> IF e <= Len(stream) THEN e ELSE Len(stream)]
  BY <1>1, <1>3, <1>5, <1>8, <1>9, <1>10, NumberIs
<1>14. (IF stream[f] = Minus THEN -d ELSE d) = IF neg THEN -d ELSE d
  BY <1>7
<1> QED BY <1>12, <1>13, <1>14 DEF e

LEMMA TakeEnd ==
  ASSUME ReaderInv, call.at = "digits", Peek = {}, Return(Negated), UNCHANGED bufferVars
  PROVE  ReaderInv' /\ SeenStep
<1>1. BufferOK
  BY DEF ReaderInv
<1>2. BufferOK'
  BY <1>1, StillBuffer DEF Return
<1>3. Here = Len(stream) /\ base' + from' = Len(stream) /\ ~ (Here + 1 <= Len(stream))
  <2>1. Here = Len(stream) /\ Len(stream) \in Nat
    BY <1>1, PeekOK, StreamBytes
  <2> QED BY <2>1 DEF Here, bufferVars
<1>4. Tokens!Number(call.name) = [value |-> Negated, end |-> Len(stream)]
  BY <1>3, NumberEnds
<1>5. SeenStep
  BY <1>3, <1>4, TakeStarted, NumberReturned DEF SeenStep
<1> QED BY <1>2, <1>5, ReturnKeeps

LEMMA TakeLast ==
  ASSUME ReaderInv, call.at = "digits", NEW b \in Peek, Seek(b), stream[Here + 1] \notin Digit,
         Return(Negated)
  PROVE  ReaderInv' /\ SeenStep
<1>1. BufferOK
  BY DEF ReaderInv
<1>2. BufferOK' /\ base' + from' = Here + 1 /\ Here + 1 \in started + 1..Len(stream)
  BY <1>1, SeekKeeps DEF Return
<1>3. Here + 1 <= Len(stream)
  BY <1>1, <1>2, StreamBytes
<1>4. Tokens!Number(call.name) = [value |-> Negated, end |-> Here + 1]
  BY <1>3, NumberEnds
<1>5. SeenStep
  BY <1>2, <1>4, TakeStarted, NumberReturned DEF SeenStep
<1> QED BY <1>2, <1>5, ReturnKeeps

LEMMA TakeMore ==
  ASSUME ReaderInv, call.at = "digits", NEW b \in Peek, Seek(b), GoOn("digits"),
         NEW c, c = stream[Here + 1], c \in Digit, n' = Wrap(n * 10 + DigitValue[c]),
         UNCHANGED <<neg, res, afterWhite>>
  PROVE  ReaderInv' /\ SeenStep
<1>1. BufferOK /\ LocalsOK
  BY DEF ReaderInv
<1>2. call' = [call EXCEPT !.at = "digits"] /\ UNCHANGED <<stream, started, results>>
  BY DEF GoOn
<1>3. call' = call /\ call' # Idle /\ call'.at = "digits"
  BY <1>2, TakeStarted
<1>4. BufferOK' /\ Here' = Here + 1 /\ Here + 1 \in started + 1..Len(stream)
  BY <1>1, <1>2, SeekKeeps
<1>5. Here \in Nat /\ started \in Nat /\ Len(stream) \in Nat
  BY <1>1, BufferNumbers, StreamBytes
<1>6. CallOK'
  BY <1>3, TakeStarted DEF ReaderInv, CallOK
<1>7. n \in Int /\ DigitValue[c] \in Nat /\ neg \in BOOLEAN
  BY TakeStarted, DigitsAreNumbers
<1>8. LocalsOK'
  <2>1. n * 10 + DigitValue[c] \in Int
    BY <1>7
  <2>2. n' \in -Half .. 2 * Half - 1
    BY <2>1, WrapIs
  <2> QED BY <1>1, <2>2 DEF LocalsOK
<1>9. PICK f \in started + 1..Here : NumberFrom(f)
  BY TakeStarted
<1> DEFINE h == Here + 1
           lo == IF neg THEN f + 1 ELSE f
           d == Tokens!Decimal(SubSeq(stream, lo, Here))
<1>10. Congruent(n', Tokens!Decimal(SubSeq(stream, lo, h)))
  <2>1. /\ lo \in Nat \ {0} /\ lo <= Here + 1 /\ \A j \in lo..Here : stream[j] \in Digit
        /\ SubSeq(stream, lo, Here) \in Seq(Digit) /\ d \in Nat
    BY <1>1, <1>7, <1>9, DigitsSoFar
  <2>2. Congruent(n, d)
    BY <1>9 DEF NumberFrom
  <2> HIDE DEF lo
  <2>3. \A j \in lo..Here + 1 : stream[j] \in Digit
    BY <1>5, <2>1
  <2>4. SubSeq(stream, lo, h) = Append(SubSeq(stream, lo, Here), c)
    BY <1>4, <1>5, <2>1, <2>3, PieceAppend
  <2>5. Tokens!Decimal(SubSeq(stream, lo, h)) = 10 * d + DigitValue[c]
    BY <2>1, <2>4, DecimalAppend
  <2> HIDE DEF d
  <2>6. Congruent(Wrap(n * 10 + DigitValue[c]), 10 * d + DigitValue[c])
    <3>1. d \in Int /\ DigitValue[c] \in Int
      BY <1>7, <2>1
    <3> QED BY <1>7, <2>2, <3>1, CongruentStep
  <2> QED BY <2>5, <2>6
<1>11. Taking'
  <2>1. f \in started' + 1..Here' /\ h = Here' /\ stream' = stream /\ started' = started
    BY <1>2, <1>4, <1>5
  <2>2. Starts' = Starts
    BY <1>3 DEF Starts
  <2>3. /\ \A j \in started' + 1..f - 1 : stream'[j] \notin Starts'
        /\ stream'[f] \in Starts' /\ (neg' <=> stream'[f] = Minus)
    BY <1>9, <2>1, <2>2 DEF NumberFrom
  <2>4. \A j \in f + 1..Here' : stream'[j] \in Digit
    <3>1. \A j \in f + 1..Here : stream[j] \in Digit
      BY <1>9 DEF NumberFrom
    <3> QED BY <1>4, <1>5, <2>1, <3>1
  <2>5. Congruent(n', Tokens!Decimal(SubSeq(stream', IF neg' THEN f + 1 ELSE f, Here')))
    BY <1>10, <2>1
  <2> HIDE DEF h, d, lo
  <2> QED BY <2>1, <2>3, <2>4, <2>5 DEF Taking, NumberFrom
<1>12. Resting' /\ Skipping' /\ Filling' /\ Scanning' /\ UsedUp'
  BY <1>3 DEF Resting, Skipping, Filling, Scanning, UsedUp
<1>13. SeenStep
  BY <1>2, <1>3, GoesOn
<1> QED BY <1>4, <1>6, <1>8, <1>11, <1>12, <1>13 DEF ReaderInv

LEMMA TakeStep ==
  ASSUME ReaderInv, TakeDigits
  PROVE  ReaderInv' /\ SeenStep
<1>1. call.at = "digits" /\ BufferOK
  BY DEF TakeDigits, ReaderInv
<1>2. CASE Peek = {} /\ Return(Negated) /\ UNCHANGED bufferVars
  BY <1>1, <1>2, TakeEnd
<1>3. ASSUME NEW b \in Peek, NEW c, c = ByteOf(b, b.from), Seek(b),
             IF c \in Digit
             THEN /\ GoOn("digits") /\ n' = Wrap(n * 10 + DigitValue[c])
                  /\ UNCHANGED <<neg, res, afterWhite>>
             ELSE Return(Negated)
      PROVE  ReaderInv' /\ SeenStep
  <2>1. c = stream[Here + 1]
    BY <1>1, <1>3, PeekOK
  <2>2. CASE c \in Digit
    BY <1>1, <1>3, <2>1, <2>2, TakeMore
  <2>3. CASE c \notin Digit
    BY <1>1, <1>3, <2>1, <2>3, TakeLast
  <2> QED BY <2>2, <2>3
<1>4. \/ Peek = {} /\ Return(Negated) /\ UNCHANGED bufferVars
      \/ \E b \in Peek : \E c :
           /\ c = ByteOf(b, b.from) /\ Seek(b)
           /\ IF c \in Digit
              THEN /\ GoOn("digits") /\ n' = Wrap(n * 10 + DigitValue[c])
                   /\ UNCHANGED <<neg, res, afterWhite>>
              ELSE Return(Negated)
  BY Zenon DEF TakeDigits
<1> QED BY <1>2, <1>3, <1>4

-----------------------------------------------------------------------------
(* String and Line                                                         *)

LEMMA FirstPlaceIs ==
  ASSUME to \in Nat, NEW g \in 0..to, NEW S \in SUBSET (g..to - 1)
  PROVE  /\ FirstPlace(S) \in g..to
         /\ \A j \in g..FirstPlace(S) - 1 : j \notin S
         /\ FirstPlace(S) < to => FirstPlace(S) \in S
<1>1. CASE S = {}
  BY <1>1 DEF FirstPlace
<1>2. CASE S # {}
  <2> DEFINE Least(i) == \A j \in S : i <= j
             p == CHOOSE i \in S : Least(i)
  <2>1. S \in SUBSET Nat
    OBVIOUS
  <2>2. \E i \in S : Least(i)
    BY <1>2, <2>1, LeastOf
  <2>3. FirstPlace(S) = p
    BY <1>2 DEF FirstPlace
  <2> HIDE DEF Least
  <2>4. p \in S /\ Least(p)
    BY <2>2
  <2> HIDE DEF p
  <2>5. ASSUME NEW j \in g..p - 1 PROVE j \notin S
    <3>1. j \in Int /\ p \in Int /\ j < p
      BY <2>4
    <3> QED BY <2>4, <3>1 DEF Least
  <2> QED BY <2>3, <2>4, <2>5
<1> QED BY <1>1, <1>2

\* Where the inner loop finds the word: the places of its bytes.
LEMMA PlacesFound ==
  ASSUME BufferOK
  PROVE  /\ RunFrom \in from..to /\ RunTo \in RunFrom..to
         /\ afterWhite => RunFrom = from
         /\ ~ afterWhite => \A i \in from..RunFrom - 1 : ByteOf(Buffer, i) \in Separator
         /\ ~ afterWhite /\ RunFrom < to => ByteOf(Buffer, RunFrom) \notin Separator
         /\ \A i \in RunFrom..RunTo - 1 : ByteOf(Buffer, i) \notin Separator
         /\ RunTo < to => ByteOf(Buffer, RunTo) \in Separator
<1>1. to \in Nat /\ from \in 0..to
  BY BufferNumbers
<1> DEFINE S == {i \in from..to - 1 : ByteOf(Buffer, i) \notin Separator}
           T == {i \in RunFrom..to - 1 : ByteOf(Buffer, i) \in Separator}
<1>2. RunFrom = (IF afterWhite THEN from ELSE FirstPlace(S)) /\ RunTo = FirstPlace(T)
  BY DEF RunFrom, RunTo
<1>3. S \in SUBSET (from..to - 1) /\ T \in SUBSET (RunFrom..to - 1)
      /\ (\A i \in from..to - 1 : i \in S <=> ByteOf(Buffer, i) \notin Separator)
      /\ (\A i \in RunFrom..to - 1 : i \in T <=> ByteOf(Buffer, i) \in Separator)
  OBVIOUS
<1> HIDE DEF S, T
<1> DEFINE p == FirstPlace(S)
<1>4. p \in from..to /\ (\A j \in from..p - 1 : j \notin S) /\ (p < to => p \in S)
  BY <1>1, <1>3, FirstPlaceIs
<1>5. ~ afterWhite => RunFrom = p
  BY <1>2
<1> HIDE DEF p
<1>6. RunFrom \in from..to /\ RunFrom \in 0..to /\ (afterWhite => RunFrom = from)
  BY <1>1, <1>2, <1>4, <1>5
<1> DEFINE fr == RunFrom
           stop == RunTo
<1> HIDE DEF fr, stop
<1>7. fr \in 0..to /\ T \in SUBSET (fr..to - 1)
  BY <1>3, <1>6 DEF fr
<1>8. stop \in fr..to /\ (\A j \in fr..stop - 1 : j \notin T) /\ (stop < to => stop \in T)
  <2>1. stop = FirstPlace(T)
    BY <1>2 DEF stop
  <2>2. FirstPlace(T) \in fr..to /\ (\A j \in fr..FirstPlace(T) - 1 : j \notin T)
        /\ (FirstPlace(T) < to => FirstPlace(T) \in T)
    BY <1>1, <1>7, FirstPlaceIs
  <2> QED BY <2>1, <2>2
<1>9. ASSUME ~ afterWhite, NEW i \in from..fr - 1 PROVE ByteOf(Buffer, i) \in Separator
  <2>1. fr = p
    BY <1>5, <1>9 DEF fr
  <2>2. i \in from..to - 1 /\ i \notin S
    BY <1>1, <1>4, <2>1
  <2> QED BY <1>3, <2>2
<1>10. ASSUME ~ afterWhite, fr < to PROVE ByteOf(Buffer, fr) \notin Separator
  <2>1. fr = p
    BY <1>5, <1>10 DEF fr
  <2>2. fr \in from..to - 1 /\ fr \in S
    BY <1>1, <1>4, <1>10, <2>1
  <2> QED BY <1>3, <2>2
<1>11. ASSUME NEW i \in fr..stop - 1 PROVE ByteOf(Buffer, i) \notin Separator
  <2>1. i \in fr..to - 1 /\ i \notin T
    BY <1>1, <1>7, <1>8
  <2> QED BY <1>3, <2>1 DEF fr
<1>12. stop < to => ByteOf(Buffer, stop) \in Separator
  <2>1. stop < to => stop \in fr..to - 1 /\ stop \in T
    BY <1>1, <1>7, <1>8
  <2> QED BY <1>3, <2>1 DEF fr
<1> QED BY <1>6, <1>8, <1>9, <1>10, <1>11, <1>12 DEF fr, stop

\* The same as positions in the stream.
LEMMA PlacesInStream ==
  ASSUME BufferOK, NEW fr, fr = RunFrom, NEW stop, stop = RunTo
  PROVE  /\ fr \in from..to /\ stop \in fr..to
         /\ afterWhite => fr = from
         /\ ~ afterWhite => \A j \in Here + 1..base + fr : stream[j] \in Separator
         /\ ~ afterWhite /\ fr < to => stream[base + fr + 1] \notin Separator
         /\ \A j \in base + fr + 1..base + stop : stream[j] \notin Separator
         /\ stop < to => stream[base + stop + 1] \in Separator
<1>1. /\ fr \in from..to /\ stop \in fr..to
      /\ afterWhite => fr = from
      /\ ~ afterWhite => \A i \in from..fr - 1 : ByteOf(Buffer, i) \in Separator
      /\ ~ afterWhite /\ fr < to => ByteOf(Buffer, fr) \notin Separator
      /\ \A i \in fr..stop - 1 : ByteOf(Buffer, i) \notin Separator
      /\ stop < to => ByteOf(Buffer, stop) \in Separator
  BY PlacesFound
<1>2. base \in Nat /\ from \in Nat /\ to \in Nat /\ Here = base + from
  BY BufferNumbers
<1>3. \A i : ByteOf(Buffer, i) = stream[base + i + 1]
  BY DEF ByteOf, Buffer
<1>4. ASSUME ~ afterWhite, NEW j \in Here + 1..base + fr PROVE stream[j] \in Separator
  <2>1. (j - base) - 1 \in from..fr - 1 /\ base + ((j - base) - 1) + 1 = j
    BY <1>1, <1>2
  <2> QED BY <1>1, <1>3, <1>4, <2>1
<1>5. ASSUME NEW j \in base + fr + 1..base + stop PROVE stream[j] \notin Separator
  <2>1. (j - base) - 1 \in fr..stop - 1 /\ base + ((j - base) - 1) + 1 = j
    BY <1>1, <1>2
  <2> QED BY <1>1, <1>3, <2>1
<1> QED BY <1>1, <1>3, <1>4, <1>5

LEMMA RunStarted ==
  ASSUME ReaderInv, NEW at \in {"fill", "scan", "refill"}, call.at = at
  PROVE  /\ call # Idle /\ call.name \in {"String", "Line"}
         /\ call \in [name : {"String", "Line"}, at : {"fill", "scan", "refill"}]
         /\ n = 0 /\ ~ neg
<1>1. call # Idle
  BY DEF Idle
<1>2. call.at \notin {"skip", "digits"}
  OBVIOUS
<1>3. call \in [name : {"String", "Line"}, at : {"fill", "scan", "refill"}] /\ n = 0 /\ ~ neg
  BY <1>1, <1>2 DEF ReaderInv, CallOK
<1> QED BY <1>1, <1>3

LEMMA RunGoesOn ==
  ASSUME ReaderInv, NEW was \in {"fill", "scan", "refill"}, call.at = was,
         NEW place \in {"scan", "refill"}, GoOn(place), UNCHANGED <<n, neg>>
  PROVE  /\ call' # Idle /\ call'.name = call.name /\ call'.at = place
         /\ Separator' = Separator /\ UNCHANGED <<stream, started, results>>
         /\ CallOK' /\ Resting' /\ Skipping' /\ Taking' /\ Filling'
         /\ SeenStep
<1>1. call' = [call EXCEPT !.at = place] /\ UNCHANGED <<stream, started, results>>
  BY DEF GoOn
<1>2. /\ call # Idle /\ call.name \in {"String", "Line"}
      /\ call \in [name : {"String", "Line"}, at : {"fill", "scan", "refill"}]
      /\ n = 0 /\ ~ neg
  BY RunStarted
<1>3. /\ call' \in [name : {"String", "Line"}, at : {"fill", "scan", "refill"}]
      /\ call'.name = call.name /\ call'.at = place
  BY <1>1, <1>2
<1>4. call' # Idle
  BY <1>3 DEF Idle
<1>5. CallOK'
  BY <1>2, <1>3 DEF CallOK
<1>6. Resting' /\ Skipping' /\ Taking' /\ Filling'
  BY <1>3, <1>4 DEF Resting, Skipping, Taking, Filling
<1>7. SeenStep
  BY <1>1, <1>2, <1>4, GoesOn
<1> QED BY <1>1, <1>3, <1>4, <1>5, <1>6, <1>7 DEF Separator

LEMMA RunWidth ==
  ASSUME LocalsOK, UNCHANGED <<n, neg>>, res' \in Seq(Alphabet), afterWhite' \in BOOLEAN
  PROVE  LocalsOK'
  BY DEF LocalsOK

\* Before the loop.
LEMMA FillStep ==
  ASSUME ReaderInv, FillForRun
  PROVE  ReaderInv' /\ SeenStep
<1>1. call.at = "fill" /\ BufferOK /\ LocalsOK
  BY DEF FillForRun, ReaderInv
<1>2. call # Idle /\ call.name \in {"String", "Line"}
  BY <1>1, RunStarted
<1>3. started = Here /\ res = <<>> /\ ~ afterWhite
  BY <1>1 DEF ReaderInv, Filling
<1>4. Here \in Nat
  BY <1>1, StreamBytes
<1>5. CASE Peek = {} /\ Return(<<>>) /\ UNCHANGED bufferVars
  <2>1. BufferOK'
    BY <1>1, <1>5, StillBuffer DEF Return
  <2>2. Here = Len(stream) /\ base' + from' = Len(stream)
    <3>1. Here = Len(stream)
      BY <1>1, <1>5, PeekOK
    <3> QED BY <1>5, <3>1 DEF Here, bufferVars
  <2>3. \A j \in started + 1..Len(stream) : stream[j] \in Separator
    BY <1>3, <1>4, <2>2
  <2>4. Tokens!Run(Separator) = [value |-> <<>>, end |-> Len(stream)]
    BY <1>1, <1>2, <2>3, RunIsNot
  <2>5. SeenStep
    BY <1>2, <1>5, <2>2, <2>4, RunReturned DEF SeenStep
  <2> QED BY <1>5, <2>1, <2>5, ReturnKeeps
<1>6. ASSUME NEW b \in Peek, SetBuffer(b, b.from), GoOn("scan"), UNCHANGED localVars
      PROVE  ReaderInv' /\ SeenStep
  <2>1. UNCHANGED <<n, neg>> /\ res' = res /\ afterWhite' = afterWhite
    BY <1>6 DEF localVars
  <2>2. /\ call'.at = "scan" /\ Separator' = Separator /\ UNCHANGED <<stream, started, results>>
        /\ CallOK' /\ Resting' /\ Skipping' /\ Taking' /\ Filling' /\ SeenStep
    BY <1>1, <1>6, <2>1, RunGoesOn
  <2>3. BufferOK' /\ Here' = Here
    BY <1>1, <1>6, <2>2, FillKeeps
  <2>4. LocalsOK'
    BY <1>1, <2>1, RunWidth DEF LocalsOK
  <2>5. Scanning'
    <3>1. \A j \in started' + 1..Here' : stream'[j] \in Separator'
      BY <1>3, <1>4, <2>2, <2>3
    <3> QED BY <1>3, <2>1, <3>1 DEF Scanning
  <2>6. UsedUp'
    BY <2>2 DEF UsedUp
  <2> QED BY <2>2, <2>3, <2>4, <2>5, <2>6 DEF ReaderInv
<1> QED BY <1>5, <1>6 DEF FillForRun

\* What the inner loop has of the word when it leaves the buffer: the word
\* from its first byte on, or nothing if no byte of it has come.
Finds(fr, stop, found) ==
  /\ afterWhite \/ fr < to =>
       \E f \in started + 1..base + stop :
         /\ \A j \in started + 1..f - 1 : stream[j] \in Separator
         /\ \A j \in f..base + stop : stream[j] \notin Separator
         /\ found = SubSeq(stream, f, base + stop)
  /\ ~ (afterWhite \/ fr < to) =>
       /\ stop = to /\ found = <<>>
       /\ \A j \in started + 1..base + to : stream[j] \in Separator
  /\ found \in Seq(Alphabet)

LEMMA ScanFinds ==
  ASSUME ReaderInv, call.at = "scan", NEW fr, fr = RunFrom, NEW stop, stop = RunTo,
         NEW found, found = res \o SubSeq(stream, base + fr + 1, base + stop)
  PROVE  Finds(fr, stop, found)
<1>1. BufferOK
  BY DEF ReaderInv
<1>2. /\ fr \in from..to /\ stop \in fr..to
      /\ afterWhite => fr = from
      /\ ~ afterWhite => \A j \in Here + 1..base + fr : stream[j] \in Separator
      /\ ~ afterWhite /\ fr < to => stream[base + fr + 1] \notin Separator
      /\ \A j \in base + fr + 1..base + stop : stream[j] \notin Separator
      /\ stop < to => stream[base + stop + 1] \in Separator
  BY <1>1, PlacesInStream
<1>3. /\ base \in Nat /\ from \in Nat /\ to \in Nat /\ base + to <= Len(stream)
      /\ Len(stream) \in Nat /\ Here = base + from /\ started \in Nat /\ started <= Here
      /\ \A j \in 1..Len(stream) : stream[j] \in Alphabet
  BY <1>1, BufferNumbers, StreamBytes
<1>4. IF afterWhite THEN \E f \in started + 1..Here : RunBegan(f)
      ELSE res = <<>> /\ \A j \in started + 1..Here : stream[j] \in Separator
  BY DEF ReaderInv, Scanning
<1> DEFINE h == base + fr
           e == base + stop
<1>5. h \in Nat /\ e \in Nat /\ h <= e /\ e <= Len(stream) /\ Here <= h
  BY <1>2, <1>3
<1>6. SubSeq(stream, h + 1, e) \in Seq(Alphabet)
  <2>1. \A j \in h + 1..e : stream[j] \in Alphabet
    BY <1>3, <1>5
  <2>2. h + 1 \in Nat \ {0} /\ h + 1 <= e + 1
    BY <1>5
  <2> HIDE DEF h, e
  <2> DEFINE g == h + 1
  <2> HIDE DEF g
  <2>3. SubSeq(stream, g, e) \in Seq(Alphabet)
    BY <1>3, <1>5, <2>1, <2>2, PieceSeq DEF g
  <2> QED BY <2>3 DEF g
<1>7. found \in Seq(Alphabet)
  <2>1. res \in Seq(Alphabet)
    BY DEF ReaderInv, LocalsOK
  <2>2. found = res \o SubSeq(stream, h + 1, e)
    OBVIOUS
  <2> DEFINE v == SubSeq(stream, h + 1, e)
  <2> HIDE DEF v
  <2>3. res \in Seq(Alphabet) /\ v \in Seq(Alphabet) /\ found = res \o v
    BY <1>6, <2>1, <2>2 DEF v
  <2>4. res \o v \in Seq(Alphabet)
    BY <2>3, ConcatProperties
  <2> QED BY <2>3, <2>4
<1>8. CASE afterWhite
  <2>1. PICK f \in started + 1..Here : RunBegan(f)
    BY <1>4, <1>8
  <2>2. /\ \A j \in started + 1..f - 1 : stream[j] \in Separator
        /\ \A j \in f..Here : stream[j] \notin Separator
        /\ res = SubSeq(stream, f, Here)
    BY <2>1 DEF RunBegan
  <2>3. h = Here /\ f \in Nat \ {0} /\ f <= h + 1 /\ f \in started + 1..e
    BY <1>2, <1>3, <1>5, <1>8
  <2>4. \A j \in f..e : stream[j] \in Alphabet
    BY <1>3, <1>5, <2>3
  <2>5. \A j \in f..e : stream[j] \notin Separator
    <3>1. \A j \in h + 1..e : stream[j] \notin Separator
      BY <1>2
    <3>2. \A j \in f..h : stream[j] \notin Separator
      BY <2>2, <2>3
    <3>3. \A j \in f..e : j \in f..h \/ j \in h + 1..e
      BY <1>5, <2>3
    <3> QED BY <3>1, <3>2, <3>3
  <2> HIDE DEF h, e
  <2>6. SubSeq(stream, f, h) \o SubSeq(stream, h + 1, e) = SubSeq(stream, f, e)
    BY <1>3, <1>5, <2>3, <2>4, PieceConcat
  <2>7. found = SubSeq(stream, f, e)
    BY <2>2, <2>3, <2>6 DEF h, e
  <2> QED BY <1>7, <1>8, <2>2, <2>3, <2>5, <2>7 DEF e, Finds
<1>9. CASE ~ afterWhite
  <2>1. \A j \in started + 1..h : stream[j] \in Separator
    <3>1. \A j \in started + 1..Here : stream[j] \in Separator
      BY <1>4, <1>9
    <3>2. \A j \in Here + 1..h : stream[j] \in Separator
      BY <1>2, <1>9
    <3>3. \A j \in started + 1..h : j \in started + 1..Here \/ j \in Here + 1..h
      BY <1>3, <1>5
    <3> QED BY <3>1, <3>2, <3>3
  <2>2. found = SubSeq(stream, h + 1, e)
    <3>1. found = <<>> \o SubSeq(stream, h + 1, e)
      BY <1>4, <1>9
    <3> HIDE DEF h, e
    <3> QED BY <1>6, <3>1, ConcatEmptySeq
  <2>3. CASE fr < to
    <3>1. stream[h + 1] \notin Separator
      BY <1>2, <1>9, <2>3
    <3>2. h < e
      <4>1. stop # fr
        BY <1>2, <2>3, <3>1
      <4> QED BY <1>2, <1>3, <4>1
    <3>3. h + 1 \in started + 1..e /\ (h + 1) - 1 = h
      <4> HIDE DEF h, e
      <4> QED BY <1>3, <1>5, <3>2
    <3>4. \A j \in h + 1..e : stream[j] \notin Separator
      BY <1>2
    <3> DEFINE f == h + 1
    <3>5. /\ f \in started + 1..e
          /\ \A j \in started + 1..f - 1 : stream[j] \in Separator
          /\ \A j \in f..e : stream[j] \notin Separator
          /\ found = SubSeq(stream, f, e)
      BY <2>1, <2>2, <3>3, <3>4
    <3> HIDE DEF f, h
    <3> QED BY <1>7, <1>9, <2>3, <3>5 DEF e, Finds
  <2>4. CASE ~ (fr < to)
    <3>1. fr = to /\ stop = to /\ h = base + to /\ e = h
      BY <1>2, <1>3, <2>4
    <3>2. found = <<>>
      BY <1>5, <2>2, <3>1, PieceEmpty
    <3> QED BY <1>7, <1>9, <2>1, <2>4, <3>1, <3>2 DEF Finds
  <2> QED BY <2>3, <2>4
<1> QED BY <1>8, <1>9

\* The word or the line ends in the buffer.
LEMMA ScanEnds ==
  ASSUME ReaderInv, call.at = "scan", NEW fr, fr = RunFrom, NEW stop, stop = RunTo,
         NEW found, found = res \o SubSeq(stream, base + fr + 1, base + stop),
         stop < to, from' = stop + 1, Return(found), UNCHANGED <<base, to>>
  PROVE  ReaderInv' /\ SeenStep
<1>1. BufferOK
  BY DEF ReaderInv
<1>2. call # Idle /\ call.name \in {"String", "Line"}
  BY RunStarted
<1>3. fr \in from..to /\ stop \in fr..to /\ stream[base + stop + 1] \in Separator
  BY <1>1, PlacesInStream
<1>4. /\ base \in Nat /\ from \in Nat /\ to \in Nat /\ base + to <= Len(stream)
      /\ Len(stream) \in Nat /\ Here = base + from /\ started \in Nat /\ started <= Here
  BY <1>1, BufferNumbers
<1> DEFINE h == base + stop
           e == h + 1
<1>5. h \in Nat /\ e \in started + 1..Len(stream) /\ e - 1 = h /\ base + (stop + 1) = e
      /\ stop + 1 \in 0..to
  BY <1>3, <1>4
<1>6. base' + from' = e /\ stream' = stream /\ started' = started
  BY <1>5 DEF Return
<1>7. BufferOK'
  <2>1. started \in 0..base + (stop + 1)
    BY <1>4, <1>5
  <2> QED BY <1>1, <1>5, <1>6, <2>1 DEF BufferOK, Here
<1>8. Finds(fr, stop, found) /\ (afterWhite \/ fr < to)
  <2>1. Finds(fr, stop, found)
    BY ScanFinds
  <2>2. stop # to
    BY <1>3, <1>4
  <2> QED BY <2>1, <2>2 DEF Finds
<1>9. PICK f \in started + 1..h :
        /\ \A j \in started + 1..f - 1 : stream[j] \in Separator
        /\ \A j \in f..h : stream[j] \notin Separator
        /\ found = SubSeq(stream, f, h)
  BY <1>8 DEF Finds
<1>10. /\ f \in started + 1..Len(stream) /\ f \in f..h /\ e \in f + 1..Len(stream) + 1
       /\ e <= Len(stream)
  <2> HIDE DEF h
  <2> QED BY <1>4, <1>5
<1>11. stream[f] \notin Separator /\ (\A j \in f + 1..e - 1 : stream[j] \notin Separator)
       /\ stream[e] \in Separator
  BY <1>3, <1>5, <1>9, <1>10
<1> HIDE DEF h, e
<1>12. Tokens!Run(Separator) = [value |-> SubSeq(stream, f, e - 1), end |-> e]
  <2>1. Tokens!Run(Separator)
          = [value |-> SubSeq(stream, f, e - 1),
             end |-> IF e <= Len(stream) THEN e ELSE Len(stream)]
    BY <1>1, <1>2, <1>9, <1>10, <1>11, RunIs
  <2> QED BY <1>10, <2>1
<1>13. Tokens!Run(Separator) = [value |-> found, end |-> e]
  BY <1>5, <1>9, <1>12
<1>14. SeenStep
  BY <1>2, <1>6, <1>13, RunReturned DEF SeenStep
<1> QED BY <1>7, <1>14, ReturnKeeps

\* The buffer ends before the word or the line does.
LEMMA ScanGoesOn ==
  ASSUME ReaderInv, call.at = "scan", NEW fr, fr = RunFrom, NEW stop, stop = RunTo,
         NEW found, found = res \o SubSeq(stream, base + fr + 1, base + stop),
         ~ (stop < to), from' = to, res' = found, afterWhite' = (afterWhite \/ fr < to),
         GoOn("refill"), UNCHANGED <<base, to, n, neg>>
  PROVE  ReaderInv' /\ SeenStep
<1>1. BufferOK /\ LocalsOK
  BY DEF ReaderInv
<1>2. fr \in from..to /\ stop \in fr..to
  BY <1>1, PlacesInStream
<1>3. /\ base \in Nat /\ from \in Nat /\ to \in Nat /\ base + to <= Len(stream)
      /\ Len(stream) \in Nat /\ Here = base + from /\ started \in Nat /\ started <= Here
      /\ from <= to
  BY <1>1, BufferNumbers
<1>4. stop = to
  BY <1>2, <1>3
<1>5. /\ call' # Idle /\ call'.name = call.name /\ call'.at = "refill"
      /\ Separator' = Separator /\ UNCHANGED <<stream, started, results>>
      /\ CallOK' /\ Resting' /\ Skipping' /\ Taking' /\ Filling' /\ SeenStep
  BY RunGoesOn
<1>6. Here' = base + to
  BY DEF Here
<1>7. BufferOK'
  <2>1. started \in 0..base + to /\ to \in 0..to
    BY <1>3
  <2> QED BY <1>1, <1>5, <1>6, <2>1 DEF BufferOK
<1>11. Finds(fr, stop, found)
  BY ScanFinds
<1>8. LocalsOK'
  <2>1. found \in Seq(Alphabet)
    BY <1>11 DEF Finds
  <2>2. afterWhite' \in BOOLEAN
    OBVIOUS
  <2> QED BY <1>1, <2>1, <2>2, RunWidth
<1>9. CASE afterWhite \/ fr < to
  <2>1. \E f \in started + 1..base + stop :
          /\ \A j \in started + 1..f - 1 : stream[j] \in Separator
          /\ \A j \in f..base + stop : stream[j] \notin Separator
          /\ found = SubSeq(stream, f, base + stop)
    BY <1>9, <1>11 DEF Finds
  <2>2. base + stop = Here'
    BY <1>4, <1>6
  <2>3. \E f \in started' + 1..Here' :
          /\ \A j \in started' + 1..f - 1 : stream'[j] \in Separator'
          /\ \A j \in f..Here' : stream'[j] \notin Separator'
          /\ res' = SubSeq(stream', f, Here')
    BY <1>5, <2>1, <2>2
  <2>4. afterWhite'
    BY <1>9
  <2> QED BY <1>5, <1>7, <1>8, <2>3, <2>4 DEF ReaderInv, Scanning, RunBegan, UsedUp
<1>10. CASE ~ (afterWhite \/ fr < to)
  <2>1. found = <<>> /\ \A j \in started + 1..base + to : stream[j] \in Separator
    BY <1>10, <1>11 DEF Finds
  <2>2. res' = <<>> /\ \A j \in started' + 1..Here' : stream'[j] \in Separator'
    BY <1>5, <1>6, <2>1
  <2>3. ~ afterWhite'
    BY <1>10
  <2> QED BY <1>5, <1>7, <1>8, <2>2, <2>3 DEF ReaderInv, Scanning, UsedUp
<1> QED BY <1>9, <1>10

LEMMA ScanStep ==
  ASSUME ReaderInv, ScanBuffer
  PROVE  ReaderInv' /\ SeenStep
<1>1. call.at = "scan"
  BY DEF ScanBuffer
<1>2. PICK fr, stop, found :
        /\ fr = RunFrom /\ stop = RunTo
        /\ found = res \o SubSeq(stream, base + fr + 1, base + stop)
  OBVIOUS
<1>3. IF stop < to
      THEN from' = stop + 1 /\ Return(found) /\ UNCHANGED <<base, to>>
      ELSE /\ from' = to /\ res' = found /\ afterWhite' = (afterWhite \/ fr < to)
           /\ GoOn("refill") /\ UNCHANGED <<base, to, n, neg>>
  BY <1>2 DEF ScanBuffer
<1>4. CASE stop < to
  BY <1>1, <1>2, <1>3, <1>4, ScanEnds
<1>5. CASE ~ (stop < to)
  BY <1>1, <1>2, <1>3, <1>5, ScanGoesOn
<1> QED BY <1>4, <1>5

\* The file ends with the word or the line, or before it has begun.
LEMMA RefillEnds ==
  ASSUME ReaderInv, call.at = "refill", Read = {}, Return(res), UNCHANGED bufferVars
  PROVE  ReaderInv' /\ SeenStep
<1>1. BufferOK
  BY DEF ReaderInv
<1>2. BufferOK'
  BY <1>1, StillBuffer DEF Return
<1>3. call # Idle /\ call.name \in {"String", "Line"}
  BY RunStarted
<1>4. Here = Len(stream) /\ base' + from' = Len(stream)
  <2>1. from = to
    BY DEF ReaderInv, UsedUp
  <2>2. base + to = Len(stream)
    BY <1>1, ReadOK
  <2> QED BY <2>1, <2>2 DEF Here, bufferVars
<1>5. Len(stream) \in Nat /\ started \in Nat
  BY <1>1, StreamBytes
<1>6. IF afterWhite THEN \E f \in started + 1..Here : RunBegan(f)
      ELSE res = <<>> /\ \A j \in started + 1..Here : stream[j] \in Separator
  BY DEF ReaderInv, Scanning
<1>7. Tokens!Run(Separator) = [value |-> res, end |-> Len(stream)]
  <2>1. CASE afterWhite
    <3>1. PICK f \in started + 1..Here : RunBegan(f)
      BY <1>6, <2>1
    <3> DEFINE e == Len(stream) + 1
    <3>2. /\ f \in started + 1..Len(stream) /\ f \in f..Here /\ e \in f + 1..Len(stream) + 1
          /\ e - 1 = Here /\ ~ (e <= Len(stream))
      BY <1>4, <1>5
    <3>3. /\ \A j \in started + 1..f - 1 : stream[j] \in Separator
          /\ stream[f] \notin Separator
          /\ \A j \in f + 1..e - 1 : stream[j] \notin Separator
          /\ res = SubSeq(stream, f, e - 1)
      BY <3>1, <3>2 DEF RunBegan
    <3> HIDE DEF e
    <3>4. Tokens!Run(Separator)
            = [value |-> SubSeq(stream, f, e - 1),
               end |-> IF e <= Len(stream) THEN e ELSE Len(stream)]
      BY <1>1, <1>3, <3>2, <3>3, RunIs
    <3> QED BY <3>2, <3>3, <3>4
  <2>2. CASE ~ afterWhite
    <3>1. res = <<>> /\ \A j \in started + 1..Len(stream) : stream[j] \in Separator
      BY <1>4, <1>6, <2>2
    <3> QED BY <1>1, <1>3, <3>1, RunIsNot
  <2> QED BY <2>1, <2>2
<1>8. SeenStep
  BY <1>3, <1>4, <1>7, RunReturned DEF SeenStep
<1> QED BY <1>2, <1>8, ReturnKeeps

LEMMA RefillStep ==
  ASSUME ReaderInv, Refill
  PROVE  ReaderInv' /\ SeenStep
<1>1. call.at = "refill" /\ BufferOK /\ LocalsOK
  BY DEF Refill, ReaderInv
<1>2. CASE Read = {} /\ Return(res) /\ UNCHANGED bufferVars
  BY <1>1, <1>2, RefillEnds
<1>3. ASSUME NEW b \in Read, SetBuffer(b, b.from), GoOn("scan"), UNCHANGED localVars
      PROVE  ReaderInv' /\ SeenStep
  <2>1. UNCHANGED <<n, neg>> /\ res' = res /\ afterWhite' = afterWhite
    BY <1>3 DEF localVars
  <2>2. /\ call'.at = "scan" /\ Separator' = Separator /\ UNCHANGED <<stream, started, results>>
        /\ CallOK' /\ Resting' /\ Skipping' /\ Taking' /\ Filling' /\ SeenStep
    BY <1>1, <1>3, <2>1, RunGoesOn
  <2>3. BufferOK' /\ Here' = Here
    <3>1. from = to
      BY <1>1 DEF ReaderInv, UsedUp
    <3>2. b \in Peek
      BY <1>3, <3>1 DEF Peek
    <3> QED BY <1>1, <1>3, <2>2, <3>2, FillKeeps
  <2>4. LocalsOK'
    BY <1>1, <2>1, RunWidth DEF LocalsOK
  <2>5. Scanning'
    <3>1. IF afterWhite THEN \E f \in started + 1..Here : RunBegan(f)
          ELSE res = <<>> /\ \A j \in started + 1..Here : stream[j] \in Separator
      BY <1>1 DEF ReaderInv, Scanning
    <3> QED BY <2>1, <2>2, <2>3, <3>1 DEF Scanning, RunBegan
  <2>6. UsedUp'
    BY <2>2 DEF UsedUp
  <2> QED BY <2>2, <2>3, <2>4, <2>5, <2>6 DEF ReaderInv
<1> QED BY <1>2, <1>3 DEF Refill

-----------------------------------------------------------------------------
(* The theorems                                                            *)

LEMMA StartStep ==
  ASSUME ReaderInv, NEW kind \in {"Int", "Uint", "String", "Line"}, Start(kind)
  PROVE  ReaderInv' /\ SeenStep
<1>1. /\ call = Idle /\ started' = Here /\ UNCHANGED <<stream, bufferVars, localVars, results>>
      /\ call' = [name |-> kind, at |-> IF kind \in {"Int", "Uint"} THEN "skip" ELSE "fill"]
  BY DEF Start, Here
<1>2. /\ n' = 0 /\ ~ neg' /\ res' = <<>> /\ ~ afterWhite' /\ neg' = neg /\ afterWhite' = afterWhite
      /\ n' = n /\ res' = res
  BY <1>1 DEF ReaderInv, Resting, localVars
<1>3. Here' = Here /\ Here \in Nat
  BY <1>1, StreamBytes DEF ReaderInv, Here, bufferVars
<1>4. BufferOK'
  BY <1>1, <1>3 DEF ReaderInv, BufferOK, bufferVars
<1>5. call' # Idle
  BY <1>1 DEF Idle
<1>6. CallOK'
  <2>1. CASE kind \in {"Int", "Uint"}
    BY <1>1, <1>2, <2>1 DEF CallOK
  <2>2. CASE kind \in {"String", "Line"}
    BY <1>1, <1>2, <2>2 DEF CallOK
  <2> QED BY <2>1, <2>2
<1>7. LocalsOK'
  BY <1>2 DEF ReaderInv, LocalsOK
<1>8. \A j \in started' + 1..Here' : FALSE
  BY <1>1, <1>3
<1>9. call'.at \in {"skip", "fill"}
  BY <1>1
<1>10. Resting' /\ Skipping' /\ Taking' /\ Filling' /\ Scanning' /\ UsedUp'
  BY <1>1, <1>2, <1>3, <1>5, <1>8, <1>9
     DEF Resting, Skipping, Taking, Filling, Scanning, UsedUp
<1>11. SeenStep
  BY <1>1, <1>5 DEF SeenStep, Tokens!tokenVars, Here
<1> QED BY <1>4, <1>6, <1>7, <1>10, <1>11 DEF ReaderInv

LEMMA ReaderStep ==
  ASSUME ReaderInv, [Next]_vars
  PROVE  ReaderInv' /\ SeenStep
<1>1. ASSUME NEW kind \in {"Int", "Uint", "String", "Line"}, Start(kind)
      PROVE  ReaderInv' /\ SeenStep
  BY <1>1, StartStep
<1>2. CASE Working
  BY <1>2, SkipStep, TakeStep, FillStep, ScanStep, RefillStep DEF Working
<1>3. CASE UNCHANGED vars
  BY <1>3 DEF SeenStep, Tokens!tokenVars, vars, bufferVars, localVars, ReaderInv, BufferOK,
     CallOK, LocalsOK, Resting, Skipping, Taking, Filling, Scanning, UsedUp, Here, Starts,
     NumberFrom, RunBegan, Separator
<1> QED BY <1>1, <1>2, <1>3 DEF Next

LEMMA InitReader ==
  ASSUME Init
  PROVE  ReaderInv /\ Tokens!Init
<1>1. BuffSize \in Nat /\ Half \in Nat
  BY ReaderAssumption
<1>2. stream \in Seq(Alphabet)
  <2>1. PICK k \in 0..MaxStream : stream \in [1..k -> Alphabet]
    BY DEF Init
  <2>2. MaxStream \in Nat
    BY ReaderAssumption
  <2> QED BY <2>1, <2>2
<1>3. Len(stream) \in Nat
  BY <1>2
<1>4. BufferOK
  BY <1>1, <1>2, <1>3 DEF Init, BufferOK, Here
<1>5. LocalsOK
  <2>1. <<>> \in Seq(Alphabet)
    OBVIOUS
  <2>2. 0 \in -Half .. 2 * Half - 1
    BY ReaderAssumption
  <2> QED BY <2>1, <2>2 DEF Init, LocalsOK
<1>6. call.at = "start"
  BY DEF Init, Idle
<1>7. CallOK /\ Resting /\ Skipping /\ Taking /\ Filling /\ Scanning /\ UsedUp
  BY <1>6 DEF Init, CallOK, Resting, Skipping, Taking, Filling, Scanning, UsedUp
<1>8. Tokens!Init
  BY DEF Init, Tokens!Init
<1> QED BY <1>4, <1>5, <1>7, <1>8 DEF ReaderInv

\* The invariant behind the two theorems below, for inputs of every length
\* and reads of every size: where the running call's number or word began
\* and what n and res hold of it (reader.go:39-101, 163-231).
THEOREM ReaderInvariant == Spec => []ReaderInv
<1>1. Init => ReaderInv
  BY InitReader
<1>2. ReaderInv /\ [Next]_vars => ReaderInv'
  BY ReaderStep
<1> QED BY <1>1, <1>2, PTL DEF Spec

LEMMA ReaderTypes ==
  ASSUME ReaderInv
  PROVE  ReaderTypeOK
<1>1. /\ base \in Nat /\ from \in Nat /\ to \in Nat /\ from <= to /\ to <= BuffSize
      /\ base + to <= Len(stream) /\ Len(stream) \in Nat /\ started \in Nat
      /\ BuffSize \in Nat
  BY BufferNumbers DEF ReaderInv
<1>2. started <= Len(stream)
  BY StreamBytes DEF ReaderInv
<1>3. base \in 0..Len(stream) /\ started \in 0..Len(stream) /\ to \in 0..BuffSize
      /\ from \in 0..to
  BY <1>1, <1>2
<1>4. call \in [name : {"none", "Int", "Uint", "String", "Line"},
                at : {"start", "skip", "digits", "fill", "scan", "refill"}]
  BY DEF ReaderInv, CallOK, Idle
<1> QED BY <1>1, <1>3, <1>4 DEF ReaderInv, BufferOK, LocalsOK, ReaderTypeOK

\* The places in the buffer stay in order, and n stays within the width of
\* the integer that is read (reader.go:8-37, 39-101).
THEOREM ReaderTypeCorrect == Spec => []ReaderTypeOK
<1>1. ReaderInv => ReaderTypeOK
  BY ReaderTypes
<1> QED BY <1>1, ReaderInvariant, PTL

\* However the file is cut into reads, the calls return the numbers, words
\* and lines of the uncut stream, one after the other (reader.go:39-101,
\* 163-231).
THEOREM ReaderReturnsTokens == Spec => ImplementsTokenStream
<1>1. Init => Tokens!Init
  BY InitReader
<1>2. ReaderInv /\ [Next]_vars => [Tokens!Next]_(Tokens!tokenVars)
  BY ReaderStep DEF SeenStep
<1> QED BY <1>1, <1>2, ReaderInvariant, PTL DEF Spec, ImplementsTokenStream, Tokens!Spec
=============================================================================
