------------------------------ MODULE Helpers -------------------------------
(***************************************************************************)
(* The small functions of utils/utils.go, those of hackercup/solve.go that *)
(* solve itself does not use, the numbers that fastio/writer.go prints, and *)
(* the list of slice_map/slice_map.go.                                     *)
(* Words are sets of bit positions where bits are moved about, and numbers *)
(* where they are counted with.                                            *)
(***************************************************************************)
EXTENDS Integers, Bitwise, SequencesExt

CONSTANTS
  W,                         \* the width of an int, 64
  Mod,                       \* mod, 1_000_000_007
  Words,                     \* the words whose bits are reversed
  Matrices,                  \* square matrices
  MapKeys, MapSize           \* of the slice map, and a bound on its length

VARIABLES
  entries,  \* the slice map
  call,     \* the last call of a function, with what it returned
  first     \* history: where each key was first appended

helperVars == <<entries, call, first>>

Missing == 0

HelpersInit ==
  /\ entries = <<>>
  /\ call = [name |-> "none"]
  /\ first = [k \in MapKeys |-> Missing]

Word(v) == v % 2^W
Signed(w) == IF w >= 2^(W - 1) THEN w - 2^W ELSE w

-----------------------------------------------------------------------------
\* 63 - LeadingZeros64(v); of 0 a panic.
LogFloor(v) == CHOOSE k \in 0..W - 1 : v \in 2^k..2^(k + 1) - 1

LogCeil(v) == IF v = 1 THEN 0 ELSE 1 + LogFloor(v - 1)

IsPowerOf2(v) == Word(v) # 0 /\ (Word(v) & (Word(v) - 1)) = 0

CastBool(b) == IF b THEN 1 ELSE 0

\* -v wraps.
Abs(v) == IF v < 0 THEN Signed(Word(-v)) ELSE v

Transpose(M) == [i \in DOMAIN M[1] |-> [j \in DOMAIN M |-> M[j][i]]]

\* The two loops swap each pair once.
TransposeSquare(X) ==
  LET Swap(M, p) == [M EXCEPT ![p[1]][p[2]] = M[p[2]][p[1]], ![p[2]][p[1]] = M[p[1]][p[2]]]
  IN FoldLeft(Swap, X, SetToSeq({p \in (DOMAIN X) \X (DOMAIN X) : p[1] < p[2]}))

\* The masks 0x55, 0x33, 0x0F and so on: every other group of g bits.
Mask(g) == {p \in 0..63 : (p \div g) % 2 = 0}

\* (x>>g)&mask | (x&mask)<<g
SwapGroups(word, g) == {p \in Mask(g) : p + g \in word} \cup {p + g : p \in word \cap Mask(g)}

ReverseBits64(word) == FoldLeft(SwapGroups, word, <<1, 2, 4, 8, 16, 32>>)
ReverseBits32(word) == FoldLeft(SwapGroups, word, <<1, 2, 4, 8, 16>>)

\* Division rounds to zero.
arit(a, b) ==
  LET twice == (a + b) * (b - a + 1)
  IN IF twice < 0 THEN -((-twice) \div 2) ELSE twice \div 2

\* A sum is reduced when it reaches mod.
matrixMultiply(a, b) ==
  LET Sum(i, k) == FoldLeft(LAMBDA sum, j :
        LET next == sum + a[i][j] * b[j][k] IN IF next >= Mod THEN next % Mod ELSE next,
        0, [j \in DOMAIN a |-> j])
  IN [i \in DOMAIN a |-> [k \in DOMAIN a |-> Sum(i, k)]]

Identity(M) == [i \in DOMAIN M |-> [k \in DOMAIN M |-> IF i = k THEN 1 ELSE 0]]

\* The loop squares m and multiplies ret with it where p has a bit.
matrixPower(M, p) ==
  LET loop[ret \in Matrices, m \in Matrices, q \in Nat] ==
        IF q = 0 THEN ret
        ELSE loop[IF q % 2 = 1 THEN matrixMultiply(ret, m) ELSE ret, matrixMultiply(m, m), q \div 2]
  IN loop[Identity(M), M, p]

\* The loop of Int and Uint, whose digits come out last first.
Digits(n) ==
  LET loop[m \in 0..n] == IF m = 0 THEN <<>> ELSE Append(loop[m \div 10], m % 10)
  IN IF n = 0 THEN <<0>> ELSE loop[n]

\* uint(-value), where the negation wraps as it does in Abs.
Printed(v) == [minus |-> v < 0, digits |-> Digits(IF v < 0 THEN Word(Abs(v)) ELSE v)]

Calls ==
  LET Call(name, arg, value) == [name |-> name, arg |-> arg, value |-> value]
  IN {Call("LogFloor", v, LogFloor(v)) : v \in 1..2^W - 1}
     \cup {Call("LogCeil", v, LogCeil(v)) : v \in 1..2^W - 1}
     \cup {Call("IsPowerOf2", v, CastBool(IsPowerOf2(v))) : v \in -2^(W - 1)..2^W - 1}
     \cup {Call("Abs", v, Abs(v)) : v \in -2^(W - 1)..2^(W - 1) - 1}

\* A function returns; it has no state of its own.
CallFunction ==
  /\ call.name = "none"
  /\ \/ call' \in Calls
     \/ \E v \in -2^(W - 1)..2^(W - 1) - 1 :
          call' = [name |-> "Int", arg |-> v, value |-> Printed(v)]
     \/ \E v \in 0..2^W - 1 :
          call' = [name |-> "Uint", arg |-> v, value |-> Digits(v)]
     \/ \E a \in -3..3, b \in -4..3 :
          call' = [name |-> "arit", arg |-> <<a, b>>, value |-> arit(a, b)]
     \/ \E word \in Words :
          call' = [name |-> "ReverseBits64", arg |-> word, value |-> ReverseBits64(word)]
     \/ \E word \in Words :
          /\ \A p \in word : p < 32
          /\ call' = [name |-> "ReverseBits32", arg |-> word, value |-> ReverseBits32(word)]
     \/ \E M \in Matrices, p \in 0..5 :
          call' = [name |-> "matrixPower", arg |-> <<M, p>>, value |-> matrixPower(M, p)]
     \/ \E M \in Matrices :
          call' = [name |-> "TransposeSquare", arg |-> M, value |-> TransposeSquare(M)]
  /\ UNCHANGED <<entries, first>>

-----------------------------------------------------------------------------
\* The slice map.  The values are told apart by when they were appended.
AppendEntry(key) ==
  /\ Len(entries) < MapSize
  /\ entries' = Append(entries, [key |-> key, value |-> Len(entries) + 1])
  /\ first' = [first EXCEPT ![key] = IF @ = Missing THEN Len(entries) + 1 ELSE @]
  /\ UNCHANGED call

Get(key) ==
  LET found == {i \in DOMAIN entries : entries[i].key = key}
  IN IF found = {} THEN Missing
     ELSE entries[CHOOSE i \in found : \A j \in found : i <= j].value

HelpersNext == CallFunction \/ \E key \in MapKeys : AppendEntry(key)

-----------------------------------------------------------------------------
\* The number that decimal digits stand for, written without leading zeros.
Decimal(ds, n) ==
  /\ \A i \in DOMAIN ds : ds[i] \in 0..9
  /\ Len(ds) > 1 => ds[1] # 0
  /\ n = FoldLeft(LAMBDA sum, d : 10 * sum + d, 0, ds)

RECURSIVE Product(_, _)
Product(M, p) == IF p = 0 THEN Identity(M) ELSE matrixMultiply(Product(M, p - 1), M)

\* Each function returns what its name says: the least int counts as a power
\* of two and is its own Abs, but is printed as what it is, as every number;
\* and arit is the sum from a to b, also of none.  The slice map finds the first entry of a key.
HelpersAnswer ==
  LET arg == call.arg
      value == call.value
  IN /\ CASE call.name = "LogFloor" -> 2^value <= arg /\ arg < 2^(value + 1)
          [] call.name = "LogCeil" -> arg <= 2^value /\ \A k \in 0..value - 1 : 2^k < arg
          [] call.name = "IsPowerOf2" -> value = 1 <=> \E k \in 0..W - 1 : Word(arg) = 2^k
          [] call.name = "Abs" -> value = IF arg < 0 /\ arg # -2^(W - 1) THEN -arg ELSE arg
          [] call.name = "Int" ->
               Decimal(value.digits, IF value.minus THEN -arg ELSE arg) /\ (value.minus <=> arg < 0)
          [] call.name = "Uint" -> Decimal(value, arg)
          [] call.name = "arit" ->
               arg[1] <= arg[2] + 1 => value = FoldFunction(+, 0, [i \in arg[1]..arg[2] |-> i])
          [] call.name = "ReverseBits64" -> value = {63 - p : p \in arg}
          [] call.name = "ReverseBits32" -> value = {31 - p : p \in arg}
          [] call.name = "matrixPower" -> value = Product(arg[1], arg[2])
          [] call.name = "TransposeSquare" -> value = Transpose(arg)
          [] OTHER -> TRUE
     /\ \A k \in MapKeys : Get(k) = first[k]
=============================================================================
