-------------------------- MODULE HashTableProofs ---------------------------
(***************************************************************************)
(* The hash table counts its entries and answers as a map until a Delete   *)
(* hides an entry, for any keys, values, hash functions and window.        *)
(***************************************************************************)
EXTENDS HashTable, FiniteSetTheorems, SequenceTheorems, WellFoundedInduction, TLAPS

(***************************************************************************)
(* Numbers: least elements, and the powers of two by an argument over the  *)
(* least counterexample.                                                   *)
(***************************************************************************)

LEMMA LeastElement ==
  ASSUME NEW S \in SUBSET Nat, S # {}
  PROVE  Least(S) \in S /\ \A j \in S : Least(S) <= j
<1>1. PICK x \in S : \A y \in S : ~(<<y, x>> \in OpToRel(<, Nat))
  BY NatLessThanWellFounded, WFMin
<1>2. ASSUME NEW y \in S PROVE x <= y
  <2>1. x \in Nat /\ y \in Nat
    OBVIOUS
  <2>2. y < x => <<y, x>> \in OpToRel(<, Nat)
    BY <2>1 DEF OpToRel
  <2>3. ~ (<<y, x>> \in OpToRel(<, Nat))
    BY <1>1
  <2>4. ~ (y < x)
    BY <2>2, <2>3
  <2> QED BY <2>1, <2>4
<1>3. \E i \in S : \A j \in S : i <= j
  BY <1>2
<1> QED BY <1>3 DEF Least

\* f holds the powers of two up to the n-th.
Doubles(f, n) ==
  /\ f \in [0..n -> Nat]
  /\ f[0] = 1
  /\ \A i \in 1..n : f[i] = 2 * f[i - 1]

LEMMA DoublesExist ==
  ASSUME NEW n \in Nat
  PROVE  \E f : Doubles(f, n)
<1> DEFINE T == {m \in Nat : ~ \E f : Doubles(f, m)}
<1> SUFFICES ASSUME T # {} PROVE FALSE
  OBVIOUS
<1> DEFINE m == Least(T)
<1>1. m \in Nat /\ (~ \E f : Doubles(f, m)) /\ \A j \in T : m <= j
  BY LeastElement
<1> HIDE DEF T, m
<1>2. CASE m = 0
  <2>1. Doubles([i \in 0..0 |-> 1], 0)
    BY DEF Doubles
  <2> QED BY <1>1, <1>2, <2>1
<1>3. CASE m # 0
  <2>1. m - 1 \in Nat /\ m - 1 \notin T
    BY <1>1, <1>3
  <2>2. PICK g : Doubles(g, m - 1)
    BY <2>1 DEF T
  <2> DEFINE f == [i \in 0..m |-> IF i = m THEN 2 * g[m - 1] ELSE g[i]]
  <2>3. \A i \in 0..(m - 1) : f[i] = g[i] /\ g[i] \in Nat
    BY <1>1, <2>1, <2>2 DEF Doubles
  <2>4. f[m] = 2 * g[m - 1] /\ f \in [0..m -> Nat] /\ f[0] = 1
    BY <1>1, <1>3, <2>1, <2>2, <2>3 DEF Doubles
  <2> HIDE DEF f
  <2>5. ASSUME NEW i \in 1..m PROVE f[i] = 2 * f[i - 1]
    <3>1. i - 1 \in 0..(m - 1) /\ f[i - 1] = g[i - 1]
      BY <1>1, <2>3
    <3>2. CASE i = m
      BY <2>4, <3>1, <3>2
    <3>3. CASE i # m
      <4>1. i \in 1..(m - 1)
        BY <1>1, <3>3
      <4>2. g[i] = 2 * g[i - 1] /\ f[i] = g[i]
        BY <2>2, <2>3, <4>1 DEF Doubles
      <4> QED BY <3>1, <4>2
    <3> QED BY <3>2, <3>3
  <2> QED BY <1>1, <2>4, <2>5 DEF Doubles
<1> QED BY <1>2, <1>3

LEMMA DoublesAgree ==
  ASSUME NEW n \in Nat, NEW m \in Nat, NEW f, NEW g, Doubles(f, n), Doubles(g, m)
  PROVE  \A i \in Nat : i <= n /\ i <= m => f[i] = g[i]
<1> DEFINE T == {i \in Nat : i <= n /\ i <= m /\ f[i] # g[i]}
           k == Least(T)
<1> SUFFICES ASSUME T # {} PROVE FALSE
  OBVIOUS
<1>1. k \in Nat /\ k <= n /\ k <= m /\ f[k] # g[k] /\ \A j \in T : k <= j
  BY LeastElement
<1> HIDE DEF T, k
<1>2. k # 0
  BY <1>1 DEF Doubles
<1>3. k - 1 \in Nat /\ k - 1 \notin T
  BY <1>1, <1>2
<1>4. f[k - 1] = g[k - 1]
  BY <1>1, <1>3 DEF T
<1>5. f[k] = 2 * f[k - 1] /\ g[k] = 2 * g[k - 1]
  BY <1>1, <1>2 DEF Doubles
<1> QED BY <1>1, <1>4, <1>5

LEMMA SizeDef == Size = [n \in Nat |-> IF n = 0 THEN 1 ELSE 2 * Size[n - 1]]
<1> DEFINE F(n) == CHOOSE f : Doubles(f, n)
           h == [n \in Nat |-> F(n)[n]]
<1>1. \A n \in Nat : Doubles(F(n), n)
  BY DoublesExist
<1> HIDE DEF F
<1>2. ASSUME NEW n \in Nat PROVE h[n] = IF n = 0 THEN 1 ELSE 2 * h[n - 1]
  <2>1. CASE n = 0
    BY <1>1, <2>1 DEF Doubles
  <2>2. CASE n # 0
    <3>1. n - 1 \in Nat
      BY <2>2
    <3>2. F(n)[n] = 2 * F(n)[n - 1]
      BY <1>1, <2>2 DEF Doubles
    <3>3. F(n)[n - 1] = F(n - 1)[n - 1]
      <4>1. Doubles(F(n), n) /\ Doubles(F(n - 1), n - 1) /\ n - 1 <= n
        BY <1>1, <3>1
      <4> QED BY <3>1, <4>1, DoublesAgree
    <3> QED BY <2>2, <3>1, <3>2, <3>3
  <2> QED BY <2>1, <2>2
<1>3. h = [n \in Nat |-> IF n = 0 THEN 1 ELSE 2 * h[n - 1]]
  BY <1>2
<1> HIDE DEF h
<1> QED BY <1>3 DEF Size

LEMMA SizeDoubles ==
  /\ Size[0] = 1
  /\ \A n \in Nat : Size[n + 1] = 2 * Size[n]
<1>1. Size[0] = 1
  BY SizeDef
<1>2. ASSUME NEW n \in Nat PROVE Size[n + 1] = 2 * Size[n]
  <2>1. n + 1 \in Nat /\ n + 1 # 0 /\ (n + 1) - 1 = n
    OBVIOUS
  <2> QED BY <2>1, SizeDef
<1> QED BY <1>1, <1>2

LEMMA SizeIsPositive == \A n \in Nat : Size[n] \in Nat \ {0}
<1> DEFINE T == {n \in Nat : Size[n] \notin Nat \ {0}}
           k == Least(T)
<1> SUFFICES ASSUME T # {} PROVE FALSE
  OBVIOUS
<1>1. k \in Nat /\ Size[k] \notin Nat \ {0} /\ \A j \in T : k <= j
  BY LeastElement
<1> HIDE DEF T, k
<1>2. k # 0
  BY <1>1, SizeDoubles
<1>3. k - 1 \in Nat /\ k - 1 \notin T
  BY <1>1, <1>2
<1>4. Size[k - 1] \in Nat \ {0}
  BY <1>3 DEF T
<1>5. Size[(k - 1) + 1] = 2 * Size[k - 1] /\ (k - 1) + 1 = k
  BY <1>1, <1>3, SizeDoubles
<1> QED BY <1>1, <1>4, <1>5
-----------------------------------------------------------------------------
(* Tables, whatever is in them                                             *)

IsTables(e1, e2, log) ==
  /\ e1 \in [0..(Size[log] + Window - 1) -> Entry \cup {Empty}]
  /\ e2 \in [0..(Size[log] - 1) -> Seq(Entry)]

HashOK == hash1 \in [Keys -> Nat] /\ hash2 \in [Keys -> Nat]

\* A key's window and its bucket exist.
LEMMA WindowExists ==
  ASSUME HashOK, NEW k \in Keys, NEW log \in Nat
  PROVE  /\ Index1(k, log) \in 0..(Size[log] - 1)
         /\ Index2(k, log) \in 0..(Size[log] - 1)
         /\ Slots(k, log) \subseteq 0..(Size[log] + Window - 1)
         /\ Slots(k, log) \subseteq Nat
<1>1. Size[log] \in Nat \ {0} /\ Window \in Nat \ {0}
  BY SizeIsPositive, HashTableAssumption
<1>2. hash1[k] \in Nat /\ hash2[k] \in Nat
  BY DEF HashOK
<1> DEFINE n == Size[log]
<1> HIDE DEF n
<1>3. hash1[k] % n \in 0..(n - 1) /\ hash2[k] % n \in 0..(n - 1)
  BY <1>1, <1>2 DEF n
<1> QED BY <1>1, <1>3 DEF Index1, Index2, Slots, n

LEMMA StopsAndHoles ==
  ASSUME HashOK, NEW k \in Keys, NEW log \in Nat, NEW e1, NEW e2, IsTables(e1, e2, log)
  PROVE  /\ Stops(e1, k, log) \subseteq DOMAIN e1 /\ Stops(e1, k, log) \subseteq Nat
         /\ Holes(e1, k, log) \subseteq Stops(e1, k, log)
         /\ \A i \in Stops(e1, k, log) : e1[i] = Empty \/ (e1[i] \in Entry /\ e1[i].key = k)
         /\ Stops(e1, k, log) # {} => Least(Stops(e1, k, log)) \in Stops(e1, k, log)
         /\ Holes(e1, k, log) # {} => Least(Holes(e1, k, log)) \in Holes(e1, k, log)
         /\ Index2(k, log) \in DOMAIN e2 /\ e2[Index2(k, log)] \in Seq(Entry)
         /\ Index2(k, log) \in Nat
<1>1. /\ DOMAIN e1 = 0..(Size[log] + Window - 1)
      /\ \A i \in DOMAIN e1 : e1[i] \in Entry \cup {Empty}
      /\ DOMAIN e2 = 0..(Size[log] - 1)
      /\ \A b \in DOMAIN e2 : e2[b] \in Seq(Entry)
  BY DEF IsTables
<1>2. Stops(e1, k, log) \subseteq DOMAIN e1 /\ Stops(e1, k, log) \subseteq Nat
  BY <1>1, WindowExists DEF Stops
<1>3. Holes(e1, k, log) \subseteq Stops(e1, k, log)
  BY DEF Holes, Stops, Empty
<1>4. ASSUME NEW i \in Stops(e1, k, log)
      PROVE  e1[i] = Empty \/ (e1[i] \in Entry /\ e1[i].key = k)
  <2>1. e1[i] \in Entry \cup {Empty} /\ e1[i].key \in {k, Absent}
    BY <1>1, <1>2 DEF Stops
  <2>2. e1[i] \in Entry => e1[i].key \in Keys
    BY DEF Entry
  <2>3. Absent \notin Keys
    BY HashTableAssumption
  <2> QED BY <2>1, <2>2, <2>3
<1>5. Stops(e1, k, log) # {} => Least(Stops(e1, k, log)) \in Stops(e1, k, log)
  BY <1>2, LeastElement
<1>6. Holes(e1, k, log) # {} => Least(Holes(e1, k, log)) \in Holes(e1, k, log)
  BY <1>2, <1>3, LeastElement
<1>7. Index2(k, log) \in DOMAIN e2 /\ Index2(k, log) \in Nat
  <2>1. Index2(k, log) \in 0..(Size[log] - 1)
    BY WindowExists
  <2>2. Size[log] \in Nat
    BY SizeIsPositive
  <2> QED BY <1>1, <2>1, <2>2
<1> QED BY <1>1, <1>2, <1>3, <1>4, <1>5, <1>6, <1>7

LEMMA PlacesInBucket ==
  ASSUME NEW bucket \in Seq(Entry), NEW k
  PROVE  /\ Places(bucket, k) \subseteq 1..Len(bucket) /\ Places(bucket, k) \subseteq Nat
         /\ Places(bucket, k) # {} =>
              /\ Least(Places(bucket, k)) \in Places(bucket, k)
              /\ \A i \in Places(bucket, k) : Least(Places(bucket, k)) <= i
<1>1. Places(bucket, k) \subseteq 1..Len(bucket) /\ Places(bucket, k) \subseteq Nat
  BY DEF Places
<1> QED BY <1>1, LeastElement

LEMMA PlacesAre ==
  ASSUME NEW e2
  PROVE  /\ \A b, i : <<b, i>> \in PlacesIn(e2) <=> b \in DOMAIN e2 /\ i \in DOMAIN e2[b]
         /\ \A p \in PlacesIn(e2) : p = <<p[1], p[2]>>
  BY DEF PlacesIn

\* A table or a bucket with x at the place i.
With(f, i, x) == [f EXCEPT ![i] = x]

\* What is to be written is written, and the number of entries follows.
LEMMA SlotFilled ==
  ASSUME NEW log, NEW e1, NEW e2, IsTables(e1, e2, log), NEW s \in DOMAIN e1, NEW e \in Entry
  PROVE  /\ IsTables(With(e1, s, e), e2, log)
         /\ LiveIn(With(e1, s, e)) = LiveIn(e1) \cup {s}
<1>1. e # Empty
  BY HashTableAssumption DEF Entry, Empty
<1> QED BY <1>1 DEF IsTables, LiveIn, With

LEMMA SlotEmptied ==
  ASSUME NEW log, NEW e1, NEW e2, IsTables(e1, e2, log), NEW s \in DOMAIN e1
  PROVE  /\ IsTables(With(e1, s, Empty), e2, log)
         /\ LiveIn(With(e1, s, Empty)) = LiveIn(e1) \ {s}
  BY DEF IsTables, LiveIn, With

LEMMA BucketReplaced ==
  ASSUME NEW log, NEW e1, NEW e2, IsTables(e1, e2, log), NEW b \in DOMAIN e2,
         NEW bucket \in Seq(Entry)
  PROVE  /\ IsTables(e1, With(e2, b, bucket), log)
         /\ DOMAIN With(e2, b, bucket) = DOMAIN e2
         /\ With(e2, b, bucket)[b] = bucket
         /\ \A c \in DOMAIN e2 : c # b => With(e2, b, bucket)[c] = e2[c]
  BY DEF IsTables, With

LEMMA BucketGrown ==
  ASSUME NEW log, NEW e1, NEW e2, IsTables(e1, e2, log), NEW b \in DOMAIN e2, NEW e \in Entry
  PROVE  /\ IsTables(e1, With(e2, b, Append(e2[b], e)), log)
         /\ PlacesIn(With(e2, b, Append(e2[b], e))) = PlacesIn(e2) \cup {<<b, Len(e2[b]) + 1>>}
         /\ <<b, Len(e2[b]) + 1>> \notin PlacesIn(e2)
<1> DEFINE bucket == Append(e2[b], e)
           f2 == With(e2, b, bucket)
           place == <<b, Len(e2[b]) + 1>>
<1>1. e2[b] \in Seq(Entry)
  BY DEF IsTables
<1>2. bucket \in Seq(Entry)
  BY <1>1
<1> HIDE DEF bucket
<1>3. /\ IsTables(e1, f2, log) /\ DOMAIN f2 = DOMAIN e2 /\ f2[b] = bucket
      /\ \A c \in DOMAIN e2 : c # b => f2[c] = e2[c]
  BY <1>2, BucketReplaced
<1> USE DEF bucket
<1>4. /\ DOMAIN f2[b] = DOMAIN e2[b] \cup {Len(e2[b]) + 1}
      /\ Len(e2[b]) + 1 \notin DOMAIN e2[b]
  BY <1>1, <1>3
<1> HIDE DEF f2
<1>5. ASSUME NEW c, NEW i
      PROVE  <<c, i>> \in PlacesIn(f2) <=> <<c, i>> \in PlacesIn(e2) \cup {place}
  BY <1>3, <1>4, PlacesAre
<1>6. PlacesIn(f2) = PlacesIn(e2) \cup {place}
  <2>1. \A p \in PlacesIn(f2) : p = <<p[1], p[2]>>
    BY PlacesAre
  <2>2. \A p \in PlacesIn(e2) \cup {place} : p = <<p[1], p[2]>>
    BY PlacesAre
  <2> HIDE DEF place
  <2> QED BY ONLY <1>5, <2>1, <2>2 DEF place
<1>7. place \notin PlacesIn(e2)
  BY <1>4, PlacesAre
<1> QED BY <1>3, <1>6, <1>7 DEF f2

LEMMA BucketRewritten ==
  ASSUME NEW log, NEW e1, NEW e2, IsTables(e1, e2, log), NEW b \in DOMAIN e2,
         NEW i \in DOMAIN e2[b], NEW e \in Entry
  PROVE  /\ IsTables(e1, With(e2, b, With(e2[b], i, e)), log)
         /\ PlacesIn(With(e2, b, With(e2[b], i, e))) = PlacesIn(e2)
<1> DEFINE f2 == With(e2, b, With(e2[b], i, e))
<1>1. e2[b] \in Seq(Entry)
  BY DEF IsTables
<1>2. With(e2[b], i, e) \in Seq(Entry) /\ DOMAIN With(e2[b], i, e) = DOMAIN e2[b]
  BY <1>1 DEF With
<1>3. /\ IsTables(e1, f2, log) /\ DOMAIN f2 = DOMAIN e2 /\ f2[b] = With(e2[b], i, e)
      /\ \A c \in DOMAIN e2 : c # b => f2[c] = e2[c]
  BY <1>2, BucketReplaced
<1>4. \A c \in DOMAIN e2 : DOMAIN f2[c] = DOMAIN e2[c]
  BY <1>2, <1>3
<1> HIDE DEF f2
<1>5. PlacesIn(f2) = PlacesIn(e2)
  BY <1>3, <1>4 DEF PlacesIn
<1> QED BY <1>3, <1>5 DEF f2

LEMMA SwapRemoved ==
  ASSUME NEW bucket \in Seq(Entry), NEW i \in DOMAIN bucket
  PROVE  /\ SwapRemove(bucket, i) \in Seq(Entry)
         /\ DOMAIN SwapRemove(bucket, i) = DOMAIN bucket \ {Len(bucket)}
         /\ Len(bucket) \in DOMAIN bucket
         /\ \A j \in DOMAIN bucket \ {Len(bucket)} :
              SwapRemove(bucket, i)[j] = IF j = i THEN bucket[Len(bucket)] ELSE bucket[j]
<1> DEFINE swapped == [bucket EXCEPT ![i] = Last(bucket)]
<1>1. Len(bucket) \in Nat \ {0} /\ DOMAIN bucket = 1..Len(bucket)
  OBVIOUS
<1>2. Last(bucket) = bucket[Len(bucket)] /\ bucket[Len(bucket)] \in Entry
  BY <1>1 DEF Last
<1>3. /\ swapped \in Seq(Entry) /\ Len(swapped) = Len(bucket)
      /\ \A j \in DOMAIN bucket : swapped[j] = IF j = i THEN bucket[Len(bucket)] ELSE bucket[j]
  BY <1>1, <1>2
<1>4. SwapRemove(bucket, i) = SubSeq(swapped, 1, Len(swapped) - 1)
  BY DEF SwapRemove, Front
<1> HIDE DEF swapped
<1> QED BY <1>1, <1>3, <1>4

LEMMA BucketShrunk ==
  ASSUME NEW log, NEW e1, NEW e2, IsTables(e1, e2, log), NEW b \in DOMAIN e2,
         NEW i \in DOMAIN e2[b]
  PROVE  /\ IsTables(e1, With(e2, b, SwapRemove(e2[b], i)), log)
         /\ PlacesIn(With(e2, b, SwapRemove(e2[b], i))) = PlacesIn(e2) \ {<<b, Len(e2[b])>>}
         /\ <<b, Len(e2[b])>> \in PlacesIn(e2)
<1> DEFINE f2 == With(e2, b, SwapRemove(e2[b], i))
           last == <<b, Len(e2[b])>>
<1>1. e2[b] \in Seq(Entry)
  BY DEF IsTables
<1>2. /\ SwapRemove(e2[b], i) \in Seq(Entry)
      /\ DOMAIN SwapRemove(e2[b], i) = DOMAIN e2[b] \ {Len(e2[b])}
      /\ Len(e2[b]) \in DOMAIN e2[b]
  BY <1>1, SwapRemoved
<1>3. /\ IsTables(e1, f2, log) /\ DOMAIN f2 = DOMAIN e2 /\ f2[b] = SwapRemove(e2[b], i)
      /\ \A c \in DOMAIN e2 : c # b => f2[c] = e2[c]
  BY <1>2, BucketReplaced
<1> HIDE DEF f2
<1>4. ASSUME NEW c, NEW j
      PROVE  <<c, j>> \in PlacesIn(f2) <=> <<c, j>> \in PlacesIn(e2) \ {last}
  BY <1>2, <1>3, PlacesAre
<1> HIDE DEF last
<1>5. PlacesIn(f2) = PlacesIn(e2) \ {last}
  <2>1. \A p \in PlacesIn(f2) : p = <<p[1], p[2]>>
    BY PlacesAre
  <2>2. \A p \in PlacesIn(e2) \ {last} : p = <<p[1], p[2]>>
    BY PlacesAre
  <2> QED BY ONLY <1>4, <2>1, <2>2
<1>6. last \in PlacesIn(e2)
  BY <1>2, PlacesAre DEF last
<1> QED BY <1>3, <1>5, <1>6 DEF f2, last

\* The number of entries in two tables.
Counted(e1, e2, n) ==
  /\ IsFiniteSet(LiveIn(e1)) /\ IsFiniteSet(PlacesIn(e2))
  /\ n = Cardinality(LiveIn(e1)) + Cardinality(PlacesIn(e2))

LEMMA NewTables ==
  ASSUME NEW log \in Nat
  PROVE  /\ IsTables(NewEntries1(log), NewEntries2(log), log)
         /\ LiveIn(NewEntries1(log)) = {}
         /\ PlacesIn(NewEntries2(log)) = {}
         /\ Counted(NewEntries1(log), NewEntries2(log), 0)
<1>1. LiveIn(NewEntries1(log)) = {} /\ PlacesIn(NewEntries2(log)) = {}
  BY DEF LiveIn, PlacesIn, NewEntries1, NewEntries2
<1>2. IsTables(NewEntries1(log), NewEntries2(log), log)
  BY DEF IsTables, NewEntries1, NewEntries2
<1> QED BY <1>1, <1>2, FS_EmptySet DEF Counted
-----------------------------------------------------------------------------
(* Counting                                                                *)

\* add puts its entry into one table or the other.
LEMMA AddedCounts ==
  ASSUME HashOK, log2Size \in Nat,
         NEW e1, NEW e2, IsTables(e1, e2, log2Size), NEW e \in Entry,
         NEW n \in Nat, Counted(e1, e2, n)
  PROVE  /\ IsTables(Added1(e1, e), Added2(e1, e2, e), log2Size)
         /\ Counted(Added1(e1, e), Added2(e1, e2, e), n + 1)
<1> DEFINE k == e.key
           holes == Holes(e1, k, log2Size)
           b == Index2(k, log2Size)
<1>0. IsTables(e1, e2, log2Size) /\ e \in Entry
  OBVIOUS
<1>1. k \in Keys
  BY DEF Entry
<1>2. /\ holes # {} => Least(holes) \in holes
      /\ holes \subseteq DOMAIN e1
      /\ b \in DOMAIN e2
  BY <1>1, StopsAndHoles
<1>3. CASE holes = {}
  <2>1. Added1(e1, e) = e1 /\ Added2(e1, e2, e) = With(e2, b, Append(e2[b], e))
    BY <1>3 DEF Added1, Added2, With
  <2> HIDE DEF b, holes
  <2>2. /\ IsTables(e1, Added2(e1, e2, e), log2Size)
        /\ PlacesIn(Added2(e1, e2, e)) = PlacesIn(e2) \cup {<<b, Len(e2[b]) + 1>>}
        /\ <<b, Len(e2[b]) + 1>> \notin PlacesIn(e2)
    BY ONLY <1>0, <1>2, <2>1, BucketGrown
  <2>3. /\ IsFiniteSet(PlacesIn(Added2(e1, e2, e)))
        /\ Cardinality(PlacesIn(Added2(e1, e2, e))) = Cardinality(PlacesIn(e2)) + 1
    <3> DEFINE place == <<b, Len(e2[b]) + 1>>
    <3>1. PlacesIn(Added2(e1, e2, e)) = PlacesIn(e2) \cup {place} /\ place \notin PlacesIn(e2)
      BY <2>2
    <3>2. IsFiniteSet(PlacesIn(e2))
      BY DEF Counted
    <3> HIDE DEF place
    <3> QED BY <3>1, <3>2, FS_AddElement
  <2>4. Cardinality(PlacesIn(e2)) \in Nat /\ Cardinality(LiveIn(e1)) \in Nat
    BY FS_CardinalityType DEF Counted
  <2> QED BY <2>1, <2>2, <2>3, <2>4 DEF Counted
<1>4. CASE holes # {}
  <2> DEFINE s == Least(holes)
  <2>1. s \in DOMAIN e1 /\ e1[s] = Empty
    BY <1>2, <1>4 DEF Holes
  <2>2. Added1(e1, e) = With(e1, s, e) /\ Added2(e1, e2, e) = e2
    BY <1>4 DEF Added1, Added2, With
  <2> HIDE DEF s, holes
  <2>3. /\ IsTables(Added1(e1, e), e2, log2Size)
        /\ LiveIn(Added1(e1, e)) = LiveIn(e1) \cup {s}
    BY ONLY <1>0, <2>1, <2>2, SlotFilled
  <2>4. s \notin LiveIn(e1)
    BY <2>1 DEF LiveIn
  <2>5. /\ IsFiniteSet(LiveIn(Added1(e1, e)))
        /\ Cardinality(LiveIn(Added1(e1, e))) = Cardinality(LiveIn(e1)) + 1
    BY <2>3, <2>4, FS_AddElement DEF Counted
  <2>6. Cardinality(PlacesIn(e2)) \in Nat /\ Cardinality(LiveIn(e1)) \in Nat
    BY FS_CardinalityType DEF Counted
  <2> QED BY <2>2, <2>3, <2>5, <2>6 DEF Counted
<1> QED BY <1>3, <1>4

LEMMA PutCounts ==
  ASSUME HashOK, log2Size \in Nat, IsTables(entries1, entries2, log2Size),
         count \in Nat, Counted(entries1, entries2, count),
         NEW k \in Keys, NEW v \in Values, Put(k, v)
  PROVE  /\ IsTables(entries1', entries2', log2Size)
         /\ Counted(entries1', entries2', count')
         /\ count' \in Nat /\ count' <= count + 1
<1> DEFINE entry == [key |-> k, value |-> v]
           stops == Stops(entries1, k, log2Size)
           b == Index2(k, log2Size)
           places == Places(entries2[b], k)
<1>0. IsTables(entries1, entries2, log2Size)
  OBVIOUS
<1>1. entry \in Entry
  BY DEF Entry
<1>2. /\ stops # {} => Least(stops) \in stops
      /\ stops \subseteq DOMAIN entries1
      /\ b \in DOMAIN entries2
      /\ entries2[b] \in Seq(Entry)
  BY StopsAndHoles
<1>3. places # {} => Least(places) \in DOMAIN entries2[b]
  BY <1>2, PlacesInBucket
<1>4. Cardinality(PlacesIn(entries2)) \in Nat /\ Cardinality(LiveIn(entries1)) \in Nat
  BY FS_CardinalityType DEF Counted
<1>5. CASE stops # {}
  <2> DEFINE s == Least(stops)
  <2>1. /\ entries1' = With(entries1, s, entry) /\ entries2' = entries2
        /\ count' = IF entries1[s] = Empty THEN count + 1 ELSE count
    BY <1>5 DEF Put, With
  <2>2. s \in DOMAIN entries1
    BY <1>2, <1>5
  <2> HIDE DEF s, entry, stops
  <2>3. /\ IsTables(entries1', entries2', log2Size)
        /\ LiveIn(entries1') = LiveIn(entries1) \cup {s}
    BY ONLY <1>0, <1>1, <2>1, <2>2, SlotFilled
  <2>4. s \in LiveIn(entries1) <=> entries1[s] # Empty
    BY <2>2 DEF LiveIn
  <2>5. /\ IsFiniteSet(LiveIn(entries1'))
        /\ Cardinality(LiveIn(entries1')) =
             IF entries1[s] = Empty THEN Cardinality(LiveIn(entries1)) + 1
                                    ELSE Cardinality(LiveIn(entries1))
    BY <2>3, <2>4, FS_AddElement DEF Counted
  <2> QED BY <1>4, <2>1, <2>3, <2>5 DEF Counted
<1>6. CASE stops = {} /\ places = {}
  <2>1. /\ entries1' = entries1
        /\ entries2' = With(entries2, b, Append(entries2[b], entry)) /\ count' = count + 1
    BY <1>6 DEF Put, With
  <2> HIDE DEF entry, b, stops, places
  <2>2. /\ IsTables(entries1', entries2', log2Size)
        /\ PlacesIn(entries2') = PlacesIn(entries2) \cup {<<b, Len(entries2[b]) + 1>>}
        /\ <<b, Len(entries2[b]) + 1>> \notin PlacesIn(entries2)
    BY ONLY <1>0, <1>1, <1>2, <2>1, BucketGrown
  <2>3. /\ IsFiniteSet(PlacesIn(entries2'))
        /\ Cardinality(PlacesIn(entries2')) = Cardinality(PlacesIn(entries2)) + 1
    BY <2>2, FS_AddElement DEF Counted
  <2> QED BY <1>4, <2>1, <2>2, <2>3 DEF Counted
<1>7. CASE stops = {} /\ places # {}
  <2> DEFINE i == Least(places)
  <2>1. /\ entries1' = entries1 /\ count' = count
        /\ entries2' = With(entries2, b, With(entries2[b], i, entry))
    BY <1>7 DEF Put, With
  <2>3. i \in DOMAIN entries2[b]
    BY <1>3, <1>7
  <2> HIDE DEF entry, i, b, stops, places
  <2>2. /\ IsTables(entries1', entries2', log2Size)
        /\ PlacesIn(entries2') = PlacesIn(entries2)
    BY ONLY <1>0, <1>1, <1>2, <2>1, <2>3, BucketRewritten
  <2> QED BY <1>4, <2>1, <2>2 DEF Counted
<1> QED BY <1>5, <1>6, <1>7

LEMMA DeleteCounts ==
  ASSUME HashOK, log2Size \in Nat, IsTables(entries1, entries2, log2Size),
         count \in Nat, Counted(entries1, entries2, count),
         NEW k \in Keys, DeleteFromWindow(k) \/ DeleteFromBucket(k)
  PROVE  /\ IsTables(entries1', entries2', log2Size)
         /\ Counted(entries1', entries2', count - 1)
         /\ count - 1 \in Nat
<1> DEFINE stops == Stops(entries1, k, log2Size)
           b == Index2(k, log2Size)
           places == Places(entries2[b], k)
<1>0. IsTables(entries1, entries2, log2Size)
  OBVIOUS
<1>1. /\ stops # {} => Least(stops) \in stops
      /\ stops \subseteq DOMAIN entries1
      /\ b \in DOMAIN entries2
      /\ entries2[b] \in Seq(Entry)
  BY StopsAndHoles
<1>2. Cardinality(PlacesIn(entries2)) \in Nat /\ Cardinality(LiveIn(entries1)) \in Nat
  BY FS_CardinalityType DEF Counted
<1>3. CASE DeleteFromWindow(k)
  <2> DEFINE s == Least(stops)
  <2>1. /\ stops # {} /\ entries1[s] # Empty
        /\ entries1' = With(entries1, s, Empty) /\ entries2' = entries2
    BY <1>3 DEF DeleteFromWindow, With
  <2>2. s \in DOMAIN entries1
    BY <1>1, <2>1
  <2> HIDE DEF s, stops
  <2>3. /\ IsTables(entries1', entries2', log2Size)
        /\ LiveIn(entries1') = LiveIn(entries1) \ {s}
    BY ONLY <1>0, <2>1, <2>2, SlotEmptied
  <2>4. s \in LiveIn(entries1)
    BY <2>1, <2>2 DEF LiveIn
  <2>5. /\ IsFiniteSet(LiveIn(entries1'))
        /\ Cardinality(LiveIn(entries1')) = Cardinality(LiveIn(entries1)) - 1
    BY <2>3, <2>4, FS_RemoveElement DEF Counted
  <2>6. Cardinality(LiveIn(entries1')) \in Nat
    BY <2>5, FS_CardinalityType
  <2> QED BY <1>2, <2>1, <2>3, <2>5, <2>6 DEF Counted
<1>4. CASE DeleteFromBucket(k)
  <2> DEFINE i == Least(places)
  <2>1. /\ places # {} /\ entries1' = entries1
        /\ entries2' = With(entries2, b, SwapRemove(entries2[b], i))
    BY <1>4 DEF DeleteFromBucket, With
  <2>2. i \in DOMAIN entries2[b]
    BY <1>1, <2>1, PlacesInBucket
  <2> HIDE DEF i, b, stops, places
  <2>3. /\ IsTables(entries1', entries2', log2Size)
        /\ PlacesIn(entries2') = PlacesIn(entries2) \ {<<b, Len(entries2[b])>>}
        /\ <<b, Len(entries2[b])>> \in PlacesIn(entries2)
    BY ONLY <1>0, <1>1, <2>1, <2>2, BucketShrunk
  <2>4. /\ IsFiniteSet(PlacesIn(entries2'))
        /\ Cardinality(PlacesIn(entries2')) = Cardinality(PlacesIn(entries2)) - 1
    BY <2>3, FS_RemoveElement DEF Counted
  <2>5. Cardinality(PlacesIn(entries2')) \in Nat
    BY <2>4, FS_CardinalityType
  <2> QED BY <1>2, <2>1, <2>3, <2>4, <2>5 DEF Counted
<1> QED BY <1>3, <1>4
-----------------------------------------------------------------------------
(* The first invariant                                                     *)

\* What a Set under way holds.
OpTyped ==
  \/ op = Idle
  \/ op = [name |-> "put", key |-> op.key, value |-> op.value]
     /\ op.key \in Keys /\ op.value \in Values
  \/ op = [name |-> "resize", key |-> op.key, value |-> op.value,
           slots |-> op.slots, places |-> op.places, new1 |-> op.new1, new2 |-> op.new2]
     /\ op.key \in Keys /\ op.value \in Values

\* A Set that has rebuilt the table, or is about to have, finds room.
Roomy == op # Idle => log2Size \in Nat \ {0} /\ 2 * count <= Size[log2Size]

\* Every entry is in the new tables or still to be moved.
Moving ==
  op.name = "resize" =>
    /\ IsTables(op.new1, op.new2, log2Size)
    /\ op.slots \subseteq LiveIn(entries1) /\ op.places \subseteq PlacesIn(entries2)
    /\ \E n \in Nat : /\ Counted(op.new1, op.new2, n)
                      /\ n + Cardinality(op.slots) + Cardinality(op.places) = count

CountInv ==
  /\ HTTypeOK /\ HashOK /\ OpTyped /\ Roomy /\ Moving
  /\ Counted(entries1, entries2, count)

LEMMA CountInvFacts ==
  ASSUME CountInv
  PROVE  /\ log2Size \in Nat /\ count \in Nat /\ TableLog \in Nat
         /\ IsTables(entries1, entries2, TableLog)
         /\ op.name = "none" <=> op = Idle
         /\ op.name # "resize" => TableLog = log2Size
         /\ op.name = "resize" => TableLog = log2Size - 1
         /\ op.name \in {"none", "put", "resize"}
         /\ 2 * (count - 1) <= Size[TableLog]
<1>1. log2Size \in Nat /\ count \in Nat /\ IsTables(entries1, entries2, TableLog)
      /\ 2 * (count - 1) <= Size[TableLog]
  BY DEF CountInv, HTTypeOK, IsTables
<1>2. /\ op.name = "none" <=> op = Idle
      /\ op.name \in {"none", "put", "resize"}
  BY DEF CountInv, OpTyped, Idle
<1>3. op.name = "resize" => op # Idle
  BY <1>2
<1>4. TableLog \in Nat
  BY <1>1, <1>3 DEF CountInv, Roomy, TableLog
<1> QED BY <1>1, <1>2, <1>4 DEF TableLog

\* The invariant where the tables in place are of the size that is wanted.
Settled ==
  /\ log2Size \in Nat /\ count \in Nat /\ 2 * (count - 1) <= Size[log2Size]
  /\ IsTables(entries1, entries2, log2Size) /\ Counted(entries1, entries2, count)
  /\ HashOK /\ model \in [Keys -> Values \cup {Absent}]
  /\ OpTyped /\ Roomy /\ op.name # "resize"

LEMMA SettledCountInv == Settled => CountInv
<1> SUFFICES ASSUME Settled PROVE CountInv
  OBVIOUS
<1> USE DEF Settled
<1>1. TableLog = log2Size
  BY DEF TableLog
<1>2. op.name \in {"none", "resize", "put"}
  BY DEF OpTyped, Idle
<1>3. HTTypeOK
  BY <1>1, <1>2 DEF HTTypeOK, IsTables, Counted
<1> QED BY <1>3 DEF CountInv, Moving

LEMMA InitCountInv == Init => CountInv
<1> SUFFICES ASSUME Init PROVE CountInv
  OBVIOUS
<1>1. InitLog \in Nat /\ Indices1 \subseteq Nat /\ Indices2 \subseteq Nat
  BY HashTableAssumption
<1>2. Size[InitLog] \in Nat
  BY <1>1, SizeIsPositive
<1>3. /\ IsTables(entries1, entries2, log2Size) /\ Counted(entries1, entries2, count)
      /\ log2Size \in Nat /\ count = 0
  BY <1>1, NewTables DEF Init
<1>4. HashOK
  BY <1>1 DEF Init, HashOK
<1>5. OpTyped /\ Roomy /\ op.name # "resize"
  BY DEF Init, OpTyped, Roomy, Idle
<1>6. 2 * (count - 1) <= Size[log2Size]
  BY <1>2, <1>3 DEF Init
<1>7. model \in [Keys -> Values \cup {Absent}]
  BY DEF Init
<1> QED BY <1>3, <1>4, <1>5, <1>6, <1>7, SettledCountInv DEF Settled

\* Where the two tables and their number of entries are right after a step.
LEMMA PrimedTables ==
  ASSUME NEW n, NEW log, log2Size' = log, IsTables(entries1', entries2', log),
         Counted(entries1', entries2', n), count' = n
  PROVE  IsTables(entries1, entries2, log2Size)' /\ Counted(entries1, entries2, count)'
  BY DEF IsTables, Counted, LiveIn, PlacesIn, Entry, Empty

LEMMA SettledNext == Settled' => CountInv'
  BY SettledCountInv, PTL

LEMMA SetDirectlyCountInv ==
  ASSUME CountInv, NEW k \in Keys, NEW v \in Values, SetDirectly(k, v)
  PROVE  CountInv'
<1>1. /\ op = Idle /\ op' = op /\ log2Size' = log2Size /\ ~NeedsRoom /\ Put(k, v)
      /\ hash1' = hash1 /\ hash2' = hash2 /\ model' = [model EXCEPT ![k] = v]
  BY DEF SetDirectly
<1>2. /\ log2Size \in Nat /\ count \in Nat /\ IsTables(entries1, entries2, log2Size)
      /\ op.name = "none"
  BY <1>1, CountInvFacts DEF Idle
<1>3. HashOK /\ Counted(entries1, entries2, count)
  BY DEF CountInv
<1>4. /\ IsTables(entries1', entries2', log2Size) /\ Counted(entries1', entries2', count')
      /\ count' \in Nat /\ count' <= count + 1
  BY <1>1, <1>2, <1>3, PutCounts
<1>5. 2 * (count' - 1) <= Size[log2Size]
  <2>1. Size[log2Size] \in Nat
    BY <1>2, SizeIsPositive
  <2>2. count * 2 < Size[log2Size]
    BY <1>1, <1>2, <2>1 DEF NeedsRoom
  <2> QED BY <1>2, <1>4, <2>1, <2>2
<1>6. HashOK'
  BY <1>1, <1>3 DEF HashOK
<1>7. model' \in [Keys -> Values \cup {Absent}]
  BY <1>1 DEF CountInv, HTTypeOK
<1>8. OpTyped' /\ Roomy' /\ op'.name # "resize"
  BY <1>1, <1>2 DEF OpTyped, Roomy
<1>9. IsTables(entries1, entries2, log2Size)' /\ Counted(entries1, entries2, count)'
  BY <1>1, <1>4, PrimedTables
<1>10. Settled'
  BY <1>1, <1>2, <1>4, <1>5, <1>6, <1>7, <1>8, <1>9 DEF Settled
<1> QED BY <1>10, SettledNext

LEMMA SetResizedCountInv ==
  ASSUME CountInv, SetResized
  PROVE  CountInv'
<1>1. /\ op.name = "put" /\ op' = Idle /\ log2Size' = log2Size /\ Put(op.key, op.value)
      /\ hash1' = hash1 /\ hash2' = hash2 /\ model' = [model EXCEPT ![op.key] = op.value]
  BY DEF SetResized
<1>2. /\ log2Size \in Nat /\ count \in Nat /\ IsTables(entries1, entries2, log2Size)
      /\ op # Idle
  BY <1>1, CountInvFacts
<1>3. HashOK /\ Counted(entries1, entries2, count) /\ op.key \in Keys /\ op.value \in Values
      /\ 2 * count <= Size[log2Size]
  BY <1>2 DEF CountInv, OpTyped, Roomy
<1>4. /\ IsTables(entries1', entries2', log2Size) /\ Counted(entries1', entries2', count')
      /\ count' \in Nat /\ count' <= count + 1
  BY <1>1, <1>2, <1>3, PutCounts
<1>5. 2 * (count' - 1) <= Size[log2Size]
  <2>1. Size[log2Size] \in Nat
    BY <1>2, SizeIsPositive
  <2> QED BY <1>2, <1>3, <1>4, <2>1
<1>6. HashOK'
  BY <1>1, <1>3 DEF HashOK
<1>7. model' \in [Keys -> Values \cup {Absent}]
  BY <1>1, <1>3 DEF CountInv, HTTypeOK
<1>8. OpTyped' /\ Roomy' /\ op'.name # "resize"
  BY <1>1 DEF OpTyped, Roomy, Idle
<1>9. IsTables(entries1, entries2, log2Size)' /\ Counted(entries1, entries2, count)'
  BY <1>1, <1>4, PrimedTables
<1>10. Settled'
  BY <1>1, <1>2, <1>4, <1>5, <1>6, <1>7, <1>8, <1>9 DEF Settled
<1> QED BY <1>10, SettledNext

LEMMA DeleteCountInv ==
  ASSUME CountInv, NEW k \in Keys, Delete(k)
  PROVE  CountInv'
<1>1. /\ op = Idle /\ op' = op /\ log2Size' = log2Size /\ count' = count - 1
      /\ DeleteFromWindow(k) \/ DeleteFromBucket(k)
      /\ hash1' = hash1 /\ hash2' = hash2 /\ model' = [model EXCEPT ![k] = Absent]
  BY DEF Delete
<1>2. /\ log2Size \in Nat /\ count \in Nat /\ IsTables(entries1, entries2, log2Size)
      /\ op.name = "none" /\ 2 * (count - 1) <= Size[log2Size]
  BY <1>1, CountInvFacts DEF Idle
<1>3. HashOK /\ Counted(entries1, entries2, count)
  BY DEF CountInv
<1>4. /\ IsTables(entries1', entries2', log2Size) /\ Counted(entries1', entries2', count')
      /\ count' \in Nat
  BY <1>1, <1>2, <1>3, DeleteCounts
<1>5. 2 * (count' - 1) <= Size[log2Size]
  <2>1. Size[log2Size] \in Nat
    BY <1>2, SizeIsPositive
  <2> QED BY <1>1, <1>2, <2>1
<1>6. HashOK'
  BY <1>1, <1>3 DEF HashOK
<1>7. model' \in [Keys -> Values \cup {Absent}]
  BY <1>1 DEF CountInv, HTTypeOK
<1>8. OpTyped' /\ Roomy' /\ op'.name # "resize"
  BY <1>1, <1>2 DEF OpTyped, Roomy
<1>9. IsTables(entries1, entries2, log2Size)' /\ Counted(entries1, entries2, count)'
  BY <1>1, <1>4, PrimedTables
<1>10. Settled'
  BY <1>1, <1>2, <1>4, <1>5, <1>6, <1>7, <1>8, <1>9 DEF Settled
<1> QED BY <1>10, SettledNext
\* A type invariant from what is known of the tables.
Typed ==
  /\ log2Size \in Nat /\ count \in Nat /\ 2 * (count - 1) <= Size[TableLog]
  /\ IsTables(entries1, entries2, TableLog) /\ Counted(entries1, entries2, count)
  /\ op.name \in {"none", "resize", "put"}
  /\ model \in [Keys -> Values \cup {Absent}]

LEMMA TypedNext == Typed' => HTTypeOK'
<1>1. Typed => HTTypeOK
  BY DEF Typed, HTTypeOK, IsTables, Counted
<1> QED BY <1>1, PTL

LEMMA CountInvTyped == CountInv => Typed
  BY CountInvFacts DEF CountInv, HTTypeOK, Typed

\* A step that leaves the tables in place alone.
LEMMA TypedUnchanged ==
  ASSUME Typed, UNCHANGED <<entries1, entries2, count, model>>, log2Size' \in Nat,
         TableLog' = TableLog, op'.name \in {"none", "resize", "put"}
  PROVE  HTTypeOK'
<1>1. IsTables(entries1, entries2, TableLog)' /\ Counted(entries1, entries2, count)'
  BY DEF Typed, IsTables, Counted, LiveIn, PlacesIn, Entry, Empty
<1>2. count' \in Nat /\ 2 * (count' - 1) <= Size[TableLog'] /\ model' \in [Keys -> Values \cup {Absent}]
  BY DEF Typed
<1>3. Typed'
  BY <1>1, <1>2 DEF Typed
<1> QED BY <1>3, TypedNext

LEMMA FiniteParts ==
  ASSUME CountInv, op.name = "resize"
  PROVE  /\ IsFiniteSet(op.slots) /\ Cardinality(op.slots) \in Nat
         /\ IsFiniteSet(op.places) /\ Cardinality(op.places) \in Nat
         /\ op.slots = {} <=> Cardinality(op.slots) = 0
         /\ op.places = {} <=> Cardinality(op.places) = 0
<1>1. IsFiniteSet(LiveIn(entries1)) /\ IsFiniteSet(PlacesIn(entries2))
  BY DEF CountInv, Counted
<1>2. op.slots \in SUBSET LiveIn(entries1) /\ op.places \in SUBSET PlacesIn(entries2)
  BY DEF CountInv, Moving
<1>3. IsFiniteSet(op.slots) /\ IsFiniteSet(op.places)
  BY <1>1, <1>2, FS_Subset
<1> QED BY <1>3, FS_CardinalityType, FS_EmptySet

LEMMA SetResizingCountInv ==
  ASSUME CountInv, NEW k \in Keys, NEW v \in Values, SetResizing(k, v)
  PROVE  CountInv'
<1> DEFINE log == log2Size + 1
<1>1. /\ op = Idle /\ log2Size' = log /\ NeedsRoom
      /\ op' = [name |-> "resize", key |-> k, value |-> v,
                slots |-> LiveIn(entries1), places |-> PlacesIn(entries2),
                new1 |-> NewEntries1(log), new2 |-> NewEntries2(log)]
      /\ UNCHANGED <<hash1, hash2, entries1, entries2, count, model>>
  BY DEF SetResizing, NewEntries1, NewEntries2, Empty
<1>2. /\ log2Size \in Nat /\ count \in Nat /\ IsTables(entries1, entries2, log2Size)
      /\ 2 * (count - 1) <= Size[log2Size] /\ log \in Nat \ {0}
  BY <1>1, CountInvFacts DEF Idle
<1>3. HashOK /\ Counted(entries1, entries2, count) /\ model \in [Keys -> Values \cup {Absent}]
  BY DEF CountInv, HTTypeOK
<1>4. /\ op'.name = "resize" /\ op'.new1 = NewEntries1(log) /\ op'.new2 = NewEntries2(log)
      /\ op'.slots = LiveIn(entries1) /\ op'.places = PlacesIn(entries2)
      /\ op'.key = k /\ op'.value = v
  BY <1>1
<1>5. OpTyped'
  BY <1>1, <1>4 DEF OpTyped
<1>6. Roomy'
  <2>1. Size[log2Size] \in Nat \ {0} /\ Size[log] = 2 * Size[log2Size]
    BY <1>2, SizeIsPositive, SizeDoubles
  <2> DEFINE n == Size[log2Size]
  <2> HIDE DEF n, log
  <2>2. 2 * count <= 2 * n
    <3>1. n \in Nat \ {0} /\ 2 * (count - 1) <= n /\ count \in Nat
      BY <1>2, <2>1 DEF n
    <3> QED BY ONLY <3>1
  <2> QED BY <1>1, <1>2, <2>1, <2>2 DEF Roomy, n
<1>7. Moving'
  <2>1. /\ IsTables(op'.new1, op'.new2, log) /\ Counted(op'.new1, op'.new2, 0)
    BY <1>2, <1>4, NewTables
  <2>2. 0 + Cardinality(op'.slots) + Cardinality(op'.places) = count'
    <3>1. Cardinality(LiveIn(entries1)) \in Nat /\ Cardinality(PlacesIn(entries2)) \in Nat
      BY <1>3, FS_CardinalityType DEF Counted
    <3> QED BY <1>1, <1>3, <1>4, <3>1 DEF Counted
  <2>3. IsTables(op.new1, op.new2, log2Size)' /\ Counted(op.new1, op.new2, 0)'
    BY <1>1, <2>1 DEF IsTables, Counted, LiveIn, PlacesIn, Entry, Empty
  <2>4. (op.slots \subseteq LiveIn(entries1))' /\ (op.places \subseteq PlacesIn(entries2))'
    BY <1>1, <1>4 DEF LiveIn, PlacesIn, Empty
  <2> QED BY <2>2, <2>3, <2>4 DEF Moving
<1>8. HTTypeOK'
  <2>1. TableLog' = log2Size
    BY <1>1, <1>2, <1>4 DEF TableLog
  <2>2. TableLog = log2Size
    BY <1>1 DEF TableLog, Idle
  <2>3. Typed /\ log2Size' \in Nat /\ op'.name = "resize"
    BY <1>1, <1>2, <1>4, CountInvTyped
  <2> QED BY <1>1, <2>1, <2>2, <2>3, TypedUnchanged
<1>9. HashOK' /\ Counted(entries1, entries2, count)'
  BY <1>1, <1>3 DEF HashOK, Counted, LiveIn, PlacesIn, Empty
<1> QED BY <1>5, <1>6, <1>7, <1>8, <1>9 DEF CountInv

\* One entry more in the new tables, one less to be moved.
LEMMA MovedCountInv ==
  ASSUME CountInv, op.name = "resize",
         UNCHANGED <<hash1, hash2, tableVars, model>>,
         NEW e \in Entry, NEW slots, NEW places,
         slots \subseteq op.slots, places \subseteq op.places,
         Cardinality(slots) \in Nat, Cardinality(places) \in Nat,
         Cardinality(slots) + Cardinality(places) + 1
           = Cardinality(op.slots) + Cardinality(op.places),
         op' = [op EXCEPT !.slots = slots, !.places = places,
                          !.new1 = Added1(op.new1, e), !.new2 = Added2(op.new1, op.new2, e)]
  PROVE  CountInv'
<1>1. op = [name |-> "resize", key |-> op.key, value |-> op.value,
            slots |-> op.slots, places |-> op.places, new1 |-> op.new1, new2 |-> op.new2]
      /\ op.key \in Keys /\ op.value \in Values
  BY DEF CountInv, OpTyped, Idle
<1> DEFINE new1 == Added1(op.new1, e)
           new2 == Added2(op.new1, op.new2, e)
<1> HIDE DEF new1, new2
<1>2. op' = [name |-> "resize", key |-> op.key, value |-> op.value,
             slots |-> slots, places |-> places, new1 |-> new1, new2 |-> new2]
  BY <1>1 DEF new1, new2
<1>3. UNCHANGED <<hash1, hash2, entries1, entries2, log2Size, count, model>>
  BY DEF tableVars
<1>4. log2Size \in Nat /\ count \in Nat
  BY CountInvFacts
<1>5. PICK n \in Nat : /\ Counted(op.new1, op.new2, n)
                       /\ n + Cardinality(op.slots) + Cardinality(op.places) = count
  BY DEF CountInv, Moving
<1>6. IsTables(new1, new2, log2Size) /\ Counted(new1, new2, n + 1)
  BY <1>4, <1>5, AddedCounts DEF CountInv, Moving, new1, new2
<1>7. Moving'
  <2>1. (n + 1) + Cardinality(op'.slots) + Cardinality(op'.places) = count'
    BY <1>2, <1>3, <1>5, FiniteParts
  <2>2. IsTables(op.new1, op.new2, log2Size)' /\ Counted(op.new1, op.new2, n + 1)'
    <3>1. op'.new1 = new1 /\ op'.new2 = new2 /\ log2Size' = log2Size
      BY ONLY <1>2, <1>3
    <3> QED BY ONLY <1>6, <3>1 DEF IsTables, Counted, LiveIn, PlacesIn, Entry, Empty
  <2>3. (op.slots \subseteq LiveIn(entries1))' /\ (op.places \subseteq PlacesIn(entries2))'
    <3>1. op'.slots = slots /\ op'.places = places
      BY <1>2
    <3>2. slots \subseteq LiveIn(entries1) /\ places \subseteq PlacesIn(entries2)
      BY DEF CountInv, Moving
    <3> QED BY <1>3, <3>1, <3>2 DEF LiveIn, PlacesIn, Empty
  <2>4. n + 1 \in Nat
    OBVIOUS
  <2> QED BY <2>1, <2>2, <2>3, <2>4 DEF Moving
<1>8. OpTyped'
  BY <1>1, <1>2 DEF OpTyped
<1>9. op'.name = "resize" /\ op # Idle /\ op' # Idle
  BY <1>2, CountInvFacts DEF Idle
<1>10. Roomy'
  BY <1>3, <1>9 DEF CountInv, Roomy
<1>11. HTTypeOK'
  <2>1. TableLog' = TableLog
    BY <1>3, <1>9 DEF TableLog
  <2> QED BY <1>3, <1>4, <1>9, <2>1, CountInvTyped, TypedUnchanged
<1>12. HashOK' /\ Counted(entries1, entries2, count)'
  BY <1>3 DEF CountInv, HashOK, Counted, LiveIn, PlacesIn, Empty
<1> QED BY <1>7, <1>8, <1>10, <1>11, <1>12 DEF CountInv

\* What is moved next is an entry of the tables in place.
LEMMA NextSlot ==
  ASSUME CountInv, op.name = "resize", op.slots # {}
  PROVE  Least(op.slots) \in op.slots /\ entries1[Least(op.slots)] \in Entry
<1>1. op.slots \subseteq LiveIn(entries1)
  BY DEF CountInv, Moving
<1>2. IsTables(entries1, entries2, TableLog) /\ TableLog \in Nat
  BY CountInvFacts
<1>3. LiveIn(entries1) \subseteq Nat
  BY <1>2 DEF LiveIn, IsTables
<1>4. Least(op.slots) \in op.slots
  BY <1>1, <1>3, LeastElement
<1>5. \A i \in LiveIn(entries1) : entries1[i] \in Entry
  BY <1>2 DEF LiveIn, IsTables
<1> QED BY <1>1, <1>4, <1>5

LEMMA NextPlace ==
  ASSUME CountInv, op.name = "resize", op.places # {}
  PROVE  LET b == Least({p[1] : p \in op.places})
             i == Least({p[2] : p \in {q \in op.places : q[1] = b}})
         IN <<b, i>> \in op.places /\ entries2[b][i] \in Entry
<1> DEFINE firsts == {p[1] : p \in op.places}
           b == Least(firsts)
           seconds == {p[2] : p \in {q \in op.places : q[1] = b}}
           i == Least(seconds)
<1>1. op.places \subseteq PlacesIn(entries2)
  BY DEF CountInv, Moving
<1>2. IsTables(entries1, entries2, TableLog) /\ TableLog \in Nat
  BY CountInvFacts
<1>3. \A p \in op.places : p = <<p[1], p[2]>>
  BY <1>1, PlacesAre
<1>4. \A c, j : <<c, j>> \in PlacesIn(entries2) =>
        c \in Nat /\ j \in Nat /\ entries2[c][j] \in Entry
  <2> SUFFICES ASSUME NEW c, NEW j, <<c, j>> \in PlacesIn(entries2)
               PROVE  c \in Nat /\ j \in Nat /\ entries2[c][j] \in Entry
    OBVIOUS
  <2>1. c \in DOMAIN entries2 /\ j \in DOMAIN entries2[c]
    BY PlacesAre
  <2>2. entries2[c] \in Seq(Entry) /\ c \in Nat
    BY <1>2, <2>1 DEF IsTables
  <2> QED BY <2>1, <2>2
<1>5. firsts \subseteq Nat /\ firsts # {}
  BY <1>1, <1>3, <1>4
<1>6. b \in firsts
  BY <1>5, LeastElement
<1> HIDE DEF b
<1>7. seconds \subseteq Nat /\ seconds # {}
  BY <1>1, <1>3, <1>4, <1>6
<1>8. i \in seconds
  BY <1>7, LeastElement
<1> HIDE DEF i
<1>9. <<b, i>> \in op.places
  BY <1>3, <1>8
<1>10. entries2[b][i] \in Entry
  BY <1>1, <1>4, <1>9
<1> QED BY <1>9, <1>10 DEF b, i

LEMMA ResizeSlotCountInv ==
  ASSUME CountInv, ResizeSlot
  PROVE  CountInv'
<1> DEFINE i == Least(op.slots)
           e == entries1[i]
           slots == op.slots \ {i}
<1>1. /\ op.name = "resize" /\ op.slots # {}
      /\ op' = [op EXCEPT !.slots = slots,
                          !.new1 = Added1(op.new1, e), !.new2 = Added2(op.new1, op.new2, e)]
      /\ UNCHANGED <<hash1, hash2, tableVars, model>>
  BY DEF ResizeSlot
<1>2. i \in op.slots /\ e \in Entry
  BY <1>1, NextSlot
<1> HIDE DEF i, e
<1>3. IsFiniteSet(op.slots) /\ Cardinality(op.slots) \in Nat /\ Cardinality(op.places) \in Nat
  BY <1>1, FiniteParts
<1>4. IsFiniteSet(slots) /\ Cardinality(slots) = Cardinality(op.slots) - 1
  BY <1>2, <1>3, FS_RemoveElement
<1>5. Cardinality(slots) \in Nat
  BY <1>4, FS_CardinalityType
<1>6. slots \subseteq op.slots
  OBVIOUS
<1> HIDE DEF slots
<1>7. Cardinality(slots) + Cardinality(op.places) + 1
        = Cardinality(op.slots) + Cardinality(op.places)
  BY <1>3, <1>4
<1>8. op' = [op EXCEPT !.slots = slots, !.places = op.places,
                       !.new1 = Added1(op.new1, e), !.new2 = Added2(op.new1, op.new2, e)]
  <2>1. op = [name |-> "resize", key |-> op.key, value |-> op.value,
              slots |-> op.slots, places |-> op.places, new1 |-> op.new1, new2 |-> op.new2]
    BY <1>1 DEF CountInv, OpTyped, Idle
  <2> DEFINE new1 == Added1(op.new1, e)
             new2 == Added2(op.new1, op.new2, e)
  <2>2. op' = [op EXCEPT !.slots = slots, !.new1 = new1, !.new2 = new2]
    BY <1>1
  <2> HIDE DEF new1, new2
  <2>3. op' = [op EXCEPT !.slots = slots, !.places = op.places, !.new1 = new1, !.new2 = new2]
    BY <2>1, <2>2
  <2> QED BY <2>3 DEF new1, new2
<1> QED BY <1>1, <1>2, <1>3, <1>5, <1>6, <1>7, <1>8, MovedCountInv
LEMMA ResizePlaceCountInv ==
  ASSUME CountInv, ResizePlace
  PROVE  CountInv'
<1> DEFINE b == Least({p[1] : p \in op.places})
           i == Least({p[2] : p \in {q \in op.places : q[1] = b}})
           p0 == <<b, i>>
           e == entries2[b][i]
           places == op.places \ {p0}
<1>1. /\ op.name = "resize" /\ op.slots = {} /\ op.places # {}
      /\ op' = [op EXCEPT !.places = places,
                          !.new1 = Added1(op.new1, e), !.new2 = Added2(op.new1, op.new2, e)]
      /\ UNCHANGED <<hash1, hash2, tableVars, model>>
  BY DEF ResizePlace
<1>2. p0 \in op.places /\ e \in Entry
  BY <1>1, NextPlace
<1> HIDE DEF e, p0
<1>3. IsFiniteSet(op.places) /\ Cardinality(op.slots) \in Nat /\ Cardinality(op.places) \in Nat
  BY <1>1, FiniteParts
<1>4. IsFiniteSet(places) /\ Cardinality(places) = Cardinality(op.places) - 1
  BY <1>2, <1>3, FS_RemoveElement
<1>5. Cardinality(places) \in Nat
  BY <1>4, FS_CardinalityType
<1>6. places \subseteq op.places
  OBVIOUS
<1> HIDE DEF places
<1>7. Cardinality(op.slots) + Cardinality(places) + 1
        = Cardinality(op.slots) + Cardinality(op.places)
  BY <1>3, <1>4
<1>8. op' = [op EXCEPT !.slots = op.slots, !.places = places,
                       !.new1 = Added1(op.new1, e), !.new2 = Added2(op.new1, op.new2, e)]
  <2>1. op = [name |-> "resize", key |-> op.key, value |-> op.value,
              slots |-> op.slots, places |-> op.places, new1 |-> op.new1, new2 |-> op.new2]
    BY <1>1 DEF CountInv, OpTyped, Idle
  <2> DEFINE new1 == Added1(op.new1, e)
             new2 == Added2(op.new1, op.new2, e)
  <2>2. op' = [op EXCEPT !.places = places, !.new1 = new1, !.new2 = new2]
    BY <1>1
  <2> HIDE DEF new1, new2
  <2>3. op' = [op EXCEPT !.slots = op.slots, !.places = places, !.new1 = new1, !.new2 = new2]
    BY <2>1, <2>2
  <2> QED BY <2>3 DEF new1, new2
<1> QED BY <1>1, <1>2, <1>3, <1>5, <1>6, <1>7, <1>8, MovedCountInv

LEMMA ResizeDoneCountInv ==
  ASSUME CountInv, ResizeDone
  PROVE  CountInv'
<1>1. /\ op.name = "resize" /\ op.slots = {} /\ op.places = {}
      /\ entries1' = op.new1 /\ entries2' = op.new2
      /\ op' = [name |-> "put", key |-> op.key, value |-> op.value]
      /\ UNCHANGED <<hash1, hash2, log2Size, count, model>>
  BY DEF ResizeDone
<1>2. op # Idle /\ log2Size \in Nat \ {0} /\ count \in Nat
  BY <1>1, CountInvFacts DEF CountInv, Roomy
<1>3. op.key \in Keys /\ op.value \in Values
  BY <1>2 DEF CountInv, OpTyped
<1>4. Cardinality(op.slots) = 0 /\ Cardinality(op.places) = 0
  BY <1>1, FS_EmptySet
<1>5. PICK n \in Nat : /\ Counted(op.new1, op.new2, n)
                       /\ n + Cardinality(op.slots) + Cardinality(op.places) = count
  BY <1>1 DEF CountInv, Moving
<1>6. n = count
  BY <1>4, <1>5
<1>7. IsTables(op.new1, op.new2, log2Size)
  BY <1>1 DEF CountInv, Moving
<1>8. IsTables(entries1, entries2, log2Size)' /\ Counted(entries1, entries2, count)'
  BY <1>1, <1>5, <1>6, <1>7, PrimedTables
<1>9. 2 * count <= Size[log2Size] /\ Size[log2Size] \in Nat
  BY <1>2, SizeIsPositive DEF CountInv, Roomy
<1>10. 2 * (count' - 1) <= Size[log2Size']
  BY <1>1, <1>2, <1>9
<1>11. OpTyped' /\ op'.name = "put"
  BY <1>1, <1>3 DEF OpTyped
<1>12. Roomy'
  BY <1>1, <1>2, <1>9 DEF Roomy
<1>13. HashOK' /\ model' \in [Keys -> Values \cup {Absent}]
  BY <1>1 DEF CountInv, HashOK, HTTypeOK
<1>14. Settled'
  BY <1>1, <1>2, <1>8, <1>10, <1>11, <1>12, <1>13 DEF Settled
<1> QED BY <1>14, SettledNext

LEMMA NextCountInv == CountInv /\ [Next]_vars => CountInv'
<1> SUFFICES ASSUME CountInv, [Next]_vars PROVE CountInv'
  OBVIOUS
<1>1. CASE \E k \in Keys, v \in Values : Set(k, v)
  BY <1>1, SetDirectlyCountInv, SetResizingCountInv DEF Set
<1>2. CASE Resize
  BY <1>2, ResizeSlotCountInv, ResizePlaceCountInv, ResizeDoneCountInv DEF Resize
<1>3. CASE SetResized
  BY <1>3, SetResizedCountInv
<1>4. CASE \E k \in Keys : Delete(k)
  BY <1>4, DeleteCountInv
<1>5. CASE UNCHANGED vars
  <2>1. UNCHANGED <<hash1, hash2, entries1, entries2, log2Size, count, op, model>>
    BY <1>5 DEF vars, tableVars
  <2>2. HTTypeOK'
    BY <2>1, CountInvTyped, TypedUnchanged DEF TableLog, Typed
  <2>3. Counted(entries1, entries2, count)' /\ HashOK'
    BY <2>1 DEF CountInv, HashOK, Counted, LiveIn, PlacesIn, Empty
  <2>4. OpTyped' /\ Roomy'
    BY <2>1 DEF CountInv, OpTyped, Roomy, Idle
  <2>5. Moving'
    BY <2>1 DEF CountInv, Moving, Counted, IsTables, LiveIn, PlacesIn, Entry, Empty
  <2> QED BY <2>2, <2>3, <2>4, <2>5 DEF CountInv
<1> QED BY <1>1, <1>2, <1>3, <1>4, <1>5 DEF Next

\* The inductive invariant behind the count: every entry is counted once, and
\* while a Set rebuilds the table, in the new tables or among what is still to
\* be moved.
THEOREM HashTableCounts == Spec => []CountInv
  BY InitCountInv, NextCountInv, PTL DEF Spec

\* Type correctness of the hash table: tables of the sizes that the unchecked
\* indexing relies on, the count of the live entries, and a table that is at
\* most half full whenever an entry is added.
THEOREM HashTableTypeCorrect == Spec => []HTTypeOK
<1>1. CountInv => HTTypeOK
  BY DEF CountInv
<1> QED BY <1>1, HashTableCounts, PTL
-----------------------------------------------------------------------------
(* What Set stores is found                                                *)

LEMMA LeastOne ==
  ASSUME NEW n \in Nat
  PROVE  Least({n}) = n
  BY LeastElement

LEMMA LookupInWindow ==
  ASSUME NEW e1, NEW e2, NEW log, NEW k, Stops(e1, k, log) # {}
  PROVE  Lookup(e1, e2, log, k) = e1[Least(Stops(e1, k, log))].value
  BY DEF Lookup

LEMMA LookupInBucket ==
  ASSUME NEW e1, NEW e2, NEW log, NEW k, Stops(e1, k, log) = {},
         Places(e2[Index2(k, log)], k) # {}
  PROVE  Lookup(e1, e2, log, k)
           = e2[Index2(k, log)][Least(Places(e2[Index2(k, log)], k))].value
  BY DEF Lookup

\* A slot that stops the search still does when it is given to k.
LEMMA StopsWith ==
  ASSUME HashOK, NEW k \in Keys, NEW log \in Nat, NEW e1, NEW e2, IsTables(e1, e2, log),
         NEW s \in Stops(e1, k, log), NEW e \in Entry, e.key = k
  PROVE  /\ Stops(With(e1, s, e), k, log) = Stops(e1, k, log)
         /\ With(e1, s, e)[s] = e
<1>1. s \in DOMAIN e1
  BY StopsAndHoles
<1>2. With(e1, s, e)[s] = e /\ \A i \in DOMAIN e1 : i # s => With(e1, s, e)[i] = e1[i]
  BY <1>1 DEF With
<1>3. Slots(k, log) \subseteq DOMAIN e1
  <2>1. DOMAIN e1 = 0..(Size[log] + Window - 1)
    BY DEF IsTables
  <2> QED BY <2>1, WindowExists
<1>4. s \in Slots(k, log)
  BY DEF Stops
<1> QED BY <1>2, <1>3, <1>4 DEF Stops

LEMMA PutIsRead ==
  ASSUME HashOK, log2Size \in Nat, IsTables(entries1, entries2, log2Size),
         NEW k \in Keys, NEW v \in Values, Put(k, v)
  PROVE  Lookup(entries1', entries2', log2Size, k) = v
<1> DEFINE entry == [key |-> k, value |-> v]
           stops == Stops(entries1, k, log2Size)
           b == Index2(k, log2Size)
           places == Places(entries2[b], k)
<1>1. entry \in Entry /\ entry.key = k /\ entry.value = v
  BY DEF Entry
<1>2. /\ stops # {} => Least(stops) \in stops
      /\ b \in DOMAIN entries2
      /\ entries2[b] \in Seq(Entry)
  BY StopsAndHoles
<1>3. CASE stops # {}
  <2> DEFINE s == Least(stops)
  <2>1. entries1' = With(entries1, s, entry)
    BY <1>3 DEF Put, With
  <2>2. s \in Stops(entries1, k, log2Size)
    BY <1>2, <1>3
  <2> HIDE DEF s, entry
  <2>3. /\ Stops(With(entries1, s, entry), k, log2Size) = Stops(entries1, k, log2Size)
        /\ With(entries1, s, entry)[s] = entry
    BY <1>1, <2>2, StopsWith
  <2>4. Stops(entries1', k, log2Size) = stops /\ entries1'[s] = entry
    BY <2>1, <2>3
  <2>5. Lookup(entries1', entries2', log2Size, k) = entries1'[s].value
    BY <1>3, <2>4, LookupInWindow DEF s
  <2> QED BY <1>1, <2>4, <2>5
<1>4. CASE stops = {} /\ places = {}
  <2>1. entries1' = entries1 /\ entries2' = [entries2 EXCEPT ![b] = Append(entries2[b], entry)]
    BY <1>4 DEF Put
  <2> HIDE DEF entry
  <2>2. entries2'[b] = Append(entries2[b], entry)
    BY <1>2, <2>1
  <2> DEFINE n == Len(entries2[b]) + 1
  <2>3. n \in Nat /\ DOMAIN entries2'[b] = 1..n /\ entries2'[b][n] = entry
        /\ \A i \in 1..n : i # n => i \in DOMAIN entries2[b] /\ entries2'[b][i] = entries2[b][i]
    BY <1>2, <2>2
  <2> HIDE DEF n
  <2>4. Places(entries2'[b], k) = {n}
    <3>1. \A i \in DOMAIN entries2[b] : entries2[b][i].key # k
      BY <1>4 DEF Places
    <3>2. \A i \in 1..n : entries2'[b][i].key = k <=> i = n
      BY <1>1, <2>3, <3>1
    <3>3. n \in 1..n
      BY <1>2 DEF n
    <3> QED BY ONLY <2>3, <3>2, <3>3 DEF Places
  <2>5. Least({n}) = n
    BY <2>3, LeastOne
  <2>6. Lookup(entries1', entries2', log2Size, k) = entries2'[b][n].value
    <3>1. Stops(entries1', k, log2Size) = {}
      BY <1>4, <2>1
    <3> QED BY ONLY <2>4, <2>5, <3>1 DEF Lookup, b
  <2> QED BY <1>1, <2>3, <2>6
<1>5. CASE stops = {} /\ places # {}
  <2> DEFINE i == Least(places)
  <2>1. entries1' = entries1
        /\ entries2' = [entries2 EXCEPT ![b] = [entries2[b] EXCEPT ![i] = entry]]
    BY <1>5 DEF Put
  <2>2. i \in places /\ places \subseteq DOMAIN entries2[b]
    BY <1>2, <1>5, PlacesInBucket
  <2> HIDE DEF i, entry
  <2>3. entries2'[b] = [entries2[b] EXCEPT ![i] = entry]
    BY <1>2, <2>1
  <2>4. entries2'[b][i] = entry /\ DOMAIN entries2'[b] = DOMAIN entries2[b]
        /\ \A j \in DOMAIN entries2[b] : j # i => entries2'[b][j] = entries2[b][j]
    BY <2>2, <2>3
  <2>5. Places(entries2'[b], k) = places
    BY <1>1, <2>2, <2>4 DEF Places
  <2>6. Lookup(entries1', entries2', log2Size, k) = entries2'[b][i].value
    <3>1. Stops(entries1', k, log2Size) = {}
      BY <1>5, <2>1
    <3>2. Places(entries2'[b], k) # {} /\ Least(Places(entries2'[b], k)) = i
      BY <1>5, <2>5 DEF i
    <3> QED BY ONLY <3>1, <3>2 DEF Lookup, b
  <2> QED BY <1>1, <2>4, <2>6
<1> QED BY <1>3, <1>4, <1>5

LEMMA PrimedGet2 ==
  ASSUME UNCHANGED <<hash1, hash2>>, NEW k
  PROVE  Get2(k)' = Lookup(entries1', entries2', log2Size', k)
  BY DEF Get2, Lookup, Stops, Slots, Index1, Index2, Places, Least

\* What Set stores is found, even in a table in which Deletes have hidden
\* entries or left a key twice, for any hash functions.
THEOREM HashTableSetIsRead == Spec => SetIsRead
<1> DEFINE Reads == \A k \in Keys : model'[k] # model[k] /\ model'[k] # Absent => Get2(k)' = model'[k]
<1>1. ASSUME CountInv, [Next]_vars PROVE [Reads]_vars
  <2>1. CASE UNCHANGED vars
    BY <2>1
  <2>2. ASSUME NEW k \in Keys, NEW v \in Values, SetDirectly(k, v) PROVE Reads
    <3>1. /\ op = Idle /\ op' = op /\ log2Size' = log2Size /\ Put(k, v)
          /\ UNCHANGED <<hash1, hash2>> /\ model' = [model EXCEPT ![k] = v]
      BY <2>2 DEF SetDirectly
    <3>2. log2Size \in Nat /\ IsTables(entries1, entries2, log2Size) /\ HashOK
          /\ op'.name # "resize"
      BY <1>1, <3>1, CountInvFacts DEF CountInv, Idle
    <3>3. Get2(k)' = v
      BY <3>1, <3>2, PutIsRead, PrimedGet2
    <3>4. model'[k] = v /\ \A j \in Keys : j # k => model'[j] = model[j]
      BY <1>1, <3>1 DEF CountInv, HTTypeOK
    <3> QED BY <3>3, <3>4
  <2>3. ASSUME SetResized PROVE Reads
    <3>1. /\ op.name = "put" /\ op' = Idle /\ log2Size' = log2Size /\ Put(op.key, op.value)
          /\ UNCHANGED <<hash1, hash2>> /\ model' = [model EXCEPT ![op.key] = op.value]
      BY <2>3 DEF SetResized
    <3>2. log2Size \in Nat /\ IsTables(entries1, entries2, log2Size) /\ HashOK
          /\ op'.name # "resize" /\ op.key \in Keys /\ op.value \in Values
      BY <1>1, <3>1, CountInvFacts DEF CountInv, OpTyped, Idle
    <3>3. Lookup(entries1', entries2', log2Size', op.key) = op.value
      <4> DEFINE k == op.key
                 v == op.value
      <4>1. k \in Keys /\ v \in Values /\ Put(k, v)
        BY <3>1, <3>2
      <4> HIDE DEF k, v
      <4>2. Lookup(entries1', entries2', log2Size, k) = v
        BY <3>2, <4>1, PutIsRead
      <4> QED BY <3>1, <4>2 DEF k, v
    <3>4. model'[op.key] = op.value /\ \A j \in Keys : j # op.key => model'[j] = model[j]
      BY <1>1, <3>1, <3>2 DEF CountInv, HTTypeOK
    <3>5. ASSUME NEW k \in Keys, model'[k] # model[k] PROVE Get2(k)' = model'[k]
      <4>1. Get2(k)' = Lookup(entries1', entries2', log2Size', k)
        BY <3>1, <3>2, PrimedGet2
      <4>2. k = op.key
        BY <3>4, <3>5
      <4> QED BY <3>3, <3>4, <4>1, <4>2
    <3> QED BY <3>5
  <2>4. ASSUME NEW k \in Keys, Delete(k) PROVE Reads
    <3>1. model'[k] = Absent /\ \A j \in Keys : j # k => model'[j] = model[j]
      BY <1>1, <2>4 DEF Delete, CountInv, HTTypeOK
    <3> QED BY <3>1
  <2>5. ASSUME model' = model PROVE Reads
    BY <2>5
  <2>6. ASSUME NEW k \in Keys, NEW v \in Values, SetResizing(k, v) PROVE model' = model
    BY <2>6 DEF SetResizing
  <2>7. Resize => model' = model
    BY DEF Resize, ResizeSlot, ResizePlace, ResizeDone
  <2> HIDE DEF Reads
  <2> QED BY <1>1, <2>1, <2>2, <2>3, <2>4, <2>5, <2>6, <2>7 DEF Next, Set
<1> HIDE DEF Reads
<1>2. Spec => [][Reads]_vars
  BY <1>1, HashTableCounts, PTL DEF Spec
<1> QED BY <1>2 DEF SetIsRead, Reads
-----------------------------------------------------------------------------
(* Tables that are a map                                                   *)

\* Every entry lies where its key may be.
InReach(e1, e2, log) ==
  /\ \A i \in DOMAIN e1 : e1[i] # Empty => i \in Slots(e1[i].key, log)
  /\ \A b \in DOMAIN e2 : \A j \in DOMAIN e2[b] : b = Index2(e2[b][j].key, log)

\* Every entry is the first that a search for its key comes upon.
FoundFirst(e1, e2, log) ==
  /\ \A i \in DOMAIN e1 : e1[i] # Empty => i = Least(Stops(e1, e1[i].key, log))
  /\ \A b \in DOMAIN e2 : \A j \in DOMAIN e2[b] :
       /\ Stops(e1, e2[b][j].key, log) = {}
       /\ j = Least(Places(e2[b], e2[b][j].key))

InOrder(e1, e2, log) == InReach(e1, e2, log) /\ FoundFirst(e1, e2, log)

Holds(e1, e2, e) ==
  \/ \E i \in DOMAIN e1 : e1[i] = e
  \/ \E b \in DOMAIN e2 : \E j \in DOMAIN e2[b] : e2[b][j] = e

NoKey(e1, e2, k) ==
  /\ \A i \in DOMAIN e1 : e1[i].key # k
  /\ \A b \in DOMAIN e2 : \A j \in DOMAIN e2[b] : e2[b][j].key # k

IsMap(e1, e2, log, m) ==
  /\ InOrder(e1, e2, log)
  /\ \A e \in Entry : Holds(e1, e2, e) <=> m[e.key] = e.value

LEMMA TableTypes ==
  ASSUME NEW log \in Nat, NEW e1, NEW e2, IsTables(e1, e2, log)
  PROVE  /\ DOMAIN e1 \subseteq Nat /\ DOMAIN e2 \subseteq Nat
         /\ \A i \in DOMAIN e1 : e1[i] # Empty => e1[i] \in Entry
         /\ \A i \in DOMAIN e1 : e1[i].key = Absent <=> e1[i] = Empty
         /\ \A b \in DOMAIN e2 : e2[b] \in Seq(Entry)
         /\ \A b \in DOMAIN e2 : \A j \in DOMAIN e2[b] : e2[b][j] \in Entry /\ j \in Nat
         /\ \A e \in Entry : e.key \in Keys /\ e # Empty /\ e.key # Absent /\ e.value \in Values
<1>1. \A e \in Entry : e.key \in Keys /\ e.key # Absent /\ e.value \in Values
  BY HashTableAssumption DEF Entry
<1>2. Empty.key = Absent
  BY DEF Empty
<1>3. \A i \in DOMAIN e1 : e1[i] # Empty => e1[i] \in Entry
  BY DEF IsTables
<1>4. \A b \in DOMAIN e2 : e2[b] \in Seq(Entry)
  BY DEF IsTables
<1>5. ASSUME NEW b \in DOMAIN e2, NEW j \in DOMAIN e2[b]
      PROVE  e2[b][j] \in Entry /\ j \in Nat
  BY <1>4
<1>6. DOMAIN e1 \subseteq Nat /\ DOMAIN e2 \subseteq Nat
  BY DEF IsTables
<1> QED BY <1>1, <1>2, <1>3, <1>4, <1>5, <1>6

\* A slot with the key k stops the search for it.
LEMMA KeyStops ==
  ASSUME HashOK, NEW log \in Nat, NEW e1, NEW e2, IsTables(e1, e2, log),
         InReach(e1, e2, log), NEW i \in DOMAIN e1, e1[i] # Empty
  PROVE  i \in Stops(e1, e1[i].key, log)
  BY DEF InReach, Stops

\* No key is in the tables twice.
LEMMA OneSlot ==
  ASSUME HashOK, NEW log \in Nat, NEW e1, NEW e2, IsTables(e1, e2, log),
         InOrder(e1, e2, log), NEW s \in DOMAIN e1, e1[s] # Empty
  PROVE  /\ \A i \in DOMAIN e1 : e1[i].key = e1[s].key => i = s
         /\ \A b \in DOMAIN e2 : \A j \in DOMAIN e2[b] : e2[b][j].key # e1[s].key
<1>1. s \in Stops(e1, e1[s].key, log)
  BY KeyStops DEF InOrder
<1>2. ASSUME NEW i \in DOMAIN e1, e1[i].key = e1[s].key PROVE i = s
  <2>1. e1[i] # Empty
    BY <1>2, TableTypes
  <2> QED BY <1>2, <2>1 DEF InOrder, FoundFirst
<1>3. ASSUME NEW b \in DOMAIN e2, NEW j \in DOMAIN e2[b] PROVE e2[b][j].key # e1[s].key
  BY <1>1, <1>3 DEF InOrder, FoundFirst
<1> QED BY <1>2, <1>3

LEMMA OnePlace ==
  ASSUME HashOK, NEW log \in Nat, NEW e1, NEW e2, IsTables(e1, e2, log),
         InOrder(e1, e2, log), NEW b \in DOMAIN e2, NEW j \in DOMAIN e2[b]
  PROVE  /\ \A i \in DOMAIN e1 : e1[i].key # e2[b][j].key
         /\ \A c \in DOMAIN e2 : \A l \in DOMAIN e2[c] :
              e2[c][l].key = e2[b][j].key => c = b /\ l = j
<1>1. ASSUME NEW i \in DOMAIN e1, e1[i].key = e2[b][j].key PROVE FALSE
  <2>1. e1[i] # Empty
    BY <1>1, TableTypes
  <2> QED BY <1>1, <2>1, OneSlot
<1>2. ASSUME NEW c \in DOMAIN e2, NEW l \in DOMAIN e2[c], e2[c][l].key = e2[b][j].key
      PROVE  c = b /\ l = j
  <2>1. c = b
    BY <1>2 DEF InOrder, InReach
  <2> QED BY <1>2, <2>1 DEF InOrder, FoundFirst
<1> QED BY <1>1, <1>2

\* The search finds what is there, and nothing else.
LEMMA LookupHeld ==
  ASSUME HashOK, NEW log \in Nat, NEW e1, NEW e2, IsTables(e1, e2, log),
         InOrder(e1, e2, log), NEW e \in Entry, Holds(e1, e2, e)
  PROVE  Lookup(e1, e2, log, e.key) = e.value
<1>1. ASSUME NEW i \in DOMAIN e1, e1[i] = e PROVE Lookup(e1, e2, log, e.key) = e.value
  <2>1. e1[i] # Empty
    BY <1>1, TableTypes
  <2>2. i \in Stops(e1, e.key, log) /\ i = Least(Stops(e1, e.key, log))
    BY <1>1, <2>1, KeyStops DEF InOrder, FoundFirst
  <2> QED BY <1>1, <2>2, LookupInWindow
<1>2. ASSUME NEW b \in DOMAIN e2, NEW j \in DOMAIN e2[b], e2[b][j] = e
      PROVE  Lookup(e1, e2, log, e.key) = e.value
  <2>1. b = Index2(e.key, log) /\ Stops(e1, e.key, log) = {} /\ j = Least(Places(e2[b], e.key))
    BY <1>2 DEF InOrder, InReach, FoundFirst
  <2>2. Places(e2[b], e.key) # {}
    BY <1>2 DEF Places
  <2> QED BY <1>2, <2>1, <2>2, LookupInBucket
<1> QED BY <1>1, <1>2 DEF Holds

LEMMA LookupNotHeld ==
  ASSUME HashOK, NEW log \in Nat, NEW e1, NEW e2, IsTables(e1, e2, log),
         NEW k \in Keys, NoKey(e1, e2, k)
  PROVE  Lookup(e1, e2, log, k) = Absent
<1>1. CASE Stops(e1, k, log) # {}
  <2> DEFINE s == Least(Stops(e1, k, log))
  <2>1. s \in Stops(e1, k, log) /\ s \in DOMAIN e1 /\ e1[s].key # k
    BY <1>1, StopsAndHoles DEF NoKey
  <2>2. e1[s] = Empty
    BY <2>1, StopsAndHoles
  <2> QED BY <1>1, <2>2, LookupInWindow DEF Empty
<1>2. CASE Stops(e1, k, log) = {}
  <2>1. Index2(k, log) \in DOMAIN e2
    BY StopsAndHoles
  <2>2. Places(e2[Index2(k, log)], k) = {}
    BY <2>1 DEF Places, NoKey
  <2> QED BY <1>2, <2>2 DEF Lookup
<1> QED BY <1>1, <1>2

LEMMA MapLookup ==
  ASSUME HashOK, NEW log \in Nat, NEW e1, NEW e2, IsTables(e1, e2, log),
         NEW m \in [Keys -> Values \cup {Absent}], IsMap(e1, e2, log, m), NEW k \in Keys
  PROVE  Lookup(e1, e2, log, k) = m[k]
<1>1. CASE m[k] # Absent
  <2> DEFINE e == [key |-> k, value |-> m[k]]
  <2>1. e \in Entry /\ e.key = k /\ e.value = m[k]
    BY <1>1 DEF Entry
  <2> HIDE DEF e
  <2>2. Holds(e1, e2, e)
    BY <2>1 DEF IsMap
  <2> QED BY <2>1, <2>2, LookupHeld DEF IsMap
<1>2. CASE m[k] = Absent
  <2>1. ASSUME NEW e \in Entry, Holds(e1, e2, e) PROVE e.key # k
    <3>1. m[e.key] = e.value /\ e.value # Absent
      BY <2>1, HashTableAssumption DEF IsMap, Entry
    <3> QED BY <1>2, <3>1
  <2>2. NoKey(e1, e2, k)
    <3>1. ASSUME NEW i \in DOMAIN e1 PROVE e1[i].key # k
      <4>1. CASE e1[i] = Empty
        BY <4>1, HashTableAssumption DEF Empty
      <4>2. CASE e1[i] # Empty
        BY <2>1, <4>2, TableTypes DEF Holds
      <4> QED BY <4>1, <4>2
    <3>2. ASSUME NEW b \in DOMAIN e2, NEW j \in DOMAIN e2[b] PROVE e2[b][j].key # k
      BY <2>1, TableTypes DEF Holds
    <3> QED BY <3>1, <3>2 DEF NoKey
  <2> QED BY <1>2, <2>2, LookupNotHeld
<1> QED BY <1>1, <1>2
-----------------------------------------------------------------------------
(* What the operations do to tables in order                               *)

LEMMA WithSlot ==
  ASSUME NEW log, NEW e1, NEW e2, IsTables(e1, e2, log), NEW s \in DOMAIN e1, NEW x
  PROVE  /\ DOMAIN With(e1, s, x) = DOMAIN e1 /\ With(e1, s, x)[s] = x
         /\ \A i \in DOMAIN e1 : i # s => With(e1, s, x)[i] = e1[i]
  BY DEF With

LEMMA LeastOfFewer ==
  ASSUME NEW S \in SUBSET Nat, NEW T \in SUBSET S, NEW i \in T, i = Least(S)
  PROVE  i = Least(T)
<1>1. i \in Nat /\ T \in SUBSET Nat
  OBVIOUS
<1>2. \A j \in T : i <= j
  BY LeastElement
<1>3. Least(T) \in T /\ \A j \in T : Least(T) <= j
  BY <1>1, LeastElement
<1> DEFINE t == Least(T)
<1>4. t \in T /\ t \in Nat /\ t <= i
  BY <1>1, <1>3
<1> HIDE DEF t
<1>5. i = t
  BY <1>1, <1>2, <1>4
<1> QED BY <1>5 DEF t

LEMMA Appended ==
  ASSUME NEW s \in Seq(Entry), NEW e \in Entry
  PROVE  /\ Append(s, e) \in Seq(Entry) /\ Len(s) + 1 \in Nat
         /\ DOMAIN Append(s, e) = 1..(Len(s) + 1) /\ Append(s, e)[Len(s) + 1] = e
         /\ Len(s) + 1 \in 1..(Len(s) + 1)
         /\ DOMAIN s = {j \in 1..(Len(s) + 1) : j # Len(s) + 1}
         /\ \A j \in DOMAIN s : Append(s, e)[j] = s[j]
<1>1. Len(s) \in Nat /\ DOMAIN s = 1..Len(s)
  OBVIOUS
<1>2. DOMAIN s = {j \in 1..(Len(s) + 1) : j # Len(s) + 1} /\ Len(s) + 1 \in 1..(Len(s) + 1)
  BY <1>1
<1>3. \A j \in DOMAIN s : Append(s, e)[j] = s[j]
  OBVIOUS
<1>4. DOMAIN Append(s, e) = 1..(Len(s) + 1) /\ Append(s, e)[Len(s) + 1] = e
  OBVIOUS
<1> QED BY <1>1, <1>2, <1>3, <1>4

\* The slots that stop a search are within the window.
LEMMA StopsInSlots ==
  ASSUME HashOK, NEW k \in Keys, NEW log \in Nat, NEW e1, NEW e2, IsTables(e1, e2, log)
  PROVE  Slots(k, log) \subseteq DOMAIN e1 /\ Stops(e1, k, log) \in SUBSET Nat
<1>1. DOMAIN e1 = 0..(Size[log] + Window - 1)
  BY DEF IsTables
<1> QED BY <1>1, WindowExists DEF Stops

\* A new key in the first empty slot of its window.
LEMMA HoleTaken ==
  ASSUME HashOK, NEW log \in Nat, NEW e1, NEW e2, IsTables(e1, e2, log), InOrder(e1, e2, log),
         NEW e \in Entry, NoKey(e1, e2, e.key), NEW s, Holes(e1, e.key, log) # {},
         s = Least(Holes(e1, e.key, log))
  PROVE  /\ InOrder(With(e1, s, e), e2, log)
         /\ \A x \in Entry : Holds(With(e1, s, e), e2, x) <=> Holds(e1, e2, x) \/ x = e
<1> DEFINE k == e.key
           f1 == With(e1, s, e)
<1>1. k \in Keys /\ e # Empty
  BY TableTypes
<1>2. s \in Holes(e1, k, log) /\ s \in DOMAIN e1 /\ s \in Slots(k, log) /\ e1[s] = Empty
  BY <1>1, StopsAndHoles DEF Holes
<1>3. DOMAIN f1 = DOMAIN e1 /\ f1[s] = e /\ \A i \in DOMAIN e1 : i # s => f1[i] = e1[i]
  BY <1>2, WithSlot
<1>4. IsTables(f1, e2, log)
  BY <1>2, SlotFilled
<1> HIDE DEF f1
<1>5. ASSUME NEW j \in Keys PROVE Slots(j, log) \subseteq DOMAIN e1
  BY StopsInSlots
<1>6. Stops(f1, k, log) = Holes(e1, k, log)
  <2>1. \A i \in Slots(k, log) : f1[i].key \in {k, Absent} <=> e1[i] = Empty
    <3> SUFFICES ASSUME NEW i \in Slots(k, log)
                 PROVE  f1[i].key \in {k, Absent} <=> e1[i] = Empty
      OBVIOUS
    <3>1. i \in DOMAIN e1
      BY <1>1, <1>5
    <3>2. e1[i].key # k /\ (e1[i].key = Absent <=> e1[i] = Empty)
      BY <3>1, TableTypes DEF NoKey
    <3> QED BY <1>2, <1>3, <3>1, <3>2
  <2> QED BY <2>1 DEF Stops, Holes
<1>7. ASSUME NEW j \in Keys, j # k
      PROVE  Stops(f1, j, log) \subseteq Stops(e1, j, log)
  <2> SUFFICES ASSUME NEW i \in Stops(f1, j, log) PROVE i \in Stops(e1, j, log)
    OBVIOUS
  <2>1. i \in Slots(j, log) /\ i \in DOMAIN e1 /\ f1[i].key \in {j, Absent}
    BY <1>5 DEF Stops
  <2>2. e.key # j /\ e.key # Absent
    BY <1>7, TableTypes
  <2>3. i # s
    BY <1>3, <2>1, <2>2
  <2> QED BY <1>3, <2>1, <2>3 DEF Stops
<1>8. InReach(f1, e2, log)
  BY <1>2, <1>3 DEF InReach, InOrder
<1>9. ASSUME NEW i \in DOMAIN f1, f1[i] # Empty
      PROVE  i = Least(Stops(f1, f1[i].key, log))
  <2>1. CASE i = s
    BY <1>3, <1>6, <2>1
  <2>2. CASE i # s
    <3> DEFINE j == e1[i].key
    <3>1. i \in DOMAIN e1 /\ f1[i] = e1[i] /\ e1[i] # Empty
      BY <1>3, <1>9, <2>2
    <3>2. j \in Keys /\ j # k
      BY <3>1, TableTypes DEF NoKey
    <3>3. i \in Stops(f1, j, log)
      BY <1>3, <1>4, <1>8, <1>9, <3>1, KeyStops
    <3>4. i = Least(Stops(e1, j, log))
      BY <3>1 DEF InOrder, FoundFirst
    <3> HIDE DEF j
    <3>5. Stops(e1, j, log) \in SUBSET Nat /\ Stops(f1, j, log) \in SUBSET Stops(e1, j, log)
      BY <1>7, <3>2, StopsInSlots
    <3>6. i = Least(Stops(f1, j, log))
      BY <3>3, <3>4, <3>5, LeastOfFewer
    <3> QED BY <3>1, <3>6 DEF j
  <2> QED BY <2>1, <2>2
<1>10. ASSUME NEW b \in DOMAIN e2, NEW j \in DOMAIN e2[b]
       PROVE  Stops(f1, e2[b][j].key, log) = {} /\ j = Least(Places(e2[b], e2[b][j].key))
  <2>1. e2[b][j].key \in Keys /\ e2[b][j].key # k
    BY TableTypes DEF NoKey
  <2>2. Stops(e1, e2[b][j].key, log) = {} /\ j = Least(Places(e2[b], e2[b][j].key))
    BY DEF InOrder, FoundFirst
  <2>3. Stops(f1, e2[b][j].key, log) \subseteq Stops(e1, e2[b][j].key, log)
    BY <1>7, <2>1
  <2> QED BY <2>2, <2>3
<1>11. InOrder(f1, e2, log)
  BY <1>8, <1>9, <1>10 DEF InOrder, FoundFirst
<1>12. ASSUME NEW x \in Entry
       PROVE  Holds(f1, e2, x) <=> Holds(e1, e2, x) \/ x = e
  <2>1. x # Empty
    BY TableTypes
  <2> QED BY <1>2, <1>3, <2>1 DEF Holds
<1> QED BY <1>11, <1>12 DEF f1

\* A new key behind the others of its bucket, when its window is full.
LEMMA BucketJoined ==
  ASSUME HashOK, NEW log \in Nat, NEW e1, NEW e2, IsTables(e1, e2, log), InOrder(e1, e2, log),
         NEW e \in Entry, NoKey(e1, e2, e.key), Holes(e1, e.key, log) = {},
         NEW b, b = Index2(e.key, log)
  PROVE  /\ InOrder(e1, With(e2, b, Append(e2[b], e)), log)
         /\ \A x \in Entry : Holds(e1, With(e2, b, Append(e2[b], e)), x)
                               <=> Holds(e1, e2, x) \/ x = e
<1> DEFINE k == e.key
           n == Len(e2[b]) + 1
           bucket == Append(e2[b], e)
           f2 == With(e2, b, bucket)
<1>1. k \in Keys /\ e # Empty
  BY TableTypes
<1>2. b \in DOMAIN e2 /\ e2[b] \in Seq(Entry)
  BY <1>1, StopsAndHoles
<1>3. /\ DOMAIN bucket = 1..n /\ n \in Nat /\ n \in 1..n /\ bucket[n] = e
      /\ DOMAIN e2[b] = {j \in 1..n : j # n}
      /\ \A j \in DOMAIN e2[b] : bucket[j] = e2[b][j]
      /\ bucket \in Seq(Entry)
  BY <1>2, Appended
<1> HIDE DEF bucket, n
<1>4. /\ DOMAIN f2 = DOMAIN e2 /\ f2[b] = bucket
      /\ \A c \in DOMAIN e2 : c # b => f2[c] = e2[c]
  BY <1>2, <1>3, BucketReplaced
<1> HIDE DEF f2
<1>5. Stops(e1, k, log) = {}
  <2>1. ASSUME NEW i \in Stops(e1, k, log) PROVE FALSE
    <3>1. i \in DOMAIN e1 /\ i \in Slots(k, log) /\ e1[i].key \in {k, Absent}
      BY <1>1, StopsAndHoles DEF Stops
    <3>2. e1[i] = Empty
      BY <3>1, TableTypes DEF NoKey
    <3> QED BY <3>1, <3>2 DEF Holes
  <2> QED BY <2>1
<1>6. ASSUME NEW c \in DOMAIN f2, NEW j \in DOMAIN f2[c]
      PROVE  \/ c = b /\ j = n /\ f2[c][j] = e
             \/ j \in DOMAIN e2[c] /\ f2[c][j] = e2[c][j]
  BY <1>3, <1>4
<1>7. ASSUME NEW c \in DOMAIN e2, NEW j \in DOMAIN e2[c]
      PROVE  j \in DOMAIN f2[c] /\ f2[c][j] = e2[c][j]
  BY <1>3, <1>4
<1>8. b \in DOMAIN f2 /\ n \in DOMAIN f2[b] /\ f2[b][n] = e
  BY <1>2, <1>3, <1>4
<1>9. InReach(e1, f2, log)
  <2>1. ASSUME NEW c \in DOMAIN f2, NEW j \in DOMAIN f2[c] PROVE c = Index2(f2[c][j].key, log)
    <3>1. CASE c = b /\ j = n /\ f2[c][j] = e
      BY <3>1
    <3>2. CASE j \in DOMAIN e2[c] /\ f2[c][j] = e2[c][j]
      BY <1>4, <3>2 DEF InOrder, InReach
    <3> QED BY <1>6, <3>1, <3>2
  <2> QED BY <2>1 DEF InOrder, InReach
<1>10. ASSUME NEW c \in DOMAIN f2, NEW j \in DOMAIN f2[c]
       PROVE  Stops(e1, f2[c][j].key, log) = {} /\ j = Least(Places(f2[c], f2[c][j].key))
  <2>1. CASE c = b /\ j = n /\ f2[c][j] = e
    <3>1. \A l \in DOMAIN f2[b] : f2[b][l].key = k <=> l = n
      BY <1>2, <1>3, <1>4 DEF NoKey
    <3>2. Places(f2[b], k) = {n}
      BY <1>8, <3>1 DEF Places
    <3> QED BY <1>3, <1>5, <2>1, <3>2, LeastOne
  <2>2. CASE j \in DOMAIN e2[c] /\ f2[c][j] = e2[c][j]
    <3> DEFINE m == e2[c][j].key
    <3>1. c \in DOMAIN e2
      BY <1>4
    <3>2. Stops(e1, m, log) = {} /\ j = Least(Places(e2[c], m)) /\ m # k
      BY <2>2, <3>1 DEF InOrder, FoundFirst, NoKey
    <3>3. Places(f2[c], m) = Places(e2[c], m)
      <4> HIDE DEF m
      <4>1. CASE c # b
        BY <1>4, <3>1, <4>1
      <4>2. CASE c = b
        <5>1. \A l \in DOMAIN f2[b] : f2[b][l].key = m => l \in DOMAIN e2[b]
          BY <1>3, <1>4, <3>2
        <5> QED BY <1>3, <1>4, <4>2, <5>1 DEF Places
      <4> QED BY <4>1, <4>2
    <3> QED BY <2>2, <3>2, <3>3
  <2> QED BY <1>6, <2>1, <2>2
<1>11. InOrder(e1, f2, log)
  BY <1>9, <1>10 DEF InOrder, FoundFirst
<1>12. ASSUME NEW x \in Entry
       PROVE  Holds(e1, f2, x) <=> Holds(e1, e2, x) \/ x = e
  <2>1. Holds(e1, f2, x) => Holds(e1, e2, x) \/ x = e
    BY <1>4, <1>6 DEF Holds
  <2>2. Holds(e1, e2, x) => Holds(e1, f2, x)
    BY <1>4, <1>7 DEF Holds
  <2>3. Holds(e1, f2, e)
    BY <1>8 DEF Holds
  <2> QED BY <2>1, <2>2, <2>3
<1> QED BY <1>11, <1>12 DEF f2, bucket

\* A new value for a key in its window.
LEMMA SlotRewritten ==
  ASSUME HashOK, NEW log \in Nat, NEW e1, NEW e2, IsTables(e1, e2, log), InOrder(e1, e2, log),
         NEW s \in DOMAIN e1, e1[s] # Empty, NEW e \in Entry, e.key = e1[s].key
  PROVE  /\ InOrder(With(e1, s, e), e2, log)
         /\ \A x \in Entry : Holds(With(e1, s, e), e2, x)
                               <=> (Holds(e1, e2, x) /\ x.key # e.key) \/ x = e
<1> DEFINE f1 == With(e1, s, e)
<1>1. DOMAIN f1 = DOMAIN e1 /\ f1[s] = e /\ \A i \in DOMAIN e1 : i # s => f1[i] = e1[i]
  BY WithSlot
<1>2. e # Empty
  BY TableTypes
<1> HIDE DEF f1
<1>3. \A i \in DOMAIN e1 : f1[i].key = e1[i].key /\ (f1[i] = Empty <=> e1[i] = Empty)
  BY <1>1, <1>2
<1>4. ASSUME NEW k \in Keys PROVE Stops(f1, k, log) = Stops(e1, k, log)
  <2>1. Slots(k, log) \subseteq DOMAIN e1
    BY StopsInSlots
  <2> QED BY <1>3, <2>1 DEF Stops
<1>5. InReach(f1, e2, log)
  BY <1>1, <1>3 DEF InOrder, InReach
<1>6. ASSUME NEW i \in DOMAIN f1, f1[i] # Empty PROVE i = Least(Stops(f1, f1[i].key, log))
  <2>1. i \in DOMAIN e1 /\ e1[i] # Empty /\ e1[i].key = f1[i].key
    BY <1>1, <1>3, <1>6
  <2>2. i = Least(Stops(e1, e1[i].key, log)) /\ e1[i].key \in Keys
    BY <2>1, TableTypes DEF InOrder, FoundFirst
  <2> QED BY <1>4, <2>1, <2>2
<1>7. ASSUME NEW b \in DOMAIN e2, NEW j \in DOMAIN e2[b]
      PROVE  Stops(f1, e2[b][j].key, log) = {} /\ j = Least(Places(e2[b], e2[b][j].key))
  <2>1. e2[b][j].key \in Keys
    BY TableTypes
  <2> QED BY <1>4, <2>1 DEF InOrder, FoundFirst
<1>8. InOrder(f1, e2, log)
  BY <1>5, <1>6, <1>7 DEF InOrder, FoundFirst
<1>9. /\ \A i \in DOMAIN e1 : i # s => e1[i].key # e.key
      /\ \A b \in DOMAIN e2 : \A j \in DOMAIN e2[b] : e2[b][j].key # e.key
  BY OneSlot
<1>10. ASSUME NEW x \in Entry
       PROVE  Holds(f1, e2, x) <=> (Holds(e1, e2, x) /\ x.key # e.key) \/ x = e
  <2>1. ASSUME Holds(f1, e2, x), x # e PROVE Holds(e1, e2, x) /\ x.key # e.key
    BY <1>1, <1>9, <2>1 DEF Holds
  <2>2. ASSUME Holds(e1, e2, x), x.key # e.key PROVE Holds(f1, e2, x)
    BY <1>1, <2>2 DEF Holds
  <2>3. Holds(f1, e2, e)
    BY <1>1 DEF Holds
  <2> QED BY <2>1, <2>2, <2>3
<1> QED BY <1>8, <1>10 DEF f1

\* A new value for a key in its bucket.
LEMMA PlaceRewritten ==
  ASSUME HashOK, NEW log \in Nat, NEW e1, NEW e2, IsTables(e1, e2, log), InOrder(e1, e2, log),
         NEW b \in DOMAIN e2, NEW i \in DOMAIN e2[b], NEW e \in Entry, e.key = e2[b][i].key
  PROVE  /\ InOrder(e1, With(e2, b, With(e2[b], i, e)), log)
         /\ \A x \in Entry : Holds(e1, With(e2, b, With(e2[b], i, e)), x)
                               <=> (Holds(e1, e2, x) /\ x.key # e.key) \/ x = e
<1> DEFINE bucket == With(e2[b], i, e)
           f2 == With(e2, b, bucket)
<1>1. e2[b] \in Seq(Entry)
  BY TableTypes
<1>2. /\ bucket \in Seq(Entry) /\ DOMAIN bucket = DOMAIN e2[b] /\ bucket[i] = e
      /\ \A j \in DOMAIN e2[b] : j # i => bucket[j] = e2[b][j]
  BY <1>1 DEF With
<1> HIDE DEF bucket
<1>3. /\ DOMAIN f2 = DOMAIN e2 /\ f2[b] = bucket
      /\ \A c \in DOMAIN e2 : c # b => f2[c] = e2[c]
  BY <1>2, BucketReplaced
<1> HIDE DEF f2
<1>4. \A c \in DOMAIN e2 : /\ DOMAIN f2[c] = DOMAIN e2[c]
                           /\ \A j \in DOMAIN e2[c] : f2[c][j].key = e2[c][j].key
  BY <1>2, <1>3
<1>5. \A c \in DOMAIN e2 : \A j \in DOMAIN e2[c] : c # b \/ j # i => f2[c][j] = e2[c][j]
  BY <1>2, <1>3
<1>6. f2[b][i] = e
  BY <1>2, <1>3
<1>7. ASSUME NEW c \in DOMAIN e2, NEW k PROVE Places(f2[c], k) = Places(e2[c], k)
  BY <1>4 DEF Places
<1>8. InOrder(e1, f2, log)
  <2>1. InReach(e1, f2, log)
    BY <1>3, <1>4 DEF InOrder, InReach
  <2>2. ASSUME NEW c \in DOMAIN f2, NEW j \in DOMAIN f2[c]
        PROVE  Stops(e1, f2[c][j].key, log) = {} /\ j = Least(Places(f2[c], f2[c][j].key))
    <3>1. c \in DOMAIN e2 /\ j \in DOMAIN e2[c] /\ f2[c][j].key = e2[c][j].key
      BY <1>3, <1>4
    <3>2. Places(f2[c], e2[c][j].key) = Places(e2[c], e2[c][j].key)
      BY <1>7, <3>1
    <3>3. Stops(e1, e2[c][j].key, log) = {} /\ j = Least(Places(e2[c], e2[c][j].key))
      BY <3>1 DEF InOrder, FoundFirst
    <3> QED BY <3>1, <3>2, <3>3
  <2>3. FoundFirst(e1, f2, log)
    BY <2>2 DEF InOrder, FoundFirst
  <2> QED BY <2>1, <2>3 DEF InOrder
<1>9. /\ \A j \in DOMAIN e1 : e1[j].key # e.key
      /\ \A c \in DOMAIN e2 : \A j \in DOMAIN e2[c] : e2[c][j].key = e.key => c = b /\ j = i
  BY OnePlace
<1>10. ASSUME NEW x \in Entry
       PROVE  Holds(e1, f2, x) <=> (Holds(e1, e2, x) /\ x.key # e.key) \/ x = e
  <2>1. ASSUME Holds(e1, f2, x), x # e PROVE Holds(e1, e2, x) /\ x.key # e.key
    BY <1>3, <1>4, <1>5, <1>6, <1>9, <2>1 DEF Holds
  <2>2. ASSUME Holds(e1, e2, x), x.key # e.key PROVE Holds(e1, f2, x)
    BY <1>3, <1>4, <1>5, <2>2 DEF Holds
  <2>3. Holds(e1, f2, e)
    BY <1>3, <1>4, <1>6 DEF Holds
  <2> QED BY <2>1, <2>2, <2>3
<1> QED BY <1>8, <1>10 DEF f2, bucket

\* A key taken out of its window.
LEMMA SlotCleared ==
  ASSUME HashOK, NEW log \in Nat, NEW e1, NEW e2, IsTables(e1, e2, log), InOrder(e1, e2, log),
         NEW s \in DOMAIN e1, e1[s] # Empty
  PROVE  /\ InReach(With(e1, s, Empty), e2, log)
         /\ \A x \in Entry : Holds(With(e1, s, Empty), e2, x)
                               <=> Holds(e1, e2, x) /\ x.key # e1[s].key
<1> DEFINE f1 == With(e1, s, Empty)
<1>1. DOMAIN f1 = DOMAIN e1 /\ f1[s] = Empty /\ \A i \in DOMAIN e1 : i # s => f1[i] = e1[i]
  BY WithSlot
<1> HIDE DEF f1
<1>2. InReach(f1, e2, log)
  BY <1>1 DEF InOrder, InReach
<1>3. /\ \A i \in DOMAIN e1 : i # s => e1[i].key # e1[s].key
      /\ \A b \in DOMAIN e2 : \A j \in DOMAIN e2[b] : e2[b][j].key # e1[s].key
  BY OneSlot
<1>4. ASSUME NEW x \in Entry
      PROVE  Holds(f1, e2, x) <=> Holds(e1, e2, x) /\ x.key # e1[s].key
  <2>1. x # Empty
    BY TableTypes
  <2> QED BY <1>1, <1>3, <2>1 DEF Holds
<1> QED BY <1>2, <1>4 DEF f1

\* A key taken out of its bucket, whose last entry takes its place.
LEMMA PlaceCleared ==
  ASSUME HashOK, NEW log \in Nat, NEW e1, NEW e2, IsTables(e1, e2, log), InOrder(e1, e2, log),
         NEW b \in DOMAIN e2, NEW i \in DOMAIN e2[b]
  PROVE  /\ InReach(e1, With(e2, b, SwapRemove(e2[b], i)), log)
         /\ \A x \in Entry : Holds(e1, With(e2, b, SwapRemove(e2[b], i)), x)
                               <=> Holds(e1, e2, x) /\ x.key # e2[b][i].key
<1> DEFINE bucket == SwapRemove(e2[b], i)
           n == Len(e2[b])
           f2 == With(e2, b, bucket)
           k == e2[b][i].key
<1>1. e2[b] \in Seq(Entry)
  BY TableTypes
<1>2. /\ bucket \in Seq(Entry) /\ DOMAIN bucket = DOMAIN e2[b] \ {n} /\ n \in DOMAIN e2[b]
      /\ \A j \in DOMAIN e2[b] \ {n} : bucket[j] = IF j = i THEN e2[b][n] ELSE e2[b][j]
  BY <1>1, SwapRemoved
<1> HIDE DEF bucket, n
<1>3. /\ DOMAIN f2 = DOMAIN e2 /\ f2[b] = bucket
      /\ \A c \in DOMAIN e2 : c # b => f2[c] = e2[c]
  BY <1>2, BucketReplaced
<1> HIDE DEF f2
<1>4. /\ \A j \in DOMAIN e1 : e1[j].key # k
      /\ \A c \in DOMAIN e2 : \A j \in DOMAIN e2[c] : e2[c][j].key = k => c = b /\ j = i
  BY OnePlace
<1>5. ASSUME NEW c \in DOMAIN f2, NEW j \in DOMAIN f2[c]
      PROVE  \E l \in DOMAIN e2[c] : f2[c][j] = e2[c][l] /\ e2[c][l].key # k
  <2>1. CASE c # b
    BY <1>3, <1>4, <2>1
  <2>2. CASE c = b /\ j = i
    <3>1. f2[c][j] = e2[c][n] /\ n # i /\ n \in DOMAIN e2[c]
      BY <1>2, <1>3, <2>2
    <3> QED BY <1>4, <2>2, <3>1
  <2>3. CASE c = b /\ j # i
    <3>1. f2[c][j] = e2[c][j] /\ j \in DOMAIN e2[c]
      BY <1>2, <1>3, <2>3
    <3> QED BY <1>4, <2>3, <3>1
  <2> QED BY <2>1, <2>2, <2>3
<1>6. ASSUME NEW c \in DOMAIN e2, NEW j \in DOMAIN e2[c], e2[c][j].key # k
      PROVE  \E l \in DOMAIN f2[c] : f2[c][l] = e2[c][j]
  <2>1. CASE c # b
    BY <1>3, <2>1
  <2>2. CASE c = b /\ j = n
    <3>1. n # i
      BY <1>6, <2>2
    <3>2. i \in DOMAIN f2[b] /\ f2[b][i] = e2[b][n]
      BY <1>2, <1>3, <3>1
    <3> QED BY <2>2, <3>2
  <2>3. CASE c = b /\ j # n
    <3>1. j # i
      BY <1>6, <2>3
    <3>2. j \in DOMAIN f2[b] /\ f2[b][j] = e2[b][j]
      BY <1>2, <1>3, <2>3, <3>1
    <3> QED BY <2>3, <3>2
  <2> QED BY <2>1, <2>2, <2>3
<1>7. InReach(e1, f2, log)
  <2>1. ASSUME NEW c \in DOMAIN f2, NEW j \in DOMAIN f2[c] PROVE c = Index2(f2[c][j].key, log)
    BY <1>3, <1>5 DEF InOrder, InReach
  <2> QED BY <2>1 DEF InOrder, InReach
<1>8. ASSUME NEW x \in Entry
      PROVE  Holds(e1, f2, x) <=> Holds(e1, e2, x) /\ x.key # k
  <2>1. ASSUME Holds(e1, f2, x) PROVE Holds(e1, e2, x) /\ x.key # k
    <3>1. CASE \E j \in DOMAIN e1 : e1[j] = x
      BY <1>4, <3>1 DEF Holds
    <3>2. ASSUME NEW c \in DOMAIN f2, NEW j \in DOMAIN f2[c], f2[c][j] = x
          PROVE  Holds(e1, e2, x) /\ x.key # k
      BY <1>3, <1>5, <3>2 DEF Holds
    <3> QED BY <2>1, <3>1, <3>2 DEF Holds
  <2>2. ASSUME Holds(e1, e2, x), x.key # k PROVE Holds(e1, f2, x)
    <3>1. CASE \E j \in DOMAIN e1 : e1[j] = x
      BY <3>1 DEF Holds
    <3>2. ASSUME NEW c \in DOMAIN e2, NEW j \in DOMAIN e2[c], e2[c][j] = x
          PROVE  Holds(e1, f2, x)
      BY <1>3, <1>6, <2>2, <3>2 DEF Holds
    <3> QED BY <2>2, <3>1, <3>2 DEF Holds
  <2> QED BY <2>1, <2>2
<1> QED BY <1>7, <1>8 DEF f2, bucket

-----------------------------------------------------------------------------
(* The second invariant                                                    *)

\* e is in one of these slots or places, which resize has still to move.
Among(slots, places, e) ==
  \/ \E i \in slots : entries1[i] = e
  \/ \E p \in places : entries2[p[1]][p[2]] = e

\* The new tables n1 and n2 are in order, and they and what is still to be
\* moved share the map.
Shared(n1, n2, slots, places) ==
  \A e \in Entry :
    /\ Holds(n1, n2, e) \/ Among(slots, places, e) <=> model[e.key] = e.value
    /\ ~ (Holds(n1, n2, e) /\ Among(slots, places, e))

MapMoving ==
  op.name = "resize" =>
    InOrder(op.new1, op.new2, log2Size) /\ Shared(op.new1, op.new2, op.slots, op.places)

MapInv == intact => IsMap(entries1, entries2, TableLog, model) /\ MapMoving
-----------------------------------------------------------------------------
(* A Set that has room                                                     *)

LEMMA HeldKeys ==
  ASSUME NEW e1, NEW e2, NEW k, NoKey(e1, e2, k), NEW x \in Entry, Holds(e1, e2, x)
  PROVE  x.key # k
  BY DEF NoKey, Holds

\* A key that is not in the tables does not stop a search for it.
LEMMA NoKeyStops ==
  ASSUME HashOK, NEW k \in Keys, NEW log \in Nat, NEW e1, NEW e2, IsTables(e1, e2, log),
         NoKey(e1, e2, k)
  PROVE  Stops(e1, k, log) = Holes(e1, k, log)
<1>1. ASSUME NEW i \in Stops(e1, k, log) PROVE i \in Holes(e1, k, log)
  <2>1. i \in DOMAIN e1 /\ i \in Slots(k, log)
    BY StopsAndHoles DEF Stops
  <2>2. e1[i] = Empty
    BY <2>1, StopsAndHoles DEF NoKey
  <2> QED BY <2>1, <2>2 DEF Holes
<1>2. Holes(e1, k, log) \subseteq Stops(e1, k, log)
  BY StopsAndHoles
<1> QED BY <1>1, <1>2

\* A search for k that ends at an empty slot, or in neither table, shows that
\* k is in neither.
LEMMA NotFound ==
  ASSUME HashOK, NEW k \in Keys, NEW log \in Nat, NEW e1, NEW e2, IsTables(e1, e2, log),
         InOrder(e1, e2, log),
         \/ Stops(e1, k, log) # {} /\ e1[Least(Stops(e1, k, log))] = Empty
         \/ Stops(e1, k, log) = {} /\ Places(e2[Index2(k, log)], k) = {}
  PROVE  NoKey(e1, e2, k)
<1>1. ASSUME NEW i \in DOMAIN e1, e1[i].key = k PROVE FALSE
  <2>1. e1[i] # Empty
    <3>1. k # Absent
      BY HashTableAssumption
    <3> QED BY <1>1, <3>1, TableTypes
  <2>2. i \in Stops(e1, k, log) /\ i = Least(Stops(e1, k, log))
    BY <1>1, <2>1, KeyStops DEF InOrder, FoundFirst
  <2> QED BY <2>1, <2>2
<1>2. ASSUME NEW b \in DOMAIN e2, NEW j \in DOMAIN e2[b], e2[b][j].key = k PROVE FALSE
  <2>1. Stops(e1, k, log) = {} /\ b = Index2(k, log)
    BY <1>2 DEF InOrder, InReach, FoundFirst
  <2>2. j \in Places(e2[b], k)
    BY <1>2 DEF Places
  <2> QED BY <2>1, <2>2
<1> QED BY <1>1, <1>2 DEF NoKey

LEMMA PutInOrder ==
  ASSUME HashOK, log2Size \in Nat, IsTables(entries1, entries2, log2Size),
         InOrder(entries1, entries2, log2Size),
         NEW k \in Keys, NEW v \in Values, Put(k, v)
  PROVE  /\ InOrder(entries1', entries2', log2Size)
         /\ \A x \in Entry : Holds(entries1', entries2', x)
              <=> (Holds(entries1, entries2, x) /\ x.key # k) \/ x = [key |-> k, value |-> v]
<1> DEFINE entry == [key |-> k, value |-> v]
           stops == Stops(entries1, k, log2Size)
           b == Index2(k, log2Size)
           places == Places(entries2[b], k)
           Becomes == \A x \in Entry : Holds(entries1', entries2', x)
                        <=> (Holds(entries1, entries2, x) /\ x.key # k) \/ x = entry
<1>1. entry \in Entry /\ entry.key = k
  BY DEF Entry
<1>2. /\ stops # {} => Least(stops) \in stops
      /\ stops \subseteq DOMAIN entries1
      /\ \A i \in stops : entries1[i] = Empty \/ entries1[i].key = k
      /\ b \in DOMAIN entries2 /\ entries2[b] \in Seq(Entry)
  BY StopsAndHoles
<1>3. CASE stops # {}
  <2> DEFINE s == Least(stops)
  <2>1. entries1' = With(entries1, s, entry) /\ entries2' = entries2
    BY <1>3 DEF Put, With
  <2>2. CASE entries1[s] = Empty
    <3>1. NoKey(entries1, entries2, k)
      BY <1>3, <2>2, NotFound
    <3>2. stops = Holes(entries1, k, log2Size)
      BY <3>1, NoKeyStops
    <3>3. s = Least(Holes(entries1, entry.key, log2Size)) /\ Holes(entries1, entry.key, log2Size) # {}
          /\ NoKey(entries1, entries2, entry.key)
      BY <1>1, <1>3, <3>1, <3>2
    <3> HIDE DEF entry, s
    <3>4. /\ InOrder(With(entries1, s, entry), entries2, log2Size)
          /\ \A x \in Entry : Holds(With(entries1, s, entry), entries2, x)
                                <=> Holds(entries1, entries2, x) \/ x = entry
      BY <1>1, <3>3, HoleTaken
    <3>5. Becomes
      BY <2>1, <3>1, <3>4, HeldKeys
    <3> QED BY <2>1, <3>4, <3>5 DEF entry
  <2>3. CASE entries1[s] # Empty
    <3>1. s \in DOMAIN entries1 /\ entry.key = entries1[s].key
      BY <1>1, <1>2, <1>3, <2>3
    <3> HIDE DEF entry, s
    <3>2. /\ InOrder(With(entries1, s, entry), entries2, log2Size)
          /\ \A x \in Entry : Holds(With(entries1, s, entry), entries2, x)
                                <=> (Holds(entries1, entries2, x) /\ x.key # entry.key) \/ x = entry
      BY <1>1, <2>3, <3>1, SlotRewritten
    <3> QED BY <1>1, <2>1, <3>2 DEF entry
  <2> QED BY <2>2, <2>3
<1>4. CASE stops = {} /\ places = {}
  <2>1. entries1' = entries1 /\ entries2' = With(entries2, b, Append(entries2[b], entry))
    BY <1>4 DEF Put, With
  <2>2. NoKey(entries1, entries2, k)
    BY <1>4, NotFound
  <2>3. Holes(entries1, entry.key, log2Size) = {} /\ b = Index2(entry.key, log2Size)
        /\ NoKey(entries1, entries2, entry.key)
    BY <1>1, <1>4, <2>2, NoKeyStops
  <2> HIDE DEF entry, b
  <2>4. /\ InOrder(entries1, With(entries2, b, Append(entries2[b], entry)), log2Size)
        /\ \A x \in Entry : Holds(entries1, With(entries2, b, Append(entries2[b], entry)), x)
                              <=> Holds(entries1, entries2, x) \/ x = entry
    BY <1>1, <2>3, BucketJoined
  <2>5. Becomes
    BY <2>1, <2>2, <2>4, HeldKeys
  <2> QED BY <2>1, <2>4, <2>5 DEF entry
<1>5. CASE stops = {} /\ places # {}
  <2> DEFINE i == Least(places)
  <2>1. entries1' = entries1
        /\ entries2' = With(entries2, b, With(entries2[b], i, entry))
    BY <1>5 DEF Put, With
  <2>2. i \in places
    BY <1>2, <1>5, PlacesInBucket
  <2>3. i \in DOMAIN entries2[b] /\ entry.key = entries2[b][i].key
    BY <1>1, <2>2 DEF Places
  <2> HIDE DEF entry, b, i
  <2>4. /\ InOrder(entries1, With(entries2, b, With(entries2[b], i, entry)), log2Size)
        /\ \A x \in Entry : Holds(entries1, With(entries2, b, With(entries2[b], i, entry)), x)
                              <=> (Holds(entries1, entries2, x) /\ x.key # entry.key) \/ x = entry
    BY <1>1, <1>2, <2>3, PlaceRewritten
  <2> QED BY <1>1, <2>1, <2>4 DEF entry
<1> QED BY <1>3, <1>4, <1>5

\* Set on tables that are a map makes the map that it should.
LEMMA PutOnMap ==
  ASSUME HashOK, log2Size \in Nat, IsTables(entries1, entries2, log2Size),
         NEW m \in [Keys -> Values \cup {Absent}], IsMap(entries1, entries2, log2Size, m),
         NEW k \in Keys, NEW v \in Values, Put(k, v)
  PROVE  IsMap(entries1', entries2', log2Size, [m EXCEPT ![k] = v])
<1> DEFINE entry == [key |-> k, value |-> v]
           m2 == [m EXCEPT ![k] = v]
<1>1. /\ InOrder(entries1', entries2', log2Size)
      /\ \A x \in Entry : Holds(entries1', entries2', x)
           <=> (Holds(entries1, entries2, x) /\ x.key # k) \/ x = entry
  BY PutInOrder DEF IsMap
<1>2. \A x \in Entry : x.key \in Keys /\ (x = entry <=> x.key = k /\ x.value = v)
  BY DEF Entry
<1>3. m2[k] = v /\ \A j \in Keys : j # k => m2[j] = m[j]
  OBVIOUS
<1> HIDE DEF entry, m2
<1>4. ASSUME NEW x \in Entry
      PROVE  Holds(entries1', entries2', x) <=> m2[x.key] = x.value
  <2>1. Holds(entries1, entries2, x) <=> m[x.key] = x.value
    BY DEF IsMap
  <2> QED BY <1>1, <1>2, <1>3, <2>1
<1> QED BY <1>1, <1>4 DEF IsMap, m2

\* What holds of the tables right after a step holds in the next state.
LEMMA PrimedMap ==
  ASSUME UNCHANGED <<hash1, hash2>>, NEW log, TableLog' = log, NEW m, model' = m,
         IsMap(entries1', entries2', log, m)
  PROVE  IsMap(entries1, entries2, TableLog, model)'
  BY DEF IsMap, InOrder, InReach, FoundFirst, Holds, Entry, Empty,
         Stops, Slots, Index1, Index2, Places, Least

LEMMA PrimedMoving ==
  ASSUME UNCHANGED <<hash1, hash2, entries1, entries2, model>>, NEW log, log2Size' = log,
         NEW n1, NEW n2, NEW slots, NEW places,
         op'.new1 = n1, op'.new2 = n2, op'.slots = slots, op'.places = places,
         InOrder(n1, n2, log), Shared(n1, n2, slots, places)
  PROVE  MapMoving'
<1>1. InOrder(op.new1, op.new2, log2Size)'
  BY DEF InOrder, InReach, FoundFirst, Empty, Stops, Slots, Index1, Index2, Places, Least
<1>2. Shared(op.new1, op.new2, op.slots, op.places)'
  BY DEF Shared, Among, Holds, Entry
<1> QED BY <1>1, <1>2 DEF MapMoving

LEMMA VisibleNext ==
  ASSUME UNCHANGED <<hash1, hash2, log2Size>>, Visible'
  PROVE  FoundFirst(entries1', entries2', log2Size)
  BY DEF Visible, FoundFirst, Empty, Stops, Slots, Index1, Index2, Places, Least

LEMMA SettledMap ==
  ASSUME UNCHANGED <<hash1, hash2>>, op'.name # "resize", NEW log, log2Size' = log,
         NEW m, model' = m, IsMap(entries1', entries2', log, m)
  PROVE  MapInv'
<1>1. TableLog' = log
  BY DEF TableLog
<1>2. IsMap(entries1, entries2, TableLog, model)'
  BY <1>1, PrimedMap
<1> QED BY <1>2 DEF MapInv, MapMoving

LEMMA EmptyTables ==
  ASSUME NEW log \in Nat
  PROVE  /\ InOrder(NewEntries1(log), NewEntries2(log), log)
         /\ \A e \in Entry : ~ Holds(NewEntries1(log), NewEntries2(log), e)
<1> DEFINE e1 == NewEntries1(log)
           e2 == NewEntries2(log)
<1>1. \A i \in DOMAIN e1 : e1[i] = Empty
  BY DEF NewEntries1
<1>2. \A b \in DOMAIN e2 : e2[b] = <<>>
  BY DEF NewEntries2
<1> HIDE DEF e1, e2
<1>3. \A b \in DOMAIN e2 : DOMAIN e2[b] = {}
  BY <1>2
<1>4. InOrder(e1, e2, log)
  BY <1>1, <1>3 DEF InOrder, InReach, FoundFirst
<1>5. \A e \in Entry : e # Empty
  <2>1. Empty.key = Absent
    BY DEF Empty
  <2>2. \A e \in Entry : e.key \in Keys
    BY DEF Entry
  <2>3. Absent \notin Keys
    BY HashTableAssumption
  <2> QED BY <2>1, <2>2, <2>3
<1>6. \A e \in Entry : ~ Holds(e1, e2, e)
  BY <1>1, <1>3, <1>5 DEF Holds
<1> QED BY <1>4, <1>6 DEF e1, e2

LEMMA InitMapInv == Init => MapInv
<1> SUFFICES ASSUME Init PROVE MapInv
  OBVIOUS
<1>1. InitLog \in Nat /\ Absent \notin Values
  BY HashTableAssumption
<1>2. /\ InOrder(entries1, entries2, log2Size) /\ \A e \in Entry : ~ Holds(entries1, entries2, e)
  BY <1>1, EmptyTables DEF Init
<1>3. \A e \in Entry : model[e.key] # e.value
  BY <1>1 DEF Init, Entry
<1>4. op.name # "resize" /\ TableLog = log2Size
  BY DEF Init, Idle, TableLog
<1> QED BY <1>2, <1>3, <1>4 DEF MapInv, MapMoving, IsMap

LEMMA SetDirectlyMapInv ==
  ASSUME CountInv, MapInv, NEW k \in Keys, NEW v \in Values, SetDirectly(k, v), intact'
  PROVE  MapInv'
<1>1. /\ op = Idle /\ op' = op /\ log2Size' = log2Size /\ Put(k, v) /\ intact
      /\ UNCHANGED <<hash1, hash2>> /\ model' = [model EXCEPT ![k] = v]
  BY DEF SetDirectly
<1>2. /\ log2Size \in Nat /\ TableLog = log2Size /\ HashOK /\ op'.name # "resize"
      /\ IsTables(entries1, entries2, log2Size) /\ model \in [Keys -> Values \cup {Absent}]
  BY <1>1, CountInvFacts DEF CountInv, HTTypeOK, Idle
<1>3. IsMap(entries1, entries2, log2Size, model)
  BY <1>1, <1>2 DEF MapInv
<1>4. IsMap(entries1', entries2', log2Size, [model EXCEPT ![k] = v])
  BY <1>1, <1>2, <1>3, PutOnMap
<1> QED BY <1>1, <1>2, <1>4, SettledMap

LEMMA SetResizedMapInv ==
  ASSUME CountInv, MapInv, SetResized, intact'
  PROVE  MapInv'
<1> DEFINE k == op.key
           v == op.value
<1>1. /\ op.name = "put" /\ op' = Idle /\ log2Size' = log2Size /\ Put(k, v) /\ intact
      /\ UNCHANGED <<hash1, hash2>> /\ model' = [model EXCEPT ![k] = v]
  BY DEF SetResized
<1>2. /\ log2Size \in Nat /\ TableLog = log2Size /\ HashOK /\ op'.name # "resize"
      /\ IsTables(entries1, entries2, log2Size) /\ model \in [Keys -> Values \cup {Absent}]
  BY <1>1, CountInvFacts DEF CountInv, HTTypeOK, Idle
<1>3. k \in Keys /\ v \in Values
  BY <1>1 DEF CountInv, OpTyped, Idle
<1> HIDE DEF k, v
<1>4. IsMap(entries1, entries2, log2Size, model)
  BY <1>1, <1>2 DEF MapInv
<1>5. IsMap(entries1', entries2', log2Size, [model EXCEPT ![k] = v])
  BY <1>1, <1>2, <1>3, <1>4, PutOnMap
<1> QED BY <1>1, <1>2, <1>5, SettledMap

LEMMA KeyRemoved ==
  ASSUME NEW log, NEW e1, NEW e2, NEW m \in [Keys -> Values \cup {Absent}],
         IsMap(e1, e2, log, m), NEW f1, NEW f2, NEW k \in Keys, InOrder(f1, f2, log),
         \A x \in Entry : Holds(f1, f2, x) <=> Holds(e1, e2, x) /\ x.key # k
  PROVE  IsMap(f1, f2, log, [m EXCEPT ![k] = Absent])
<1> DEFINE m2 == [m EXCEPT ![k] = Absent]
<1>1. m2[k] = Absent /\ \A j \in Keys : j # k => m2[j] = m[j]
  OBVIOUS
<1>2. \A x \in Entry : x.key \in Keys /\ x.value # Absent
  BY HashTableAssumption DEF Entry
<1> HIDE DEF m2
<1>3. ASSUME NEW x \in Entry PROVE Holds(f1, f2, x) <=> m2[x.key] = x.value
  <2>1. Holds(e1, e2, x) <=> m[x.key] = x.value
    BY DEF IsMap
  <2> QED BY <1>1, <1>2, <2>1
<1> QED BY <1>3 DEF IsMap, m2

LEMMA DeleteMapInv ==
  ASSUME CountInv, MapInv, NEW k \in Keys, Delete(k), intact'
  PROVE  MapInv'
<1>1. /\ op = Idle /\ op' = op /\ log2Size' = log2Size /\ intact /\ Visible'
      /\ UNCHANGED <<hash1, hash2>> /\ model' = [model EXCEPT ![k] = Absent]
      /\ DeleteFromWindow(k) \/ DeleteFromBucket(k)
  BY DEF Delete
<1>2. /\ log2Size \in Nat /\ TableLog = log2Size /\ HashOK /\ op'.name # "resize"
      /\ IsTables(entries1, entries2, log2Size) /\ model \in [Keys -> Values \cup {Absent}]
  BY <1>1, CountInvFacts DEF CountInv, HTTypeOK, Idle
<1>3. IsMap(entries1, entries2, log2Size, model) /\ InOrder(entries1, entries2, log2Size)
  BY <1>1, <1>2 DEF MapInv, IsMap
<1>4. FoundFirst(entries1', entries2', log2Size)
  BY <1>1, VisibleNext
<1>5. /\ InReach(entries1', entries2', log2Size)
      /\ \A x \in Entry : Holds(entries1', entries2', x)
                            <=> Holds(entries1, entries2, x) /\ x.key # k
  <2>1. CASE DeleteFromWindow(k)
    <3> DEFINE s == Least(Stops(entries1, k, log2Size))
    <3>1. /\ Stops(entries1, k, log2Size) # {} /\ entries1[s] # Empty
          /\ entries1' = With(entries1, s, Empty) /\ entries2' = entries2
      BY <2>1 DEF DeleteFromWindow, With
    <3>2. s \in DOMAIN entries1 /\ entries1[s].key = k
      BY <1>2, <3>1, StopsAndHoles
    <3> HIDE DEF s
    <3>3. /\ InReach(With(entries1, s, Empty), entries2, log2Size)
          /\ \A x \in Entry : Holds(With(entries1, s, Empty), entries2, x)
                                <=> Holds(entries1, entries2, x) /\ x.key # entries1[s].key
      BY <1>2, <1>3, <3>1, <3>2, SlotCleared
    <3> QED BY <3>1, <3>2, <3>3
  <2>2. CASE DeleteFromBucket(k)
    <3> DEFINE b == Index2(k, log2Size)
               i == Least(Places(entries2[b], k))
    <3>1. /\ Places(entries2[b], k) # {} /\ entries1' = entries1
          /\ entries2' = With(entries2, b, SwapRemove(entries2[b], i))
      BY <2>2 DEF DeleteFromBucket, With
    <3>2. b \in DOMAIN entries2 /\ entries2[b] \in Seq(Entry)
      BY <1>2, StopsAndHoles
    <3>3. i \in Places(entries2[b], k)
      BY <3>1, <3>2, PlacesInBucket
    <3>4. i \in DOMAIN entries2[b] /\ entries2[b][i].key = k
      BY <3>3 DEF Places
    <3> HIDE DEF b, i
    <3>5. /\ InReach(entries1, With(entries2, b, SwapRemove(entries2[b], i)), log2Size)
          /\ \A x \in Entry : Holds(entries1, With(entries2, b, SwapRemove(entries2[b], i)), x)
                                <=> Holds(entries1, entries2, x) /\ x.key # entries2[b][i].key
      BY <1>2, <1>3, <3>2, <3>4, PlaceCleared
    <3> QED BY <3>1, <3>4, <3>5
  <2> QED BY <1>1, <2>1, <2>2
<1>6. IsMap(entries1', entries2', log2Size, [model EXCEPT ![k] = Absent])
  BY <1>2, <1>3, <1>4, <1>5, KeyRemoved DEF InOrder
<1> QED BY <1>1, <1>2, <1>6, SettledMap

-----------------------------------------------------------------------------
(* The steps of resize                                                     *)

LEMMA AllAmong ==
  ASSUME NEW e \in Entry
  PROVE  Among(LiveIn(entries1), PlacesIn(entries2), e) <=> Holds(entries1, entries2, e)
<1>1. e # Empty
  <2>1. e.key \in Keys /\ Empty.key = Absent /\ Absent \notin Keys
    BY HashTableAssumption DEF Entry, Empty
  <2> QED BY <2>1
<1>2. (\E i \in LiveIn(entries1) : entries1[i] = e) <=> (\E i \in DOMAIN entries1 : entries1[i] = e)
  BY <1>1 DEF LiveIn
<1>3. ASSUME NEW p \in PlacesIn(entries2), entries2[p[1]][p[2]] = e
      PROVE  \E b \in DOMAIN entries2 : \E j \in DOMAIN entries2[b] : entries2[b][j] = e
  <2>1. p = <<p[1], p[2]>>
    BY PlacesAre
  <2>2. p[1] \in DOMAIN entries2 /\ p[2] \in DOMAIN entries2[p[1]]
    BY <2>1, PlacesAre
  <2> QED BY <1>3, <2>2
<1>4. ASSUME NEW b \in DOMAIN entries2, NEW j \in DOMAIN entries2[b], entries2[b][j] = e
      PROVE  \E p \in PlacesIn(entries2) : entries2[p[1]][p[2]] = e
  <2>1. <<b, j>> \in PlacesIn(entries2)
    BY PlacesAre
  <2>2. entries2[<<b, j>>[1]][<<b, j>>[2]] = e
    BY <1>4
  <2> QED BY <2>1, <2>2
<1> QED BY <1>2, <1>3, <1>4 DEF Among, Holds

LEMMA SetResizingMapInv ==
  ASSUME CountInv, MapInv, NEW k \in Keys, NEW v \in Values, SetResizing(k, v), intact'
  PROVE  MapInv'
<1> DEFINE log == log2Size + 1
           n1 == NewEntries1(log)
           n2 == NewEntries2(log)
           slots == LiveIn(entries1)
           places == PlacesIn(entries2)
<1>1. /\ op = Idle /\ log2Size' = log /\ intact
      /\ op' = [name |-> "resize", key |-> k, value |-> v,
                slots |-> slots, places |-> places, new1 |-> n1, new2 |-> n2]
      /\ UNCHANGED <<hash1, hash2, entries1, entries2, model>>
  BY DEF SetResizing, NewEntries1, NewEntries2, Empty
<1>2. log2Size \in Nat /\ TableLog = log2Size /\ log \in Nat
  BY <1>1, CountInvFacts DEF Idle
<1>3. IsMap(entries1, entries2, log2Size, model)
  BY <1>1, <1>2 DEF MapInv
<1>4. /\ op'.name = "resize" /\ op'.new1 = n1 /\ op'.new2 = n2
      /\ op'.slots = slots /\ op'.places = places
  BY <1>1
<1>5. TableLog' = log2Size
  BY <1>1, <1>2, <1>4 DEF TableLog
<1>6. IsMap(entries1, entries2, TableLog, model)'
  BY <1>1, <1>3, <1>5, PrimedMap
<1>7. InOrder(n1, n2, log) /\ \A e \in Entry : ~ Holds(n1, n2, e)
  BY <1>2, EmptyTables
<1>8. Shared(n1, n2, slots, places)
  <2>1. \A e \in Entry : Among(slots, places, e) <=> Holds(entries1, entries2, e)
    BY AllAmong
  <2> HIDE DEF slots, places, n1, n2
  <2> QED BY <1>3, <1>7, <2>1 DEF Shared, IsMap
<1> HIDE DEF log, n1, n2, slots, places
<1>9. MapMoving'
  BY <1>1, <1>4, <1>7, <1>8, PrimedMoving
<1> QED BY <1>6, <1>9 DEF MapInv

\* add puts an entry whose key the new tables do not hold into them.
LEMMA AddedInOrder ==
  ASSUME HashOK, log2Size \in Nat, NEW n1, NEW n2, IsTables(n1, n2, log2Size),
         InOrder(n1, n2, log2Size), NEW e \in Entry, NoKey(n1, n2, e.key)
  PROVE  /\ InOrder(Added1(n1, e), Added2(n1, n2, e), log2Size)
         /\ \A x \in Entry : Holds(Added1(n1, e), Added2(n1, n2, e), x)
                               <=> Holds(n1, n2, x) \/ x = e
<1> DEFINE holes == Holes(n1, e.key, log2Size)
<1>1. CASE holes # {}
  <2> DEFINE s == Least(holes)
  <2>1. Added1(n1, e) = With(n1, s, e) /\ Added2(n1, n2, e) = n2
    BY <1>1 DEF Added1, Added2, With
  <2>2. s = Least(Holes(n1, e.key, log2Size)) /\ Holes(n1, e.key, log2Size) # {}
    BY <1>1
  <2> HIDE DEF s
  <2>3. /\ InOrder(With(n1, s, e), n2, log2Size)
        /\ \A x \in Entry : Holds(With(n1, s, e), n2, x) <=> Holds(n1, n2, x) \/ x = e
    BY <2>2, HoleTaken
  <2> QED BY <2>1, <2>3
<1>2. CASE holes = {}
  <2> DEFINE b == Index2(e.key, log2Size)
  <2>1. Added1(n1, e) = n1 /\ Added2(n1, n2, e) = With(n2, b, Append(n2[b], e))
    BY <1>2 DEF Added1, Added2, With
  <2>2. b = Index2(e.key, log2Size) /\ Holes(n1, e.key, log2Size) = {}
    BY <1>2
  <2> HIDE DEF b
  <2>3. /\ InOrder(n1, With(n2, b, Append(n2[b], e)), log2Size)
        /\ \A x \in Entry : Holds(n1, With(n2, b, Append(n2[b], e)), x)
                              <=> Holds(n1, n2, x) \/ x = e
    BY <2>2, BucketJoined
  <2> QED BY <2>1, <2>3
<1> QED BY <1>1, <1>2

\* While a key's entry is still to be moved, the new tables do not hold the key.
LEMMA NotYetMoved ==
  ASSUME NEW log \in Nat, NEW n1, NEW n2, IsTables(n1, n2, log),
         NEW slots, NEW places, Shared(n1, n2, slots, places),
         NEW e \in Entry, Among(slots, places, e)
  PROVE  NoKey(n1, n2, e.key)
<1>1. ASSUME NEW x \in Entry, Holds(n1, n2, x) PROVE x.key # e.key
  <2>1. model[x.key] = x.value /\ model[e.key] = e.value /\ ~ Holds(n1, n2, e)
    BY <1>1 DEF Shared
  <2>2. x.key = e.key /\ x.value = e.value => x = e
    BY DEF Entry
  <2> QED BY <1>1, <2>1, <2>2
<1>2. ASSUME NEW i \in DOMAIN n1 PROVE n1[i].key # e.key
  <2>1. CASE n1[i] = Empty
    BY <2>1, TableTypes
  <2>2. CASE n1[i] # Empty
    BY <1>1, <2>2, TableTypes DEF Holds
  <2> QED BY <2>1, <2>2
<1>3. ASSUME NEW b \in DOMAIN n2, NEW j \in DOMAIN n2[b] PROVE n2[b][j].key # e.key
  BY <1>1, TableTypes DEF Holds
<1> QED BY <1>2, <1>3 DEF NoKey

\* What is still to be moved once e has been, and the step that moves e.
Remain(slots, places, e) ==
  \A x \in Entry : Among(slots, places, x) <=> Among(op.slots, op.places, x) /\ x # e

Moves(slots, places, e) ==
  op' = [op EXCEPT !.slots = slots, !.places = places,
                   !.new1 = Added1(op.new1, e), !.new2 = Added2(op.new1, op.new2, e)]

\* One entry more in the new tables, one less to be moved.
LEMMA MovedMapInv ==
  ASSUME CountInv, MapInv, intact, op.name = "resize",
         UNCHANGED <<hash1, hash2, tableVars, model>>,
         NEW e \in Entry, NEW slots, NEW places, Among(op.slots, op.places, e),
         Remain(slots, places, e), Moves(slots, places, e)
  PROVE  MapInv'
<1>1. op = [name |-> "resize", key |-> op.key, value |-> op.value,
            slots |-> op.slots, places |-> op.places, new1 |-> op.new1, new2 |-> op.new2]
  BY DEF CountInv, OpTyped, Idle
<1> DEFINE n1 == op.new1
           n2 == op.new2
           m1 == Added1(op.new1, e)
           m2 == Added2(op.new1, op.new2, e)
<1> HIDE DEF m1, m2
<1>2. op' = [name |-> "resize", key |-> op.key, value |-> op.value,
             slots |-> slots, places |-> places, new1 |-> m1, new2 |-> m2]
  BY <1>1 DEF m1, m2, Moves
<1>3. /\ op'.name = "resize" /\ op'.new1 = m1 /\ op'.new2 = m2
      /\ op'.slots = slots /\ op'.places = places
  BY ONLY <1>2
<1>4. UNCHANGED <<hash1, hash2, entries1, entries2, log2Size, model>>
  BY DEF tableVars
<1>5. /\ IsMap(entries1, entries2, TableLog, model)
      /\ InOrder(n1, n2, log2Size) /\ Shared(n1, n2, op.slots, op.places)
  BY DEF MapInv, MapMoving
<1>6. log2Size \in Nat /\ HashOK /\ IsTables(n1, n2, log2Size)
  BY CountInvFacts DEF CountInv, Moving
<1> HIDE DEF n1, n2
<1>7. NoKey(n1, n2, e.key)
  BY <1>5, <1>6, NotYetMoved
<1>8. /\ InOrder(m1, m2, log2Size)
      /\ \A x \in Entry : Holds(m1, m2, x) <=> Holds(n1, n2, x) \/ x = e
  <2>1. /\ InOrder(Added1(n1, e), Added2(n1, n2, e), log2Size)
        /\ \A x \in Entry : Holds(Added1(n1, e), Added2(n1, n2, e), x)
                              <=> Holds(n1, n2, x) \/ x = e
    BY <1>5, <1>6, <1>7, AddedInOrder
  <2> QED BY <2>1 DEF m1, m2, n1, n2
<1>9. Shared(m1, m2, slots, places)
  <2> SUFFICES ASSUME NEW x \in Entry
               PROVE  /\ Holds(m1, m2, x) \/ Among(slots, places, x) <=> model[x.key] = x.value
                      /\ ~ (Holds(m1, m2, x) /\ Among(slots, places, x))
    BY DEF Shared
  <2>1. /\ Holds(n1, n2, x) \/ Among(op.slots, op.places, x) <=> model[x.key] = x.value
        /\ ~ (Holds(n1, n2, x) /\ Among(op.slots, op.places, x))
    BY <1>5 DEF Shared
  <2>2. Holds(m1, m2, x) <=> Holds(n1, n2, x) \/ x = e
    BY <1>8
  <2>3. Among(slots, places, x) <=> Among(op.slots, op.places, x) /\ x # e
    BY DEF Remain
  <2> QED BY <2>1, <2>2, <2>3
<1>10. MapMoving'
  BY <1>3, <1>4, <1>8, <1>9, PrimedMoving
<1>11. IsMap(entries1, entries2, TableLog, model)'
  <2>1. TableLog' = TableLog
    BY <1>3, <1>4 DEF TableLog
  <2>2. IsMap(entries1', entries2', TableLog, model)
    BY <1>4, <1>5
  <2> QED BY <1>4, <2>1, <2>2, PrimedMap
<1> QED BY <1>10, <1>11 DEF MapInv

\* Another slot or place to be moved holds another entry.
LEMMA OthersDiffer ==
  ASSUME CountInv, IsMap(entries1, entries2, TableLog, model), op.name = "resize",
         NEW e \in Entry
  PROVE  /\ \A i \in op.slots : entries1[i] = e =>
              /\ \A j \in op.slots \ {i} : entries1[j] # e
              /\ \A p \in op.places : entries2[p[1]][p[2]] # e
         /\ \A p \in op.places : entries2[p[1]][p[2]] = e =>
              \A q \in op.places \ {p} : entries2[q[1]][q[2]] # e
<1>1. /\ HashOK /\ TableLog \in Nat /\ IsTables(entries1, entries2, TableLog)
      /\ InOrder(entries1, entries2, TableLog)
  BY CountInvFacts DEF CountInv, IsMap
<1>2. op.slots \subseteq LiveIn(entries1) /\ op.places \subseteq PlacesIn(entries2)
  BY DEF CountInv, Moving
<1>3. \A i \in op.slots : i \in DOMAIN entries1 /\ entries1[i] # Empty
  BY <1>2 DEF LiveIn
<1>4. \A p \in op.places : p = <<p[1], p[2]>> /\ p[1] \in DOMAIN entries2 /\ p[2] \in DOMAIN entries2[p[1]]
  BY <1>2, PlacesAre
<1>5. ASSUME NEW i \in op.slots, entries1[i] = e
      PROVE  /\ \A j \in op.slots \ {i} : entries1[j] # e
             /\ \A p \in op.places : entries2[p[1]][p[2]] # e
  <2>1. i \in DOMAIN entries1 /\ entries1[i] # Empty
    BY <1>3
  <2>2. /\ \A j \in DOMAIN entries1 : entries1[j].key = entries1[i].key => j = i
        /\ \A b \in DOMAIN entries2 : \A j \in DOMAIN entries2[b] :
             entries2[b][j].key # entries1[i].key
    BY <1>1, <2>1, OneSlot
  <2>3. \A j \in op.slots \ {i} : entries1[j] # e
    BY <1>3, <1>5, <2>2
  <2>4. \A p \in op.places : entries2[p[1]][p[2]] # e
    BY <1>4, <1>5, <2>2
  <2> QED BY <2>3, <2>4
<1>6. ASSUME NEW p \in op.places, entries2[p[1]][p[2]] = e,
             NEW q \in op.places \ {p}, entries2[q[1]][q[2]] = e
      PROVE  FALSE
  <2> DEFINE b == p[1]
             j == p[2]
             c == q[1]
             l == q[2]
  <2>1. p = <<b, j>> /\ b \in DOMAIN entries2 /\ j \in DOMAIN entries2[b] /\ entries2[b][j] = e
    BY <1>4, <1>6
  <2>2. q = <<c, l>> /\ c \in DOMAIN entries2 /\ l \in DOMAIN entries2[c] /\ entries2[c][l] = e
    BY <1>4, <1>6
  <2> HIDE DEF b, j, c, l
  <2>3. c = b /\ l = j
    BY <1>1, <2>1, <2>2, OnePlace
  <2> QED BY <2>1, <2>2, <2>3
<1> QED BY <1>5, <1>6

LEMMA ResizeSlotMapInv ==
  ASSUME CountInv, MapInv, ResizeSlot, intact'
  PROVE  MapInv'
<1> DEFINE i == Least(op.slots)
           e == entries1[i]
           slots == op.slots \ {i}
           places == op.places
<1>1. /\ op.name = "resize" /\ op.slots # {} /\ intact
      /\ op' = [op EXCEPT !.slots = slots,
                          !.new1 = Added1(op.new1, e), !.new2 = Added2(op.new1, op.new2, e)]
      /\ UNCHANGED <<hash1, hash2, tableVars, model>>
  BY DEF ResizeSlot
<1>2. i \in op.slots /\ e \in Entry
  BY <1>1, NextSlot
<1>3. e = entries1[i]
  OBVIOUS
<1> HIDE DEF i, e
<1>4. Moves(slots, places, e)
  <2>1. op = [name |-> "resize", key |-> op.key, value |-> op.value,
              slots |-> op.slots, places |-> op.places, new1 |-> op.new1, new2 |-> op.new2]
    BY <1>1 DEF CountInv, OpTyped, Idle
  <2> QED BY <1>1, <2>1 DEF Moves
<1>5. IsMap(entries1, entries2, TableLog, model)
  BY <1>1 DEF MapInv
<1>6. /\ \A j \in op.slots \ {i} : entries1[j] # e
      /\ \A p \in op.places : entries2[p[1]][p[2]] # e
  BY <1>1, <1>2, <1>3, <1>5, OthersDiffer
<1>7. Among(op.slots, op.places, e)
  BY <1>2, <1>3 DEF Among
<1>8. Remain(slots, places, e)
  BY <1>2, <1>3, <1>6 DEF Among, Remain
<1> HIDE DEF slots, places
<1> QED BY <1>1, <1>2, <1>4, <1>7, <1>8, MovedMapInv

LEMMA ResizePlaceMapInv ==
  ASSUME CountInv, MapInv, ResizePlace, intact'
  PROVE  MapInv'
<1> DEFINE b == Least({p[1] : p \in op.places})
           i == Least({p[2] : p \in {q \in op.places : q[1] = b}})
           e == entries2[b][i]
           slots == op.slots
           places == op.places \ {<<b, i>>}
<1>1. /\ op.name = "resize" /\ op.places # {} /\ intact
      /\ op' = [op EXCEPT !.places = places,
                          !.new1 = Added1(op.new1, e), !.new2 = Added2(op.new1, op.new2, e)]
      /\ UNCHANGED <<hash1, hash2, tableVars, model>>
  BY DEF ResizePlace
<1>2. <<b, i>> \in op.places /\ e \in Entry
  BY <1>1, NextPlace
<1>3. e = entries2[b][i]
  OBVIOUS
<1> HIDE DEF b, i, e
<1> DEFINE place == <<b, i>>
<1>4. place \in op.places /\ entries2[place[1]][place[2]] = e /\ places = op.places \ {place}
  BY <1>2, <1>3
<1>5. Moves(slots, places, e)
  <2>1. op = [name |-> "resize", key |-> op.key, value |-> op.value,
              slots |-> op.slots, places |-> op.places, new1 |-> op.new1, new2 |-> op.new2]
    BY <1>1 DEF CountInv, OpTyped, Idle
  <2> QED BY <1>1, <2>1 DEF Moves
<1> HIDE DEF place
<1>6. IsMap(entries1, entries2, TableLog, model)
  BY <1>1 DEF MapInv
<1>7. /\ \A j \in op.slots : entries1[j] # e
      /\ \A q \in op.places \ {place} : entries2[q[1]][q[2]] # e
  BY <1>1, <1>2, <1>4, <1>6, OthersDiffer
<1>8. Among(op.slots, op.places, e)
  BY <1>4 DEF Among
<1>9. Remain(slots, places, e)
  BY <1>4, <1>7 DEF Among, Remain
<1> HIDE DEF slots, places
<1> QED BY <1>1, <1>2, <1>5, <1>8, <1>9, MovedMapInv

LEMMA ResizeDoneMapInv ==
  ASSUME CountInv, MapInv, ResizeDone, intact'
  PROVE  MapInv'
<1>1. /\ op.name = "resize" /\ op.slots = {} /\ op.places = {} /\ intact
      /\ entries1' = op.new1 /\ entries2' = op.new2 /\ op'.name = "put"
      /\ UNCHANGED <<hash1, hash2, log2Size, model>>
  BY DEF ResizeDone
<1>2. InOrder(op.new1, op.new2, log2Size) /\ Shared(op.new1, op.new2, {}, {})
  BY <1>1 DEF MapInv, MapMoving
<1>3. \A e \in Entry : Holds(op.new1, op.new2, e) <=> model[e.key] = e.value
  BY <1>2 DEF Shared, Among
<1>4. IsMap(op.new1, op.new2, log2Size, model)
  BY <1>2, <1>3 DEF IsMap
<1>5. IsMap(entries1', entries2', log2Size, model)
  BY <1>1, <1>4
<1> QED BY <1>1, <1>5, SettledMap

LEMMA NextMapInv == CountInv /\ MapInv /\ [Next]_vars => MapInv'
<1> SUFFICES ASSUME CountInv, MapInv, [Next]_vars, intact' PROVE MapInv'
  BY DEF MapInv
<1>1. CASE \E k \in Keys, v \in Values : Set(k, v)
  BY <1>1, SetDirectlyMapInv, SetResizingMapInv DEF Set
<1>2. CASE Resize
  BY <1>2, ResizeSlotMapInv, ResizePlaceMapInv, ResizeDoneMapInv DEF Resize
<1>3. CASE SetResized
  BY <1>3, SetResizedMapInv
<1>4. CASE \E k \in Keys : Delete(k)
  BY <1>4, DeleteMapInv
<1>5. CASE UNCHANGED vars
  <2>1. UNCHANGED <<hash1, hash2, entries1, entries2, log2Size, op, intact, model>>
    BY <1>5 DEF vars, tableVars
  <2>2. IsMap(entries1, entries2, TableLog, model) /\ TableLog' = TableLog
    BY <2>1 DEF MapInv, TableLog
  <2>3. IsMap(entries1, entries2, TableLog, model)'
    <3>1. IsMap(entries1', entries2', TableLog, model)
      BY <2>1, <2>2
    <3> QED BY <2>1, <2>2, <3>1, PrimedMap
  <2>4. MapMoving'
    <3>1. CASE op.name = "resize"
      <4>1. InOrder(op.new1, op.new2, log2Size) /\ Shared(op.new1, op.new2, op.slots, op.places)
        BY <2>1, <3>1 DEF MapInv, MapMoving
      <4> QED BY <2>1, <4>1, PrimedMoving
    <3>2. CASE op.name # "resize"
      BY <2>1, <3>2 DEF MapMoving
    <3> QED BY <3>1, <3>2
  <2> QED BY <2>3, <2>4 DEF MapInv
<1> QED BY <1>1, <1>2, <1>3, <1>4, <1>5 DEF Next

LEMMA MapInvMeans == CountInv /\ MapInv => MapUntilHidden
<1> SUFFICES ASSUME CountInv, MapInv, intact, op.name # "resize"
             PROVE  (\A k \in Keys : Get2(k) = model[k]) /\ Visible
  BY DEF MapUntilHidden
<1>1. /\ HashOK /\ log2Size \in Nat /\ IsTables(entries1, entries2, log2Size)
      /\ model \in [Keys -> Values \cup {Absent}]
      /\ IsMap(entries1, entries2, log2Size, model)
  BY CountInvFacts DEF CountInv, HTTypeOK, MapInv
<1>2. \A k \in Keys : Get2(k) = model[k]
  BY <1>1, MapLookup DEF Get2
<1>3. Visible
  <2>1. FoundFirst(entries1, entries2, log2Size)
    BY <1>1 DEF IsMap, InOrder
  <2> QED BY <2>1 DEF FoundFirst, Visible
<1> QED BY <1>2, <1>3

\* Until a Delete hides an entry the table answers as a map whenever no resize
\* is under way, and every entry is the first that a search for its key comes
\* upon: for any hash functions, keys and window, and after any number of
\* resizes.  While a table is rebuilt nothing can be looked up, as log2Size is
\* ahead of the tables; there the invariant says that the entries of the old
\* tables are the map, and that the new tables and what is still to be moved
\* share it, so that add, which compares no keys, never meets the key it adds.
THEOREM HashTableIsMap == Spec => []MapUntilHidden
<1>1. Spec => [](CountInv /\ MapInv)
  BY InitCountInv, InitMapInv, NextCountInv, NextMapInv, PTL DEF Spec
<1> QED BY <1>1, MapInvMeans, PTL
=============================================================================
