----------------------------- MODULE HashTable ------------------------------
(***************************************************************************)
(* The hash table of hash_map/hash_map.go.  A key is looked for in a       *)
(* window of entries1 that begins at its first index, and when the window  *)
(* is full in the bucket of entries2 at its second index.  Set may rebuild *)
(* the table at twice the size first, one entry a step.                    *)
(***************************************************************************)
EXTENDS Integers, Sequences, FiniteSets, SequencesExt

CONSTANTS
  Keys, Values,
  Absent,      \* what Get2 returns for a key it does not find
  Window,      \* maxOffset: how many slots of entries1 a key may use
  InitLog,     \* log2Size of a new table
  MaxLog,      \* bound: Set is not called where it would outgrow this log2Size
  Indices1,    \* the values, before they are cut to size, of index1
  Indices2     \* and of index2

ASSUME HashTableAssumption ==
  /\ Absent \notin Keys \cup Values
  /\ Window \in Nat \ {0} /\ InitLog \in Nat /\ MaxLog \in Nat
  /\ Indices1 \subseteq Nat /\ Indices2 \subseteq Nat

VARIABLES
  hash1, hash2,   \* the key's hash times a salt, bits reversed: chosen once
  entries1, entries2, log2Size, count,
  op,             \* the Set that is rebuilding the table, or Idle
  intact,         \* history: no Delete has hidden an entry yet
  model           \* history: what a map would hold

tableVars == <<entries1, entries2, log2Size, count>>
vars == <<hash1, hash2, tableVars, op, intact, model>>

Entry == [key : Keys, value : Values]

\* An entry whose hash is 0: its key and value are never looked at.
Empty == [key |-> Absent, value |-> Absent]

\* 1 << log
Size[log \in Nat] == IF log = 0 THEN 1 ELSE 2 * Size[log - 1]

\* make([]hashTableEntry, 1<<log + maxOffset) and make([][]..., 1<<log)
NewEntries1(log) == [i \in 0..(Size[log] + Window - 1) |-> Empty]
NewEntries2(log) == [i \in 0..(Size[log] - 1) |-> <<>>]

Idle == [name |-> "none"]

Init ==
  /\ hash1 \in [Keys -> Indices1]
  /\ hash2 \in [Keys -> Indices2]
  /\ entries1 = NewEntries1(InitLog)
  /\ entries2 = NewEntries2(InitLog)
  /\ log2Size = InitLog
  /\ count = 0
  /\ op = Idle
  /\ intact = TRUE
  /\ model = [k \in Keys |-> Absent]

-----------------------------------------------------------------------------
(* Looking a key up.  The tables are arguments: resize fills new ones.     *)

Index1(k, log) == hash1[k] % Size[log]
Index2(k, log) == hash2[k] % Size[log]

\* The slots of k's window, which are looked at in increasing order.
Slots(k, log) == Index1(k, log)..(Index1(k, log) + Window - 1)

Least(S) == CHOOSE i \in S : \A j \in S : i <= j

\* The slots of the window that are empty, or hold k if asked for.
Stops(e1, k, log) == {i \in Slots(k, log) : e1[i].key \in {k, Absent}}
Holes(e1, k, log) == {i \in Slots(k, log) : e1[i] = Empty}

\* The places of k in a bucket; only the first one counts.
Places(bucket, k) == {i \in DOMAIN bucket : bucket[i].key = k}

Lookup(e1, e2, log, k) ==
  LET bucket == e2[Index2(k, log)]
  IN IF Stops(e1, k, log) # {} THEN e1[Least(Stops(e1, k, log))].value
     ELSE IF Places(bucket, k) # {} THEN bucket[Least(Places(bucket, k))].value
     ELSE Absent

\* While resize runs log2Size is ahead of the tables, so that nothing could be
\* looked up in them: the code calls nothing that would.
Get2(k) == Lookup(entries1, entries2, log2Size, k)

\* The size of the tables in place: the new ones come when resize ends.
TableLog == IF op.name = "resize" THEN log2Size - 1 ELSE log2Size

-----------------------------------------------------------------------------
(* Set                                                                     *)

\* Mutant of Put: an empty slot is taken before the key is looked for.
PutInHole(k, v) ==
  LET entry == [key |-> k, value |-> v]
      stops == Holes(entries1, k, log2Size)
      b == Index2(k, log2Size)
      places == Places(entries2[b], k)
  IN IF stops # {}
     THEN /\ entries1' = [entries1 EXCEPT ![Least(stops)] = entry]
          /\ count' = count + 1
          /\ UNCHANGED entries2
     ELSE /\ entries2' = [entries2 EXCEPT
               ![b] = IF places = {} THEN Append(@, entry) ELSE [@ EXCEPT ![Least(places)] = entry]]
          /\ count' = IF places = {} THEN count + 1 ELSE count
          /\ UNCHANGED entries1

\* Set's search in a table that has room.  An equal key is found before the
\* first empty slot or not at all.
Put(k, v) ==
  LET entry == [key |-> k, value |-> v]
      stops == Stops(entries1, k, log2Size)
      b == Index2(k, log2Size)
      places == Places(entries2[b], k)
  IN IF stops # {}
     THEN /\ entries1' = [entries1 EXCEPT ![Least(stops)] = entry]
          /\ count' = IF entries1[Least(stops)] = Empty THEN count + 1 ELSE count
          /\ UNCHANGED entries2
     ELSE /\ entries2' = [entries2 EXCEPT
               ![b] = IF places = {} THEN Append(@, entry) ELSE [@ EXCEPT ![Least(places)] = entry]]
          /\ count' = IF places = {} THEN count + 1 ELSE count
          /\ UNCHANGED entries1

NeedsRoom == count * 2 >= Size[log2Size]

SetDirectly(k, v) ==
  /\ op = Idle /\ ~NeedsRoom
  /\ Put(k, v)
  /\ model' = [model EXCEPT ![k] = v]
  /\ UNCHANGED <<hash1, hash2, log2Size, op, intact>>

\* The slots that are not empty, and the places in buckets.
LiveIn(e1) == {i \in DOMAIN e1 : e1[i] # Empty}
PlacesIn(e2) == UNION {{b} \X DOMAIN e2[b] : b \in DOMAIN e2}

\* Set finds the table half full: resize begins.
SetResizing(k, v) ==
  /\ op = Idle /\ NeedsRoom
  /\ log2Size < MaxLog
  /\ log2Size' = log2Size + 1
  /\ op' = [name |-> "resize", key |-> k, value |-> v,
            slots |-> LiveIn(entries1), places |-> PlacesIn(entries2),
            new1 |-> NewEntries1(log2Size'), new2 |-> NewEntries2(log2Size')]
  /\ UNCHANGED <<hash1, hash2, entries1, entries2, count, intact, model>>

\* The function add inside resize, which does not compare keys: what it makes
\* of the tables e1 and e2.
Added1(e1, e) ==
  LET holes == Holes(e1, e.key, log2Size)
  IN IF holes = {} THEN e1 ELSE [e1 EXCEPT ![Least(holes)] = e]

\* Mutant of Added2: what does not fit into the window is dropped.
Added2WindowOnly(e1, e2, e) == e2

Added2(e1, e2, e) ==
  IF Holes(e1, e.key, log2Size) # {} THEN e2
  ELSE [e2 EXCEPT ![Index2(e.key, log2Size)] = Append(@, e)]

\* The two loops of resize, over the slots of entries1 and over the buckets.
ResizeSlot ==
  LET i == Least(op.slots)
      e == entries1[i]
  IN /\ op.name = "resize" /\ op.slots # {}
     /\ op' = [op EXCEPT !.slots = @ \ {i},
                         !.new1 = Added1(@, e), !.new2 = Added2(op.new1, @, e)]
     /\ UNCHANGED <<hash1, hash2, tableVars, intact, model>>

ResizePlace ==
  LET b == Least({p[1] : p \in op.places})
      i == Least({p[2] : p \in {q \in op.places : q[1] = b}})
      e == entries2[b][i]
  IN /\ op.name = "resize" /\ op.slots = {} /\ op.places # {}
     /\ op' = [op EXCEPT !.places = @ \ {<<b, i>>},
                         !.new1 = Added1(@, e), !.new2 = Added2(op.new1, @, e)]
     /\ UNCHANGED <<hash1, hash2, tableVars, intact, model>>

\* resize ends with the new tables in place of the old ones.
ResizeDone ==
  /\ op.name = "resize" /\ op.slots = {} /\ op.places = {}
  /\ entries1' = op.new1
  /\ entries2' = op.new2
  /\ op' = [name |-> "put", key |-> op.key, value |-> op.value]
  /\ UNCHANGED <<hash1, hash2, log2Size, count, intact, model>>

\* The rest of a Set that has resized.
SetResized ==
  /\ op.name = "put"
  /\ Put(op.key, op.value)
  /\ model' = [model EXCEPT ![op.key] = op.value]
  /\ op' = Idle
  /\ UNCHANGED <<hash1, hash2, log2Size, intact>>

-----------------------------------------------------------------------------
(* Delete                                                                  *)

\* Get2 finds every entry: none lies behind an empty slot of its window.
Visible ==
  /\ \A i \in DOMAIN entries1 :
       entries1[i] # Empty => i = Least(Stops(entries1, entries1[i].key, log2Size))
  /\ \A b \in DOMAIN entries2 : \A i \in DOMAIN entries2[b] :
       LET k == entries2[b][i].key
       IN Stops(entries1, k, log2Size) = {} /\ i = Least(Places(entries2[b], k))

DeleteFromWindow(k) ==
  LET stops == Stops(entries1, k, log2Size)
  IN /\ stops # {} /\ entries1[Least(stops)] # Empty
     /\ entries1' = [entries1 EXCEPT ![Least(stops)] = Empty]
     /\ UNCHANGED entries2

\* The last entry of the bucket takes the place of entry i.
SwapRemove(bucket, i) == Front([bucket EXCEPT ![i] = Last(bucket)])

DeleteFromBucket(k) ==
  LET b == Index2(k, log2Size)
      places == Places(entries2[b], k)
  IN /\ Stops(entries1, k, log2Size) = {} /\ places # {}
     /\ entries2' = [entries2 EXCEPT ![b] = SwapRemove(@, Least(places))]
     /\ UNCHANGED entries1

\* Mutant of Delete: the entry is still counted.
DeleteUncounted(k) ==
  /\ op = Idle
  /\ DeleteFromWindow(k) \/ DeleteFromBucket(k)
  /\ UNCHANGED <<hash1, hash2, log2Size, op, count>>
  /\ intact' = (intact /\ Visible')
  /\ model' = [model EXCEPT ![k] = Absent]

\* Delete of a key that the search does not find changes nothing.
Delete(k) ==
  /\ op = Idle
  /\ DeleteFromWindow(k) \/ DeleteFromBucket(k)
  /\ count' = count - 1
  /\ UNCHANGED <<hash1, hash2, log2Size, op>>
  /\ intact' = (intact /\ Visible')
  /\ model' = [model EXCEPT ![k] = Absent]

-----------------------------------------------------------------------------
Set(k, v) == SetDirectly(k, v) \/ SetResizing(k, v)

Resize == ResizeSlot \/ ResizePlace \/ ResizeDone

Next ==
  \/ \E k \in Keys, v \in Values : Set(k, v)
  \/ Resize
  \/ SetResized
  \/ \E k \in Keys : Delete(k)

Spec == Init /\ [][Next]_vars

-----------------------------------------------------------------------------
(* Properties                                                              *)

\* Every variable has its type, and the tables have the sizes that the
\* unchecked indexing of utils.Get and utils.GetArr relies on.  count, which
\* decides when the table grows, is the number of live entries after any
\* sequence of Set, resize and Delete; and one doubling is always enough:
\* whenever an entry was added, the others filled at most half of the table,
\* the smallest sizes included.
HTTypeOK ==
  /\ log2Size \in Nat /\ count \in Nat
  /\ entries1 \in [0..(Size[TableLog] + Window - 1) -> Entry \cup {Empty}]
  /\ entries2 \in [0..(Size[TableLog] - 1) -> Seq(Entry)]
  /\ op.name \in {"none", "resize", "put"}
  /\ model \in [Keys -> Values \cup {Absent}]
  /\ count = Cardinality(LiveIn(entries1)) + Cardinality(PlacesIn(entries2))
  /\ 2 * (count - 1) <= Size[TableLog]

\* Whenever no resize is under way, right after one as well, the table answers
\* as a map does, until a Delete leaves an empty slot in the window of an
\* entry that lies behind it.  Only a Delete puts an entry out of Get2's
\* sight: until then no key is in the table twice, and none lies behind an
\* empty slot of its window, however the windows overlap and whatever order
\* resize came upon them in.
MapUntilHidden ==
  intact /\ op.name # "resize" =>
    /\ \A k \in Keys : Get2(k) = model[k]
    /\ Visible

\* What Set stores is found, even where earlier Deletes have hidden entries
\* or left a key in the table twice.  (No resize is under way then.)
SetIsRead ==
  [][\A k \in Keys : model'[k] # model[k] /\ model'[k] # Absent => Get2(k)' = model'[k]]_vars

=============================================================================
