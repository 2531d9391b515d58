# A verification project for go-competitive-programming

The repository is a kit for programming contests in Go: fast input and output,
containers, a program template that runs the tests of a contest in parallel, and
an exporter that turns a program and the packages it uses into one file.
Each part that keeps state has a TLA+ module here, model-checked by TLC on small
instances; the writer, the reader, the template, the red-black tree, the hash
table, the heap, the segment tree, `solve`, the basis, and the exporter's merging, pruning and stages
also have theorems that TLAPS checks for all sizes.

    tlc -workers 2 -config MCHackercup.cfg MCHackercup   # a run; every .cfg belongs to the MC module it is named after
    tlapm HackercupProofs.tla                            # a proof

`PROJECT.json` lists the runs, the lines of code behind each definition, the
mutants that each property rejects, the hazards and the theorems.

## 1. Inventory

| component | state | operations | used by | what makes it correct |
|---|---|---|---|---|
| buffered writer (`fastio/writer.go`) | `buffer`, `used`, the file | `bytes`, `String`, `WriteAll`; `Int`, `Uint`, `Printf`, ... on top | the template, all goroutines' output through main | no byte lost, repeated or reordered; no panic of its own making; `String` ends |
| buffered reader (`fastio/reader.go`) | `bytes`, `from`, `to`, the file | `Int`, `Uint`, `String`, `Line`, ... | the template (`tests` in main, then only the feeder) | the tokens do not depend on how the stream is cut into reads; a call never eats into the next token |
| contest template (`main.go`, `hackercup/`, `debug/`) | outputs, inputs, a WaitGroup for each test, the goroutines, the exit code | main, a feeder, a worker for each test, panics, deferred writes | calls reader, writer, `solve` | answers printed in order, no race, the process ends, the exit code tells the truth |
| red-black tree (`rbtree/`) | nodes with parent pointers and colours | insert, insert-or-replace, find, remove, clear, iteration both ways | programs | a sorted list with handles; red-black shape; iteration survives changes |
| hash table (`hash_map/`) | open addressing in windows, overflow buckets, a count | set, get, delete, resize | programs, on `utils.Get`, `utils.GetArr`, `utils.ReverseBits64` | a map |
| binary heap (`heap/`) | an array | push, pop, peek | programs | a priority queue |
| segment tree (`segment_tree_iter/`) | values and pending updates at 2n nodes | set, update of a range, get, longest range | programs, through a controller | an array with range updates, for updates that need not commute |
| treap (`treap/`) | nodes with sizes and random seeds | split, merge, insert, look up | programs, through a controller | lists by position, or sorted lists |
| helpers (`utils/`, `slice_map/`, `xor_span/`) | hardly any | bits, matrices, an append-only map, a basis over GF(2) | the above | agree with their textbook definitions |
| solution (`hackercup/solve.go`) | two arrays, a queue for each distance | `solve` | workers | no bound that a neighbour improves is overlooked, whatever the order in the queues |
| exporter (`generator/`) | the text of a program, the last good version of it, the output file | merge packages, monomorphize, prune, rewrite unsafe casts, normalize, a deferred write | run by hand | what is needed is merged, once; every pass keeps the meaning; the file holds the last good version |
| monomorphizer (`generator/monomorphize/`) | the file, the instances made so far | hoist local types, clone an instance, rewrite references, once an iteration | the exporter | no generic code is left in use; every reference still means what it meant; every version compiles |

Interactions. `main` owns a reader and a writer. The template reads the number
of tests in main and leaves the reader to the feeder, which reads one input
after another and starts a worker for each. A worker calls `solve`, stores its
answer, signals its WaitGroup and counts. Main waits for the WaitGroups in order
and prints. Panics end the process from whichever goroutine they happen in, with
deferred writes on the way out. The containers are sequential; they meet their
callers through callbacks (controllers, `Less`, the body of an iteration).

Where it is hard. Interleavings of main, feeder and workers with panics in
between; short writes followed by further deferred writes; tokens cut by reads;
long sequences of legal calls (red-black fixups, windows of the hash table with
holes, pending updates, pending reversals); callbacks that change the structure;
boundaries (empty, full, one element, width of a word). `PROJECT.json` has each
of them at its line under "hazards".

## 2. Modules

| module | models | abstract specification |
|---|---|---|
| `FastWriter` | the writer's variables and calls, as operators any owner composes | - |
| `WriterClient` | the freest owner: any calls in any order, after a panic only flushes | properties of `FastWriter` |
| `Hackercup` | the template, one action for each atomic step of a goroutine, over `FastWriter` | `Contest` |
| `FastReader` | the reader, one action for each turn of a loop | `TokenStream`: tokens of the uncut stream |
| `RBTree` | the tree as nodes in memory, one action for each call and each turn of a fixup | `SortedList` |
| `HashTable` | both tables, resize one entry a step | a map, kept beside it as `model` |
| `MinHeap` | push and pop turn by turn | `PriorityQueue` |
| `SegmentTree` | the constructor and the four operations on the implicit tree, one turn of a loop a step | an array of elements, kept beside it |
| `Treap` | the functions as recursive operators, a program with two roots | `Lists` |
| `Containers` | a program that chooses a heap, the iteration over a tree, a treap of lists or a sorted treap, and composes their modules | theirs |
| `Solve` | `solve`, one pop of its queues a step | a condition on two neighbouring letters |
| `XorSpan` | `Add` of the basis, one turn of its loop a step | the span, kept beside it |
| `Helpers` | `utils`, the matrices of `solve.go`, the digits of `Int` and `Uint`, the slice map, as operators | the textbook definition of each |
| `Toolbox` | a program that uses the segment tree, `solve`, the basis or the helpers, and composes their modules | theirs |
| `MergePackages` | the walk from main to the packages it needs | the least set closed under mentions |
| `Monomorphize` | the iterations of the pass, over files of declarations and type expressions | each declaration expanded back to what it was made from |
| `PruneUnused` | worklist, type propagation and interface bridge of the pruning pass | the smallest closed set of declarations |
| `ExportStages` | the stages, panics and the deferred write, whatever the passes return | - |
| `Exporter` | the exporter, composed of `ExportStages`, `MergePackages`, `Monomorphize`, `PruneUnused` and the pass over unsafe casts | - |

How state corresponds. `FastWriter`: `buffer` is `w.buffer[:w.used]`, `used` is
`w.used`, `rest` what `String` has still to copy, `file` what the file has
received; `asked` is a history of what the calls were given. `Hackercup`: `mpc`,
`fpc`, `wpc` are program counters, `mi` and `fi` the loop variables, `wg` the
counters of the WaitGroups, `outputs` and `inputs` the memory the goroutines
share, `exit` the exit code. Each goroutine step between two synchronizations or
two writer calls is an action; `CopyChunk` is a turn of `String`. `FastReader`:
`base` is the number of bytes read before the present buffer, so that
`base + from` is a position in the stream; `n`, `neg`, `res`, `afterWhite` are
the calls' local variables. `RBTree`: `tree.at[m]` is the node at address `m`;
`op` is the fixup's `node` and `parent`; `cursor` is the variable that an
iterator captures, and `pending` a history of what it still owes. `HashTable`:
`entries1`, `entries2`, `log2Size`, `count` by name, `op` holds the new tables
while `resize` fills them; `model` is the history that `MapUntilHidden` compares
with. The two salted hash functions are two arbitrary functions from keys to
indices at each size, which covers every salt and every hasher. `SegmentTree`:
`arr`, `log2n` and `n` by name, `op` holds the arguments of the call, the loop it is
in (`at`) and the variables of that loop, `elements` the array the tree should stand
for; the controller is the freest one: values are sequences of what was applied to
what, updates are sequences, so that an update lost, repeated or out of order
shows in the value. `Treap`: nodes are records and a tree is a value, as no two
roots ever share a node; the controller keeps sizes and, beyond that of the
test, reverses subtrees lazily, since handing something down is what `Push` is
for. `Containers` adds one variable, `used`, to those of its components: it says
which container the program works with, so that one run asks the questions of
four small ones; `Toolbox` does the same for four tools. `Solve`: `al`, `br`,
`queue` and `dist` by name, `string` is `input.S`; `dist` goes on to n + 1, where
the loop ends. `XorSpan`: `x` is the array, `left` what the loop has left of `v`, and
an int is the set of its bits; `given`, `added`, `span` and `spanned` are histories
that say what `Add` should have answered. `Helpers`: the functions keep
no state, so `call` holds one call and its answer; words are sets of bit
positions where bits are moved about. `MergePackages`: `usedPackages`, `toSkip`
by name, `totalFile` is the sequence of packages merged, `text` who mentions
whom. `Monomorphize`: `file` is the parsed text, a sequence of declarations with
the type expressions in them, the kind of place where each stands and the methods called
on what is declared with it; `created`
and `iter` by name; `original` and `origin` are histories that take a name the
pass has made up back to what it stands for. `ExportStages`: `stage` is the exporter's program
counter, `version` the number of the version in `src`, `okVersion` that in the
variable of that name, `output` what the file holds. `PruneUnused`: a program is
a record of who refers to whom as the pass sees it; `work`, `reachFunc`, `reachType`, `reachIface`, `reachValue`,
`changed` by name, `unvisited` is what a range over the map has still to visit,
and `bridged` a history of the pairs that the bridge looked at.

## 3. Runs

| run | bounds | why they are enough |
|---|---|---|
| `writer` | 2 bytes, buffer of 5 with reserve 2, texts to 4 bytes, 6 bytes asked before the last call | texts longer than the room left, equal to it, exactly at and beside the flush level; several flushes |
| `hackercup` | three tests of three kinds, buffer of 7 for lines of 5 | a buffer that fills in the middle of a line; two workers at work while main prints and the feeder reads; inputs that are too short |
| `reader` | streams of 4 of 5 bytes, reads of 1 or 2, 2 calls, words of 6 bits | every token cut at every place, refills twice in a token, overflow by one digit |
| `rbtree` | 10 distinct keys; iterations over trees of at most 4 nodes (`MaxIterated`) | four nodes are the fewest with which the next node is neither a child nor the parent; ten nodes are the fewest with which the shortage of black moves up past a node that is not the root; smaller trees leave part of `deleteFixup` unreached |
| `rbtree_replace` | 3 keys | finding 1 |
| `hash_map` | 4 keys, 2 values, window of 2, sizes 1 to 8, with `Delete` | windows that overlap, keys that part or meet when the table grows, full buckets, every salt, holes before, in and behind windows, resize after them |
| `heap_order` | 6 values of 4 | finding 2 |
| `toolbox`: segment tree | 7 elements in 8 leaves, 2 changes and any queries | eight leaves are the fewest at which `Get` meets a node off both paths with an update pending; the padded leaf is inside ranges |
| `toolbox`: `solve` | all strings of up to 8 letters | both sides relax each other over several lengths, and pairs become stale in their queue |
| `toolbox`: basis | 3 places in a word of 4 bits, up to 4 of 12 ints | vectors that depend on three others, ints above the places, above the word, and with an empty low word |
| `toolbox`: helpers | ints of 8 bits, words of 64 with one or two bits, 2 x 2 matrices modulo 3, a map of 4 entries | the least int, both ends of every mask, every matrix; a key appended twice |
| `containers`: heap | 7 values of 4 | three levels, equal values, both children |
| `containers`: tree | 3 keys twice, 6 nodes, both directions | equal values on either side of each other, changes on either side of the cursor |
| `containers`: lists | 2 roots, 3 nodes, 2 values, 3 seeds | every shape, ties of seeds, reversals pending one above another |
| `containers`: sorted | 2 roots, 4 nodes, 3 keys | repeated keys on both sides of a split |
| `exporter`: merging | 4 packages, 256 graphs of who mentions whom | circles, packages found from two sides, packages nobody needs |
| `exporter`: monomorphizing | 2304 files of a box, a tree with a method, a function with a local type and main, each in three alphabetical orders; limit of 16 iterations | instances nested in instances, made before and after what they mention; local types that depend on parameters and that do not, in blocks that are entered and that are not; a method behind its type and before it, called and not; parameters named otherwise in a method |
| `exporter`: pruning | 16384 programs of 4 functions, 3 types, an interface of 1 or 2 methods, a variable | methods kept by the bridge that lead to types, types inside types that only then appear, methods that other calls keep anyway |
| `exporter`: stages | a panic at each, files that do not check | the deferred write from everywhere |
| `prune_bridge` | the same programs | finding 3 |
| `mono_make` | 8 files around `NewMinHeap` | finding 4 |

Every action and every disjunct of a next-state relation fires in some passing
run. Deadlock is checked where the system never stops: not for the clients that
may simply stop calling (`writer`, `reader`) or whose bound on calls is used up
(`toolbox`), nor for a pass that ends (`mono_make`). `Hackercup`, `Exporter` and
`PruneUnused` have a step that repeats itself where the process has exited or the
pass has returned, so that a deadlock there is a stage that cannot go on.

The passes of the exporter work on families of files of their own: a version of
the text is a number in `Exporter`, and what `Monomorphize` returns is not turned
into what `PruneUnused` is given. What the composition shows is the order of the
stages and what a panic inside a pass leaves behind.

Only `hash_map` uses symmetry, over keys and over values. It checks safety alone;
the table compares keys for equality and stores values unseen, and the hash
functions are variables that Init lets be anything, so that exchanging two keys
in a behaviour, hashes included, gives a behaviour.

### What they show

- Writer: until a write falls short, file and buffer together are what was asked
  for; after it, the file is a prefix, and a later flush may repeat bytes but
  lose none. `bytes` always finds room. `String` always ends.
- Template: no interleaving has a race; the report comes out in order up to the
  first test that panics; the process always ends, with 0 only if every test
  was solved and printed. `Contest` says the same from the outside.
- Reader: cutting the stream makes no difference; every call returns.
- Tree, table, treap: they implement their abstract specifications.
- Hash table with `Delete`: between the calls, however often it has grown, it is a
  map until a `Delete` empties a slot before the place of another key of the same
  window (`intact`); from then on keys may be invisible, be stored twice and come
  back. Count and growth stay right. Nothing is said of lookups while `resize` runs:
  `log2Size` is raised first (`hash_map.go:174`) and the tables are replaced last
  (202-203), so that `Get2` would look in the old tables with the new size; no
  code calls it there.
- Heap: `Push` keeps the order and `Pop` takes the first (`PushAndPopRight`); the
  order after a `Pop` is finding 2.
- Segment tree: the values stay right under everything but `Get`, which applies
  a pending update to a node and leaves it pending (`segment_tree.go:147`), so
  that it counts twice later; `GetAnswersUntilSpoiled` says what is right until
  then. The longest range is right where nothing is pending.
- `solve`: no bound that has improved is overlooked, though queues grow while
  they are read and hold stale pairs (`SolveIsRight`). The repository does not
  hold the problem, so that the answer is compared with a characterisation and
  not with a game: Alice wins exactly if some A is not followed by a B. The
  improvements of lines 42-45 never happen on any string (`WhatImproves`).
- Basis: `Add` tells what is spanned, until it panics on an int with a bit above
  its places, or one other than 0 whose low word is zero (`XorAnswers`).
- Helpers: they agree with their definitions, at 0, 1, and the least int (of
  which `Int` prints the digits and `Abs` is negative).
- Merging: whatever order the map is visited in, what is merged is what main
  needs, each package once, main first.
- Monomorphizing: what is returned means what was given (`MeaningKept`). An instance
  of a type has those methods of the type that stand after it: the index of methods is
  made in one go through the file (`monomorphize.go:48-70`), and a method that
  stands before its generic type, say in an earlier file of the package, is passed over
  (line 66). Where such a method is called on an instance, the version without it
  does not compile, and the pass panics; where it is not called, the instance lacks it
  without notice.
- Code without parameters mentions no generic declaration where types are spelled
  out (`NoGenericsLeft`), but for instances for a local type that is not hoisted.
  `processBlock` (lines 512-540) enters blocks, loops, and an `if` with its first `else if`;
  not function literals, case and comm clauses, labeled statements, or an `else if`
  behind the first. A local type there stays where it is, and `Box[L]` for such an `L` is
  never made: what is returned is right, but still generic.
- Files whose parameters stand only where the pass looks, and whose methods stand after
  their types where they are called (`Tractable`), compile after every iteration, calls of
  methods included; for parameters elsewhere see finding 4.
- Exporter: the file ends up with the last version that was accepted, and is
  never left empty; before it is created, a panic leaves the old one.
- Unsafe casts: nothing is ever rewritten, as the match asks for a unary
  expression where the parser makes a `StarExpr`; the import stays consistent.
- Pruning: whatever order the maps are visited in, a kept declaration mentions
  only kept ones, as far as the walk over bodies sees, and nothing is kept
  that is not needed; the bridge is finding 3.

### Findings

1. `InsertOrReplace` overwrites the greatest smaller value (`rbtree.go:71`),
   where `rbtree_test.go:25-31` inserts (run `rbtree_replace`).
2. `down` does not compare the two children (`heap.go:60`), so that values do
   not come out in the order `heap_test.go:15-24` expects (run `heap_order`).
3. A type that becomes reachable only through a method which the bridge keeps
   loses its own methods (`prune_unused_code.go:389`), where the comment above
   the bridge says that they must be retained (run `prune_bridge`).
4. The first argument of `make` and `new` is substituted only in calls that are
   arguments of a call (`monomorphize.go:1069`) or within an instance, so that the
   clone of `heap.NewMinHeap`, with its `make([]T, 0)` in a composite literal, does
   not compile and the pass panics, where `monomorphize.go:74` says that the file
   must compile every iteration (run `mono_make`).

## 4. Fairness

- `Hackercup`: weak fairness of main, the feeder and each worker. The Go
  scheduler is preemptive and runs every runnable goroutine; writes return;
  stdin delivers its rest or its end. A goroutine that waits is not enabled, so
  nothing is assumed of who signals first.
- `WriterClient`: weak fairness of a turn of `String` only, in which nothing
  blocks. `FastReader`: of the turns of a call's loops only; no call is ever
  assumed to be made.
- `RBTree`: a fixup that has begun is continued, as it runs inside a call
  (`Fairness` is written out as "no fixup is under way infinitely often, or
  turns are taken infinitely often", which is weak fairness without ENABLED).
- The other specifications state none; their properties are safety.

## 5. Proofs

`FastWriterProofs` has one lemma for each operation of the writer and the
invariant `WInv`: type correctness, room for one more number (`RoomForOneMore`), `NothingLostOrRepeated`
and "there is a rest only while copying". The last is what makes the others
inductive: `NothingLostOrRepeated` speaks of file, buffer and rest together, and
room is regained only because a flush happens in the very step that crosses the
level. The lemmas are stated of an operation and not of a specification, so that
they serve every owner of a writer: the second half of the module uses them for the
freest one, `WriterClient`, and `HackercupProofs` for the template (it reaches
`ClientAssumption` through this module, and cites it nowhere).

`WrittenInOrder` says what the file holds after a short write and needs more:
`OInv` adds that after the failure the buffer goes on from some place in the file
(`Resumable`: the file up to there, the buffer and the rest are what was asked
for). A retry that is short again only appends to the file, so the same place
still serves; one that succeeds empties the buffer, and what lies between that
place and the end of the old file is the stretch that was written twice.

`HackercupProofs` proves `HInv`: the writer's `WInv`, where main
and feeder stand (`Control`), which workers exist and which WaitGroups are open
(`Workers`), whose case each worker holds and what it answers (`Answers`), whom
main has waited for (`Waited`), what the writer is doing at each place of main
(`Writing`), how many bytes were asked for and that each is the report's
(`Progress`), and how the process has ended (`Ended`). `PrintsTheReport` is not
inductive: that the next byte is the report's needs the worker's answer, which
needs its case, which needs the feeder's position. There is one lemma for each
action. From `HInv` follow type correctness, freedom from races, the order of the
report and the exit codes, for any number of tests, any input, and any sizes of
buffer and reserve.

`GeneratorProofs` proves `PInv` of `PruneUnused`, for every program the pass may be given: type
correctness, `Following` (what has left the worklist, or has been visited by a
range that has changed nothing, has all its references reached) and `ReachedForAReason`
(what is reached lies in every closed set). `KeepsWhatIsUsed` speaks of the end
only; what carries it there is that a round without a change leaves nothing
behind, in whatever order the map is visited.

The same module proves `MInv` of `MergePackages`, for every finite set of packages and
every graph of mentions: `SeenOnce` (what is merged or queued has no repetitions and is
what `toSkip` holds), `Followed` (what a merged package mentions has been found)
and `FoundForAReason` (what has been found lies in every closed set).
`MergesWhatIsNeeded` speaks of the least closed set only when the queue is empty:
there `Followed` makes what was found closed and `FoundForAReason` makes it least.

Of the stages it proves `WritesLastGood`, for whatever the passes return and wherever
they panic: `okVersion` follows `version` at every step and `VersionAt` says which
version each stage holds and that the file is empty until the deferred write. The
theorem is of `ExportStages`, on its own; each action of `Exporter` that changes
`stage`, `version`, `okVersion` or `output` is an action of `ExportStages` with what it does to
the variables of the passes.

`ToolProofs` proves `SolveIsRight` for strings of every length. The invariant
`SInv` says that, in spite of its queues, `solve` hardly ever improves anything:
all bounds but Alice's at the end of the string and Bob's at its beginning stay
what they were before the loop (`OthersUntouched`), and hers improves only to an A
that another A follows (`ImprovedByTwoAs`). This bounds her from above;
`TwoAsNoted` bounds her from below: what two As in a row are good for is in her
bound, or its pair is in the queue of a length that is still to come, where
`NothingOverlooked` keeps it. The lemma `WhatImproves` goes through the branches of
the loop.

`RefinesContest` carries `HInv` to the refinement: with the mapping of `Hackercup`
every step of the program is a step of `Contest` or changes nothing that `Contest`
sees. A flush publishes a further part of the report, because
`NothingLostOrRepeated` makes the file a prefix of what was asked for and
`PrintsTheReport` makes that a prefix of the report; after a short write the place
at which `OInv` lets the buffer go on takes over. Every end of the process is one
that `Contest` allows.

`RBTreeProofs` proves the red-black tree right for any values and any number of
nodes. Its properties follow paths through the nodes, which no step can be seen
to keep; the invariant `IInv` says instead that there is a numbering `g` of the nodes
from left to right (`node`, `pos`), with the stretch of numbers below each node (`lo`,
`hi`), and a black height `h` for each node, such that the children of a node split its
stretch and parents and children agree (`Shape`); the values ascend with the numbers
(`Ordered`); heights agree except on the one side that a `deleteFixup` has yet to
make up for (`Level`); no red node has a red child save where the fixup's
node stands (`Coloured`); the fixup's variables point where they should (`OpRight`); and
what an iteration owes has numbers ahead of its cursor (`Iterating`). All of it is
local to a node and its neighbours. A rotation and a recolouring keep the numbering
and change the stretches of two nodes (`Moved`); an insert opens a place in it
(`Grew`), a removal closes the node's, also where another node takes over its
pointers (`Dropped`), a replacement changes one value (`Revalued`), `Clear` leaves
none (`Emptied`). That every step is of one of these kinds (`EachStep`, over `StepIs`) is the
bulk of the proof; everything else is read off the kinds. The recursive functions of
the model (`Linked`, `InOrder`, `Find`, the neighbours, the count of blacks) are computed
from the numbering, each being the only function that satisfies its equations
(`Agree`, by a least counterexample). From `IInv` follow `RBTypeOK`, `RedBlack`,
`IterationMissesNothing`, `HandlesStayValid`, and, for a tree without `InsertOrReplace`,
`ImplementsSortedList` (`SortsLikeAList`; with it the refinement fails, finding 1, so
that its hypothesis is that `Overrides` does not hold `TRUE`; the other five theorems
hold with it). TLC cannot enumerate the numberings; the run `rbtree` checks
what `IInv` implies, and `containers` the same of iterations over equal values.

`HashTableProofs` proves two invariants of the hash table, for any keys, values, hash
functions, window and sizes. `CountInv` counts: the live entries are `count`, and
while a table is rebuilt they are those of the new tables and those still to be
moved (`Moving`); a Set that has rebuilt the table, or is about to, has room
(`Roomy`), which one doubling brings about. From it follow `HTTypeOK` and `SetIsRead`.
`MapInv` says that until a `Delete` hides an entry the tables are a map (`IsMap`):
every entry lies in its window or bucket and is the first that a search comes upon
(`InOrder`), and the tables hold exactly the entries of `model`. `MapUntilHidden` follows
wherever no resize is under way; while one is, `MapInv` speaks of the tables with the
size they were made for (`TableLog`), not of what `Get2` would find. There the new tables
are in order as well, and they and what is still to be moved share the map
(`Shared`): this is why `add`, which compares no keys, never meets the
key it adds. An invariant about lookups alone would not be inductive, since a slot
that is filled ends the searches of the windows around it. That the sizes are
numbers, and double, is proved with a least counterexample (`SizeDef`).

`FastReaderProofs` proves that the reader implements `TokenStream`, for inputs of every
length, reads of every size and integers of every width. `ReaderInv` says where the
number or the word of the running call began (`NumberFrom`, `RunBegan`) and what has
been read of it: of a word the bytes so far are in `res` (`Scanning`); of a number `n`
is congruent, within the width, to the value of its digits so far (`Taking`), which
one more turn of the loop keeps, whether or not it overflows (`CongruentStep`). With
the byte behind the token, or the end of the file, the token is the one that
`TokenStream` cuts out of the whole stream (`NumberIs`, `RunIs`). The value of digits
is a recursive function, which the lemmas `ValuesExist` and `ValuesAgree` reach with a
least counterexample.

`ToolProofs` also proves the segment tree right for every size, every set of marks and
every sequence of calls. `IInv` speaks of three things at once: the array of nodes,
the array `elements`, and what is owed to each node (`IsOwed`), which is what is
pending in it followed by what is owed to its parent. `StandsFor` says that a leaf with what
is owed to it is its element, and that a node has the value of its children unless
it is out of date. Each step changes the two sides together: `PushDown` moves what is
pending down without changing what is owed; `pushUpdates` leaves nothing owed on
the path (`Clean`), so that the marks `Update` puts at nodes beside the path come on top
of all others below; while its loop runs the tree stands for the array in which only
the leaves outside what is left of the range have changed (`Covered`), and until
`rebuild` has passed only the two paths are out of date. `Get`'s two sums are those of
the elements on both sides of what is left (`Summed`); that they stay right in the
very call that spoils the tree needs `Whole`, as the nodes it has yet to take lie above those it has
changed. For `LongestRangeWherePredicate` the scan knows a range of good elements up to
`rMax` (`Scan`), and that the first bad one is below the node at which the climb
stopped (`DescendingAt`). That the answer never exceeds `rMax`, pending updates or
not, hangs on the path of `rMax` being clean (`Edge`). From `IInv` follow type
correctness and the three properties that the run checks of the tree. `Above`, `Total` and `Owed` are recursive
functions: that they exist and are what their equations say is proved first
(`RecursionExists`, `TotalIs`, `OwedIs`), with least counterexamples in place of
induction (`StepsTo`).

`HeapAndSpanProofs` proves `PushAndPopRight` for heaps of every length. While `up` runs only
the value that rises may be less than its parent, and its children are not less
than its parent (`Rising`); while `down` runs the array is a permutation of the one
before, with what was first at its end (`Sinking`).

The same module proves `XorAnswers` of the basis, for ints, words and arrays of every
width. While `Add` runs, what is left of the int differs from the int by something
spanned (`Reducing`); the span is closed and holds the vectors kept (`Spans`); and as
long as all ints fit, whatever else is spanned has the place of its highest bit taken
(`Led`), so that nothing can be left of an int that is spanned, and an int of which
something is left was not. The last carries over a new vector because the xor of two
vectors with different highest bits has one of these. An int with a bit above the
places keeps it to the panic (`NoneAbove`). That every vector is at the place of its
highest bit (`XorTypeOK`) also makes each turn of the loop clear the highest bit left
(`AddDescends`): this bounds the loop without an assumption on fairness.

Assumptions on constants: `SizesAssumption` (the reserve is smaller than the
buffer), `ClientAssumption` (the texts are made of bytes), `CasesAssumption`
(the cases that are won and those that crash are different ones),
`BytesAssumption` (the report is made of bytes), `ProgramsAssumption` (a
program refers to its own declarations and has a `main`), `PackagesAssumption`
(there are finitely many packages, and texts mention packages),
`HashTableAssumption` (the mark for an absent key is no key and no value, the window
is not empty, and what the hash functions give are natural numbers),
`ReaderAssumption` (a digit is less than half the range of an integer, and minus is no
digit), `MinHeapAssumption` (the values are integers), `XorAssumption`
(the places lie in the low word, the low word in the int), `RBTreeAssumption` (the values
are integers, what marks the absence of a node is no node, and the bounds of the
model are in order) and `SegmentTreeAssumption` (the size fits the number of leaves,
and ends of ranges are integers). TLC evaluates them in every run of
their modules.

Only model-checked: liveness (`Terminates`, `StringReturns`, `CallsReturn`,
`FixupsEnd`), which is out of the prover's reach, the treap with its refinement of
`Lists`, the helpers, the monomorphizer, and the exporter as a whole.
`Treap`, `Monomorphize` and `Helpers` use recursive operators, and `Helpers`
the bits of `Bitwise`, about which nothing can be proved here, nor in
the modules that compose them (`Containers`, `Toolbox`, `Exporter`). The other
modules are written without them.

## 6. What is left out

- The ticker of `PrintSeconds` and the log on stderr: they leave no trace.
- `Float` both ways: its digits are the library's. In `FastWriter` a printed number
  is any text; which one it is, is in `Helpers`.
- `MapArray` and `CollectMap` of `utils`, which copy.
- `Exporter`: the contents of the texts, what `normalizeGo` formats, and the
  copies of each version that are written under `output/` for inspection.
- `RBTree`: the field `Size`, which no code changes; programs that remove the
  node an iterator stands on, clear the tree during an iteration, iterate an
  empty tree (a nil dereference) or remove a node twice.
- `Treap`: `First` and `Last` where a reversal is pending; they look at a child
  before they push (a hazard).
- In `PruneUnused`, what a body mentions is given: the walk over syntax, which
  passes over conversions, the initial values of kept variables and the
  interfaces of libraries (a hazard), is not in the model.
- In `Monomorphize`, statements and the check of types beyond names, numbers of
  parameters and the methods that are called. Which block a local type stands in is
  one bit, `entered`; the path of the block in a hoisted name is left out. Left out of its files: calls whose inferred arguments only the
  cloned body brings in under another key, names built from words that join to
  the same name (arrays that differ in length only, types named with the joining
  letters), parameters named like a declared type, parameters of a type that its
  body does not mention, and partly explicit instantiations, on which the pass
  panics. A type in a type assertion or a variadic parameter is never rewritten
  (place `asserted`); a method whose receiver names its parameters otherwise is in
  the files and ends in a panic, as would local types that mention each other
  (`Tractable` names both).
- The sum in `LongestRangeWherePredicate`: its predicate here only looks for a
  mark, so that merging a value twice does not show (a hazard).
- Generated programs, tests, editor and build files.

## 7. Plan

In the order of importance; all of the modules are written.

1. `FastWriter`, `WriterClient` with proofs. 2. `Hackercup`, `Contest` with
proofs. 3. `FastReader`, `TokenStream` with proofs. 4. `RBTree`, `SortedList`
with proofs. 5. `HashTable` with proofs.
6. `MinHeap`, `PriorityQueue` with proofs. 7. `SegmentTree` with proofs. 8. `Treap`, `Lists` and
`Containers`. 9. `PruneUnused` with proofs. 10. `Monomorphize`. 11. `MergePackages`,
`ExportStages` with proofs, `Exporter`. 12. `Solve`, `XorSpan` with proofs. 13. `Helpers`, `Toolbox`.

Every safety property that a run checks of a module without recursive operators
or `Bitwise` is a theorem, but for the findings. What is left is out of the
prover's reach: liveness, and the modules that need those operators or compose
some that do (`Treap`, `Monomorphize`, `Helpers`, and with them `Containers`,
`Toolbox` and `Exporter`).
