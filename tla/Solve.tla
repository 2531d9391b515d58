------------------------------- MODULE Solve --------------------------------
(***************************************************************************)
(* solve of hackercup/solve.go: who wins on a string of As and Bs.  It     *)
(* keeps, for every position, how near the other end of an interval may be *)
(* that Alice (al) or Bob (br) is known to win, and relaxes both through a *)
(* queue for each length of an interval.  One pop is a step.               *)
(***************************************************************************)
EXTENDS Integers, Sequences

CONSTANT MaxN   \* bound: the length of the strings

VARIABLES
  string,  \* input.S
  al, br,  \* al and br
  queue,   \* queue; a pair is a side and a position
  dist     \* dist

solveVars == <<string, al, br, queue, dist>>

N == Len(string)
Positions == 0..N + 1
Letter(i) == IF i \in 1..N THEN string[i] ELSE "X"

Of(side, i) == [side |-> side, at |-> i]

\* The first loop of solve walks the positions and queues two pairs for each.
Queued(d) ==
  CASE d \in 1..N + 2 /\ d - 1 <= N + 2 - d -> <<Of("A", d - 1), Of("B", N + 2 - d)>>
    [] d \in 1..N + 2 /\ d - 1 > N + 2 - d -> <<Of("B", N + 2 - d), Of("A", d - 1)>>
    [] OTHER -> <<>>

SolveInit ==
  /\ string \in UNION {[1..n -> {"A", "B"}] : n \in 1..MaxN}
  /\ al = [i \in Positions |-> IF Letter(i) = "A" THEN i ELSE 0]
  /\ br = [i \in Positions |-> IF Letter(i) = "B" THEN i ELSE N + 1]
  /\ queue = [d \in 0..N + 3 |->
                Queued(d) \o (IF d = 1 THEN [i \in 1..N |-> Of(string[i], i)] ELSE <<>>)]
  /\ dist = 1

\* That the bound of a side at a position should be to, and the distance of
\* the queue in which this is noted.
Bound(side, i, to, d) == [side |-> side, at |-> i, to |-> to, dist |-> d]

\* Mutant of Follows: Bob's interval is tested at its own end.
FollowsAtOwnEnd(side, l, r) ==
  CASE side = "A" /\ Letter(r + 1) = "A" -> {Bound("A", r + 1, l, dist + 1)}
    [] side = "A" /\ Letter(r + 1) # "A" /\ l # r -> {Bound("B", l + 1, r + 1, dist)}
    [] side = "B" /\ Letter(l) = "B" -> {Bound("B", l - 1, r, dist + 1)}
    [] side = "B" /\ Letter(l) # "B" /\ l # r -> {Bound("A", r - 1, l - 1, dist)}
    [] OTHER -> {}

\* What follows from a side's interval.
Follows(side, l, r) ==
  CASE side = "A" /\ Letter(r + 1) = "A" -> {Bound("A", r + 1, l, dist + 1)}
    [] side = "A" /\ Letter(r + 1) # "A" /\ l # r -> {Bound("B", l + 1, r + 1, dist)}
    [] side = "B" /\ Letter(l - 1) = "B" -> {Bound("B", l - 1, r, dist + 1)}
    [] side = "B" /\ Letter(l - 1) # "B" /\ l # r -> {Bound("A", r - 1, l - 1, dist)}
    [] OTHER -> {}

Interval(el) == IF el.side = "A" THEN <<al[el.at], el.at>> ELSE <<el.at, br[el.at]>>

\* A pair is passed over when its interval has changed since, or ends at a
\* sentinel.
Consequences(el) ==
  LET l == Interval(el)[1]
      r == Interval(el)[2]
  IN IF r - l + 1 # dist \/ (el.side = "A" /\ r = N + 1) \/ (el.side = "B" /\ l = 0)
       THEN {} ELSE Follows(el.side, l, r)

Improves(b) == IF b.side = "A" THEN al[b.at] < b.to ELSE br[b.at] > b.to

\* One turn of the inner loop.
Pop ==
  /\ dist <= N
  /\ queue[dist] # <<>>
  /\ LET better == {b \in Consequences(Head(queue[dist])) : Improves(b)}
         popped == [queue EXCEPT ![dist] = Tail(@)]
     IN \/ /\ better = {}
           /\ queue' = popped
           /\ UNCHANGED <<al, br>>
        \/ \E b \in better :
             /\ queue' = [popped EXCEPT ![b.dist] = Append(@, Of(b.side, b.at))]
             /\ IF b.side = "A" THEN al' = [al EXCEPT ![b.at] = b.to] /\ UNCHANGED br
                ELSE br' = [br EXCEPT ![b.at] = b.to] /\ UNCHANGED al
  /\ UNCHANGED <<string, dist>>

\* The outer loop goes on, and ends when dist is greater than N.
NextDist ==
  /\ dist <= N
  /\ queue[dist] = <<>>
  /\ dist' = dist + 1
  /\ UNCHANGED <<string, al, br, queue>>

SolveNext == Pop \/ NextDist

SolveSpec == SolveInit /\ [][SolveNext]_solveVars

Alice == al[N] >= 1

-----------------------------------------------------------------------------
\* al and br stay within the string and its sentinels, and no position that
\* is looked up lies beyond them.
SolveTypeOK ==
  /\ al \in [Positions -> Positions] /\ br \in [Positions -> Positions]
  /\ \A d \in DOMAIN queue : \A k \in DOMAIN queue[d] : queue[d][k].at \in Positions
  /\ dist \in 1..N + 1

InQueue(el, d) == \E k \in DOMAIN queue[d] : queue[d][k] = el

\* A bound whose interval is longer than dist waits in the queue of that
\* length, whatever was pushed before it improved.
NothingOverlooked ==
  \A el \in {Of(side, i) : side \in {"A", "B"}, i \in Positions} :
    LET size == Interval(el)[2] - Interval(el)[1] + 1
    IN dist < size => InQueue(el, size)

\* No bound is overlooked; and when solve is done Alice wins exactly if some
\* A is not followed by a B (solve).
SolveIsRight ==
  /\ NothingOverlooked
  /\ dist = N + 1 => (Alice <=> \E i \in 1..N : string[i] = "A" /\ Letter(i + 1) # "B")
=============================================================================
