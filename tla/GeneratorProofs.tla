-------------------------- MODULE GeneratorProofs --------------------------
(***************************************************************************)
(* What holds of three parts of the generator for every input: of the      *)
(* merge of packages (any finite set of them, mentioning each other in any *)
(* way, queued in any order), of the pruning pass (any program it is       *)
(* given), and of the stages (whatever the passes return, and panics).     *)
(***************************************************************************)
EXTENDS MergePackages, PruneUnused, ExportStages, SequenceTheorems, FiniteSetTheorems, TLAPS

-----------------------------------------------------------------------------
(* Merging the packages: exactly what main needs is merged                 *)

MergeTypeOK ==
  /\ text \in [Packages -> SUBSET Packages]
  /\ usedPackages \in Seq(Packages)
  /\ toSkip \in SUBSET Packages
  /\ totalFile \in Seq(Packages)

Seen == totalFile \o usedPackages

\* No package is seen twice, and what is seen is what toSkip holds.
SeenOnce ==
  /\ IsInjective(Seen)
  /\ Range(Seen) = toSkip
  /\ Seen[1] = MainPackage

\* What a merged package mentions has been found.
Followed == \A i \in DOMAIN totalFile : text[totalFile[i]] \subseteq toSkip

\* What has been found is needed.
FoundForAReason == \A qs \in SUBSET Packages : Suffices(qs) => toSkip \subseteq qs

\* Followed turns into closure only when the queue is empty, and
\* FoundForAReason makes what is closed then the least set.
MInv == MergeTypeOK /\ (Seen # <<>> => SeenOnce /\ Followed /\ FoundForAReason)

LEMMA InitMInv == MergeInit => MInv
<1> SUFFICES ASSUME MergeInit PROVE MInv
  OBVIOUS
<1>1. MergeTypeOK
  BY PackagesAssumption DEF MergeInit, MergeTypeOK
<1>2. Seen = <<MainPackage>>
  BY <1>1, ConcatEmptySeq DEF MergeInit, Seen, MergeTypeOK
<1>3. SeenOnce
  BY <1>2 DEF SeenOnce, IsInjective, Range, MergeInit
<1>4. Followed /\ FoundForAReason
  BY DEF Followed, FoundForAReason, MergeInit, Suffices
<1> QED BY <1>1, <1>3, <1>4 DEF MInv

\* Two sequences without repetition that share no element make one.
LEMMA InjectiveConcat ==
  ASSUME NEW S, NEW s \in Seq(S), NEW t \in Seq(S), IsInjective(s), IsInjective(t),
         Range(s) \cap Range(t) = {}
  PROVE  IsInjective(s \o t)
<1>1. /\ Len(s) \in Nat /\ Len(t) \in Nat /\ s \o t \in Seq(S)
      /\ DOMAIN s = 1..Len(s) /\ DOMAIN t = 1..Len(t) /\ DOMAIN (s \o t) = 1..Len(s) + Len(t)
      /\ \A i \in 1..Len(s) + Len(t) : (s \o t)[i] = IF i <= Len(s) THEN s[i] ELSE t[i - Len(s)]
  BY LenProperties, ConcatProperties
<1>2. ASSUME NEW a \in DOMAIN (s \o t), NEW b \in DOMAIN (s \o t), (s \o t)[a] = (s \o t)[b]
      PROVE  a = b
  <2>1. CASE a <= Len(s) /\ b <= Len(s)
    BY <1>1, <1>2, <2>1 DEF IsInjective
  <2>2. CASE a > Len(s) /\ b > Len(s)
    <3>1. a - Len(s) \in DOMAIN t /\ b - Len(s) \in DOMAIN t /\ t[a - Len(s)] = t[b - Len(s)]
      BY <1>1, <1>2, <2>2
    <3>2. a - Len(s) = b - Len(s)
      BY <3>1 DEF IsInjective
    <3> QED BY <1>1, <3>2
  <2>3. ASSUME NEW i \in DOMAIN (s \o t), NEW j \in DOMAIN (s \o t), i <= Len(s), j > Len(s)
        PROVE  (s \o t)[i] # (s \o t)[j]
    <3>1. s[i] \in Range(s) /\ t[j - Len(s)] \in Range(t)
      BY <1>1, <2>3 DEF Range
    <3>2. (s \o t)[i] = s[i] /\ (s \o t)[j] = t[j - Len(s)]
      BY <1>1, <2>3
    <3> QED BY <3>1, <3>2
  <2> QED BY <1>1, <1>2, <2>1, <2>2, <2>3
<1> QED BY <1>2 DEF IsInjective

LEMMA ConcatPackagesAssociative ==
  ASSUME NEW s \in Seq(Packages), NEW t \in Seq(Packages), NEW u \in Seq(Packages)
  PROVE  (s \o t) \o u = s \o (t \o u)
  BY ConcatAssociative

LEMMA MergePackageMInv ==
  ASSUME MInv, MergePackage
  PROVE  MInv'
<1> DEFINE first == Head(usedPackages)
           found == Found(first)
<1>1. PICK order \in Bijection(1..Cardinality(found), found) :
        usedPackages' = Tail(usedPackages) \o order
  BY DEF MergePackage
<1>2. /\ usedPackages # <<>> /\ text' = text
      /\ toSkip' = toSkip \cup found
      /\ totalFile' = Append(totalFile, first)
  BY DEF MergePackage
<1>3. /\ text \in [Packages -> SUBSET Packages]
      /\ usedPackages \in Seq(Packages) /\ totalFile \in Seq(Packages)
      /\ toSkip \in SUBSET Packages
  BY DEF MInv, MergeTypeOK
<1>4. /\ first \in Packages /\ Tail(usedPackages) \in Seq(Packages)
      /\ usedPackages = <<first>> \o Tail(usedPackages)
  <2>1. first \in Packages /\ Tail(usedPackages) \in Seq(Packages)
    BY <1>2, <1>3, HeadTailProperties
  <2>2. <<first>> \o Tail(usedPackages) = usedPackages
    <3>1. Len(usedPackages) \in Nat \ {0}
      BY <1>2, <1>3, EmptySeq
    <3>2. SubSeq(usedPackages, 1, Len(usedPackages))
            = <<usedPackages[1]>> \o SubSeq(usedPackages, 2, Len(usedPackages))
      BY <1>3, <3>1, SubSeqRecursiveFirst
    <3>3. first = usedPackages[1]
      OBVIOUS
    <3> QED BY <1>2, <1>3, <3>2, <3>3, SubSeqFull, TailIsSubSeq
  <2> QED BY <2>1, <2>2
<1>5. found \in SUBSET Packages /\ found \cap toSkip = {} /\ text[first] \subseteq toSkip \cup found
  BY <1>3, <1>4 DEF Found
<1>6. /\ order \in Seq(Packages) /\ Range(order) = found /\ IsInjective(order)
  <2>1. IsFiniteSet(found) /\ Cardinality(found) \in Nat
    BY <1>5, PackagesAssumption, FS_Subset, FS_CardinalityType
  <2>2. order \in [1..Cardinality(found) -> found] /\ IsInjective(order)
    BY <1>1 DEF Bijection, Injection
  <2>3. Range(order) = found
    BY <1>1 DEF Bijection, Surjection, Range
  <2>4. order \in Seq(Packages)
    BY <1>5, <2>1, <2>2
  <2> QED BY <2>2, <2>3, <2>4
<1> HIDE DEF first, found
<1>7. /\ usedPackages' \in Seq(Packages) /\ totalFile' \in Seq(Packages)
      /\ totalFile' = totalFile \o <<first>>
  BY <1>1, <1>2, <1>3, <1>4, <1>6, ConcatProperties, AppendProperties, AppendIsConcat
<1>8. MergeTypeOK'
  BY <1>2, <1>3, <1>5, <1>7 DEF MergeTypeOK
<1>9. Seen' = Seen \o order /\ Seen \in Seq(Packages)
  <2> DEFINE rest == Tail(usedPackages)
             one == <<first>>
  <2>0. one \in Seq(Packages) /\ rest \in Seq(Packages) /\ one \o rest = usedPackages
    BY <1>4
  <2> HIDE DEF rest, one
  <2>1. usedPackages' = rest \o order /\ totalFile' = totalFile \o one
    BY <1>1, <1>7 DEF rest, one
  <2>2. one \o (rest \o order) = usedPackages \o order
    <3> one \in Seq(Packages) /\ rest \in Seq(Packages) /\ order \in Seq(Packages)
      BY <1>6, <2>0
    <3>1. (one \o rest) \o order = one \o (rest \o order)
      BY ConcatPackagesAssociative
    <3> QED BY <2>0, <3>1
  <2>3. rest \o order \in Seq(Packages)
    BY <1>6, <2>0, ConcatProperties
  <2>4. (totalFile \o one) \o (rest \o order) = totalFile \o (one \o (rest \o order))
    <3> totalFile \in Seq(Packages) /\ one \in Seq(Packages) /\ rest \o order \in Seq(Packages)
      BY <1>3, <2>0, <2>3
    <3> QED BY ConcatPackagesAssociative
  <2>5. (totalFile \o usedPackages) \o order = totalFile \o (usedPackages \o order)
    BY <1>3, <1>6, ConcatPackagesAssociative
  <2>6. totalFile \o usedPackages \in Seq(Packages)
    BY <1>3, ConcatProperties
  <2> QED BY <2>1, <2>2, <2>4, <2>5, <2>6 DEF Seen
<1>10. /\ SeenOnce /\ Followed /\ FoundForAReason /\ Len(Seen) > 0 /\ first \in Range(Seen)
  <2>1. /\ Len(Seen) = Len(totalFile) + Len(usedPackages) /\ Len(totalFile) \in Nat
        /\ Len(usedPackages) \in Nat \ {0}
    BY <1>2, <1>3, ConcatProperties, EmptySeq, LenProperties DEF Seen
  <2>2. Len(totalFile) + 1 \in DOMAIN Seen /\ Seen[Len(totalFile) + 1] = usedPackages[1]
    BY <1>3, <1>9, <2>1, ConcatProperties, LenProperties DEF Seen
  <2>3. first = usedPackages[1]
    BY DEF first
  <2>4. Seen # <<>>
    BY <2>1
  <2> QED BY <2>1, <2>2, <2>3, <2>4 DEF MInv, Range
<1>11. SeenOnce'
  <2>1. IsInjective(Seen')
    BY <1>5, <1>6, <1>9, <1>10, InjectiveConcat DEF SeenOnce
  <2>2. Range(Seen') = toSkip'
    BY <1>2, <1>6, <1>9, <1>10, RangeConcatenation DEF SeenOnce
  <2>3. Seen'[1] = MainPackage
    BY <1>6, <1>9, <1>10, ConcatProperties, LenProperties DEF SeenOnce
  <2> QED BY <2>1, <2>2, <2>3 DEF SeenOnce
<1>12. Followed'
  <2>1. ASSUME NEW i \in DOMAIN totalFile' PROVE text[totalFile'[i]] \subseteq toSkip'
    <3>1. /\ Len(totalFile) \in Nat /\ i \in 1..Len(totalFile) + 1
          /\ totalFile'[i] = IF i <= Len(totalFile) THEN totalFile[i] ELSE first
          /\ DOMAIN totalFile = 1..Len(totalFile)
      BY <1>2, <1>3, <1>4, <1>7, <2>1, AppendProperties, LenProperties
    <3>2. CASE i <= Len(totalFile)
      BY <1>2, <1>10, <3>1, <3>2 DEF Followed
    <3>3. CASE i > Len(totalFile)
      BY <1>2, <1>5, <3>1, <3>3
    <3> QED BY <3>1, <3>2, <3>3
  <2> QED BY <1>2, <2>1 DEF Followed
<1>13. FoundForAReason'
  <2>1. ASSUME NEW qs \in SUBSET Packages, Suffices(qs) PROVE toSkip' \subseteq qs
    <3>1. toSkip \subseteq qs /\ first \in qs
      BY <1>10, <2>1 DEF FoundForAReason, SeenOnce
    <3>2. found \subseteq qs
      BY <2>1, <3>1 DEF Suffices, found, Found
    <3> QED BY <1>2, <3>1, <3>2
  <2> QED BY <1>2, <2>1 DEF FoundForAReason, Suffices
<1> QED BY <1>8, <1>11, <1>12, <1>13 DEF MInv

LEMMA MergedMInv ==
  ASSUME MInv, Merged
  PROVE  MInv'
<1>1. MergeTypeOK'
  BY DEF Merged, MInv, MergeTypeOK
<1>2. Seen' = <<>>
  BY <1>1, ConcatEmptySeq DEF Merged, Seen, MergeTypeOK
<1> QED BY <1>1, <1>2 DEF MInv

\* What the loop rests on, for every repository and every order of the maps.
THEOREM MergeInvariant == MergeSpec => []MInv
<1>1. MInv /\ [MergePackage \/ Merged]_mergeVars => MInv'
  <2>1. ASSUME MInv, UNCHANGED mergeVars PROVE MInv'
    BY <2>1 DEF MInv, mergeVars, MergeTypeOK, Seen, SeenOnce, Followed, FoundForAReason, Suffices
  <2> QED BY <2>1, MergePackageMInv, MergedMInv
<1> QED BY <1>1, InitMInv, PTL DEF MergeSpec

\* When the queue is empty, what has been found is closed, and so it is the
\* least set that suffices.
LEMMA FoundIsNeeded ==
  ASSUME MInv, Seen # <<>>, usedPackages = <<>>
  PROVE  toSkip = Needed
<1>1. MergeTypeOK /\ SeenOnce /\ Followed /\ FoundForAReason
  BY DEF MInv
<1>2. Seen = totalFile
  BY <1>1, ConcatEmptySeq DEF Seen, MergeTypeOK
<1>3. Suffices(toSkip)
  <2>1. MainPackage \in toSkip
    <3>1. 1 \in DOMAIN Seen
      BY <1>1, <1>2, EmptySeq, LenProperties DEF MergeTypeOK
    <3> QED BY <1>1, <3>1 DEF SeenOnce, Range
  <2>2. \A p \in toSkip : text[p] \subseteq toSkip
    BY <1>1, <1>2 DEF SeenOnce, Followed, Range
  <2> QED BY <2>1, <2>2 DEF Suffices
<1> DEFINE Least(ps) == Suffices(ps) /\ \A qs \in SUBSET Packages : Suffices(qs) => ps \subseteq qs
<1>4. toSkip \in SUBSET Packages /\ Least(toSkip)
  BY <1>1, <1>3 DEF MergeTypeOK, FoundForAReason
<1>5. Needed \in SUBSET Packages /\ Least(Needed)
  <2>1. Needed = CHOOSE ps \in SUBSET Packages : Least(ps)
    BY DEF Needed
  <2> HIDE DEF Least
  <2> QED BY <1>4, <2>1
<1> QED BY <1>4, <1>5

\* Every package that main needs, directly or not, is merged, once, and
\* nothing else: whatever the packages mention, circles included, and in
\* whatever order the maps are visited (generate_test.go:101-126).
THEOREM MergesExactlyWhatIsNeeded == MergeSpec => []MergesWhatIsNeeded
<1>1. MInv => MergesWhatIsNeeded
  BY FoundIsNeeded DEF MInv, MergesWhatIsNeeded, Seen, SeenOnce
<1> QED BY <1>1, MergeInvariant, PTL

-----------------------------------------------------------------------------
(* Pruning: what the walk comes across in kept declarations is kept, and   *)
(* nothing that is not needed                                              *)

\* What a function that is no longer in the worklist has led to.
FollowedFunc(f) ==
  /\ program.uses[f] \subseteq reachFunc
  /\ program.names[f] \subseteq reachValue
  /\ program.shows[f] \cap Types \subseteq reachType

FollowedType(t) == program.inside[t] \cap Types \subseteq reachType

Following ==
  /\ \A f \in reachFunc \ work : FollowedFunc(f)
  /\ phase = "roots" => reachFunc = {} /\ bridged = {}
  /\ phase # "roots" =>
       /\ Main \in reachFunc
       /\ \A v \in Values : program.initial[v] \subseteq reachFunc
  /\ phase \in {"types", "bridge", "retypes", "done"} => work = {}
  /\ phase \in {"types", "retypes"} /\ ~changed =>
       \A t \in reachType \ unvisited : FollowedType(t)
  /\ phase = "done" => \A t \in reachType : FollowedType(t)
  /\ \A p \in bridged : RequiredOf(p[1], p[2]) \subseteq reachFunc

\* What has been reached so far belongs to every closed set.
Within(fs, ts, is, vs) ==
  /\ reachFunc \subseteq fs
  /\ reachType \subseteq ts
  /\ reachIface \subseteq is
  /\ reachValue \subseteq vs

ReachedForAReason ==
  \A fs \in SUBSET Funcs, ts \in SUBSET Types,
     is \in SUBSET Interfaces, vs \in SUBSET Values :
    Closed(fs, ts, is, vs) => Within(fs, ts, is, vs)

PInv == PruneTypeOK /\ Following /\ ReachedForAReason

-----------------------------------------------------------------------------
(* The parts of a program.                                                 *)

LEMMA ProgramParts ==
  ASSUME program \in Program
  PROVE  /\ \A v \in Values : program.initial[v] \subseteq Funcs
         /\ \A f \in Funcs : /\ program.uses[f] \subseteq Funcs
                             /\ program.names[f] \subseteq Values
         /\ \A t \in Types, i \in Interfaces : RequiredOf(t, i) \subseteq Funcs
<1>1. \A v \in Values : program.initial[v] \subseteq Funcs
  BY DEF Program
<1>2. \A f \in Funcs : program.uses[f] \subseteq Funcs /\ program.names[f] \subseteq Values
  BY DEF Program
<1>3. ASSUME NEW t \in Types, NEW i \in Interfaces
      PROVE  RequiredOf(t, i) \subseteq Funcs
  <2>1. \A name \in program.requires[i] :
          program.method[t][name] \in Funcs \cup {NoMethod}
    BY DEF Program
  <2> QED BY <2>1 DEF RequiredOf, Implements
<1> QED BY <1>1, <1>2, <1>3

-----------------------------------------------------------------------------
LEMMA InitPInv == Init => PInv
<1> SUFFICES ASSUME Init PROVE PInv
  OBVIOUS
<1>1. PruneTypeOK
  BY ProgramsAssumption DEF Init, PruneTypeOK
<1>2. Following
  BY DEF Init, Following
<1>3. ReachedForAReason
  BY DEF Init, ReachedForAReason, Within
<1> QED BY <1>1, <1>2, <1>3 DEF PInv

LEMMA TypePreserved ==
  ASSUME PInv, [Next]_vars PROVE PruneTypeOK'
<1> USE DEF PInv, PruneTypeOK, reached
<1>1. CASE Roots
  BY <1>1, ProgramParts, ProgramsAssumption DEF Roots, Push, Rooted
<1>2. ASSUME NEW fn \in Funcs, VisitFuncBody(fn) PROVE PruneTypeOK'
  BY <1>2, ProgramParts DEF VisitFuncBody, Push, HarvestTypes
<1>3. CASE Drained
  <2>1. phase' \in {"types", "retypes"}
    BY <1>3 DEF Drained, Propagates
  <2> QED BY <1>3, <2>1 DEF Drained
<1>4. ASSUME NEW t \in Types, VisitType(t) PROVE PruneTypeOK'
  BY <1>4 DEF VisitType, HarvestTypes
<1>5. CASE RangeAgain
  BY <1>5 DEF RangeAgain, RangeEnds
<1>6. CASE Propagated
  BY <1>6 DEF Propagated, RangeEnds, Follows
<1>7. CASE Bridge
  <2>1. UNION {RequiredOf(p[1], p[2]) : p \in LookedAt} \subseteq Funcs
    BY ProgramParts DEF LookedAt
  <2> QED BY <1>7, <2>1 DEF Bridge, Push, LookedAt
<1>8. CASE UNCHANGED vars
  BY <1>8 DEF vars
<1> QED
  BY <1>1, <1>2, <1>3, <1>4, <1>5, <1>6, <1>7, <1>8 DEF Next, Returned

LEMMA FollowingPreserved ==
  ASSUME PInv, [Next]_vars PROVE Following'
<1> USE DEF PInv, PruneTypeOK, reached
<1>0. /\ \A f \in reachFunc \ work : FollowedFunc(f)
      /\ \A p \in bridged : RequiredOf(p[1], p[2]) \subseteq reachFunc
  BY DEF Following
<1>1. CASE Roots
  <2>1. reachFunc = {} /\ work = {} /\ bridged = {}
    BY <1>1 DEF Roots, Following
  <2> QED BY <1>1, <2>1 DEF Roots, Push, Following
<1>2. ASSUME NEW fn \in Funcs, VisitFuncBody(fn) PROVE Following'
  <2>1. \A f \in reachFunc' \ work' : FollowedFunc(f)'
    BY <1>2, <1>0 DEF VisitFuncBody, Push, HarvestTypes, FollowedFunc
  <2>2. phase' \in {"drain", "redrain"} /\ reachFunc \subseteq reachFunc'
    BY <1>2 DEF VisitFuncBody, Push
  <2>3. \A p \in bridged' : RequiredOf(p[1], p[2])' \subseteq reachFunc'
    BY <1>2, <1>0, <2>2 DEF VisitFuncBody, RequiredOf, Implements
  <2> QED BY <1>2, <2>1, <2>2, <2>3 DEF VisitFuncBody, Following
<1>3. CASE Drained
  <2>1. phase' \in {"types", "retypes"} /\ unvisited' = reachType' /\ work' = {}
    BY <1>3 DEF Drained, Propagates
  <2>2. phase # "roots"
    BY <1>3 DEF Drained
  <2> QED
    BY <1>3, <1>0, <2>1, <2>2
    DEF Drained, Following, FollowedFunc, RequiredOf, Implements
<1>4. ASSUME NEW t \in Types, VisitType(t) PROVE Following'
  <2>1. \A f \in reachFunc' \ work' : FollowedFunc(f)'
    BY <1>4, <1>0 DEF VisitType, HarvestTypes, FollowedFunc
  <2>2. \A p \in bridged' : RequiredOf(p[1], p[2])' \subseteq reachFunc'
    BY <1>4, <1>0 DEF VisitType, RequiredOf, Implements
  <2>3. ASSUME ~changed' PROVE \A u \in reachType' \ unvisited' : FollowedType(u)'
    <3>1. reachType' = reachType /\ ~changed
      BY <1>4, <2>3 DEF VisitType
    <3>2. unvisited' = unvisited \ {t}
      BY <1>4, <3>1 DEF VisitType
    <3>3. FollowedType(t)'
      BY <1>4, <3>1 DEF VisitType, HarvestTypes, FollowedType
    <3>4. \A u \in reachType \ unvisited : FollowedType(u)
      BY <1>4, <3>1 DEF VisitType, Following
    <3>5. program' = program
      BY <1>4 DEF VisitType
    <3> QED BY <3>1, <3>2, <3>3, <3>4, <3>5 DEF FollowedType
  <2> QED BY <1>4, <2>1, <2>2, <2>3 DEF VisitType, Following
<1>5. CASE RangeAgain
  BY <1>5, <1>0 DEF RangeAgain, RangeEnds, Following, FollowedFunc, RequiredOf, Implements
<1>6. CASE Propagated
  <2>1. \A t \in reachType : FollowedType(t)
    BY <1>6 DEF Propagated, RangeEnds, Following
  <2>2. \A t \in reachType' : FollowedType(t)'
    BY <1>6, <2>1 DEF Propagated, FollowedType
  <2> QED
    BY <1>6, <1>0, <2>2
    DEF Propagated, RangeEnds, Follows, Following, FollowedFunc, RequiredOf, Implements
<1>7. CASE Bridge
  <2>1. work = {}
    BY <1>7 DEF Bridge, Following
  <2>2. \A f \in reachFunc' \ work' : FollowedFunc(f)'
    BY <1>7, <1>0, <2>1 DEF Bridge, Push, FollowedFunc
  <2>3. \A p \in bridged' : RequiredOf(p[1], p[2])' \subseteq reachFunc'
    BY <1>7 DEF Bridge, Push, RequiredOf, Implements
  <2> QED BY <1>7, <2>2, <2>3 DEF Bridge, Push, Following
<1>8. CASE UNCHANGED vars
  BY <1>8, <1>0 DEF vars, Following, FollowedFunc, FollowedType, RequiredOf, Implements
<1> QED
  BY <1>1, <1>2, <1>3, <1>4, <1>5, <1>6, <1>7, <1>8 DEF Next, Returned

LEMMA NeededPreserved ==
  ASSUME PInv, [Next]_vars PROVE ReachedForAReason'
<1> SUFFICES ASSUME NEW fs \in SUBSET Funcs, NEW ts \in SUBSET Types,
                    NEW is \in SUBSET Interfaces, NEW vs \in SUBSET Values,
                    Closed(fs, ts, is, vs)'
             PROVE  Within(fs, ts, is, vs)'
  BY DEF ReachedForAReason
<1>p. program' = program
  BY DEF Next, Roots, VisitFuncBody, Drained, VisitType, RangeAgain, Propagated,
         Bridge, Returned, vars
<1>c. Closed(fs, ts, is, vs)
  BY <1>p DEF Closed, RequiredOf, Implements
<1>w. Within(fs, ts, is, vs)
  BY <1>c DEF PInv, ReachedForAReason
<1> USE DEF Within, reached
<1>1. CASE Roots
  BY <1>1, <1>c, <1>w DEF Roots, Push, Rooted, Closed
<1>2. ASSUME NEW fn \in Funcs, VisitFuncBody(fn) PROVE Within(fs, ts, is, vs)'
  <2>1. fn \in fs
    BY <1>2, <1>w DEF VisitFuncBody, PInv, PruneTypeOK
  <2> QED BY <1>2, <1>c, <1>w, <2>1 DEF VisitFuncBody, Push, HarvestTypes, Closed
<1>3. CASE Drained
  BY <1>3, <1>w DEF Drained
<1>4. ASSUME NEW t \in Types, VisitType(t) PROVE Within(fs, ts, is, vs)'
  <2>1. t \in ts
    BY <1>4, <1>w DEF VisitType, PInv, PruneTypeOK
  <2> QED BY <1>4, <1>c, <1>w, <2>1 DEF VisitType, HarvestTypes, Closed
<1>5. CASE RangeAgain
  BY <1>5, <1>w DEF RangeAgain
<1>6. CASE Propagated
  BY <1>6, <1>w DEF Propagated
<1>7. CASE Bridge
  <2>1. UNION {RequiredOf(p[1], p[2]) : p \in LookedAt} \subseteq fs
    BY <1>c, <1>w DEF LookedAt, Closed
  <2> QED BY <1>7, <1>w, <2>1 DEF Bridge, Push
<1>8. CASE UNCHANGED vars
  BY <1>8, <1>w DEF vars
<1> QED
  BY <1>1, <1>2, <1>3, <1>4, <1>5, <1>6, <1>7, <1>8 DEF Next, Returned

\* The inductive invariant of the pass, for every program.
THEOREM PruneInvariant == Spec => []PInv
<1>1. PInv /\ [Next]_vars => PInv'
  BY TypePreserved, FollowingPreserved, NeededPreserved DEF PInv
<1> QED BY <1>1, InitPInv, PTL DEF Spec

\* The sets of the pass are sets of declarations of the file
\* (prune_unused_code.go:82-88).
THEOREM PruneTypeCorrect == Spec => []PruneTypeOK
<1>1. PInv => PruneTypeOK
  BY DEF PInv
<1> QED BY <1>1, PruneInvariant, PTL

\* No kept declaration mentions, as far as the walk sees it, one that was
\* dropped (prune_unused_code.go:330-398).
THEOREM ReferencesAreKept == Spec => []KeepsWhatIsUsed
<1>1. ASSUME PInv PROVE KeepsWhatIsUsed
  <2> SUFFICES ASSUME phase = "done" PROVE KeepsWhatIsUsed
    BY DEF KeepsWhatIsUsed
  <2> USE <1>1 DEF PInv, Following
  <2>1. work = {} /\ Main \in reachFunc
    OBVIOUS
  <2>2. \A f \in Funcs : KeepFuncDecl(f) => FollowedFunc(f)
    BY <2>1 DEF KeepFuncDecl
  <2>3. \A t \in Types : KeepTypeSpec(t) => FollowedType(t)
    BY DEF KeepTypeSpec
  <2>4. \A w \in Values, f \in Funcs : f \in program.initial[w] => KeepFuncDecl(f)
    BY DEF KeepFuncDecl
  <2>5. \A p \in bridged : \A f \in RequiredOf(p[1], p[2]) : KeepFuncDecl(f)
    BY DEF KeepFuncDecl
  <2> QED
    BY <2>2, <2>3, <2>4, <2>5
    DEF KeepsWhatIsUsed, FollowedFunc, FollowedType, KeepFuncDecl, KeepTypeSpec, KeepValueSpec
<1> QED BY <1>1, PruneInvariant, PTL

\* What the pass keeps lies in every set that main and the initial values
\* are in and that is closed under references and interfaces.
THEOREM OnlyNeededIsKept == Spec => []KeepsOnlyWhatIsUsed
<1>1. PInv => KeepsOnlyWhatIsUsed
  BY DEF PInv, ReachedForAReason, Within, KeepsOnlyWhatIsUsed
<1> QED BY <1>1, PruneInvariant, PTL

-----------------------------------------------------------------------------
(* The stages: whatever happens, the last good version is written          *)

\* The version that src holds at a stage, and what the file holds by then.
\* okVersion follows version, so that the deferred write may come at any time.
VersionAt ==
  /\ okVersion = version
  /\ stage \in {"read", "merge"} => version = 0 /\ output = Previous
  /\ stage = "normalize" => version \in 0..3
  /\ stage \in {"monomorphize", "monomorphizing"} => version = 1
  /\ stage \in {"prune", "pruning"} => version = 2
  /\ stage = "casts" => version = 3
  /\ stage \notin {"read", "merge", "exited"} => output = Empty
  /\ stage = "exited" => output = version \/ (version = 0 /\ output = Previous)

StInv == StagesTypeOK /\ VersionAt

LEMMA StagesStep == StInv /\ [StagesNext]_stageVars => StInv'
<1> SUFFICES ASSUME StInv, [StagesNext]_stageVars PROVE StInv'
  OBVIOUS
<1> USE DEF StInv, StagesTypeOK, VersionAt, Stages, GoTo, fileVars, Previous, Empty
<1>1. CASE UNCHANGED stageVars
  BY <1>1 DEF stageVars
<1>2. CASE Read \/ Create
  BY <1>2 DEF Read, Create
<1>3. CASE Normalizes
  <2>1. CASE GoTo("normalize", "deferred")
    BY <2>1
  <2>2. CASE stage = "normalize" /\ Accepted(version + 1) /\ stage' = Passes[version + 1]
             /\ UNCHANGED output
    <3>1. version' = version + 1 /\ okVersion' = version + 1 /\ output' = Empty
      BY <2>2 DEF Accepted
    <3>2. \/ version = 0 /\ stage' = "monomorphize"
          \/ version = 1 /\ stage' = "prune"
          \/ version = 2 /\ stage' = "casts"
          \/ version = 3 /\ stage' = "deferred"
      BY <2>2 DEF Passes
    <3> QED BY <3>1, <3>2
  <2> QED BY <1>3, <2>1, <2>2 DEF Normalizes
<1>4. CASE \/ Monomorphizes \/ MonomorphizeReturns \/ MonomorphizePanics
           \/ PruneReturnsSource \/ Prunes \/ PruneReturns \/ Casts
  BY <1>4 DEF Monomorphizes, MonomorphizeReturns, MonomorphizePanics, PruneReturnsSource,
              Prunes, PruneReturns, Casts
<1>5. CASE Writes
  BY <1>5 DEF Writes
<1> QED BY <1>1, <1>2, <1>3, <1>4, <1>5 DEF StagesNext

\* What the exporter leaves behind is the last version that normalizeGo has
\* accepted, whichever pass panics and whatever it returns; until the file
\* has been created it is left alone.
THEOREM LastGoodIsWritten == StagesSpec => []WritesLastGood
<1>1. StagesInit => StInv
  BY DEF StagesInit, StInv, StagesTypeOK, VersionAt, Stages, Previous, Empty
<1>2. StInv /\ [StagesNext]_stageVars => StInv'
  BY StagesStep
<1>3. StInv => WritesLastGood
  BY DEF StInv, VersionAt, WritesLastGood
<1> QED BY <1>1, <1>2, <1>3, PTL DEF StagesSpec
=============================================================================
