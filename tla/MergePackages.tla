--------------------------- MODULE MergePackages ----------------------------
(***************************************************************************)
(* The loop of generator/generate_test.go that merges packages into one    *)
(* file: those that main mentions, those that they mention, and so on.  A  *)
(* package is mentioned where its name and a dot occur in a text.          *)
(***************************************************************************)
EXTENDS Integers, Sequences, FiniteSets, Functions

CONSTANTS
  Packages,     \* the packages of the repository
  MainPackage,
  Texts         \* what the texts of the packages may mention

ASSUME PackagesAssumption ==
  /\ IsFiniteSet(Packages)
  /\ MainPackage \in Packages
  /\ Texts \subseteq [Packages -> SUBSET Packages]

VARIABLES
  text,          \* the packages whose name and a dot occur in a package's files
  usedPackages,  \* usedPackages, first come, first served
  toSkip,        \* toSkip
  totalFile      \* the packages merged so far

mergeVars == <<text, usedPackages, toSkip, totalFile>>

MergeInit ==
  /\ text \in Texts
  /\ usedPackages = <<MainPackage>>
  /\ toSkip = {MainPackage}
  /\ totalFile = <<>>

\* Mutant of Found: a package is found again in every text that mentions it.
FoundAgain(first) == text[first] \ {MainPackage}

Found(first) == text[first] \ toSkip

\* One package is merged.  What its files mention is queued in the order of
\* a range over a map.
MergePackage ==
  /\ usedPackages # <<>>
  /\ LET first == Head(usedPackages)
         found == Found(first)
     IN /\ \E order \in Bijection(1..Cardinality(found), found) :
             usedPackages' = Tail(usedPackages) \o order
        /\ toSkip' = toSkip \cup found
        /\ totalFile' = Append(totalFile, first)
  /\ UNCHANGED text

\* The loop ends; what it has kept is not looked at again.
Merged ==
  /\ usedPackages = <<>>
  /\ text' = [p \in Packages |-> {}]
  /\ toSkip' = {}
  /\ totalFile' = <<>>
  /\ UNCHANGED usedPackages

MergeSpec == MergeInit /\ [][MergePackage \/ Merged]_mergeVars

-----------------------------------------------------------------------------
Suffices(ps) == MainPackage \in ps /\ \A p \in ps : text[p] \subseteq ps

\* Mentioned, however indirectly, by main: the least set that has main and
\* is closed under mentions.
Needed == CHOOSE ps \in SUBSET Packages :
  Suffices(ps) /\ \A qs \in SUBSET Packages : Suffices(qs) => ps \subseteq qs

\* A package is queued or merged once at most, main first, in whatever order
\* the maps are visited, and what is merged in the end are the packages that
\* main needs, directly or not (the loop over usedPackages).
MergesWhatIsNeeded ==
  LET seen == totalFile \o usedPackages
  IN seen # <<>> =>
       /\ IsInjective(seen)
       /\ Range(seen) = toSkip
       /\ seen[1] = MainPackage
       /\ usedPackages = <<>> => toSkip = Needed
=============================================================================
