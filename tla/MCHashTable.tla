---------------------------- MODULE MCHashTable -----------------------------
EXTENDS HashTable, TLC

\* Collisions in both tables at every size, keys that part when the table
\* grows, and windows that overlap.
MCIndices1 == {0, 1, 3, 4}
MCIndices2 == {0, 1}

\* Keys differ only by what hash1 and hash2, chosen in Init, make of them,
\* and values not at all; every property of the run is one of safety.
Symmetry == Permutations(Keys) \cup Permutations(Values)
=============================================================================
