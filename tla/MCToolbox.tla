----------------------------- MODULE MCToolbox ------------------------------
EXTENDS Toolbox

\* Ends outside the array and inside, on both sides of the middle of eight
\* leaves.
MCEndpoints == {-1, 1, 4, 8}

\* With three places and a word of four bits: ints that fit, one that has a
\* higher bit in its word and some that have one above it.
MCAdded == SUBSET (0..2) \cup {{3}, {4}, {0, 4}, {0, 2, 4}}

\* Single bits and pairs of them.
MCWords == {{p, q} : p, q \in 0..63}

MCMatrices == [1..2 -> [1..2 -> 0..2]]
MCMapKeys == {"j", "k"}
=============================================================================
