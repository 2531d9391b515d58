---------------------------- MODULE MCContainers ----------------------------
EXTENDS Containers

MCValues == 1..4
MCTreeKeys == 1..3
MCCopies == {1, 2}
MCSeeds == 0..2
MCListElements == 1..2
MCDictKeys == 1..3
=============================================================================
