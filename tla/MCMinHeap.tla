----------------------------- MODULE MCMinHeap -----------------------------
EXTENDS MinHeap

MCValues == 1..4
=============================================================================
