----------------------------- MODULE MCRBTree ------------------------------
EXTENDS RBTree

\* Ten nodes are the fewest with which a shortage of black moves up twice.
TenKeys == 1..10
ThreeKeys == 1..3
Once == {1}
Twice == {1, 2}
Inserting == {FALSE}
Replacing == {TRUE}
NoIteration == {}
BothWays == {0, 1}
=============================================================================
