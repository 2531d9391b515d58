---------------------------- MODULE MCHackercup -----------------------------
EXTENDS Hackercup

MCByte == OutputBytes
=============================================================================
