------------------------------ MODULE MCMembers ------------------------------
\* Members with an array of fixed type and a global, which is a plain value
\* as well.
EXTENDS Members

MCKinds == [f |-> "fixed", g |-> "global"]
\* An int, and the next number that is the same int.
MCNumbers == {0, Width}
=============================================================================
