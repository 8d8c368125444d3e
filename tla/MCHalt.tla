------------------------------- MODULE MCHalt -------------------------------
EXTENDS Halt

OneEach == [t \in Tasks |-> IF t = "k1" THEN "a" ELSE "b"]
=============================================================================
