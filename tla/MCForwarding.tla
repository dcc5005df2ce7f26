---------------------------- MODULE MCForwarding ----------------------------
EXTENDS Forwarding

CONSTANTS a, b, c

\* Settled on a, split between two leaders, or pointing at each other.
Beginnings ==
    {[n \in Node |-> a],
     [n \in Node |-> IF n = a THEN b ELSE a],
     [n \in Node |-> IF n = b THEN b ELSE a]}
=============================================================================
