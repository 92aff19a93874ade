------------------------------ MODULE MCApproval ------------------------------
EXTENDS Approval, TLC

CONSTANTS p1, x1, x2, y1

OnePost == [t \in Targets |-> p1]

AllMedia == [p \in Posts |-> Assets]

\* Two rows for one account, one for the other.
MCAccountOf == [t \in Targets |-> IF t = y1 THEN "y" ELSE "x"]

Symmetry == Permutations(Workers) \cup Permutations(Requests)
=============================================================================
