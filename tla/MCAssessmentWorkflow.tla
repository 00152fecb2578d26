----------------------- MODULE MCAssessmentWorkflow -----------------------
\* AssessmentWorkflow for TLC: requests are model values, two of them of one
\* user; scores a small set with one the aggregate refuses.
EXTENDS AssessmentWorkflow, TLC

CONSTANTS r1, r2, r3, r4, r5, u1, u2

MCUserOf == [r \in Requests |-> IF r \in {r1, r2} THEN u1 ELSE u2]

MCScores == {40, 95, 101}

Symmetry == Permutations({r1, r2}) \cup Permutations(Requests \ {r1, r2})
===========================================================================
