-------------------------- MODULE MCEntityRegistry --------------------------
\* EntityRegistry for TLC: the stored entities are e1, whose name is n1, and e2 in
\* the run that has it, whose name is n2.
EXTENDS EntityRegistry

CONSTANTS e1, n1, n2

MCSeedName == [e \in Seeds |-> IF e = e1 THEN n1 ELSE n2]
=============================================================================
