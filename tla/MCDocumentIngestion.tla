------------------------ MODULE MCDocumentIngestion ------------------------
\* DocumentIngestion for TLC: two files with one text between them, one without.
EXTENDS DocumentIngestion

CONSTANTS s1, s2, e1, e2, f1, f2, f3, t1

MCTextOf == [f \in Files |-> IF f = f3 THEN NoText ELSE t1]
============================================================================
