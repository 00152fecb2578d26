-------------------------- MODULE MCTaskScheduler --------------------------
\* TaskScheduler for TLC: names are model values.
EXTENDS TaskScheduler

CONSTANTS n1, n2
===========================================================================
