--------------------------- MODULE MCTriageStore ----------------------------
\* Four concurrent attempts, two of which record the same run.
EXTENDS TriageStore

CONSTANTS a1, a2, a3, a4, r1, r2, r3

MCAttempts == {a1, a2, a3, a4}
MCRuns == {r1, r2, r3}
MCRunOf == [a \in MCAttempts |-> CASE a = a3 -> r2 [] a = a4 -> r3 [] OTHER -> r1]
=============================================================================
