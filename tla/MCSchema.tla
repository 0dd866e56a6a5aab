----------------------------- MODULE MCSchema -----------------------------
EXTENDS SchemaOnFirstUse

CONSTANTS t1, t2, t3, first, second

\* Two threads in one process, one in another.
MCProcessOf(c) == IF c = t3 THEN second ELSE first
=============================================================================
