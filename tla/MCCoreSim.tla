----------------------------- MODULE MCCoreSim ------------------------------
\* Three concurrent writes under two keys, over one claim held and one policy.
EXTENDS CoreSim, TLC

\* The attempts are alike, and so are the keys.
MCSymmetry == Permutations(Attempts) \union Permutations(Keys)
=============================================================================
