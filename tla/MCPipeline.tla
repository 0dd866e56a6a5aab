----------------------------- MODULE MCPipeline -----------------------------
\* Four callers: two send the same run, one that run for a policy that is not
\* held, and one a run of its own.
EXTENDS Pipeline, TLC

CONSTANTS a1, a2, a3, a4, r1, r2, p1

MCCalls == {a1, a2, a3, a4}
MCRuns == {r1, r2}
MCRunOf == [a \in MCCalls |-> IF a = a4 THEN r2 ELSE r1]
MCPolicies == {p1}
MCPolicyOf == [a \in MCCalls |-> IF a = a3 THEN Unknown ELSE p1]

\* Two callers with one run, one of them for a policy that is not held.
MCTwins == {a1, a2}
MCTwinsRunOf == [a \in MCTwins |-> r1]
MCTwinsPolicyOf == [a \in MCTwins |-> IF a = a1 THEN p1 ELSE Unknown]

\* The two callers that send the same thing are alike.
MCSymmetry == Permutations({a1, a2})
=============================================================================
