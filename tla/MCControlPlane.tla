--------------------------- MODULE MCControlPlane ---------------------------
EXTENDS ControlPlane, TLC

CONSTANTS s1, s2, d1, c1, c2, w1, w2, n1, n2, r1, r2

MCRequests == {r1, r2}
\* No action reads the answers; the action property sees them in the steps.
WithoutAnswers == <<stored, external, request, overtaken, settled, writes>>
Symmetry ==
    Permutations({s1, s2}) \cup Permutations({c1, c2}) \cup Permutations({w1, w2})
        \cup Permutations({n1, n2}) \cup Permutations({r1, r2})
============================================================================
