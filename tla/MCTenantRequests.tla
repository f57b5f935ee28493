-------------------------- MODULE MCTenantRequests --------------------------
EXTENDS TenantRequests, TLC

CONSTANTS c1, c2, g1, g2, i1, i2, i3, m1, m2

MCEntry == [level : {"info", "warn"}]

Symmetry == Permutations({c1, c2}) \cup Permutations({g1, g2})
            \cup Permutations({i1, i2, i3}) \cup Permutations({m1, m2})
=============================================================================
