--------------------------- MODULE MCScopedTapes ---------------------------
EXTENDS ScopedTapes, TLC

CONSTANTS main, w, m, s1, s2, a1, a2, a3, a4, null

MCWorkers == {w}
MCMasters == {m}
MCScopes == {s1, s2}
MCStorages == {a1, a2, a3, a4}

\* Scopes are interchangeable, and so are addresses.
MCSymmetry == Permutations(MCScopes) \cup Permutations(MCStorages)
=============================================================================
