------------------------------ MODULE MCPatchDb ------------------------------
EXTENDS PatchDb, TLC

CONSTANTS u1, u2

MCUpdaters == {u1, u2}

\* The more CVEs are refreshed, the longer the JSON text.
MCSize == [S \in SUBSET CVEs |-> 1 + Cardinality(S)]

UpdaterSymmetry == Permutations(MCUpdaters)
=============================================================================
