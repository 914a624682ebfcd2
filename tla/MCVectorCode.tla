----------------------------- MODULE MCVectorCode -----------------------------
EXTENDS VectorCode

\* The variables are alike.
Symmetry == Permutations(Vars)

=============================================================================
