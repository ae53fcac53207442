------------------------------ MODULE MCStorage ------------------------------
EXTENDS Storage, TLC

\* Requests are alike.
Symmetry == Permutations(Request)
=============================================================================
