------------------------- MODULE MCIngestionSystem -------------------------
\* IngestionSystem for TLC: jobs are interchangeable.
EXTENDS IngestionSystem, TLC

Symmetry == Permutations(Jobs)
=============================================================================
