-------------------------- MODULE MCQueryDispatch ---------------------------
EXTENDS QueryDispatch, TLC

Symmetry == Permutations(Jobs)
=============================================================================
