------------------------------ MODULE MCCiHead ------------------------------
EXTENDS CiHead, TLC
Symmetry == Permutations(Jobs)
==============================================================================
