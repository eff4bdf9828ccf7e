---------------------------- MODULE MCConvoyStep ----------------------------
EXTENDS ConvoyStep, TLC

Symmetry == Permutations(Vehicle)
=============================================================================
