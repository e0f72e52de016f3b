---------------------------- MODULE MCScreening ----------------------------
EXTENDS Screening, TLC

CONSTANTS a1, j1

MCOneApp == [a \in {a1} |-> j1]
MCWorkerSymmetry == Permutations(Workers)
=============================================================================
