-------------------------------- MODULE MCUsage --------------------------------
EXTENDS Usage, TLC

MCLimits == {-1, 1, 2}
WorkerSymmetry == Permutations(Workers)
=============================================================================
