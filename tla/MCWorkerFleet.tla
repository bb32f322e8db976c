---------------------------- MODULE MCWorkerFleet ----------------------------
EXTENDS WorkerFleet, TLC

FleetSymmetry == Permutations(Callers)
=============================================================================
