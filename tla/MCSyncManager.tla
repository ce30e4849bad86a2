--------------------------- MODULE MCSyncManager ----------------------------
(* Instances of SyncManager for TLC.                                         *)
EXTENDS SyncManager, TLC

CONSTANTS p1, p2, p3

PidSymmetry == Permutations(Pids)
=============================================================================
