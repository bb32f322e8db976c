--------------------------- MODULE MCTurnRecovery ---------------------------
(* Small instances of TurnRecovery for TLC.                                 *)
EXTENDS TurnRecovery
=============================================================================
