----------------------------- MODULE MCAgentTurn -----------------------------
(* Small instances of AgentTurn for TLC.                                    *)
EXTENDS AgentTurn
=============================================================================
