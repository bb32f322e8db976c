--------------------------- MODULE MCLiveServices ---------------------------
(***************************************************************************)
(* The services somebody waits for, on small instances and under the       *)
(* fairness of the runtime: the socket to a worker, sub-agents, and a      *)
(* shell session. As in MCServices, the initial state chooses the one that *)
(* runs: they share no variable.                                           *)
(***************************************************************************)
EXTENDS Ipc, Delegation, Terminal

VARIABLE part   \* the service that runs

liveVars == <<ipcVars, dgVars, terminalVars, part>>

LiveInit ==
    /\ part \in {"ipc", "delegation", "terminal"}
    /\ IpcInit /\ DelegationInit /\ TerminalInit

LiveNext ==
    /\ UNCHANGED part
    /\ \/ part = "ipc" /\ IpcNext /\ UNCHANGED <<dgVars, terminalVars>>
       \/ part = "delegation" /\ DelegationNext /\ UNCHANGED <<ipcVars, terminalVars>>
       \/ part = "terminal" /\ TerminalNext /\ UNCHANGED <<ipcVars, dgVars>>

\* The runtime keeps scheduling the tasks of a service; nobody has to call it, and
\* nothing has to fail.
LiveFairness ==
    /\ \A c \in IpcCallers : WF_ipcVars(part = "ipc" /\ IpcStep(c))
    /\ WF_ipcVars(part = "ipc" /\ IpcClosing)
    /\ WF_dgVars(part = "delegation" /\ ParentStep)
    /\ \A c \in Kids : WF_dgVars(part = "delegation" /\ KidStep(c))

LiveSpec == LiveInit /\ [][LiveNext]_liveVars /\ LiveFairness

\* The type invariants of the three: in particular no call leaves its slot behind,
\* no more children run than the cap allows, and a shell with a background command
\* is given no other.
LiveTypeOK == IpcTypeOK /\ DelegationTypeOK /\ TerminalTypeOK
=============================================================================
