----------------------------- MODULE MCServices -----------------------------
(***************************************************************************)
(* The build pipeline, the merge to trunk and the question forms on        *)
(* Discord, on small instances.                                            *)
(*                                                                         *)
(* They share no variable, so interleaving them with each other would add  *)
(* nothing: the initial state chooses the one that runs, in every          *)
(* interleaving of its own actors, while the rest stay as they are.        *)
(***************************************************************************)
EXTENDS BuildPipeline, TrunkMerge, MCAskForms

VARIABLE part   \* the service that runs

serviceVars == <<pipelineVars, trunkVars, askVars, part>>

ServicesInit ==
    /\ part \in {"pipeline", "trunk", "forms"}
    /\ PipelineInit /\ TrunkInit /\ AskInit

ServicesNext ==
    /\ UNCHANGED part
    /\ \/ part = "pipeline" /\ PipelineNext /\ UNCHANGED <<trunkVars, askVars>>
       \/ part = "trunk" /\ TrunkNext /\ UNCHANGED <<pipelineVars, askVars>>
       \/ part = "forms" /\ AskNext /\ UNCHANGED <<pipelineVars, trunkVars>>

ServicesSpec == ServicesInit /\ [][ServicesNext]_serviceVars

\* The type invariants of the three: in particular a claim is held exactly while a
\* build runs, and a merge has pinned a commit whenever it judges one.
ServicesTypeOK == PipelineTypeOK /\ TrunkTypeOK /\ AskTypeOK

\* The presses of a control are interchangeable, and so are the conversations.
ServicesSymmetry == {p @@ c : p \in Permutations(Presses), c \in Permutations(Convs)}
=============================================================================
