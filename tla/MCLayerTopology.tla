-------------------------- MODULE MCLayerTopology --------------------------
(***************************************************************************)
(* LayerTopology for TLC: at most MaxControls controls and notes arrive,   *)
(* between any two blocks.                                                 *)
(***************************************************************************)
EXTENDS LayerTopology

CONSTANT MaxControls
VARIABLE controls

mcVars == <<vars, controls>>

MCInit == Init /\ controls = 0

Arrive == Control /\ controls < MaxControls /\ controls' = controls + 1
Block  == Render /\ UNCHANGED controls

MCNext == Arrive \/ Block

\* The audio callback keeps coming.
MCSpec == MCInit /\ [][MCNext]_mcVars /\ WF_mcVars(Block)
=============================================================================
