---------------------------- MODULE MCAppBridge ----------------------------
(***************************************************************************)
(* Instances of AppBridge for TLC: counters bound what the user and the    *)
(* MIDI host do and how often audio fails (a retry may fail for ever).     *)
(***************************************************************************)
EXTENDS AppBridge

CONSTANTS MaxInputs, MaxFaults, Saved
VARIABLES inputs, faults

mcVars == <<vars, inputs, faults>>

\* The programs are alike: let the one the UI starts with be Saved.
MCInit == Init /\ ui.patch = Saved /\ inputs = 0 /\ faults = 0

Input == User \/ Midi
Fault == StreamError \/ StartFailed \/ BuildFailed \/ RecoveryFailed
Manages ==
    \/ Started \/ Built \/ Recovered \/ Reconnected
    \/ RetryFailed \/ TakeRequest \/ Rebind \/ NoticeDisconnect \/ Retry \/ Publish \/ ClearFlag

MCNext ==
    \/ /\ Frame \/ Render \/ Manages \/ \E t \in Threads : Run(t)
       /\ UNCHANGED <<inputs, faults>>
    \/ Input /\ inputs < MaxInputs /\ inputs' = inputs + 1 /\ UNCHANGED faults
    \/ Fault /\ faults < MaxFaults /\ faults' = faults + 1 /\ UNCHANGED inputs

MCSpec ==
    /\ MCInit /\ [][MCNext]_mcVars
    /\ \A t \in Threads : WF_mcVars(Run(t) /\ UNCHANGED <<inputs, faults>>)
    /\ WF_mcVars(Frame /\ UNCHANGED <<inputs, faults>>)
    /\ WF_mcVars(Render /\ UNCHANGED <<inputs, faults>>)
    /\ WF_mcVars(Manages /\ UNCHANGED <<inputs, faults>>)
=============================================================================
