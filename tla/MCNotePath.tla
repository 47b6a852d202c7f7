----------------------------- MODULE MCNotePath -----------------------------
(***************************************************************************)
(* NotePath for TLC: at most MaxCommands MIDI commands arrive, MaxPanics   *)
(* of them AllNotesOff.                                                    *)
(***************************************************************************)
EXTENDS NotePath

CONSTANTS MaxCommands, MaxPanics
VARIABLES received, panics

mcVars == <<vars, received, panics>>

MCInit == Init /\ received = 0 /\ panics = 0

Arrive(c) ==
    /\ received < MaxCommands
    /\ c = AllOff => panics < MaxPanics
    /\ Receive(c)
    /\ received' = received + 1
    /\ panics' = IF c = AllOff THEN panics + 1 ELSE panics

Work ==
    /\ StoreRelease \/ BlockStart \/ BlockExtra \/ BlockEnd
    /\ UNCHANGED <<received, panics>>

MCNext == Work \/ \E c \in Commands : Arrive(c)

MCSpec == MCInit /\ [][MCNext]_mcVars /\ Fairness
=============================================================================
