-------------------------- MODULE MCProgramService --------------------------
(***************************************************************************)
(* Instances of ProgramService for TLC: counters bound the messages of the *)
(* host, the errors of the store and the power cuts.                       *)
(***************************************************************************)
EXTENDS ProgramService

CONSTANTS MaxMessages, MaxErrors, MaxCuts
VARIABLES messages, errors, cuts

budgets == <<messages, errors, cuts>>
mcVars == <<vars, budgets>>

MCInit == Init /\ messages = 0 /\ errors = 0 /\ cuts = 0

\* What the firmware does by itself.
Own ==
    \/ Receive \/ SendProgram \/ StoreWorks \/ StoreReturns
    \/ Block
    \/ PowerUp /\ stored' = stored /\ remembered' = remembered

\* Once the store is jammed, its calls fail without further faults.
JammedFails == jammed /\ StoreFails

Failure ==
    \/ LoadFails
    \/ StoreFails /\ ~jammed
    \/ PowerUp

MCNext ==
    \/ (Own \/ JammedFails) /\ UNCHANGED budgets
    \/ Handle /\ messages < MaxMessages /\ messages' = messages + 1
              /\ UNCHANGED <<errors, cuts>>
    \/ Failure /\ errors < MaxErrors /\ errors' = errors + 1
               /\ UNCHANGED <<messages, cuts>>
    \/ PowerDown /\ cuts < MaxCuts /\ cuts' = cuts + 1 /\ UNCHANGED <<messages, errors>>

MCSpec ==
    /\ MCInit /\ [][MCNext]_mcVars
    /\ WF_mcVars(Receive /\ UNCHANGED budgets)
    /\ WF_mcVars(SendProgram /\ UNCHANGED budgets)
    /\ WF_mcVars((StoreReturns \/ JammedFails) /\ UNCHANGED budgets)
    /\ WF_mcVars(Block /\ UNCHANGED budgets)
=============================================================================
