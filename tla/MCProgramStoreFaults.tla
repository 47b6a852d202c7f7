------------------------ MODULE MCProgramStoreFaults ------------------------
(***************************************************************************)
(* ProgramStoreFaults for TLC: bounded calls, power cuts and faults, from  *)
(* a formatted store.                                                      *)
(***************************************************************************)
EXTENDS ProgramStoreFaults

CONSTANTS MaxCalls, MaxCuts, MaxFaults
VARIABLES calls, cuts, faults

mcVars == <<vars, calls, cuts, faults>>
counters == <<calls, cuts, faults>>

\* What formatting leaves: defaults, each slot in the block of its number.
Formatted ==
    /\ block = [b \in Blocks |->
                   IF b = NSlots THEN Erased ELSE Committed(b, 1, DefaultPatch)]
    /\ catalog = [A |-> Snapshot(1, [s \in Slots |-> s], 0, <<>>), B |-> Erased]
    /\ index = [s \in Slots |-> NoBlock]
    /\ spare = NoBlock
    /\ lastLoad = 0 /\ epoch = 0 /\ used = 0 /\ active = "A"
    /\ op = Idle
    /\ pc = "off"

MCInit == Formatted /\ calls = 0 /\ cuts = 0 /\ faults = 0

Calling ==
    \/ \E s \in Slots, p \in Patches : SaveBegin(s, p)
    \/ \E s \in Slots : SelectBegin(s)

PowerCut == Crash \/ CrashErasingBlock \/ CrashErasingCatalog

\* The bounds are used up: the behaviour may stop here.
Stop ==
    /\ pc = "ready" /\ calls = MaxCalls
    /\ UNCHANGED mcVars

MCNext ==
    \/ (Step \/ EntryBlocked) /\ UNCHANGED counters
    \/ Calling /\ calls < MaxCalls /\ calls' = calls + 1 /\ UNCHANGED <<cuts, faults>>
    \/ PowerCut /\ cuts < MaxCuts /\ cuts' = cuts + 1 /\ UNCHANGED <<calls, faults>>
    \/ Fault /\ faults < MaxFaults /\ faults' = faults + 1 /\ UNCHANGED <<calls, cuts>>
    \/ Stop

MCSpec == MCInit /\ [][MCNext]_mcVars
=============================================================================
