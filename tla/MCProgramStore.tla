--------------------------- MODULE MCProgramStore ---------------------------
(***************************************************************************)
(* Instances of ProgramStore for TLC.  Two counters bound a behaviour: the *)
(* calls made and the power cuts suffered.                                 *)
(***************************************************************************)
EXTENDS ProgramStore

CONSTANTS MaxCalls, MaxCuts
VARIABLES calls, cuts

mcVars == <<vars, calls, cuts>>

\* A formatted store whose counters are about to wrap: Spec reaches it after
\* Mod - 2 saves of every slot and as many compactions.
Seasoned ==
    /\ block = [b \in Blocks |->
                   IF b = NSlots THEN Erased ELSE Committed(b, Mod - 1, DefaultPatch)]
    /\ catalog = [A |-> Snapshot(Mod - 1, [s \in Slots |-> s], 0, <<>>), B |-> Erased]
    /\ index = [s \in Slots |-> NoBlock]
    /\ spare = NoBlock
    /\ lastLoad = 0 /\ epoch = 0 /\ used = 0 /\ active = "A"
    /\ op = Idle
    /\ pc = "off"

MCInit == (Init \/ Seasoned) /\ calls = 0 /\ cuts = 0

Calling ==
    \/ \E s \in Slots, p \in Patches : SaveBegin(s, p)
    \/ \E s \in Slots : SelectBegin(s)

PowerCut == Crash \/ CrashErasingBlock \/ CrashErasingCatalog

\* The bounds are used up: the behaviour may stop here.
Stop ==
    /\ pc = "ready" /\ calls = MaxCalls
    /\ UNCHANGED mcVars

MCNext ==
    \/ Step /\ UNCHANGED <<calls, cuts>>
    \/ Calling /\ calls < MaxCalls /\ calls' = calls + 1 /\ UNCHANGED cuts
    \/ Stop
    \/ PowerCut /\ cuts < MaxCuts /\ cuts' = cuts + 1 /\ UNCHANGED calls

MCSpec == MCInit /\ [][MCNext]_mcVars /\ WF_mcVars(Step /\ UNCHANGED <<calls, cuts>>)
=============================================================================
