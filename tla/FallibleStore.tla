--------------------------- MODULE FallibleStore ---------------------------
(***************************************************************************)
(* What the Daisy program store promises when flash operations may fail:   *)
(* AtomicStore, with what RAM holds kept apart from what a reboot would    *)
(* read.  A call that fails leaves RAM alone and should leave the flash    *)
(* alone, but its entry may be down all the same: the store is then jammed *)
(* (no entry can be written in its place), a reboot reads something else   *)
(* than RAM holds, and later calls may still change what it reads.         *)
(* ProgramStoreFaults implements this specification while erases succeed.  *)
(***************************************************************************)
CONSTANTS
    Slots,          \* logical program addresses (bank, program)
    FirstSlot,      \* the address (0, 0) that a recovery selects
    Patches,        \* patches a user can save
    DefaultPatch    \* Patch::default()

VARIABLES
    patches,        \* patches[s] is what a reboot would load from slot s
    selection,      \* the program a reboot would reload
    loaded,         \* loaded[s] is what load() finds at slot s now
    current,        \* the selection in RAM
    request,        \* the call in progress, None between calls
    jammed,         \* whether a failed call left something where the next entry goes
    up              \* whether the store is open

flash == <<patches, selection>>
ram   == <<loaded, current>>
fvars == <<flash, ram, request, jammed, up>>

None == [call |-> "none"]

Init ==
    /\ patches = [s \in Slots |-> DefaultPatch] /\ loaded = patches
    /\ selection = FirstSlot /\ current = FirstSlot
    /\ request = None
    /\ jammed = FALSE
    /\ up = FALSE

\* Flash decays while the power is off, and open() recovers what it can: what a reboot
\* loads is settled only when it returns.
Recovered ==
    /\ ~up
    /\ patches' \in [Slots -> Patches \cup {DefaultPatch}] /\ loaded' = patches'
    /\ selection' \in Slots /\ current' = selection'
    /\ UNCHANGED <<request, jammed>>

Age     == Recovered /\ up' = FALSE
PowerUp == Recovered /\ up' = TRUE

\* A selection that RAM holds already is not written again, and makes no call.
Call(r) ==
    /\ up /\ request = None
    /\ r.call = "select" => r.slot # current
    /\ request' = r
    /\ UNCHANGED <<flash, ram, jammed, up>>

Saved(p) == [p EXCEPT ![request.slot] = request.patch]

\* The flash after the call in progress has taken effect.
Written ==
    /\ patches' = IF request.call = "save" THEN Saved(patches) ELSE patches
    /\ selection' = IF request.call = "select" THEN request.slot ELSE selection

Done ==
    /\ request # None /\ ~jammed
    /\ Written /\ loaded' = patches' /\ current' = selection'
    /\ UNCHANGED <<jammed, up>>
TakeEffect == Done /\ UNCHANGED request
Return     == Done /\ request' = None

\* A call of a jammed store takes the way to its entry, and so may undo, or redo, what
\* the flash holds beside RAM: the block that a stray entry names is rewritten, or the
\* entry itself spoiled.
Disturbed ==
    /\ jammed /\ request # None
    /\ patches' \in {patches, loaded}
                     \cup (IF request.call = "save" THEN {Saved(patches), Saved(loaded)} ELSE {})
    /\ selection' \in {selection, current, FirstSlot}

Drift == Disturbed /\ UNCHANGED <<ram, request, jammed, up>>

\* What is in the way decodes to nothing, and reads back as the entry to be written.
Retry ==
    /\ jammed /\ request # None
    /\ loaded = patches /\ current = selection
    /\ jammed' = FALSE
    /\ UNCHANGED <<flash, ram, request, up>>

Fail ==
    /\ request # None /\ request' = None
    /\ \/ UNCHANGED flash /\ jammed' \in {jammed, TRUE}
       \/ ~jammed /\ Written /\ jammed' = TRUE
       \/ Disturbed /\ UNCHANGED jammed
    /\ UNCHANGED <<ram, up>>

\* A reboot has only the flash to go by.
PowerDown ==
    /\ up /\ up' = FALSE
    /\ UNCHANGED flash \/ Disturbed
    /\ loaded' = patches' /\ current' = selection'
    /\ request' = None /\ jammed' = FALSE

Next ==
    \/ Age \/ PowerUp \/ PowerDown
    \/ TakeEffect \/ Return \/ Drift \/ Retry \/ Fail
    \/ \E s \in Slots, p \in Patches : Call([call |-> "save", slot |-> s, patch |-> p])
    \/ \E s \in Slots : Call([call |-> "select", slot |-> s])

Spec == Init /\ [][Next]_fvars
=============================================================================
