---------------------------- MODULE AtomicStore ----------------------------
(***************************************************************************)
(* What the Daisy program store promises its caller: a map from program    *)
(* slots to patches and one remembered selection, both of them durable.    *)
(* A call takes effect at one instant between its start and its return, on *)
(* its own slot only; a power cut may lose a call that has not returned,   *)
(* and nothing else.  ProgramStore implements this specification.          *)
(***************************************************************************)
CONSTANTS
    Slots,          \* logical program addresses (bank, program)
    FirstSlot,      \* the address (0, 0) a formatted store selects
    Patches,        \* patches a user can save
    DefaultPatch    \* Patch::default()

VARIABLES
    patches,        \* patches[s] is what a reboot would load from slot s
    selection,      \* the program a reboot would reload
    request,        \* the call in progress, None between calls
    up              \* whether the power is on

avars == <<patches, selection, request, up>>

None == [call |-> "none"]

Init ==
    /\ patches = [s \in Slots |-> DefaultPatch]
    /\ selection = FirstSlot
    /\ request = None
    /\ up = FALSE

PowerUp ==
    /\ ~up
    /\ up' = TRUE
    /\ UNCHANGED <<patches, selection, request>>

PowerDown ==
    /\ up
    /\ up' = FALSE
    /\ request' = None
    /\ UNCHANGED <<patches, selection>>

Call(r) ==
    /\ up /\ request = None
    /\ request' = r
    /\ UNCHANGED <<patches, selection, up>>

\* The state after the call in progress has taken effect.
Done ==
    /\ request.call = "save" =>
          patches' = [patches EXCEPT ![request.slot] = request.patch]
            /\ UNCHANGED selection
    /\ request.call = "select" => selection' = request.slot /\ UNCHANGED patches

TakeEffect ==
    /\ request # None
    /\ Done
    /\ UNCHANGED <<request, up>>

\* A call returns once it has taken effect, and may do both in one step.
Return ==
    /\ request # None
    /\ Done
    /\ request' = None
    /\ UNCHANGED up

Next ==
    \/ PowerUp \/ PowerDown \/ TakeEffect \/ Return
    \/ \E s \in Slots, p \in Patches : Call([call |-> "save", slot |-> s, patch |-> p])
    \/ \E s \in Slots : Call([call |-> "select", slot |-> s])

Spec == Init /\ [][Next]_avars
=============================================================================
