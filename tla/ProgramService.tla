-------------------------- MODULE ProgramService ---------------------------
(***************************************************************************)
(* Programs on the Daisy firmware, from MIDI to the synth engine and to    *)
(* flash: the bank selection of the MIDI handler (program/selection.rs,    *)
(* synth.rs), the storage task (program/task.rs) and the patch queue that  *)
(* the audio task takes from.  The program store is the one FallibleStore  *)
(* promises, and ProgramStoreFaults implements.                            *)
(*                                                                         *)
(* The handler (interrupt P2) and the audio task (P1) run between any two  *)
(* steps of the storage task (thread mode), which is alone with the store. *)
(***************************************************************************)
EXTENDS Naturals, Sequences

CONSTANTS
    Banks,              \* 0 .. BANK_COUNT - 1
    Programs,           \* programs of a bank
    Patches,            \* patches a host can send
    DefaultPatch,       \* Patch::default()
    Nothing,            \* Option::None
    StorageCapacity,    \* STORAGE_QUEUE_CAPACITY
    PatchCapacity       \* PATCH_QUEUE_CAPACITY

Slots == Banks \X Programs

ASSUME ProgramServiceAssumption ==
    /\ Banks \subseteq Nat /\ 0 \in Banks /\ 0 \in Programs
    /\ Nothing \notin Banks /\ Nothing \notin Slots
    /\ StorageCapacity \in Nat \ {0} /\ PatchCapacity \in Nat \ {0}

VARIABLES
    stored,             \* the store: what a reboot would load from a slot
    remembered,         \* the store: the program a reboot would reload
    loaded,             \* the store: what load() finds at a slot
    current,            \* the store: the selection in RAM
    call,               \* the store: the call in progress
    jammed,             \* the store: a failed call left its entry in flash
    up,                 \* whether the power is on
    bank,               \* ProgramSelection.current_bank
    cc0, cc32,          \* its pending values, Nothing without one
    requests,           \* the storage queue
    task,               \* the load whose patch the storage task has yet to send
    queue,              \* the patch queue
    heard,              \* the program the engine plays, and where it came from
    convention,         \* which controllers the host selects a bank with
    wanted,             \* history: the bank the host selected
    promised,           \* history: a slot's patch, going by the saves accepted
    lastLoad,           \* history: the last slot whose patch was sent to the engine
    failed              \* history: slots whose last save failed, and Selection

FirstSlot == <<0, 0>>
Edited == Nothing           \* no slot: the patch came in an edit buffer dump
Selection == Nothing        \* no slot: the call was about the selection

Store == INSTANCE FallibleStore WITH
    patches <- stored, selection <- remembered, request <- call

selectionVars == <<bank, cc0, cc32>>
handlerVars == <<selectionVars, wanted, promised>>
storeVars == <<stored, remembered, loaded, current, call, jammed, up>>
taskVars == <<storeVars, task, lastLoad, failed>>
vars == <<storeVars, selectionVars, requests, task, queue, heard, convention, wanted,
          promised, lastLoad, failed>>

Conventions == {"cc0", "cc32", "cc0 of a pair", "cc32 of a pair"}
-----------------------------------------------------------------------------
Init ==
    /\ Store!Init
    /\ bank = 0 /\ cc0 = Nothing /\ cc32 = Nothing
    /\ requests = <<>> /\ task = Nothing /\ queue = <<>>
    /\ heard = [patch |-> DefaultPatch, from |-> FirstSlot]
    /\ convention \in Conventions
    /\ wanted = 0
    /\ promised = stored /\ lastLoad = FirstSlot /\ failed = {}

\* Boot: the bank and the engine start with the program that open() selects.
PowerUp ==
    /\ Store!PowerUp
    /\ bank' = current'[1] /\ cc0' = Nothing /\ cc32' = Nothing
    /\ wanted' = current'[1]
    /\ heard' = [patch |-> loaded'[current'], from |-> current']
    /\ promised' = loaded' /\ lastLoad' = current' /\ failed' = {}
    /\ UNCHANGED <<requests, task, queue, convention>>

PowerDown ==
    /\ Store!PowerDown
    /\ requests' = <<>> /\ task' = Nothing /\ queue' = <<>>
    /\ UNCHANGED <<selectionVars, heard, convention, wanted, promised, lastLoad, failed>>

(* The MIDI handler.                                                       *)

\* Mutant: a zero in CC0 wins over CC32.
RequestedBankZeroWins ==
    IF cc0 # Nothing THEN cc0 ELSE IF cc32 # Nothing THEN cc32 ELSE bank
\* resolve: a controller that is not zero, CC0 first; zero when only zeros came.
RequestedBank ==
    CASE cc0 \notin {Nothing, 0} -> cc0
      [] cc0 \in {Nothing, 0} /\ cc32 \notin {Nothing, 0} -> cc32
      [] cc0 = Nothing /\ cc32 = Nothing -> bank
      [] OTHER -> 0

\* The host selects bank b: one controller, or two of which one is zero.
SelectBank(b) ==
    /\ up
    /\ cc0' = CASE convention \in {"cc0", "cc0 of a pair"} -> b
                [] convention = "cc32 of a pair" -> 0
                [] OTHER -> cc0
    /\ cc32' = CASE convention \in {"cc32", "cc32 of a pair"} -> b
                 [] convention = "cc0 of a pair" -> 0
                 [] OTHER -> cc32
    /\ wanted' = b
    /\ UNCHANGED <<bank, promised, requests, queue, heard, convention, taskVars>>

\* A value past the last bank is ignored.  A host of one controller has then done
\* nothing; one of two has still sent the zero, which asks for bank 0 unless an earlier
\* choice is pending.
SelectOutOfRange ==
    /\ up /\ convention \in {"cc0 of a pair", "cc32 of a pair"}
    /\ cc0' = IF convention = "cc32 of a pair" THEN 0 ELSE cc0
    /\ cc32' = IF convention = "cc0 of a pair" THEN 0 ELSE cc32
    /\ wanted' = IF cc0 = Nothing /\ cc32 = Nothing THEN 0 ELSE wanted
    /\ UNCHANGED <<bank, promised, requests, queue, heard, convention, taskVars>>

\* try_send gives a request back when the queue is full, and the handler drops it.
StorageRoom == Len(requests) < StorageCapacity
\* Mutant: one patch too many.
PatchRoomOneMore == Len(queue) <= PatchCapacity
PatchRoom == Len(queue) < PatchCapacity

\* The bank is committed only once the request is queued.
ProgramChange(p) ==
    LET slot == <<RequestedBank, p>> IN
    /\ up
    /\ IF StorageRoom
       THEN /\ requests' = Append(requests, [op |-> "load", slot |-> slot,
                                             due |-> promised[slot]])
            /\ bank' = RequestedBank /\ cc0' = Nothing /\ cc32' = Nothing
       ELSE UNCHANGED <<requests, selectionVars>>
    /\ UNCHANGED <<wanted, promised, queue, heard, convention, taskVars>>

\* A program dump for slot s.
SaveProgram(s, p) ==
    /\ up /\ StorageRoom
    /\ requests' = Append(requests, [op |-> "save", slot |-> s, patch |-> p])
    /\ promised' = [promised EXCEPT ![s] = p]
    /\ UNCHANGED <<selectionVars, wanted, queue, heard, convention, taskVars>>

\* An edit buffer dump goes past the storage task.
EditBuffer(p) ==
    /\ up /\ PatchRoom
    /\ queue' = Append(queue, [patch |-> p, from |-> Edited])
    /\ UNCHANGED <<requests, heard, convention, handlerVars, taskVars>>

(* The storage task.                                                       *)

\* Whether the task waits for a request.
TaskIdle == up /\ call = Store!None /\ task = Nothing

\* Mutant: the newest request first.
NextRequestNewest == Len(requests)
NextRequest == 1

\* The task takes a request; load reads the index and the flash before anybody else can change it.
Receive ==
    /\ TaskIdle /\ requests # <<>>
    /\ LET r == requests[NextRequest] IN
        IF r.op = "load"
        THEN /\ task' = [slot |-> r.slot, patch |-> loaded[r.slot], due |-> r.due]
             /\ UNCHANGED storeVars
        ELSE /\ Store!Call([call |-> "save", slot |-> r.slot, patch |-> r.patch])
             /\ UNCHANGED task
    /\ requests' = SubSeq(requests, 1, NextRequest - 1)
                     \o SubSeq(requests, NextRequest + 1, Len(requests))
    /\ UNCHANGED <<queue, heard, convention, handlerVars, lastLoad, failed>>

\* persist_last_load: nothing to write when RAM holds the selection already.
PersistLastLoad(slot) ==
    IF slot = current
    THEN failed' = failed \ {Selection} /\ UNCHANGED storeVars
    ELSE Store!Call([call |-> "select", slot |-> slot]) /\ UNCHANGED failed

\* Mutant: the selection is saved without waiting to see whether the engine gets it.
SendProgramAnyway ==
    /\ task # Nothing
    /\ queue' = IF PatchRoom THEN Append(queue, [patch |-> task.patch, from |-> task.slot])
                ELSE queue
    /\ PersistLastLoad(task.slot)
    /\ task' = Nothing
    /\ lastLoad' = IF PatchRoom THEN task.slot ELSE lastLoad
    /\ UNCHANGED <<requests, heard, convention, handlerVars>>
\* The program goes to the engine, and if the queue has room the selection to flash.
SendProgram ==
    /\ task # Nothing
    /\ IF PatchRoom
       THEN /\ queue' = Append(queue, [patch |-> task.patch, from |-> task.slot])
            /\ lastLoad' = task.slot
            /\ PersistLastLoad(task.slot)
       ELSE UNCHANGED <<queue, lastLoad, storeVars, failed>>
    /\ task' = Nothing
    /\ UNCHANGED <<requests, heard, convention, handlerVars>>

\* The block of the program does not read back: nothing is sent.
LoadFails ==
    /\ task # Nothing /\ task' = Nothing
    /\ UNCHANGED <<storeVars, requests, queue, heard, convention, handlerVars, lastLoad, failed>>

\* What a call of the store is about.
Subject(r) == IF r.call = "select" THEN Selection ELSE r.slot

\* A call may take effect before it returns, and the power fail in between; a jammed
\* store changes in the middle of a call, or gets over it.
StoreWorks ==
    /\ Store!TakeEffect \/ Store!Drift \/ Store!Retry
    /\ UNCHANGED <<requests, task, queue, heard, convention, handlerVars, lastLoad, failed>>

\* Mutant: the selection is not done with before the engine plays the program.
StoreReturnsOnceHeard ==
    /\ call.call = "select" => heard.from = call.slot
    /\ Store!Return
    /\ failed' = failed \ {Subject(call)}
    /\ UNCHANGED <<requests, task, queue, heard, convention, handlerVars, lastLoad>>
StoreReturns ==
    /\ Store!Return
    /\ failed' = failed \ {Subject(call)}
    /\ UNCHANGED <<requests, task, queue, heard, convention, handlerVars, lastLoad>>

\* The store gives up on the call: the task says so and goes on.
StoreFails ==
    /\ Store!Fail
    /\ failed' = failed \cup {Subject(call)}
    /\ UNCHANGED <<requests, task, queue, heard, convention, handlerVars, lastLoad>>

(* The audio task takes one program a block.                               *)
Block ==
    /\ queue # <<>>
    /\ heard' = Head(queue) /\ queue' = Tail(queue)
    /\ UNCHANGED <<requests, convention, handlerVars, taskVars>>

Handle ==
    \/ \E b \in Banks : SelectBank(b)
    \/ SelectOutOfRange
    \/ \E p \in Programs : ProgramChange(p)
    \/ \E s \in Slots, p \in Patches : SaveProgram(s, p)
    \/ \E p \in Patches : EditBuffer(p)
Task == Receive \/ SendProgram \/ LoadFails \/ StoreWorks \/ StoreReturns \/ StoreFails
Power == PowerUp \/ PowerDown

Next == Handle \/ Task \/ Block \/ Power

\* The executors never rest while something waits, and a store call ends.
Fairness == WF_vars(Receive) /\ WF_vars(SendProgram \/ LoadFails) /\ WF_vars(StoreReturns \/ StoreFails)
              /\ WF_vars(Block)
Spec == Init /\ [][Next]_vars /\ Fairness
-----------------------------------------------------------------------------
Sent == [patch : Patches \cup {DefaultPatch}, from : Slots \cup {Edited}]
\* The variables have their types.
TypeOK ==
    /\ {stored, loaded} \subseteq [Slots -> Patches \cup {DefaultPatch}]
    /\ {remembered, current} \subseteq Slots /\ jammed \in BOOLEAN
    /\ bank \in Banks /\ {cc0, cc32} \subseteq Banks \cup {Nothing} /\ wanted \in Banks
    /\ \A i \in DOMAIN requests : requests[i].slot \in Slots
    /\ Len(requests) <= StorageCapacity
    /\ task = Nothing \/ task.slot \in Slots
    /\ queue \in Seq(Sent) /\ Len(queue) <= PatchCapacity /\ heard \in Sent
    /\ failed \subseteq Slots \cup {Selection}

\* A program change asks for the bank its host selected last, in whichever of the four
\* ways the host does it, also after a change that a full queue refused.
HostsBankIsRequested == up => RequestedBank = wanted

\* A program is loaded with every save the host sent before it, and none sent after,
\* though both wait in a queue and the power may have been cut (a save that failed aside).
LoadsFollowSaves == task # Nothing => task.patch = task.due \/ task.slot \in failed

\* Whenever the task is at rest, the selection in RAM is the program last sent to the
\* engine, which plays it unless an edit buffer took its place, and a power cut would bring
\* it back: "The last loaded program is restored on power-up" (docs/src/models/micro-4.md:58).
\* But for a store that failed to note it and one that is jammed: a selection that is down
\* though its call failed stays when the next one is RAM's, for which nothing is written.
RebootPlaysLastLoad ==
    TaskIdle /\ Selection \notin failed =>
        /\ current = lastLoad
        /\ queue = <<>> => heard.from \in {current, Edited}
        /\ remembered = current \/ jammed

\* What the host asked for is dealt with: whatever the order in which the handler, the
\* task and the audio blocks come, and whatever fails, no queue and no call waits forever.
RequestsAreServed == []<>(~up \/ (requests = <<>> /\ TaskIdle /\ queue = <<>>))
=============================================================================
