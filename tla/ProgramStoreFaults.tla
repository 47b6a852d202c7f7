------------------------- MODULE ProgramStoreFaults -------------------------
(***************************************************************************)
(* The program store on a flash that ages: committed content decays while  *)
(* the power is off, and flash operations of a running call report errors. *)
(* A call that meets an error returns it and leaves the RAM state as far   *)
(* as it had got; the program task only prints it and takes the next call. *)
(***************************************************************************)
EXTENDS ProgramStore

CONSTANT
    EraseErrors     \* whether erase_sector can return Err (ProgramFlash
                    \* allows it, the QSPI driver has no such failure)

ASSUME FaultAssumption == EraseErrors \in BOOLEAN
-----------------------------------------------------------------------------
(* Decay, found by the next open().                                        *)

DecayBlock(b) ==
    /\ pc = "off"
    /\ IsValid(block[b])
    /\ SetBlock(b, Dirty)
    /\ UNCHANGED <<ram, op, pc>>

\* The header or the table is damaged, or one entry of the journal.
DecayCatalog(c) ==
    /\ pc = "off"
    /\ IsValid(catalog[c])
    /\ \/ SetCatalog(c, Dirty)
       \/ \E i \in DOMAIN catalog[c].journal :
             SetCatalog(c, [catalog[c] EXCEPT !.journal[i] = Torn])
    /\ UNCHANGED <<ram, op, pc>>
-----------------------------------------------------------------------------
(* Errors of a running call.                                               *)

\* The call returns Err.  When it is open() there is no store: reboot.
Fail ==
    /\ op' = Idle
    /\ IF op.call = "open"
       THEN /\ index' = [s \in Slots |-> NoBlock]
            /\ spare' = NoBlock
            /\ lastLoad' = 0 /\ epoch' = 0 /\ used' = 0 /\ active' = "A"
            /\ pc' = "off"
       ELSE /\ UNCHANGED ram
            /\ pc' = "ready"

\* A program or its read-back reports an error (also a read-back that was itself
\* misread): the call returns Err, and the flash holds nothing of what was
\* programmed, a part that no decoder accepts, or all of it.  A save that cannot read the
\* header of the old block fails before it has erased anything.
BlockFailed ==
    /\ pc \in {"blockErase", "blockProgram", "fillProgram", "blockCommit", "fillCommit"}
    /\ \/ UNCHANGED flash
       \/ pc # "blockErase" /\ SetBlock(spare, Dirty)
       \/ pc = "blockCommit" /\ SetBlock(spare, Committed(op.slot, op.gen, op.patch))
       \/ pc = "fillCommit" /\ SetBlock(spare, Committed(Lowest(Missing), 1, DefaultPatch))
    /\ Fail

CatalogFailed ==
    /\ pc \in {"catProgram", "catCommit"}
    /\ \/ UNCHANGED flash
       \/ SetCatalog(Target, Dirty)
       \/ /\ pc = "catCommit"
          /\ SetCatalog(Target, Snapshot(Successor(epoch), index, lastLoad, <<>>))
    /\ Fail

EntryFailed ==
    /\ \/ /\ pc = "entryProgram"
          /\ Len(catalog[active].journal) = used
          /\ \/ UNCHANGED flash
             \/ SetCatalog(active, [catalog[active] EXCEPT !.journal = Append(@, Torn)])
       \/ /\ pc = "entryCommit"
          /\ \/ UNCHANGED flash
             \/ SetCatalog(active, [catalog[active] EXCEPT !.journal[used + 1] = OpEntry])
    /\ Fail

\* The entry of a failed call is in the way of the next one.  Programming can only
\* clear bits, and the read-back wants the commit byte blank: over a committed entry
\* it fails, and may leave one that does not decode; over a torn one it passes when
\* the bytes are the same.
EntryBlocked ==
    /\ pc = "entryProgram"
    /\ Len(catalog[active].journal) > used
    /\ \/ /\ \/ UNCHANGED flash
             \/ SetCatalog(active, [catalog[active] EXCEPT !.journal[used + 1] = Torn])
          /\ Fail
       \/ /\ catalog[active].journal[used + 1] = Torn
          /\ pc' = "entryCommit"
          /\ UNCHANGED <<flash, ram, op>>

\* erase_sector returns Err, with the sector as it was, in part or all erased.  (When it
\* is open() that erases a block, there is no store: the same as a power cut.)
EraseFailed ==
    /\ EraseErrors
    /\ pc \in {"blockErase", "catErase", "catRetire", "oldErase"}
    /\ \/ UNCHANGED flash
       \/ \E x \in {Dirty, Erased} :
             IF pc \in {"blockErase", "oldErase"} THEN SetBlock(Erasing, x)
             ELSE SetCatalog(Target, x)
    /\ Fail
-----------------------------------------------------------------------------
Fault ==
    \/ \E b \in Blocks : DecayBlock(b)
    \/ \E c \in Catalogs : DecayCatalog(c)
    \/ BlockFailed \/ CatalogFailed \/ EntryFailed
    \/ EraseFailed

NextFaults == Next \/ Fault \/ EntryBlocked
SpecFaults == Init /\ [][NextFaults]_vars
-----------------------------------------------------------------------------
\* Whatever fails, what a reboot would load from slot s changes only to the
\* patch being saved there, or when the very block that holds s decays; recovery
\* may at most settle for another committed copy of s.  No fault costs a
\* neighbour, and a failed save leaves the old patch or the new one.
FaultsAreContained ==
    [][\A s \in Slots :
          \/ BootPatches'[s] = BootPatches[s]
          \/ op.call = "save" /\ op.slot = s /\ BootPatches'[s] = op.patch
          \/ BootIndex[s] # NoBlock /\ block'[BootIndex[s]] = Dirty
          \/ \E b \in Copies(s) : BootPatches'[s] = block[b].patch]_vars

\* The entry of a failed call that was committed all the same.
Leftover ==
    /\ Len(catalog[active].journal) > used
    /\ catalog[active].journal[used + 1] # Torn

\* What a failed call may leave between RAM and flash: nothing, unless its entry was
\* committed; then a reboot takes at most one program from elsewhere, from the very
\* block that a failed save wrote for it (a block is committed for one slot).
RamAndFlashAgree ==
    pc = "ready" =>
        /\ \A s \in Slots : BootIndex[s] \in {index[s], spare}
        /\ ~Leftover => Openable /\ BootIndex = index /\ BootSelection = lastLoad

\* What load() finds, and whether the flash holds more of the journal than RAM knows of.
Loaded == [s \in Slots |-> block[index[s]].patch]
Open == pc # "off" /\ op.call # "open"
Jammed == Open /\ pc # "entryCommit" /\ Len(catalog[active].journal) > used

\* save() and persist_last_load() keep what FallibleStore promises of them: a call that
\* returns Ok has changed flash and RAM alike, one that fails has left RAM alone, and
\* flash and RAM part only by the entry of a failed call that is down all the same.
Fallible == INSTANCE FallibleStore WITH
    FirstSlot <- 0, patches <- BootPatches, selection <- BootSelection,
    loaded <- IF Open THEN Loaded ELSE BootPatches,
    current <- IF Open THEN lastLoad ELSE BootSelection,
    request <- Request, jammed <- Jammed, up <- Open
FailedCallsAreKnown == Fallible!Spec

\* Between calls the block the next save erases holds no live program: the
\* unit test of repeated saves asserts it for slot 0 after every save.
SpareIsNotLive == pc = "ready" => \A s \in Slots : index[s] # spare
=============================================================================
