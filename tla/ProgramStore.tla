---------------------------- MODULE ProgramStore ----------------------------
(***************************************************************************)
(* The power-loss-safe program store of the Daisy firmware                 *)
(* (firmware/src/program/store.rs) over the QSPI NOR flash it drives.      *)
(*                                                                         *)
(* NSlots + 1 physical blocks hold NSlots programs: one block is spare.    *)
(* Two catalog sectors hold a table slot -> block, the last selection and  *)
(* a journal of changes to both; one of them is active.  Every flash       *)
(* mutation (erase, program, commit byte) is a step of its own, and the    *)
(* power may fail before, after or in the middle of any of them.           *)
(*                                                                         *)
(* Abstractions: the bytes of a header, table, record or journal entry are *)
(* one value with the verdict of its decoder (magic, version, checksums,   *)
(* commit byte): "erased" is all 0xff, "dirty" is anything that is neither *)
(* blank nor accepted, "valid" is committed content.  The page writes of   *)
(* one record, and their read-back, are one step that leaves "dirty".      *)
(***************************************************************************)
EXTENDS Integers, Sequences

CONSTANTS
    NSlots,         \* SLOT_COUNT
    JournalCap,     \* journal entries that fit one catalog sector
    Mod,            \* 2^32: modulus of generations and epochs
    Patches,        \* what can be saved
    DefaultPatch    \* Patch::default()

ASSUME StoreAssumption ==
    /\ NSlots \in Nat \ {0}
    /\ JournalCap \in Nat \ {0}
    /\ Mod \in Nat /\ Mod > 3
    /\ DefaultPatch \in Patches

Slots    == 0 .. NSlots - 1
Blocks   == 0 .. NSlots
NoBlock  == NSlots + 1          \* INVALID_BLOCK
Catalogs == {"A", "B"}
U32      == 0 .. Mod - 1

VARIABLES
    block,          \* flash: the patch blocks
    catalog,        \* flash: the two catalog sectors
    index,          \* RAM: slot -> block
    spare,          \* RAM: the unreferenced block
    lastLoad,       \* RAM: (last_bank, last_program)
    epoch,          \* RAM: epoch of the active catalog
    used,           \* RAM: journal entries used (next_journal_offset)
    active,         \* RAM: the active catalog
    op,             \* the call in progress
    pc              \* the next flash step of that call

flash == <<block, catalog>>
ram   == <<index, spare, lastLoad, epoch, used, active>>
vars  == <<block, catalog, index, spare, lastLoad, epoch, used, active, op, pc>>
-----------------------------------------------------------------------------
(* Flash contents.                                                         *)

Erased == [st |-> "erased"]
Dirty  == [st |-> "dirty"]

\* A committed block: header and record accepted by read_valid_block.
Committed(s, g, p) == [st |-> "valid", slot |-> s, gen |-> g, patch |-> p]
BlockValues ==
    {Erased, Dirty} \cup [st : {"valid"}, slot : Slots, gen : U32, patch : Patches]

\* Journal entries: a moved slot, a new selection, or bytes that do not decode.
Pointer(s, b) == [kind |-> "pointer", slot |-> s, block |-> b]
Selection(s)  == [kind |-> "selection", slot |-> s]
Torn          == [kind |-> "torn"]
Entries ==
    [kind : {"pointer"}, slot : Slots, block : Blocks]
        \cup [kind : {"selection"}, slot : Slots] \cup {Torn}

\* Mutant: a compaction forgets the selection.
SnapshotForgetful(e, t, s, j) ==
    [st |-> "valid", epoch |-> e, table |-> t, sel |-> 0, journal |-> j]
Snapshot(e, t, s, j) ==
    [st |-> "valid", epoch |-> e, table |-> t, sel |-> s, journal |-> j]
CatalogValues ==
    {Erased, Dirty}
        \cup [st : {"valid"}, epoch : U32, table : [Slots -> Blocks], sel : Slots,
              journal : Seq(Entries)]

IsValid(x) == x.st = "valid"
Other(c) == IF c = "A" THEN "B" ELSE "A"
\* Mutant: n + 1 without the wrap.
SuccessorUnwrapped(n) == n + 1
Successor(n) == (n + 1) % Mod       \* wrapping_add(1)
GenerationNewer(x, y) == x # y /\ (x - y) % Mod < Mod \div 2
-----------------------------------------------------------------------------
(* Reading a catalog: the journal is replayed up to its first blank or     *)
(* undecodable entry, and each slot takes its last pointer.                *)

Decodable(j) == {i \in DOMAIN j : \A k \in 1 .. i : j[k] # Torn}
PointersTo(j, s) ==
    {i \in Decodable(j) : j[i].kind = "pointer" /\ j[i].slot = s}
Selections(j) == {i \in Decodable(j) : j[i].kind = "selection"}
Last(S) == CHOOSE i \in S : \A k \in S : k <= i

ReplayedIndex(c) ==
    [s \in Slots |->
        LET moves == PointersTo(c.journal, s)
        IN  IF moves = {} THEN c.table[s] ELSE c.journal[Last(moves)].block]
ReplayedSelection(c) ==
    IF Selections(c.journal) = {} THEN c.sel
    ELSE c.journal[Last(Selections(c.journal))].slot
\* Mutant: a torn entry is taken for free space.
ReplayedUsedReuse(c) == Len(SelectSeq(c.journal, LAMBDA e : e # Torn))
\* Where the next entry goes; a torn entry closes the journal.
ReplayedUsed(c) ==
    IF Decodable(c.journal) = DOMAIN c.journal THEN Len(c.journal) ELSE JournalCap

\* The catalog open() trusts, given that one is valid.
Selected ==
    IF ~IsValid(catalog["A"]) THEN "B"
    ELSE IF IsValid(catalog["B"])
            /\ GenerationNewer(catalog["B"].epoch, catalog["A"].epoch)
         THEN "B" ELSE "A"

\* Mutant: a block is trusted for whatever slot the table names.
ValidatesAnySlot(ix) ==
    /\ \A s \in Slots : IsValid(block[ix[s]])
    /\ \A s, t \in Slots : s # t => ix[s] # ix[t]

\* Each slot has a block of its own that is committed for that slot.
Validates(ix) ==
    /\ \A s \in Slots : IsValid(block[ix[s]]) /\ block[ix[s]].slot = s
    /\ \A s, t \in Slots : s # t => ix[s] # ix[t]

\* Mutant: any valid catalog is trusted, its blocks unread.
OpenableUnread == \E c \in Catalogs : IsValid(catalog[c])

\* The catalogs name a program set that can be trusted as it stands.
Openable ==
    /\ \E c \in Catalogs : IsValid(catalog[c])
    /\ Validates(ReplayedIndex(catalog[Selected]))

Unreferenced(ix) == {b \in Blocks : \A s \in Slots : ix[s] # b}
Lowest(S) == CHOOSE x \in S : \A y \in S : x <= y

\* recover_blocks: of the committed blocks of slot s its scan, in ascending
\* order, keeps one until it meets a newer one.
Copies(s) == {b \in Blocks : IsValid(block[b]) /\ block[b].slot = s}
Beats(b, d) ==
    \/ GenerationNewer(block[b].gen, block[d].gen)
    \/ b < d /\ ~GenerationNewer(block[d].gen, block[b].gen)
NewestCopy(s) ==
    IF Copies(s) = {} THEN NoBlock
    ELSE CHOOSE b \in Copies(s) : \A d \in Copies(s) \ {b} : Beats(b, d)
ScannedIndex == [s \in Slots |-> NewestCopy(s)]
-----------------------------------------------------------------------------
(* Calls.  "open" is the recovery that open() falls back on.               *)

Idle == [call |-> "none"]
Ops ==
    {Idle, [call |-> "open"]}
        \cup [call : {"save"}, slot : Slots, patch : Patches, old : Blocks, gen : U32]
        \cup [call : {"select"}, slot : Slots]

\* A virgin flash; RAM holds nothing while the power is off.
Init ==
    /\ block = [b \in Blocks |-> Erased]
    /\ catalog = [c \in Catalogs |-> Erased]
    /\ index = [s \in Slots |-> NoBlock]
    /\ spare = NoBlock
    /\ lastLoad = 0 /\ epoch = 0 /\ used = 0 /\ active = "A"
    /\ op = Idle
    /\ pc = "off"

SetBlock(b, x)   == block' = [block EXCEPT ![b] = x] /\ UNCHANGED catalog
SetCatalog(c, x) == catalog' = [catalog EXCEPT ![c] = x] /\ UNCHANGED block

\* open() with a catalog it trusts; ensure_erased wipes the spare if it must.
OpenIndexed ==
    /\ pc = "off"
    /\ Openable
    /\ LET snap == catalog[Selected]
           ix   == ReplayedIndex(snap)
       IN  /\ index' = ix
           /\ spare' = Lowest(Unreferenced(ix))
           /\ lastLoad' = ReplayedSelection(snap)
           /\ epoch' = snap.epoch
           /\ used' = ReplayedUsed(snap)
           /\ active' = Selected
           /\ pc' = IF block[Lowest(Unreferenced(ix))] = Erased
                    THEN "ready" ELSE "wipeSpare"
    /\ UNCHANGED <<block, catalog, op>>

\* open() that rebuilds from the block headers.  The new index goes to
\* catalog A with epoch 1 and the selection (0, 0).
OpenRecover ==
    /\ pc = "off"
    /\ ~Openable
    /\ index' = ScannedIndex
    /\ op' = [call |-> "open"]
    /\ pc' = "fill"
    /\ lastLoad' = 0 /\ epoch' = 0 /\ used' = 0 /\ active' = "B"
    /\ UNCHANGED <<block, catalog, spare>>
-----------------------------------------------------------------------------
(* Recovery: defaults for the slots no block was found for.                *)

Missing == {s \in Slots : index[s] = NoBlock}

FillErase ==
    /\ pc = "fill" /\ Missing # {}
    /\ spare' = Lowest(Unreferenced(index))
    /\ SetBlock(spare', Erased)
    /\ pc' = "fillProgram"
    /\ UNCHANGED <<index, lastLoad, epoch, used, active, op>>

FillProgram ==
    /\ pc = "fillProgram"
    /\ SetBlock(spare, Dirty)
    /\ pc' = "fillCommit"
    /\ UNCHANGED <<ram, op>>

FillCommit ==
    /\ pc = "fillCommit"
    /\ SetBlock(spare, Committed(Lowest(Missing), 1, DefaultPatch))
    /\ index' = [index EXCEPT ![Lowest(Missing)] = spare]
    /\ pc' = "fill"
    /\ UNCHANGED <<spare, lastLoad, epoch, used, active, op>>

FillDone ==
    /\ pc = "fill" /\ Missing = {}
    /\ spare' = Lowest(Unreferenced(index))
    /\ pc' = IF block[spare'] = Erased THEN "catErase" ELSE "wipeSpare"
    /\ UNCHANGED <<flash, index, lastLoad, epoch, used, active, op>>

WipeSpare ==
    /\ pc = "wipeSpare"
    /\ SetBlock(spare, Erased)
    /\ pc' = IF op.call = "open" THEN "catErase" ELSE "ready"
    /\ UNCHANGED <<ram, op>>
-----------------------------------------------------------------------------
(* save and persist_last_load, up to the journal.                          *)

\* ensure_journal_space: a full journal is compacted into the other catalog.
JournalStep == IF used < JournalCap THEN "entryProgram" ELSE "catErase"

SaveBegin(s, p) ==
    /\ pc = "ready"
    /\ LET old == index[s]
           g   == IF IsValid(block[old]) /\ block[old].slot = s
                  THEN Successor(block[old].gen) ELSE 1
       IN  op' = [call |-> "save", slot |-> s, patch |-> p, old |-> old, gen |-> g]
    /\ pc' = "blockErase"
    /\ UNCHANGED <<flash, ram>>

BlockErase ==
    /\ pc = "blockErase"
    /\ SetBlock(spare, Erased)
    /\ pc' = "blockProgram"
    /\ UNCHANGED <<ram, op>>

BlockProgram ==
    /\ pc = "blockProgram"
    /\ SetBlock(spare, Dirty)
    /\ pc' = "blockCommit"
    /\ UNCHANGED <<ram, op>>

\* Mutant: RAM takes the new block before the journal names it.
BlockCommitEarly ==
    /\ pc = "blockCommit"
    /\ SetBlock(spare, Committed(op.slot, op.gen, op.patch))
    /\ index' = [index EXCEPT ![op.slot] = spare]
    /\ pc' = JournalStep
    /\ UNCHANGED <<spare, lastLoad, epoch, used, active, op>>

BlockCommit ==
    /\ pc = "blockCommit"
    /\ SetBlock(spare, Committed(op.slot, op.gen, op.patch))
    /\ pc' = JournalStep
    /\ UNCHANGED <<ram, op>>

\* Mutant: RAM takes the selection before the journal names it.
SelectBeginEarly(s) ==
    /\ pc = "ready"
    /\ s # lastLoad
    /\ op' = [call |-> "select", slot |-> s]
    /\ pc' = JournalStep
    /\ lastLoad' = s
    /\ UNCHANGED <<flash, index, spare, epoch, used, active>>

SelectBegin(s) ==
    /\ pc = "ready"
    /\ s # lastLoad
    /\ op' = [call |-> "select", slot |-> s]
    /\ pc' = JournalStep
    /\ UNCHANGED <<flash, ram>>
-----------------------------------------------------------------------------
(* write_index, for a compaction or at the end of a recovery.              *)

\* Mutant: compaction in place.
TargetActive == active
Target == Other(active)

CatalogErase ==
    /\ pc = "catErase"
    /\ SetCatalog(Target, Erased)
    /\ pc' = "catProgram"
    /\ UNCHANGED <<ram, op>>

CatalogProgram ==
    /\ pc = "catProgram"
    /\ SetCatalog(Target, Dirty)
    /\ pc' = "catCommit"
    /\ UNCHANGED <<ram, op>>

CatalogCommit ==
    /\ pc = "catCommit"
    /\ epoch' = Successor(epoch)
    /\ SetCatalog(Target, Snapshot(epoch', index, lastLoad, <<>>))
    /\ active' = Target
    /\ used' = 0
    /\ pc' = "catRetire"
    /\ UNCHANGED <<index, spare, lastLoad, op>>

CatalogRetire ==
    /\ pc = "catRetire"
    /\ SetCatalog(Other(active), Erased)
    /\ IF op.call = "open"
       THEN op' = Idle /\ pc' = "ready"
       ELSE op' = op /\ pc' = "entryProgram"
    /\ UNCHANGED ram
-----------------------------------------------------------------------------
(* append_index_entry, then the end of the call.                           *)

OpEntry == IF op.call = "save" THEN Pointer(op.slot, spare) ELSE Selection(op.slot)

EntryProgram ==
    /\ pc = "entryProgram"
    /\ Len(catalog[active].journal) = used   \* programming needs blank flash
    /\ SetCatalog(active,
                  [catalog[active] EXCEPT !.journal = Append(@, Torn)])
    /\ pc' = "entryCommit"
    /\ UNCHANGED <<ram, op>>

EntryCommit ==
    /\ pc = "entryCommit"
    /\ SetCatalog(active, [catalog[active] EXCEPT !.journal[used + 1] = OpEntry])
    /\ used' = used + 1
    /\ IF op.call = "save"
       THEN /\ index' = [index EXCEPT ![op.slot] = spare]
            /\ pc' = "oldErase"
            /\ UNCHANGED <<lastLoad, op>>
       ELSE /\ lastLoad' = op.slot
            /\ pc' = "ready"
            /\ op' = Idle
            /\ UNCHANGED index
    /\ UNCHANGED <<spare, epoch, active>>

\* Mutant: the spare is not updated.
OldEraseKeepsSpare ==
    /\ pc = "oldErase"
    /\ SetBlock(op.old, Erased)
    /\ op' = Idle
    /\ pc' = "ready"
    /\ UNCHANGED ram

OldErase ==
    /\ pc = "oldErase"
    /\ SetBlock(op.old, Erased)
    /\ spare' = op.old
    /\ op' = Idle
    /\ pc' = "ready"
    /\ UNCHANGED <<index, lastLoad, epoch, used, active>>
-----------------------------------------------------------------------------
(* The power fails.  A sector whose erase is cut short reads as anything   *)
(* between its old content and blank.                                      *)

PowerLost ==
    /\ pc # "off"
    /\ index' = [s \in Slots |-> NoBlock]
    /\ spare' = NoBlock
    /\ lastLoad' = 0 /\ epoch' = 0 /\ used' = 0 /\ active' = "A"
    /\ op' = Idle
    /\ pc' = "off"

Crash == PowerLost /\ UNCHANGED flash

\* The block whose erase is next, at the steps that erase one.
Erasing ==
    CASE pc \in {"blockErase", "wipeSpare"} -> spare
      [] pc = "oldErase" -> op.old
      [] OTHER -> Lowest(Unreferenced(index))

CrashErasingBlock ==
    /\ \/ pc \in {"blockErase", "wipeSpare", "oldErase"}
       \/ pc = "fill" /\ Missing # {}
    /\ PowerLost
    /\ SetBlock(Erasing, Dirty)

\* The header may survive a cut erase longer than the journal behind it.
CutCatalogs(c) ==
    IF IsValid(c)
    THEN {Dirty}
         \cup {[c EXCEPT !.journal = SubSeq(c.journal, 1, n)] : n \in 0 .. Len(c.journal)}
         \cup {[c EXCEPT !.journal = Append(SubSeq(c.journal, 1, n - 1), Torn)] :
                  n \in DOMAIN c.journal}
    ELSE {Dirty}

CrashErasingCatalog ==
    /\ pc \in {"catErase", "catRetire"}
    /\ PowerLost
    /\ \E x \in CutCatalogs(catalog[Target]) : SetCatalog(Target, x)
-----------------------------------------------------------------------------
\* The steps open() and the calls in progress take by themselves.
Step ==
    \/ OpenIndexed \/ OpenRecover
    \/ FillErase \/ FillProgram \/ FillCommit \/ FillDone \/ WipeSpare
    \/ BlockErase \/ BlockProgram \/ BlockCommit
    \/ CatalogErase \/ CatalogProgram \/ CatalogCommit \/ CatalogRetire
    \/ EntryProgram \/ EntryCommit \/ OldErase

Next ==
    \/ Step
    \/ \E s \in Slots, p \in Patches : SaveBegin(s, p)
    \/ \E s \in Slots : SelectBegin(s)
    \/ Crash \/ CrashErasingBlock \/ CrashErasingCatalog

Spec == Init /\ [][Next]_vars
-----------------------------------------------------------------------------
Phases ==
    {"off", "fill", "fillProgram", "fillCommit", "wipeSpare", "ready",
     "blockErase", "blockProgram", "blockCommit", "catErase", "catProgram",
     "catCommit", "catRetire", "entryProgram", "entryCommit", "oldErase"}

\* The store's variables keep their types; counters stay within their width.
TypeOK ==
    /\ block \in [Blocks -> BlockValues]
    /\ catalog \in [Catalogs -> CatalogValues]
    /\ index \in [Slots -> Blocks \cup {NoBlock}]
    /\ spare \in Blocks \cup {NoBlock}
    /\ lastLoad \in Slots
    /\ epoch \in U32
    /\ used \in 0 .. JournalCap
    /\ active \in Catalogs
    /\ op \in Ops
    /\ pc \in Phases
-----------------------------------------------------------------------------
(* What the next open() would make of the flash, were the power cut now.   *)

BootIndex == IF Openable THEN ReplayedIndex(catalog[Selected]) ELSE ScannedIndex

BootPatches ==
    [s \in Slots |-> IF BootIndex[s] = NoBlock THEN DefaultPatch
                     ELSE block[BootIndex[s]].patch]

BootSelection == IF Openable THEN ReplayedSelection(catalog[Selected]) ELSE 0

\* The caller's view of the call in progress.
Request ==
    CASE op.call = "save"   -> [call |-> "save", slot |-> op.slot, patch |-> op.patch]
      [] op.call = "select" -> op
      [] OTHER              -> Idle

\* save() and persist_last_load() take effect at one instant before they return
\* and survive every power cut: the flash, read the way the next open() reads
\* it, only ever changes by the whole of the call in progress.
Atomic == INSTANCE AtomicStore WITH
    FirstSlot <- 0, patches <- BootPatches, selection <- BootSelection,
    request <- Request, up <- pc # "off"
SavesAreAtomic == Atomic!Spec

\* The RAM index is being built while the power comes up.
Booting == pc \in {"off", "fill", "fillProgram", "fillCommit"}

\* load() finds the right program at every slot, at every step of every call:
\* the index is one to one, each block it names is committed for its slot, and
\* the block the next save erases is not one of them.
LiveBlocksIntact ==
    ~Booting =>
        /\ Validates(index)
        /\ pc # "oldErase" => spare \in Unreferenced(index)
        /\ pc = "oldErase" => op.old \in Unreferenced(index)

\* Between calls the RAM copy is what a reboot would read back from the flash,
\* so no later save builds on a table, a selection or a journal position that
\* the flash does not hold.
RamMatchesFlash ==
    pc = "ready" =>
        /\ Openable
        /\ Selected = active
        /\ ReplayedIndex(catalog[active]) = index
        /\ ReplayedSelection(catalog[active]) = lastLoad
        /\ ReplayedUsed(catalog[active]) = used
        /\ catalog[active].epoch = epoch

\* Every call ends and every boot completes, once the power stays on: whatever a
\* cut left behind, the store becomes usable again.
StoreComesReady == []<>(pc = "ready")
=============================================================================
