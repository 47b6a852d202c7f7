# A verification project for Noctum Synth

Noctum Synth is a polyphonic synthesizer in Rust: one portable engine
(`synth-core`), a desktop harness around it (`synth-app`), the firmware of a
Daisy Seed board (`hardware/daisy/firmware`) and a tool that records reference
synthesizers (`synth-capture`). This directory holds TLA+ models of its state
machines, the TLC configurations that check them on small instances, and
theorems about them that the TLA+ proof system checks for every value of the
constants. Paths below are relative to the repository; every definition that
models code is listed with its source lines in `PROJECT.json`.

## Inventory

| part | state it keeps | operations | meets |
| --- | --- | --- | --- |
| **Program store** `firmware/src/program/store.rs` | flash: 1025 program blocks (1024 slots and a spare), two catalog sectors with a journal each; RAM: table slot → block, spare block, selection, epoch, journal offset | `open` with recovery, `load`, `save`, `persist_last_load`, compaction of the journal | called by the program service; drives the QSPI flash |
| **Program service** `program/{task,selection,mod}.rs` | storage queue (8), patch queue (2), bank selection | load, save, bank select, program change | MIDI handler, store, audio task |
| **MIDI handler** `synth.rs`, `midi_control.rs` | NRPN registers per channel | decode a message, enqueue a control, a performance command or a storage request | USB, queues |
| **Performance FIFO and pending releases** `audio.rs`, `pending_releases.rs` | 32 commands in order; a bit per note and a flag for "all notes off" | send (merging AllNotesOff), receive; store and take releases | MIDI handler (P2), audio task (P1) |
| **Control queue** `control_queue.rs` | 32 controls | send with coalescing and eviction, receive | MIDI handler, audio task |
| **Audio task** `audio.rs` | the engine, its control budget | one block: patch, pending releases, commands, render, mirror to USB | everything above |
| **USB audio mirror** `usb_audio_core.rs` | ring of 256 frames, read and write cursors, active flag | push, pop, activate, deactivate | audio task, USB task |
| **Engine: layers and topology** `synth-core/src/engine.rs` | patch, edit layer, applied topology, transition, routes, keys held | controls, programs, notes, render | layer engines |
| **Layer engine and voices** `voice/layer_engine.rs`, `voice/mod.rs`, `pressed_keys.rs` | keys, voice allocation and owners, sustained voices, unison group, gate and pending note of each lane | notes, pedal, stealing, unison, program and parameter edits | arpeggiator, sequencers, voice pool |
| **Arpeggiator, sequencers, recorder, clocks** `arp.rs`, `sequencer/`, `midi/clock.rs` | held and latched notes, positions, lanes sounding, transport, recording | ticks, start and stop, record | layer engine |
| **Desktop bridge** `synth-app/src/engine.rs` | ring to the audio thread, edit layer (atomic), ring to the UI | reliable and droppable messages, rebind | UI and MIDI threads, audio thread |
| **Audio manager** `synth-app/src/audio.rs` | session, disconnection flag, last good configuration, generation applied | start, rebuild, fall back, reconnect, retry | bridge, UI |
| **UI frames** `synth-app/src/ui/app.rs` | program, edit layer, generation seen | catch up with the session, take MIDI updates, the user's actions | bridge, audio manager |
| **Capture tool** `synth-capture/src/` | a capture project on disk | plan, run, resume, validate | MIDI and audio devices |

DSP, parameter tables, record encodings, drivers, drawing and measurement
change no state that the parts above decide by; `PROJECT.json` lists them as
not modelled.

What is hard here:

* **Crashes.** A save is some five flash mutations, a compaction four more. The
  power may go in the middle of any of them, and again during the recovery.
* **Interleavings.** Audio interrupts preempt the MIDI handler between any two
  of its accesses to the queues, and both preempt the storage task; on the
  desktop three threads and the UI's frames share the bridge.
* **Shared voices.** Keys, pedal, unison, arpeggiator and two sequencers start
  and release notes on the same voices, and any of them can be switched on or
  off while the others have notes sounding.
* **Full queues.** Every queue is bounded and nothing may wait: what is
  dropped, merged, replaced or evicted decides whether a note hangs.
* **Transitions.** A change of topology takes hundreds of samples, during
  which keys, controls and other programs arrive and may reverse it.
* **Wrapping counters.** Generations and epochs compare modulo 2^32.

What makes each part correct: a save is atomic and durable and costs no other
program; a released note stops; held keys sound where the topology in force
puts them; what was last asked for is what is applied, in silence; a control
dropped or replaced never changes what the controls that stay mean; every
queue preserves the order it promises; a program is loaded as it was last
saved, and a reboot brings back the one that was heard; every voice that
sounds has somebody who will let it go; UI, bridge and engine end on the same
program and layer.

## The models

### ProgramStore, ProgramStoreFaults, AtomicStore, FallibleStore

`ProgramStore` is the store, one action per flash mutation: `pc` names the
mutation that comes next, `op` the call it belongs to. `OpenIndexed` and
`OpenRecover` are the two ways through `open`; `FillErase` … `FillDone` and
`WipeSpare` are a recovery that writes defaults; `SaveBegin`, `BlockErase`,
`BlockProgram`, `BlockCommit`, `EntryProgram`, `EntryCommit` and `OldErase` are
`save`; `SelectBegin` starts `persist_last_load`, which shares the entry steps;
`CatalogErase` … `CatalogRetire` are `ensure_journal_space`. `Crash` cuts the
power between two mutations, `CrashErasingBlock` and `CrashErasingCatalog` cut
an erase short: a block is left unreadable; a catalog is left such that no
decoder accepts it, or with header and table whole and a part of its journal:
the first entries, or these and a torn one behind them. (An erase that leaves a
later entry whole behind one it has wiped is not modelled.) The bytes of a
record are abstracted to the verdict of their decoder: erased, dirty or valid
with its content. Counters are modulo `Mod` and compared as `generation_newer`
compares them.

`ProgramStoreFaults` adds what power alone does not do: content decays while
the device is off, and flash operations of a call report errors. A `program`
or its read-back may fail with the bits untouched, partly down or all down
(`BlockFailed`, `CatalogFailed`, `EntryFailed`): the driver trait promises
nothing about the bits when it returns `Err`, and `commit_byte` fails on a
read-back that is itself wrong. So a call can fail with its journal entry
committed, while RAM keeps the index and selection it had (`Leftover`). The
next entry then meets the old one (`EntryBlocked`): flash only clears bits, so
over a committed entry it fails, and may spoil it, and over a torn one it
passes when the bytes agree. `EraseFailed` is an erase that reports an error.

`AtomicStore` is what the store promises: patches and a selection that change
at one instant inside a call, and survive power cuts. `SavesAreAtomic` states
that `ProgramStore` implements it: the abstract patches are those the *next*
`open` would find in the flash at this very moment (`BootPatches`).

`FallibleStore` is what is left of that promise when operations fail. It keeps
what `load` finds (`loaded`, `current`) apart from what a reboot would read
(`patches`, `selection`). A call that returns `Ok` has changed both alike; one
that fails has left RAM alone and the flash too, unless its entry is down all
the same. From then to the next reboot the store is `jammed`: its calls fail,
and may undo or redo what the stray entry did, until one reads back as what it
wanted to write. `FailedCallsAreKnown` states that `ProgramStoreFaults`
implements it, as long as erases report no error.

### NotePath

The way of a note from the MIDI handler to the engine in the firmware.
`Receive` is `enqueue_command` up to the outcome of `try_send` (merged,
accepted, or given back), `StoreRelease` its fallback: a block may fall between
the two. `BlockStart`, `BlockExtra` and `BlockEnd` are a block of the audio
task: pending releases first, one command, and as many more as the adaptive
budget allows. The engine is reduced to the notes a key gates, the notes only
the pedal sustains, and the pedal; program loads, the arpeggiator, unison and
voice stealing are outside this model. `exposed` and `pedalDropped` are history
variables that record which releases the code lets go by. `SustainEndsWithPedal`
exempts `pedalDropped`: that a lifted pedal is dropped by a full FIFO
(`synth.rs:287`) is what the code does, and no property here says otherwise.

### LayerTopology

The engine's two layers, for `LAYERS` 1 (firmware) and 2 (desktop). `wanted` is
what controls and programs asked for, `applied` what plays, and `fade` and
`gain` the `TopologyTransition` between them. Each control is one action
(`SetParam`, `SetLayerMode`, `SetSplitPoint`, `SetEditLayer`, `ApplyPatch`,
`NoteOn`, `NoteOff`, `AllNotesOff`); `RenderCommit` is the block that rebuilds
the voices, `RenderSound` any other block. A fade moves one step per block
instead of per sample: controls arrive between blocks, so finer steps would
only lengthen the fade. A block that both ends the fade out and goes on
renders silence for its rest (`next` returns 0 while an apply is due), and
the next block applies. The settings of a layer are the program they came with
and one parameter. Recording, tempo, oversampling, filter type and effects do
not influence any of this and are left out. `cancelled` records that a
transition a program was waiting for was cancelled:
`LoadedProgramPlaysUnlessCancelled` exempts it, and `topology_cancel` shows what
then happens.

### ControlQueue

The queue of parameter and layer controls. `TrySend` is `try_send` under its
lock: `Replace` takes the place of the oldest entry that the control may stand
for, `Enqueue` and `Evict` append, `Refuse` gives the control back and the
handler drops it; `TryReceive` is the audio task applying one. `promised` is
the abstract queue that replaces nothing: the engine after every accepted
control in the order sent. `evicted`, `overtaken` and `editSwapped` record
where the code departs from it: a parameter pushed out for a layer control; an
update that took a place ahead of another one naming the same field through
the edited layer (`Edit` p=1, `Explicit` p=2, then `Edit` p=3 ends at 2); an
edit layer put ahead of a newer one: with the update between two of them
evicted, a third takes the place of the first (`try_send` replaces the oldest
it may), and the older one behind it wins. Parameters, modulation fields and
sequence fields are coalesced by the same rule and are one kind here.

### ProgramService

Programs on the firmware from MIDI to engine and flash. `SelectBank` and
`ProgramChange`, `SaveProgram` and `EditBuffer` are what the MIDI handler does
with a message: `RequestedBank` is `ProgramSelection::requested_bank` and
`resolve`, and a storage queue without room refuses the request and leaves the
selection alone; a bank past the last one is ignored (`SelectOutOfRange`),
which leaves a host of two controllers with the zero it sent in the other.
`Receive` to `StoreFails` are the storage task: `Receive` takes a request and
loads, or starts a save; `SendProgram` puts the patch in the patch queue (and
persists the selection only if it had room), `StoreWorks`, `StoreReturns` and
`StoreFails` are the store's. `PersistLastLoad` is the early return of
`persist_last_load`: a selection that RAM already holds (`current`) is not
written and counts as saved. `Block` is the audio task taking a patch. The
store itself is an instance of `FallibleStore` (`Store`), the specification
that `ProgramStoreFaults` implements, so the two models together are the
service over the real store, failing calls included. A call that fails may have
changed the flash (`jammed`), and then flash and RAM may select different
programs until the next reboot. So it is when a selection is written although
its call fails, and the next program change goes back to the program RAM still
names: that one writes nothing and counts as saved, and a reboot plays the
other. `RebootPlaysLastLoad` exempts the flash of a jammed store from bringing
back what was last sent, but RAM has to hold it in any case. `convention` is
how the host selects banks (CC0, CC32, both, or one and a zero); `wanted`,
`promised`, `lastLoad` and `failed` are histories the properties compare with.

### LayerEngine

One layer of the engine with everything that plays its voices. `layer` is the
state of `LayerEngine`, `AllocatedVoices` and the voices' lanes: for a lane the
note its gate is open for, the one that waits for a stolen voice to shut down,
and whether the envelope sounds. `NoteOn`, `NoteOff`, `AllNotesOff`,
`SustainPedal`, `SetUnison` … `SetTransport`, `ApplyPatch` and `CommitTopology`
are controls, which the engine handles between two samples; the parts of a
sample are `PolyStep`, `PolyReset` and `PolyHalf` (the polyphonic sequencer's
steps, resets and note-offs in mid-step), `GatedBoundary` and `GatedHalf` (the
envelope gate of the gated sequencer), `ArpRelease` and `ArpStep`, and `Fade`
(a lane's envelope ends or a stolen one hands over). Clocks may fall anywhere.
The order and the octaves of an arpeggio and the contents of a sequence are any
choice of notes.

What the code lets go by, and where the model records it instead of calling it
right:

* `latched`: notes the arpeggiator holds on to when their keys go up, which
  lifting Hold later does not release; `missed`: keys that go up while a
  disabled arpeggiator still remembers them (`apply_patch` disables it and
  keeps its notes); `swallowed`: an arpeggiator in a hold mode takes the
  pedal's release, and the layer goes on sustaining (`set_sustain_pedal`);
  `dropped`: a sequence reset that meets a rest in step 1 forgets the lane's
  note-off (`poly.rs:386`).
* Unison under an arpeggiator in Sustain mode releases the unison group and
  leaves the sustained voices (`layer_engine.rs:697`); an arpeggiator that
  routes again cannot release one (`restore_arp_routing`). `VoicesAreOwned` and
  `Calm` leave unison (under an arpeggiator) out.
* A program that enables the arpeggiator does not give it the keys that are
  down, and one that turns the polyphonic sequencer off silences them.
* `rebuild_sequence` collects as many notes as keys can hold into a vector of
  16; notes here are two.

### AppBridge

The desktop application around the engine. A call of the bridge is a list of
steps in `todo` — store the edit layer, push a command, tell the UI — of which
a thread takes one at a time (`Run`); a push waits while the ring is full, as
the code spins. `OpenInputs` and `RestoreProgram` are `App::new`: the manager
thread runs before it, so the generation it reads may be the first session's,
and MIDI inputs open before the saved program is sent. `SyncAppliedAudio`,
`DrainMidiUpdates` and `User` are a frame of the UI in its order, `Midi` the
MIDI thread's calls. The manager is `Started` / `StartFailed`, `TakeRequest`,
`Rebind`, `Built` / `BuildFailed`, `Recovered` / `RecoveryFailed`,
`NoticeDisconnect`, `Retry`, `RetryFailed`, `Reconnected`, `Publish` and
`ClearFlag`, each up to the next point where another thread could tell;
`StreamError` is the callback of a stream that dies and `Render` a block of a
live session. A new session has a new engine and a new ring: what the old ring
held is lost.

`RecoveryFailed` ends in the state `"blocked"`, which nothing leaves. All four
places that publish a failed recovery (`audio.rs:224`, `253`, `333`, `369`)
assign to `*applied.write()` a value built from `applied.read()`, whose guard
lives to the end of the statement: the manager waits for itself, and the UI at
its next `applied()` (`Readable`).

What the properties leave out is recorded. `raced`: calls of the two threads
overlapped (the edit layer is stored and then sent without a lock,
`engine.rs:298`). `overtaken`: the UI sent something before it took the update
that a finished call of the MIDI thread had left for it, at the start, for the
user, or in a reload: a frame reloads its program into a new session
(`ui/app.rs:321`) before it takes the updates (`ui/app.rs:348`), so that the
engine plays the old program while the UI shows the one MIDI has loaded. No two
calls overlap then, and it is an order of the code, not of the schedule, that
`InStep` leaves out. `reverted`: a session came up with the error of the
configuration that failed, into which the UI reloads no program
(`ui/app.rs:175`). Parameters, which a full ring drops, and edits that go to
the edited layer are left out.

## Runs

| run | instance | shows |
| --- | --- | --- |
| `store_crash` | 2 slots, 3 blocks, journals of 2 entries, counters modulo 4, 2 patches; 4 calls, 2 power cuts; from a blank flash and from one whose counters are about to wrap | types; the index and the spare block are sound at every step (`LiveBlocksIntact`); between calls RAM is what a reboot would read (`RamMatchesFlash`); the store implements `AtomicStore` (`SavesAreAtomic`); it always becomes ready again (`StoreComesReady`) |
| `store_faults` | as above; 3 calls, 2 cuts, 2 faults; from a formatted store | a fault costs at most the program it hits (`FaultsAreContained`), a failed call leaves RAM and flash in agreement but for its own entry, if that was committed all the same, and the one block it names (`RamAndFlashAgree`); the store implements `FallibleStore` (`FailedCallsAreKnown`) |
| `store_erase_error` | erase errors allowed | finding: `SpareIsNotLive` fails |
| `note_path` | 2 notes, FIFO of 2, 6 commands, 3 of them AllNotesOff | a released note stops but for two known cases (`OnlyExposedNotesHang`, `ReleasedNotesStop`); sustain ends with the pedal unless its release found the FIFO full (`SustainEndsWithPedal`) |
| `note_overtaken` | the same without AllNotesOff | finding: `QuietKeysAreSilent` fails |
| `topology` | 2 layers, 2 keys on either side of 2 split points, 2 programs, 2 values, fade of 2 blocks, 4 controls | held keys follow the topology (`KeysFollowTopology`); what was asked for is in force outside a transition (`SettledTopology`), and the program loaded plays (`LoadedProgramPlaysUnlessCancelled`); rebuilds are silent (`SilentRebuild`) and transitions end (`TransitionsEnd`) |
| `topology_cancel` | 1 layer | finding: `LoadedProgramPlays` fails |
| `control_order` | 2 parameters for the edited layer or B, 2 values, capacity 3, 6 controls | controls queued end where controls in order end, but for the three departures (`QueueKeepsOrder`); a layer mode or split point accepted is never evicted, never waits twice and is never undone by an older one (`ModeAndSplitStand`) |
| `program_service` | 2 banks of 1 program, 2 patches, storage queue of 2, patch queue of 1; 4 messages, 1 store error, 1 power cut; all 4 bank conventions | the bank asked for is the one the host selected (`HostsBankIsRequested`); a load sees the saves before it and none after (`LoadsFollowSaves`); the selection in RAM is the program the engine was last given, and a reboot plays it unless a failed call has jammed the store (`RebootPlaysLastLoad`); queues and calls do not wait for ever (`RequestsAreServed`) |
| `layer_engine` | 2 voices, 2 notes, 1 sequencer lane; 7 sessions, each a pair of programs and a number of edits (plain, hold and momentary-hold arpeggios, sustain mode, unison, polyphonic and gated sequencer, re-latch with beat sync) | the allocator's books list exactly the voices that sound (`NoOrphanVoices`), each with somebody who will release it (`VoicesAreOwned`); sustain follows the pedal (`SustainFollowsPedal`); the arpeggiator plays keys that are down or latched, or that went up while it was disabled (`ArpPlaysHeldKeys`); keys that are down keep sounding (`KeysKeepSounding`); with everything let go, silence (`SilenceFollows`) |
| `app_bridge` | 2 programs, ring of 2, UI ring of 1; 2 calls from UI or MIDI, 2 faults, retries that may fail for ever | once settled the engine plays the UI's program and edits its layer, unless calls of UI and MIDI met or the session came back with an error (`InStep`); calls return unless the manager has given the session up or is blocked (`CallsReturn`) |
| `recovery_deadlock` | 1 program, 1 call, 2 faults | finding: `ChangesEnd` fails |

**Why the bounds are enough.** Two slots make a neighbour, and the third block
is the spare; a journal of two entries fills, so four calls compact at least
once (twice with selections), and two cuts put one inside the recovery from the
other; two faults are a call that fails with its entry down and another one on
the jammed store, or a decayed sector and a call that fails in the recovered
one. Modulo 4 is the smallest modulus at which "newer" is not a matter of
size. A FIFO of two holds a NoteOn behind any other command, which is all that
a release can overtake; six commands fill it and leave room for what comes
after (capacity 3 has been checked as well). Four controls suffice to request,
load a program, reverse and hit a key in one fade; the fade has an inner step
at which gain is neither silent nor full. Three queued controls are an edit
layer, an update to it and one more, which is what replacing and evicting tell
apart; six fill the queue, evict and replace after it. Four messages are a bank
selection and a program change behind a save and before another, with a storage
queue of two that refuses the next; one cut and one error each find every step
of the task. Two voices are stolen by a third note: another key's, the
arpeggio's or the sequence's, and the sessions pair the programs whose
difference decides who owns a voice, with as many edits as switch back and
forth. Two calls overlap or follow each other and fill the ring with what a
reload pushes; two faults are a configuration that fails and a recovery that
does, or a disconnection during either (three calls and one fault have been
checked as well). The proofs below show most of the safety properties with no
bound at all. Deadlock is not checked where the system may stop:
`program_service` (a device nobody sends anything), `app_bridge` and
`recovery_deadlock` (a session the manager has abandoned, and a manager that
waits for itself).

**Fairness.** `store_crash` assumes that a running processor goes on
(WF of `Step`) and, by `MaxCuts`, that power cuts end. `note_path` assumes that
audio blocks start and end (the DMA interrupt, WF) and that the MIDI handler
finishes although blocks preempt it (SF of `StoreRelease`: it is disabled and
enabled again by every block). `topology` assumes the audio callback (WF of
`Block`); controls need none. `program_service` assumes what the executor and
the audio interrupt do: a waiting request is received, a patch sent or its load
refused, a store call returns or fails, blocks come (WF of each; a jammed
store's calls fail without any further fault). `layer_engine`
assumes that samples are rendered, so that a fading envelope ends (WF of
`Fade`) and an arpeggiator with nothing to play says so (WF of `ArpRelease`);
it needs no sequencer clock. `app_bridge` assumes that threads are scheduled,
frames go on, a live session renders and the manager runs (WF of each); that a
retry succeeds is not assumed. `recovery_deadlock` has the same fairness: the
manager does not stop for want of being scheduled, but blocks.

## Findings

* `store_erase_error`: `save` moves the index before the retired block is
  erased and the spare after it. If that erase reports an error, the spare
  still names the block just committed, and the next save erases a live
  program. The QSPI driver here reports no such error; the trait allows it.
* `note_overtaken`: the fallback for releases is drained before the FIFO. A
  release that finds the FIFO full overtakes the NoteOn of its note that is
  still queued, and the note hangs.
* `topology_cancel`: a control that asks for the topology in force cancels the
  transition, also when a program is waiting for it. The engine then holds the
  new patch and plays the old one.
* `recovery_deadlock`: when a configuration fails and the recovery fails too,
  the manager asks for a write lock while it holds the read lock, and no
  configuration is ever taken again.

## Proofs

All of it holds for every value of the constants that the modules' named
assumptions admit.

`ProgramStoreProofs` (`StoreAssumption`: at least one slot and one journal
entry, a modulus above 3): `TypeCorrect` and `LiveBlocksAlwaysIntact`.
`LiveBlocksIntact` is not inductive: it says nothing of what a save has done so
far. The invariant `IndInv` adds that the call and the phase match, that the
journal has room when an entry is due, that the index is complete and one to
one outside a recovery (`IndexComplete`), what a save (`SaveProgress`) and a
recovery (`RecoveryProgress`) have already written, and that at most one slot
has a second committed copy (`OneExtraCopy`), which is what keeps a scan from
running out of blocks. There is one lemma per action. A pigeonhole lemma
(`SomeBlockUnreferenced`) over `NSlots + 1` blocks gives the spare.

The same module proves `RamAlwaysMatchesFlash` and `StoreImplementsAtomic`,
that the store implements `AtomicStore`. To `IndInv` the invariant `BootInv`
adds that in service RAM is what the active catalog replays to, and the active
catalog is the one the next `open` would select (`CatalogAgrees`); that the
flash is formatted once, holds nothing but defaults until then and can be
trusted ever after (`DefaultsFirst`); and that a save whose entry is committed
is in the index (`SaveDone`). Lemmas about journals say what a torn entry
(`TornReads`), a committed one (`EntryReads`) and a compaction
(`SnapshotReads`) do to what is replayed, and `SuccessorNewer` that the next
epoch beats the last around the wrap. Then each action maps to a step of
`AtomicStore`: the two ways through `open` to `PowerUp`, the beginnings to
`Call`, the commit of a journal entry to `TakeEffect` or `Return`, the erase of
the old block to `Return`, the three kinds of cut to `PowerDown`, and every
other flash step to a stutter. On the way it follows that power cuts alone
never lead to a recovery of a store that has been formatted: the scan is for
decayed sectors only.

And it proves the properties of `ProgramStoreFaults`, with no bound on faults,
cuts or calls: `LiveBlocksSurviveFaults`, `RamAndFlashAlwaysAgree` and
`FaultsAlwaysContained`. Their one hypothesis is that erases report no error
(`EraseErrors = FALSE`), as the QSPI driver's do not; with one the finding
`store_erase_error` refutes the first. `IndInv` survives decay and errors as it
is, `BootInv` does not: a failed call may leave an entry behind the journal in
service, torn or committed, a failed compaction a new catalog that is
committed though RAM goes on with the old one, and while a recovery has a
catalog yet to retire, the next `open` may select that one. `ServiceInv` says
what is left: the active catalog replays to what is in RAM, with at most one
torn entry behind it, or it does so but for one stray entry, which can only
name the spare block (`CatalogReads`); and outside a recovery the next `open`
selects that catalog, or the one a failed compaction left, which is a snapshot
of RAM (`CatalogFound`, `Superseded`). A compaction happens with a full journal
only (`Compacting`), which has no room for a stray entry. So
`RamAndFlashAlwaysAgree` says that flash and RAM agree unless there is a stray
entry, and that even then a reboot takes each slot from the block RAM names for
it, or from the spare one. Containment follows from
what a boot takes (`BootTakesCopy`: one of the committed copies of a slot, or
defaults if it has none) and what a step does to the copies of a slot
(`StepCopies`): only the two commits make one, that of a recovery for a slot
without any, and none that is the last is erased.

`ProgramServiceProofs` (`ProgramServiceAssumption`): `TypeCorrect`,
`BankIsRequested`, `LoadsAlwaysFollowSaves` and `RebootAlwaysPlaysLastLoad`.
The invariant says what is in the power-off state, what pending controller
values and a host's convention say of the bank it wants, how the selection in
flash follows the last program sent, and what each load in the queue is due:
the latest save before it in the queue or else what its slot owes once the call
in progress returns (`LoadsAreDue`). Loads go by what RAM finds; that flash and
RAM hold the same unless the store is jammed (`InSync`) is what a call that
takes effect needs. The store's steps are `FallibleStore`'s actions, calls that
fail with their entry down included, so that the theorems hold of every store
that keeps that promise. That `ProgramStoreFaults` keeps it is checked by TLC
(`FailedCallsAreKnown`) and not proved.

`NotePathProofs` (every set of notes, every capacity above 0): `TypeCorrect`;
`ReleasesAreKept` (`OnlyExposedNotesHang`), which is inductive with the types;
`SustainEnds` (`SustainEndsWithPedal`), from what the pedal commands still in
the FIFO will leave. The lemmas say what appending to and taking from the FIFO
does to the promise `WillStop` of a note.

`LayerTopologyProofs` — for one and two layers, every set of notes, splits,
programs and values and every fade length (`TopologyAssumption`):
`TypeCorrect`; `KeysAlwaysFollowTopology`, from the invariant that the
remembered route of a held key is the one the topology in force gives it and
that engines hold what is routed to them (`KeysInv`); `TopologySettles` and
`LoadedProgramAlwaysPlays`, from their conjunction `SettledInv`;
`RebuildsAreSilent`, an action property, from "an apply is due only at zero
gain" (`SilentInv`). The lemma `EditIsMetadata` (in stack and split mode the
edit layer changes no route) carries the actions that change `applied` at once.

`ControlQueueProofs`: `TypeCorrect` and `ModeAndSplitAlwaysStand`. A layer mode
or split point that waits has nothing behind it that could keep a newer one
from its place, so it is replaced where it stands and waits at most once; only
parameters are evicted. `QueueAlwaysKeepsOrder`: the queue, drained, leaves the
engine where the controls in the order sent would have, until one of the three
departures is recorded. What is added to the property (`OrderInv`) is that two
entries that wait at once and name the same field do so through the edited
layer, with an edit layer between them (`AllApart`); then replacing an entry
where it stands comes to what appending its successor would have.

`AppBridgeProofs` (any programs, ring, UI ring and number of calls):
`TypeCorrect` and `SettledInStep`, that the settled engine plays the UI's
program and edits its layer (`InStep`). `InStep` speaks of a moment at which
nothing is under way; the invariant says at every moment what is still to come:
as long as calls have not met (`Crossed`: overlapped, or overtaken by the UI),
only one thread has steps to take, and the UI has none while updates wait for
it (`Alone`); a session that plays is about to be published or is the one
applied (`Published`); and once the steps in `todo` and the ring are through,
the UI edits the layer stored last and an engine whose session it has reloaded
agrees with it (`Ahead`). The ring is a sequence of any length, folded.

`LayerEngineProofs` (`LayerEngineAssumption`, `PatchesAssumption`: every set of
notes and programs, every number of voices and lanes): `TypeCorrect`,
`NoOrphans` (`NoOrphanVoices`), `VoicesAlwaysOwned` (`VoicesAreOwned`),
`SustainAlwaysFollows` (`SustainFollowsPedal`) and `ArpAlwaysPlaysHeld`
(`ArpPlaysHeldKeys`), of one inductive invariant `Inv`. It keeps the types and
the allocator's books together (`Kept`), says of every held voice who will
release it (`Owned`: the arpeggiator's current note alone while keys go to the
arpeggiator, else the keys that are down; a sequencer's voice is in a lane that
is active, or recorded as dropped), that a polyphonic sequencer that is off has
no active lane, that sustain follows the pedal, and that the arpeggiator
remembers only keys (`ArpWithin`). A control of the engine is a composition of
some twenty operators, and most of them fold over voices, keys or lanes: one
lemma per operator states what it keeps, one per action puts them together.

`FoldLemmas`, which those three modules share, takes the place of induction
over data: a fold of the community modules is a function of the numbers of
elements taken, so what each element preserves (`Folded`, `FoldedWithin`) or
hands on (`FoldedAlong`) the whole fold does, by induction over the naturals,
with the facts to be preserved given as a set of states in place of an operator.

Only model-checked:

* liveness (`StoreComesReady`, `ReleasedNotesStop`, `TransitionsEnd`,
  `RequestsAreServed`, `SilenceFollows`, `CallsReturn`), which the prover
  cannot do under fairness;
* `FailedCallsAreKnown`, the refinement of `FallibleStore`: the mapping of a
  jammed store's calls needs what each step does to the next boot in more detail
  than `CatalogReads` keeps;
* the findings, which are single counterexamples;
* `KeysKeepSounding` of `LayerEngine`, an action property: that a key loses its
  voice only when as many newer ones want it counts voices and compares the age
  of keys, which the invariant above says nothing of.

## Plan

Done: the program store, its faults and its refinement; the program service
over it; note path, control queue, layer topology, layer engine, desktop
bridge, and the proofs above. What is left, in this order:

1. `KeysKeepSounding` as a theorem, for `LaneCount > 0`. The strengthening, an
   invariant of the instance of `layer_engine`: keys and held voices are listed
   once each; without unison or arpeggiator, the live held voices stand in the
   order of their keys, and a key pressed after a sounding one sounds too.
   Stealing takes the head of `held`, so it takes the oldest key; the folds of a
   rebuild need the order stated as a relation that each key moves in.
2. The sequence recorder and its feedback into the patch (`engine.rs`), with
   the ring that drops the oldest event when it is full.
3. `LayerEngine` for two layers under `LayerTopology`, in place of the notes
   that its engines hold.
4. Droppable parameters and edits for the edited layer in `AppBridge`.
5. The USB audio mirror: a ring whose ends run at different priorities of one
   core, with activation in between.
6. Capture sessions: resume after an interruption.

## Not modelled, and why

Floating-point DSP, SIMD, effects and wavetables (values, no control), which
with parameter tables and drawing are most of the lines of this repository;
bit-level encodings of programs, SysEx and audio packets (pure conversions);
register-level drivers, clocks and SDRAM set-up (external to the logic, used
through a small trait); diagnostics, LED patterns and drawing (they report and
decide nothing); tempo estimation from clock ticks (arithmetic on times); the
patch transition of the firmware, which only a benchmark uses; offline tools.
The USB mirror is left for later because on the target its writer runs above
both ends of an activation, so the interleaving a model would look for does
not happen. The parts of the plan that are not done are listed as such in
`PROJECT.json`, each hazard they carry with a note.
