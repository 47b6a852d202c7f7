----------------------------- MODULE AppBridge -----------------------------
(***************************************************************************)
(* The desktop application around its synth engine (synth-app): the audio  *)
(* manager thread, which starts, restarts and recovers audio sessions      *)
(* (audio.rs), the command ring that a session drains, the UI and MIDI     *)
(* threads, which push into it and spin while it is full (engine.rs), and  *)
(* the UI's frames, which reload the program into every new session        *)
(* (ui/app.rs).                                                            *)
(*                                                                         *)
(* A call of the bridge is a sequence of steps, and a thread takes one at  *)
(* a time: store the shared edit layer, push a command, tell the UI.       *)
(* Of the commands, those that say which program and which layer the       *)
(* engine plays; a full ring drops the others, and these wait.             *)
(***************************************************************************)
EXTENDS Naturals, Sequences, Folds, SequencesExt

CONSTANTS
    Patches,        \* programs
    DefaultPatch,   \* what a fresh engine plays
    RingCapacity,   \* CONTROL_QUEUE_CAPACITY
    UiCapacity      \* MIDI_UI_QUEUE_CAPACITY

ASSUME AppBridgeAssumption ==
    /\ DefaultPatch \notin Patches
    /\ RingCapacity \in Nat \ {0} /\ UiCapacity \in Nat \ {0}

Layers == {"A", "B"}
Threads == {"ui", "midi"}

VARIABLES
    manager,        \* where the audio manager thread is
    session,        \* the audio session: "none", "playing", or "dead" after an error
    disconnected,   \* its flag, set by the error callback of a stream
    asked,          \* whether a configuration waits in the request channel
    applied,        \* AppliedAudioConfig: generation, and whether it has an error
    ring,           \* the command ring of the current binding
    engine,         \* the session's engine: its program and edit layer
    editLayer,      \* the shared edit layer (an AtomicU8)
    todo,           \* what is left of the call each thread is in
    updates,        \* the ring from the MIDI thread to the UI
    ui,             \* the UI: program, edit layer, generation it has seen
    frame,          \* where the UI thread is in its frame
    raced,          \* history: the UI's and the MIDI thread's calls overlapped
    overtaken,      \* history: the UI sent before it took what MIDI had told it
    reverted        \* history: the session came with an error and got no program

managerVars == <<manager, session, disconnected, applied, engine, reverted>>
senderVars == <<editLayer, todo, updates>>
historyVars == <<raced, overtaken>>
uiVars == <<ui, frame, historyVars>>
vars == <<managerVars, asked, ring, senderVars, uiVars>>

Fresh == [patch |-> DefaultPatch, edit |-> "A"]
-----------------------------------------------------------------------------
(* The bridge's calls.                                                     *)

Store(l)   == [do |-> "store", layer |-> l]
Push(c)    == [do |-> "push", command |-> c]
Tell(c)    == [do |-> "tell", command |-> c]
Program(p) == [program |-> p]
Edit(l)    == [edit |-> l]
NotesOff   == [notes |-> "off"]
Commands == {Program(p) : p \in Patches} \cup {Edit(l) : l \in Layers} \cup {NotesOff}

\* set_edit_layer, load_program, and the same from MIDI.
SetEditLayer(l) == <<Store(l), Push(Edit(l))>>
LoadProgram(p) == <<Store("A"), Push(Program(p))>>
SetMidiEditLayer(l) == Append(SetEditLayer(l), Tell(Edit(l)))
LoadMidiEditBuffer(p) == Append(LoadProgram(p), Tell(Program(p)))
\* Mutant: the layer goes first, and the program resets it.
ReloadProgramLayerFirst(p, l) ==
    <<Push(NotesOff), Store(l), Push(Edit(l)), Push(Program(p))>>
\* all_notes_off and reload_program_preserving_edit
ReloadProgram(p, l) == <<Push(NotesOff), Store(l), Push(Program(p)), Push(Edit(l))>>

\* What a command does to the engine, or to the UI: a program selects layer A.
Taken(x, c) ==
    CASE c \in {Program(p) : p \in Patches} -> [x EXCEPT !.patch = c.program, !.edit = "A"]
      [] c \in {Edit(l) : l \in Layers} -> [x EXCEPT !.edit = c.edit]
      [] OTHER -> x

\* Mutant: one element too many.
RoomOneMore(q, n) == Len(q) <= n
Room(q, n) == Len(q) < n

\* One step of the call thread t is in; it yields and tries again while a ring is full.
Run(t) ==
    /\ todo[t] # <<>>
    /\ LET s == Head(todo[t]) IN
        \/ /\ s.do = "store" /\ editLayer' = s.layer
           /\ UNCHANGED <<ring, updates>>
        \/ /\ s.do = "push" /\ Room(ring, RingCapacity)
           /\ ring' = Append(ring, s.command)
           /\ UNCHANGED <<editLayer, updates>>
        \/ /\ s.do = "tell" /\ Room(updates, UiCapacity)
           /\ updates' = Append(updates, s.command)
           /\ UNCHANGED <<editLayer, ring>>
    /\ todo' = [todo EXCEPT ![t] = Tail(@)]
    /\ UNCHANGED <<managerVars, asked, uiVars>>

Idle(t) == todo[t] = <<>>
-----------------------------------------------------------------------------
(* The UI thread: a frame catches up with the audio session, takes what    *)
(* the MIDI thread told it, then handles the user.                         *)

\* Whether the lock of the applied configuration can be had.
Readable == manager # "blocked"

\* A finished call of the MIDI thread has left the UI something to take.
Overtakes == updates # <<>>

\* The UI begins a call that sends its whole program, and with it undoes what went
\* before, but for a call of the MIDI thread that goes on or that it overtakes.
SendsProgram(c) ==
    /\ todo' = [todo EXCEPT !["ui"] = c]
    /\ raced' = ~Idle("midi")
    /\ overtaken' = Overtakes

\* App::new: the MIDI inputs open before the program that was saved is sent.
OpenInputs ==
    /\ frame = "new" /\ Readable /\ frame' = "restore"
    /\ ui' = [ui EXCEPT !.seen = applied.generation]
    /\ UNCHANGED <<managerVars, asked, ring, senderVars, historyVars>>

RestoreProgram ==
    /\ frame = "restore" /\ frame' = "sync"
    /\ SendsProgram(LoadProgram(ui.patch))
    /\ UNCHANGED <<managerVars, asked, ring, editLayer, updates, ui>>

SyncAppliedAudio ==
    /\ frame = "sync" /\ Idle("ui") /\ Readable /\ frame' = "drain"
    /\ ui' = [ui EXCEPT !.seen = applied.generation]
    /\ IF ui.seen # applied.generation /\ ~applied.error
       THEN SendsProgram(ReloadProgram(ui.patch, ui.edit))
       ELSE UNCHANGED <<todo, historyVars>>
    /\ UNCHANGED <<managerVars, asked, ring, editLayer, updates>>

DrainMidiUpdates ==
    /\ frame = "drain" /\ Idle("ui") /\ frame' = "user"
    /\ ui' = FoldLeft(Taken, ui, updates) /\ updates' = <<>>
    /\ UNCHANGED <<managerVars, asked, ring, editLayer, todo, historyVars>>

SelectUiEditLayer(l) ==
    /\ l # ui.edit
    /\ ui' = [ui EXCEPT !.edit = l]
    /\ todo' = [todo EXCEPT !["ui"] = SetEditLayer(l)]
    /\ raced' = (raced \/ ~Idle("midi"))
    /\ overtaken' = (overtaken \/ Overtakes)
    /\ UNCHANGED <<asked, applied>>

LoadPatch(p) ==
    /\ ui' = [ui EXCEPT !.patch = p, !.edit = "A"]
    /\ SendsProgram(LoadProgram(p))
    /\ UNCHANGED <<asked, applied>>

\* Apply or Reconnect in the settings; apply() clears the error.
ApplyAudio ==
    /\ Readable
    /\ asked' = TRUE
    /\ applied' = [applied EXCEPT !.error = FALSE]
    /\ UNCHANGED <<ui, todo, historyVars>>

User ==
    /\ frame = "user" /\ frame' = "sync"
    /\ \/ \E l \in Layers : SelectUiEditLayer(l)
       \/ \E p \in Patches : LoadPatch(p)
       \/ ApplyAudio
    /\ UNCHANGED <<manager, session, disconnected, engine, reverted, ring, editLayer, updates>>

\* A frame in which the user does nothing.
NoInput ==
    /\ frame = "user" /\ frame' = "sync"
    /\ UNCHANGED <<managerVars, asked, ring, senderVars, ui, historyVars>>

(* The MIDI thread.                                                        *)

Midi ==
    /\ Idle("midi") /\ frame # "new"
    /\ \/ \E l \in Layers :
            /\ todo' = [todo EXCEPT !["midi"] = SetMidiEditLayer(l)]
            /\ raced' = (raced \/ ~Idle("ui"))
            /\ UNCHANGED overtaken
       \/ \E p \in Patches :
            /\ todo' = [todo EXCEPT !["midi"] = LoadMidiEditBuffer(p)]
            /\ raced' = ~Idle("ui")
            /\ overtaken' = FALSE
    /\ UNCHANGED <<managerVars, asked, ring, editLayer, updates, ui, frame>>
-----------------------------------------------------------------------------
(* The audio session.                                                      *)

Render ==
    /\ session = "playing" /\ ring # <<>>
    /\ engine' = Taken(engine, Head(ring)) /\ ring' = Tail(ring)
    /\ UNCHANGED <<manager, session, disconnected, asked, applied, reverted, senderVars, uiVars>>

\* A stream reports an error and stops.
StreamError ==
    /\ session = "playing"
    /\ session' = "dead" /\ disconnected' = TRUE
    /\ UNCHANGED <<manager, asked, applied, ring, engine, reverted, senderVars, uiVars>>
-----------------------------------------------------------------------------
(* The audio manager thread.                                               *)

aside == <<asked, senderVars, uiVars>>

\* Mutant: a thread that spins keeps the producer locked.
NewRingLocked ==
    /\ ~\E t \in Threads :
            ~Idle(t) /\ Head(todo[t]).do = "push" /\ ~Room(ring, RingCapacity)
    /\ ring' = <<>>
\* rebind_audio_channels: whatever the old ring holds is gone.
NewRing == ring' = <<>>

\* A new session has an engine of its own.
StartSession ==
    /\ session' = "playing" /\ engine' = Fresh
    /\ UNCHANGED <<disconnected, applied, ring, reverted, aside>>

Started ==
    /\ manager = "start" /\ manager' = "publish"
    /\ StartSession

StartFailed ==
    /\ manager = "start" /\ manager' = "idle"
    /\ applied' = [applied EXCEPT !.error = TRUE]
    /\ UNCHANGED <<session, disconnected, ring, engine, reverted, aside>>

\* A configuration arrives, while idle or while waiting to reconnect.
TakeRequest ==
    /\ manager \in {"idle", "reconnect"} /\ asked
    /\ manager' = "rebind" /\ session' = "none" /\ asked' = FALSE
    /\ UNCHANGED <<disconnected, applied, ring, engine, reverted, senderVars, uiVars>>

Rebind ==
    /\ manager = "rebind" /\ manager' = "build"
    /\ NewRing /\ disconnected' = FALSE
    /\ UNCHANGED <<session, applied, engine, reverted, aside>>

Built ==
    /\ manager = "build" /\ manager' = "publish"
    /\ StartSession

\* A failed probe leaves the ring, a failed build rebinds it again.
BuildFailed ==
    /\ manager = "build" /\ manager' = "recover"
    /\ NewRing \/ UNCHANGED ring
    /\ UNCHANGED <<session, disconnected, applied, engine, reverted, aside>>

\* The last good configuration comes back, its generation with an error.
Recovered ==
    /\ manager = "recover" /\ manager' = "publish reverted"
    /\ StartSession

\* Not even that one: the assignment that would publish the error asks for the write
\* lock of applied while the read guard of its right-hand side lives, and never ends.
RecoveryFailed ==
    /\ manager = "recover" /\ manager' = "blocked"
    /\ UNCHANGED <<session, disconnected, applied, ring, engine, reverted, aside>>

\* The flag is polled when no configuration waits.
NoticeDisconnect ==
    /\ manager = "idle" /\ disconnected /\ ~asked
    /\ manager' = "reconnect" /\ session' = "none"
    /\ UNCHANGED <<disconnected, applied, ring, engine, reverted, aside>>

Retry ==
    /\ manager = "reconnect" /\ ~asked
    /\ manager' = "retry" /\ NewRing
    /\ UNCHANGED <<session, disconnected, applied, engine, reverted, aside>>

RetryFailed ==
    /\ manager = "retry" /\ manager' = "reconnect"
    /\ UNCHANGED <<session, disconnected, applied, ring, engine, reverted, aside>>

Reconnected ==
    /\ manager = "retry" /\ manager' = "publish reconnected"
    /\ StartSession

Publish ==
    /\ manager \in {"publish", "publish reverted", "publish reconnected"}
    /\ manager' = IF manager = "publish reconnected" THEN "clear" ELSE "idle"
    /\ applied' = [generation |-> applied.generation + 1,
                   error |-> manager = "publish reverted"]
    /\ reverted' = (manager = "publish reverted")
    /\ UNCHANGED <<session, disconnected, ring, engine, aside>>

\* An error that the new session has reported by now is wiped out with the old one's.
ClearFlag ==
    /\ manager = "clear" /\ manager' = "idle"
    /\ disconnected' = FALSE
    /\ UNCHANGED <<session, applied, ring, engine, reverted, aside>>
-----------------------------------------------------------------------------
Manage ==
    \/ Started \/ Built \/ Recovered \/ Reconnected
    \/ StartFailed \/ BuildFailed \/ RecoveryFailed \/ RetryFailed
    \/ TakeRequest \/ Rebind \/ NoticeDisconnect \/ Retry \/ Publish \/ ClearFlag

Frame == OpenInputs \/ RestoreProgram \/ SyncAppliedAudio \/ DrainMidiUpdates \/ NoInput

\* The manager starts the first session while the UI is still to come.
Init ==
    /\ manager = "start" /\ session = "none" /\ disconnected = FALSE /\ asked = FALSE
    /\ applied = [generation |-> 0, error |-> FALSE]
    /\ ring = <<>> /\ engine = Fresh /\ editLayer = "A" /\ updates = <<>>
    /\ todo = [t \in Threads |-> <<>>]
    /\ ui \in [patch : Patches, edit : {"A"}, seen : {0}]
    /\ frame = "new" /\ raced = FALSE /\ overtaken = FALSE /\ reverted = FALSE

Next ==
    \/ \E t \in Threads : Run(t)
    \/ Frame \/ User \/ Midi \/ Render \/ StreamError \/ Manage

\* Threads are scheduled, frames go on, and a session that plays renders.
Fairness ==
    /\ \A t \in Threads : WF_vars(Run(t))
    /\ WF_vars(Frame) /\ WF_vars(Render) /\ WF_vars(Manage)
Spec == Init /\ [][Next]_vars /\ Fairness
-----------------------------------------------------------------------------
\* The variables have their types, and the rings their capacities.
TypeOK ==
    /\ manager \in {"start", "idle", "rebind", "build", "recover", "reconnect", "retry",
                    "publish", "publish reverted", "publish reconnected", "clear", "blocked"}
    /\ session \in {"none", "playing", "dead"}
    /\ {disconnected, asked, raced, overtaken, reverted} \subseteq BOOLEAN
    /\ applied \in [generation : Nat, error : BOOLEAN]
    /\ Range(ring) \subseteq Commands /\ Len(ring) <= RingCapacity
    /\ Range(updates) \subseteq Commands /\ Len(updates) <= UiCapacity
    /\ engine \in [patch : Patches \cup {DefaultPatch}, edit : Layers]
    /\ ui \in [patch : Patches, edit : Layers, seen : Nat]
    /\ editLayer \in Layers /\ frame \in {"new", "restore", "sync", "drain", "user"}

\* Everything sent has arrived, and the UI has seen the session that plays.
Settled ==
    /\ frame \notin {"new", "restore"} /\ \A t \in Threads : Idle(t)
    /\ ring = <<>> /\ updates = <<>>
    /\ session = "playing" /\ manager = "idle" /\ ui.seen = applied.generation

\* The engine plays the UI's program and edits the UI's layer, which is the one the
\* bridge sends edits to.
Agreement ==
    /\ engine = [patch |-> ui.patch, edit |-> ui.edit]
    /\ editLayer = ui.edit

\* Once everything has settled, engine, bridge and UI agree: after any number of
\* restarts, disconnections and failed configurations, with commands lost in the rings
\* they left.  Aside from calls of the two threads that overlapped; from a session that
\* came back with an error, into which the UI reloads nothing; and from a call of the UI
\* that overtook a finished one of the MIDI thread: a frame reloads its program into a
\* new session before it takes the updates, and then shows another one than plays.
InStep == Settled /\ ~raced /\ ~overtaken /\ ~reverted => Agreement

\* Nothing drains the ring any more and nothing will replace it: the manager has no
\* session and waits to be asked, or one whose error it has wiped out.
Abandoned ==
    /\ manager = "idle" /\ ~asked /\ ~disconnected /\ session # "playing"

\* A call that must not lose its message returns, though it spins while a ring is full:
\* a session drains the ring, or the manager replaces it, unless it has abandoned it or
\* waits for itself (which ChangesEnd is about).
CallsReturn == \A t \in Threads : []<>(Idle(t) \/ Abandoned \/ manager = "blocked")

\* As the manual has it: a change of the audio configuration takes effect after a brief
\* interruption, or is taken back; then the manager serves the next one.
ChangesEnd == manager = "rebind" ~> manager = "idle"
=============================================================================
