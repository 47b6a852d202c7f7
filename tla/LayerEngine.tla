---------------------------- MODULE LayerEngine ----------------------------
(***************************************************************************)
(* One layer of the synth engine (voice/layer_engine.rs): keys, voices,     *)
(* pedal and unison, with the arpeggiator (arp.rs), the polyphonic          *)
(* sequencer (sequencer/poly.rs) and the envelope gate of the gated one     *)
(* (sequencer/gated.rs) that all play through the same voices.              *)
(*                                                                         *)
(* A control is handled between two samples and is one action.  What a      *)
(* sample does is split in its parts: a sequencer or arpeggiator event, and *)
(* the fade of a lane.  Clocks may fall anywhere, also twice in a row: MIDI *)
(* ticks are handled in bursts.  Velocity, pitch, glide, the contents of a  *)
(* sequence and the order and octaves an arpeggio goes through are data.    *)
(***************************************************************************)
EXTENDS Integers, SequencesExt

CONSTANTS
    VoiceCount,     \* voices of the layer's region
    Notes,          \* MIDI note numbers
    LaneCount,      \* POLY_LANE_COUNT, the lanes of the polyphonic sequencer
    StepNotes,      \* the notes of its sequences
    Patches         \* the LayerPatches that may be loaded

ASSUME LayerEngineAssumption ==
    /\ VoiceCount \in Nat \ {0}
    /\ Notes \subseteq Nat /\ StepNotes \subseteq Notes
    /\ LaneCount \in Nat

VARIABLES
    layer,          \* LayerEngine and the lanes of its voices
    foot,           \* SynthEngine.sustain_pressed
    latched,        \* history: notes the arpeggiator held on to when their key went up
    missed,         \* history: notes whose key went up while it was not listening
    swallowed,      \* history: the arpeggiator took the last pedal release
    dropped         \* history: lanes whose release a reset step dropped

history == <<latched, missed, swallowed, dropped>>
vars == <<layer, foot, latched, missed, swallowed, dropped>>
-----------------------------------------------------------------------------
Voices == 0..(VoiceCount - 1)
Lanes  == 0..(LaneCount - 1)        \* of the sequencer
None   == -1                        \* no note
Live   == -1                        \* VoiceOwner; a lane stands for Sequence(lane)
Nobody == -2

SustainModes == {"ArpHold", "ArpHoldMom", "Sustain"}
KeyModes == [picks : {"Low", "High", "Last"}, retriggers : BOOLEAN]
\* What of a LayerPatch decides which notes play.  unison is the size of the
\* unison group, 0 without unison.  gates: the gated mode gates envelopes and
\* track 1 is not empty.
LayerPatch ==
    [unison : 0..VoiceCount, keyMode : KeyModes, arp : BOOLEAN, hold : BOOLEAN,
     mode : SustainModes, relatch : BOOLEAN, beatSync : BOOLEAN,
     poly : BOOLEAN, gates : BOOLEAN, keyStep : BOOLEAN]

ASSUME PatchesAssumption == Patches \subseteq LayerPatch

PolyActive(s) == s.poly.running /\ s.poly.selected
\* Keys go to the arpeggiator.
ToArp(s) == s.arp.enabled /\ ~PolyActive(s)
-----------------------------------------------------------------------------
(* A lane of a voice block: the note its gate is open for, the one waiting  *)
(* for a stolen voice to shut down, and whether the envelope still sounds.  *)

Quiet      == [note |-> None, pending |-> None, ringing |-> FALSE]
Started(n) == [note |-> n, pending |-> None, ringing |-> TRUE]
Scheduled(l, n) == [l EXCEPT !.note = None, !.pending = n]
Retuned(l, n) == IF l.pending # None THEN [l EXCEPT !.pending = n] ELSE [l EXCEPT !.note = n]
Off(l) == [l EXCEPT !.note = None, !.pending = None]

ActiveNote(l) == IF l.pending # None THEN l.pending ELSE l.note
IsSilent(l)   == l = Quiet
IsReleased(l) == ActiveNote(l) = None

Held(s) == ToSet(s.held)
LanesOff(s, S) == [v \in Voices |-> IF v \in S THEN Off(s.lane[v]) ELSE s.lane[v]]
Without(q, S) == FoldLeft(LAMBDA kept, x : IF x \in S THEN kept ELSE Append(kept, x), <<>>, q)

\* Mutant: the pedal keeps its claim on a voice that was let go.
ReleasedKeepsSustained(s, S) ==
    [s EXCEPT !.lane = LanesOff(s, S), !.held = Without(@, S)]
\* The voices of S let go for good.
Released(s, S) ==
    [s EXCEPT !.lane = LanesOff(s, S), !.held = Without(@, S), !.sustained = @ \ S]
Disowned(s, S) == [s EXCEPT !.owner = [v \in Voices |-> IF v \in S THEN Nobody ELSE @[v]]]

\* Mutant: a voice of the sequencer counts as the key's.
PlayingAnyOwner(s, n) == {v \in Held(s) : ActiveNote(s.lane[v]) = n}
\* find_active_voice: the held voices that play n for a key or the arpeggiator.
Playing(s, n) ==
    {v \in Held(s) : s.owner[v] = Live /\ ActiveNote(s.lane[v]) = n}

FirstFrom(s, S) ==
    CHOOSE v \in S : \A w \in S : (v - s.next) % VoiceCount <= (w - s.next) % VoiceCount
Allocate(s) ==
    LET silent   == {v \in Voices : IsSilent(s.lane[v])}
        released == {v \in Voices : IsReleased(s.lane[v])}
    IN  CASE silent # {}      -> FirstFrom(s, silent)
          [] silent = {} /\ released # {} -> FirstFrom(s, released)
          [] released = {} /\ s.sustained # {} -> FirstFrom(s, s.sustained)
          [] OTHER            -> IF s.held = <<>> THEN 0 ELSE Head(s.held)

\* Mutant: the next voice wraps one late.
TakenWrapsLate(s, v, lane, owner) ==
    [s EXCEPT !.lane[v] = lane, !.held = Append(Without(@, {v}), v),
              !.sustained = @ \ {v}, !.owner[v] = owner, !.next = (v + 1) % (VoiceCount + 1)]
\* Voice v is taken by an owner for a note.
Taken(s, v, lane, owner) ==
    [s EXCEPT !.lane[v] = lane, !.held = Append(Without(@, {v}), v),
              !.sustained = @ \ {v}, !.owner[v] = owner, !.next = (v + 1) % VoiceCount]

PolyNoteOn(s, n) ==
    LET old == Without(s.held, Voices \ Playing(s, n))
        v   == IF old # <<>> THEN Head(old) ELSE Allocate(s)
        l   == s.lane[v]
        starts == IsSilent(l) \/ (old # <<>> /\ l.pending = None)
    IN  Taken(s, v, IF starts THEN Started(n) ELSE Scheduled(l, n), Live)

PolyNoteOff(s, n) ==
    LET S == Playing(s, n)
    IN  IF s.sustain THEN [s EXCEPT !.held = Without(@, S), !.sustained = @ \cup S]
        ELSE Disowned(Released(s, S), S)

SequenceNoteOff(s, ls) ==
    LET S == {v \in Voices : s.owner[v] \in ls} IN Disowned(Released(s, S), S)

SequenceNoteOn(s, lane, n) ==
    LET t == SequenceNoteOff(s, {lane})
        v == Allocate(t)
        l == t.lane[v]
    IN  Taken(t, v, IF IsSilent(l) THEN Started(n) ELSE Scheduled(l, n), lane)
-----------------------------------------------------------------------------
(* Unison: the first voices all play the selected key.                      *)

Press(q, n) == Append(Without(q, {n}), n)

Selected(s) ==
    CASE s.keyMode.picks = "Low"  -> Min(ToSet(s.pressed))
      [] s.keyMode.picks = "High" -> Max(ToSet(s.pressed))
      [] s.keyMode.picks = "Last" -> Last(s.pressed)

\* Note that owners stay as they were.
UpdateUnisonGroup(s, n, retrigger) ==
    LET group == 0..(s.unison - 1)
        Lane(v) ==
            LET l == s.lane[v] IN
            CASE v \notin group -> IF v \in Held(s) THEN Off(l) ELSE l
              [] v \in group /\ v \in Held(s) /\ ActiveNote(l) # None ->
                    IF retrigger THEN Started(n) ELSE Retuned(l, n)
              [] OTHER -> IF IsSilent(l) THEN Started(n) ELSE Scheduled(l, n)
    IN  [s EXCEPT !.lane = [v \in Voices |-> Lane(v)],
                  !.held = [i \in 1..s.unison |-> i - 1],
                  !.sustained = @ \ (group \cup Held(s))]

ReleaseUnisonGroup(s) == Released(s, Held(s))

AllLanesOff(s) ==
    [s EXCEPT !.lane = LanesOff(s, Voices), !.held = <<>>, !.sustained = {},
              !.owner = [v \in Voices |-> Nobody]]

RebuildSoundingNotes(s) ==
    LET t == AllLanesOff(s) IN
    CASE s.arp.enabled -> t
      [] ~s.arp.enabled /\ s.unison > 0 ->
            IF s.pressed = <<>> THEN t ELSE UpdateUnisonGroup(t, Selected(s), TRUE)
      [] OTHER -> FoldLeft(PolyNoteOn, t, s.pressed)
-----------------------------------------------------------------------------
(* The arpeggiator.  playing: the notes of its sequence as last rebuilt.    *)

ArpRebuilt(a) == [a EXCEPT !.playing = a.held]
ArpNoteOn(a, n) ==
    LET kept == IF a.relatch /\ ~a.hold THEN {} ELSE a.held IN
    IF a.beatSync /\ a.current # None
    THEN [a EXCEPT !.held = kept, !.pending = @ \cup {n}]
    ELSE ArpRebuilt([a EXCEPT !.held = kept \cup {n}])

\* The arpeggiator plays on without the key.
ArpHolds(a) == a.hold \/ (a.pedal /\ a.mode = "ArpHoldMom")
\* Mutant: a note that waits for the cycle to end is forgotten by its release.
ArpNoteOffKeepsPending(a, n) ==
    IF ArpHolds(a) THEN a ELSE ArpRebuilt([a EXCEPT !.held = @ \ {n}])
ArpNoteOff(a, n) ==
    LET b == [a EXCEPT !.pending = @ \ {n}] IN
    IF ArpHolds(a) THEN b ELSE ArpRebuilt([b EXCEPT !.held = @ \ {n}])

ArpAllNotesOff(a) ==
    [a EXCEPT !.held = {}, !.pending = {}, !.playing = {}, !.current = None]

ArpPedal(a, down) ==
    LET b == [a EXCEPT !.pedal = down] IN
    CASE a.mode = "ArpHold" /\ down /\ ~a.pedal ->
            IF a.hold THEN ArpRebuilt([b EXCEPT !.hold = FALSE]) ELSE [b EXCEPT !.hold = TRUE]
      [] a.mode = "ArpHoldMom" /\ ~down /\ ~a.hold -> ArpRebuilt([b EXCEPT !.held = {}])
      [] a.mode = "Sustain" /\ down /\ ~a.pedal -> [b EXCEPT !.hold = TRUE]
      [] a.mode = "Sustain" /\ ~down /\ a.pedal -> ArpRebuilt([b EXCEPT !.hold = FALSE])
      [] OTHER -> b

SetEnabled(a, on) ==
    CASE a.enabled = on -> a
      [] a.enabled /\ ~on -> ArpAllNotesOff([a EXCEPT !.enabled = FALSE])
      [] OTHER -> ArpRebuilt([a EXCEPT !.enabled = TRUE])
-----------------------------------------------------------------------------
(* The sequencers.                                                          *)

EnvelopeGating(s) == s.gate.gates /\ s.gate.triggered /\ ~s.poly.selected
Ungated(g) == [g EXCEPT !.triggered = FALSE, !.high = FALSE]

\* The gated sequencer closes the envelopes: sustain must not keep them.
ReleaseGatedNotes(s) ==
    IF s.unison > 0 THEN ReleaseUnisonGroup(s)
    ELSE LET t == FoldLeft(PolyNoteOff, [s EXCEPT !.sustain = FALSE], s.pressed)
         IN  [t EXCEPT !.sustain = s.sustain]

\* handle_gated_event: a boundary with its gate, or the half step that closes it.
GatedEvent(s, open, retrigger) ==
    CASE EnvelopeGating(s) /\ open /\ retrigger -> RebuildSoundingNotes(s)
      [] EnvelopeGating(s) /\ ~open -> ReleaseGatedNotes(s)
      [] OTHER -> s

\* Mutant: the lanes that stop() reports are not released.
StopPolyLeavesLanes(s) == [s EXCEPT !.poly.running = FALSE, !.poly.active = {}, !.poly.half = {}]
StopPoly(s) ==
    SequenceNoteOff([s EXCEPT !.poly.running = FALSE, !.poly.active = {}, !.poly.half = {}],
                    s.poly.active)

\* Mutant: the arpeggiator's last note is not released.
EnterPolyRoutingLeavesNote(s) ==
    IF ~s.arp.enabled THEN s
    ELSE FoldLeft(PolyNoteOn, [s EXCEPT !.arp = ArpAllNotesOff(@)], s.pressed)
EnterPolyRouting(s) ==
    IF ~s.arp.enabled THEN s
    ELSE LET t == IF s.arp.current = None THEN s ELSE PolyNoteOff(s, s.arp.current)
         IN  FoldLeft(PolyNoteOn, [t EXCEPT !.arp = ArpAllNotesOff(@)], s.pressed)

RestoreArpRouting(s) ==
    IF ~s.arp.enabled THEN s
    ELSE LET t == FoldLeft(PolyNoteOff, s, s.pressed)
         IN  [t EXCEPT !.arp = FoldLeft(ArpNoteOn, ArpAllNotesOff(@), s.pressed)]

RoutingTransition(s, wasActive) ==
    CASE wasActive /\ ~PolyActive(s) -> RestoreArpRouting(s)
      [] ~wasActive /\ PolyActive(s) -> EnterPolyRouting(s)
      [] OTHER -> s

Transport(s, command) ==
    CASE command = "Start" ->
            LET t == IF PolyActive(s) THEN StopPoly(s) ELSE s IN
            IF s.poly.selected
            THEN EnterPolyRouting([t EXCEPT !.poly.running = TRUE, !.poly.active = {},
                                            !.poly.half = {}])
            ELSE t
      [] command = "Continue" ->
            LET t == [s EXCEPT !.poly.running = TRUE] IN
            IF ~s.poly.selected THEN s
            ELSE IF PolyActive(s) THEN t ELSE EnterPolyRouting(t)
      [] command = "Stop" ->
            IF PolyActive(s) THEN RestoreArpRouting(StopPoly(s)) ELSE StopPoly(s)

\* A step of the sequence: what each lane does.  A sequence with nothing in step 1
\* is a reset to a reset.
Rest == -2
Tie  == -3
Steps == [Lanes -> StepNotes \cup {Rest, Tie}]
\* When the sequence wraps to step 1 at a reset, every lane is cleared first, and a
\* rest in step 1 then finds the lane clear: the release the reset noted is lost.
PlayedIn(step) == {l \in Lanes : step[l] \in Notes}
ResetReleases(s, step) == {l \in s.poly.active : step[l] # Rest}
StepReleases(s, step, reset) ==
    IF reset THEN ResetReleases(s, step) ELSE {l \in s.poly.active : step[l] # Tie}
Play(step, s, l) == IF l \in PlayedIn(step) THEN SequenceNoteOn(s, l, step[l]) ELSE s
Played(s, step) ==
    FoldLeft(LAMBDA t, l : Play(step, t, l), s, [i \in 1..LaneCount |-> i - 1])
Step(s, step, reset, ties) ==
    LET on   == PlayedIn(step)
        goes == IF reset THEN {} ELSE {l \in s.poly.active : step[l] = Tie}
        t    == SequenceNoteOff(s, StepReleases(s, step, reset))
        u    == Played(t, step)
    IN  [u EXCEPT !.poly.active = goes \cup on, !.poly.half = on \ ties]
EndSequenceNotes(s) ==
    SequenceNoteOff([s EXCEPT !.poly.active = {}, !.poly.half = {}], s.poly.active)
-----------------------------------------------------------------------------
(* What the controls do to the layer.                                       *)

VoiceNoteOn(s, n) ==
    LET t == [s EXCEPT !.pressed = Press(@, n)] IN
    CASE ToArp(s) -> [t EXCEPT !.arp = ArpNoteOn(@, n)]
      [] ~ToArp(s) /\ s.unison = 0 -> PolyNoteOn(t, n)
      [] OTHER -> UpdateUnisonGroup(t, Selected(t), s.pressed = <<>> \/ s.keyMode.retriggers)

\* gate: whether the step that a key-stepped gated sequence moves to has a gate.
KeyDown(s, n, gate) ==
    LET t == VoiceNoteOn(s, n)
        open == gate /\ s.gate.gates
    IN  CASE s.poly.selected  -> t
          [] ~s.poly.selected /\ ~s.gate.keyStep -> [t EXCEPT !.gate.triggered = TRUE]
          [] OTHER -> GatedEvent([t EXCEPT !.gate.triggered = TRUE, !.gate.high = open],
                                 open, FALSE)

VoiceNoteOff(s, n) ==
    LET t == [s EXCEPT !.pressed = Without(@, {n})] IN
    CASE ToArp(s) -> [t EXCEPT !.arp = ArpNoteOff(@, n)]
      [] ~ToArp(s) /\ s.unison = 0 -> PolyNoteOff(t, n)
      [] ~ToArp(s) /\ s.unison > 0 /\ t.pressed # <<>> -> UpdateUnisonGroup(t, Selected(t), FALSE)
      [] OTHER -> IF s.sustain THEN t ELSE ReleaseUnisonGroup(t)
KeyUp(s, n) ==
    LET t == VoiceNoteOff(s, n)
    IN  IF t.pressed = <<>> THEN [t EXCEPT !.gate = Ungated(@)] ELSE t

\* Mutant: the pedal of the allocator is not reset.
ClearedKeepsSustain(s) ==
    [AllLanesOff(s) EXCEPT
        !.pressed = <<>>, !.arp = ArpPedal(ArpAllNotesOff(@), FALSE),
        !.gate = Ungated(@), !.poly.running = FALSE, !.poly.active = {}, !.poly.half = {}]
\* clear_note_state, once the voices are off.
Cleared(s) ==
    [AllLanesOff(s) EXCEPT
        !.sustain = FALSE, !.pressed = <<>>, !.arp = ArpPedal(ArpAllNotesOff(@), FALSE),
        !.gate = Ungated(@), !.poly.running = FALSE, !.poly.active = {}, !.poly.half = {}]

\* The arpeggiator keeps the pedal to itself.
TakesPedal(s) == s.arp.enabled /\ s.arp.mode # "Sustain"
PressPedal(s, down) ==
    LET t == IF s.arp.enabled THEN [s EXCEPT !.arp = ArpPedal(@, down)] ELSE s
        u == [t EXCEPT !.sustain = down]
        up == s.sustain /\ ~down
    IN  CASE TakesPedal(s) -> t
          [] ~TakesPedal(s) /\ s.unison > 0 ->
                IF up /\ s.pressed = <<>> THEN ReleaseUnisonGroup(u) ELSE u
          [] OTHER -> IF up THEN Disowned(Released(u, s.sustained), s.sustained) ELSE u

Loaded(s, p) ==
    LET t == [EndSequenceNotes(s) EXCEPT
                !.poly.selected = p.poly, !.poly.running = @ /\ p.poly,
                !.keyMode = p.keyMode, !.unison = p.unison,
                !.arp = ArpRebuilt([@ EXCEPT !.enabled = p.arp, !.hold = p.hold,
                            !.mode = p.mode, !.relatch = p.relatch, !.beatSync = p.beatSync]),
                !.gate = [(IF p.poly THEN Ungated(@) ELSE @) EXCEPT
                            !.gates = p.gates, !.keyStep = p.keyStep]]
    IN  RoutingTransition(RebuildSoundingNotes(t), PolyActive(s))

AllDown(s, keys, gate) == FoldLeft(LAMBDA t, n : KeyDown(t, n, gate), s, keys)
\* commit_topology, for the keys and the pedal that are down.
Restored(s, p, gate) ==
    LET t == Loaded([Cleared(s) EXCEPT !.lane = [v \in Voices |-> Quiet]], p)
        u == AllDown(t, s.pressed, gate)
    IN  IF foot THEN PressPedal(u, TRUE) ELSE u
-----------------------------------------------------------------------------
Fresh(p) ==
    [lane |-> [v \in Voices |-> Quiet], held |-> <<>>, sustained |-> {},
     owner |-> [v \in Voices |-> Nobody], next |-> 0, sustain |-> FALSE, pressed |-> <<>>,
     unison |-> p.unison, keyMode |-> p.keyMode,
     arp |-> [enabled |-> p.arp, hold |-> p.hold, mode |-> p.mode, relatch |-> p.relatch,
              beatSync |-> p.beatSync, held |-> {}, pending |-> {}, playing |-> {},
              current |-> None, pedal |-> FALSE],
     poly |-> [selected |-> p.poly, running |-> FALSE, active |-> {}, half |-> {}],
     gate |-> [gates |-> p.gates, keyStep |-> p.keyStep, triggered |-> FALSE, high |-> FALSE]]

Init ==
    /\ \E p \in Patches : layer = Fresh(p)
    /\ foot = FALSE
    /\ latched = {} /\ missed = {} /\ swallowed = FALSE /\ dropped = {}

\* The lanes of lost whose voice nobody has ended or started anew since.
StillDropped(lost) ==
    {l \in (dropped \cup lost) \ layer'.poly.active : \E v \in Voices : layer'.owner[v] = l}

\* The step turns the layer into t, and has nothing to do with a key or the pedal.
Becomes(t) ==
    /\ layer' = t
    /\ dropped' = StillDropped({})
    /\ UNCHANGED <<foot, latched, missed, swallowed>>

(* Performance.                                                             *)

\* Whether the step that a gated sequence moves to has a gate, where there is one.
Gates(s) == IF s.gate.gates /\ ~s.poly.selected THEN BOOLEAN ELSE {FALSE}

NoteOn(n, gate) ==
    /\ layer' = KeyDown(layer, n, gate)
    /\ latched' = latched \ {n} /\ missed' = missed \ {n}
    /\ dropped' = StillDropped({})
    /\ UNCHANGED <<foot, swallowed>>

NoteOff(n) ==
    /\ n \in ToSet(layer.pressed)
    /\ layer' = KeyUp(layer, n)
    /\ latched' = IF ToArp(layer) /\ ArpHolds(layer.arp) THEN latched \cup {n} ELSE latched
    /\ missed' = IF ToArp(layer) THEN missed ELSE missed \cup ({n} \cap (layer.arp.held \cup layer.arp.pending))
    /\ dropped' = StillDropped({})
    /\ UNCHANGED <<foot, swallowed>>

AllNotesOff ==
    /\ layer' = Cleared(layer)
    /\ foot' = FALSE
    /\ latched' = {} /\ missed' = {} /\ swallowed' = FALSE /\ dropped' = {}

SustainPedal(down) ==
    /\ layer' = PressPedal(layer, down)
    /\ foot' = down
    /\ swallowed' = TakesPedal(layer)
    /\ dropped' = StillDropped({})
    /\ UNCHANGED <<latched, missed>>

(* Edits.                                                                   *)

SetUnison(k) ==
    /\ k # layer.unison
    /\ Becomes(RebuildSoundingNotes([layer EXCEPT !.unison = k]))

SetKeyMode(mode) ==
    LET s == [layer EXCEPT !.keyMode = mode] IN
    Becomes(IF s.unison > 0 /\ s.pressed # <<>>
            THEN UpdateUnisonGroup(s, Selected(s), FALSE) ELSE s)

SetArpEnabled(on) ==
    LET a == SetEnabled(layer.arp, on)
        b == IF on /\ ~layer.arp.enabled THEN FoldLeft(ArpNoteOn, a, layer.pressed) ELSE a
    IN  Becomes(RebuildSoundingNotes([layer EXCEPT !.arp = b]))

SetArp(p) ==
    \E a \in {[layer.arp EXCEPT !.hold = p.hold], [layer.arp EXCEPT !.mode = p.mode],
              [layer.arp EXCEPT !.relatch = p.relatch],
              [layer.arp EXCEPT !.beatSync = p.beatSync]} :
        Becomes([layer EXCEPT !.arp = ArpRebuilt(a)])

\* refresh_active_release: the lanes that go at the next half step.
Refreshes(s) == IF PolyActive(s) THEN SUBSET s.poly.active ELSE {s.poly.half}

SetSequencerType(poly) ==
    LET s == [layer EXCEPT !.poly.selected = poly, !.poly.running = @ /\ poly,
                           !.gate = IF poly THEN Ungated(@) ELSE @]
        t == IF PolyActive(layer) /\ ~poly THEN EndSequenceNotes(s) ELSE s
    IN  \E half \in Refreshes(t) :
            LET u == RoutingTransition([t EXCEPT !.poly.half = half], PolyActive(layer))
            IN  Becomes(IF poly /\ EnvelopeGating(layer) THEN RebuildSoundingNotes(u) ELSE u)

EditSequence(gates, keyStep) ==
    \E half \in Refreshes(layer) :
        Becomes([layer EXCEPT !.poly.half = half, !.gate.gates = gates, !.gate.keyStep = keyStep])

ClearSequence(gates) == Becomes(EndSequenceNotes([layer EXCEPT !.gate.gates = gates]))

SetTransport(command) == Becomes(Transport(layer, command))

\* A program with the topology of the last one is loaded in place.
ApplyPatch(p) == Becomes(Loaded(layer, p))

CommitTopology(p, gate) ==
    /\ layer' = Restored(layer, p, gate)
    /\ swallowed' = (foot /\ p.arp /\ p.mode # "Sustain")
    /\ latched' = {} /\ missed' = {} /\ dropped' = {}
    /\ UNCHANGED foot

\* Every value set is one that a patch of P has.
Edits(P) ==
    LET Values(field) == {p[field] : p \in P} IN
    \/ \E k \in Values("unison") : SetUnison(k)
    \/ \E mode \in Values("keyMode") : SetKeyMode(mode)
    \/ \E on \in Values("arp") : SetArpEnabled(on)
    \/ \E poly \in Values("poly") : SetSequencerType(poly)
    \/ \E gates \in Values("gates") :
            \/ \E keyStep \in Values("keyStep") : EditSequence(gates, keyStep)
            \/ ClearSequence(gates)
    \/ \E p \in P :
            \/ SetArp(p) \/ ApplyPatch(p)
            \/ \E gate \in BOOLEAN : CommitTopology(p, gate)

Perform ==
    \/ \E n \in Notes :
            \/ \E gate \in Gates(layer) : NoteOn(n, gate)
            \/ NoteOff(n)
    \/ \E down \in BOOLEAN : SustainPedal(down)
    \/ AllNotesOff
    \/ \E command \in {"Start", "Continue", "Stop"} : SetTransport(command)

(* What a sample brings.                                                    *)

PolyStep ==
    /\ PolyActive(layer)
    /\ \E step \in Steps, reset \in BOOLEAN :
            /\ \E ties \in SUBSET PlayedIn(step) : layer' = Step(layer, step, reset, ties)
            /\ dropped' = StillDropped(
                    IF reset THEN layer.poly.active \ ResetReleases(layer, step) ELSE {})
    /\ UNCHANGED <<foot, latched, missed, swallowed>>

\* A reset in step 1.
PolyReset == PolyActive(layer) /\ Becomes(EndSequenceNotes(layer))

PolyHalf ==
    /\ PolyActive(layer)
    /\ Becomes(SequenceNoteOff([layer EXCEPT !.poly.active = @ \ layer.poly.half,
                                             !.poly.half = {}], layer.poly.half))

GatedRuns(s) == ~PolyActive(s) /\ s.gate.triggered /\ s.pressed # <<>> /\ ~s.gate.keyStep

GatedBoundary(gate) ==
    LET open == gate /\ layer.gate.gates IN
    /\ GatedRuns(layer)
    /\ Becomes(GatedEvent([layer EXCEPT !.gate.high = open], open, TRUE))

GatedHalf ==
    /\ GatedRuns(layer) /\ layer.gate.high
    /\ Becomes(GatedEvent([layer EXCEPT !.gate.high = FALSE], FALSE, FALSE))

\* The arpeggiator has nothing left to play.
ArpRelease ==
    /\ ToArp(layer) /\ layer.arp.playing = {} /\ layer.arp.current # None
    /\ Becomes(PolyNoteOff([layer EXCEPT !.arp.current = None], layer.arp.current))

\* It may be at the end of its cycle, where the notes that waited for it join.
ArpStep ==
    /\ ToArp(layer) /\ layer.arp.playing # {}
    /\ \E cycleEnds \in BOOLEAN :
        LET a    == layer.arp
            b    == IF cycleEnds /\ a.beatSync /\ a.pending # {}
                    THEN ArpRebuilt([a EXCEPT !.held = @ \cup a.pending, !.pending = {}])
                    ELSE a
            s    == IF a.current = None THEN layer ELSE PolyNoteOff(layer, a.current)
        IN  \E n \in b.playing :
                Becomes(PolyNoteOn([s EXCEPT !.arp = [b EXCEPT !.current = n]], n))

\* The envelope of a lane comes to its end: after a release, or for the note that waits.
Fade(v) ==
    LET l == layer.lane[v] IN
    /\ l.ringing /\ l.note = None
    /\ Becomes([layer EXCEPT !.lane[v] =
                    IF l.pending = None THEN Quiet ELSE Started(l.pending)])

Sample ==
    \/ PolyStep \/ PolyReset \/ PolyHalf
    \/ \E gate \in Gates(layer) : GatedBoundary(gate)
    \/ GatedHalf \/ ArpRelease \/ ArpStep
    \/ \E v \in Voices : Fade(v)

Next == Edits(Patches) \/ Perform \/ Sample

\* Blocks are rendered forever: envelopes end, and an arpeggiator with nothing to play
\* says so with its next sample.
Fairness == (\A v \in Voices : WF_vars(Fade(v))) /\ WF_vars(ArpRelease)
Spec == Init /\ [][Next]_vars /\ Fairness
-----------------------------------------------------------------------------
Sounding(s) == {v \in Voices : ActiveNote(s.lane[v]) # None}

Lane == [note : Notes \cup {None}, pending : Notes \cup {None}, ringing : BOOLEAN]
\* The variables have their types.
TypeOK ==
    /\ layer.lane \in [Voices -> Lane]
    /\ layer.held \in Seq(Voices) /\ layer.pressed \in Seq(Notes)
    /\ layer.sustained \subseteq Voices
    /\ layer.owner \in [Voices -> Lanes \cup {Live, Nobody}]
    /\ layer.next \in Voices
    /\ layer.unison \in 0..VoiceCount /\ layer.keyMode \in KeyModes
    /\ {layer.sustain, foot, swallowed} \subseteq BOOLEAN
    /\ layer.arp \in [enabled : BOOLEAN, hold : BOOLEAN, mode : SustainModes,
                      relatch : BOOLEAN, beatSync : BOOLEAN, held : SUBSET Notes,
                      pending : SUBSET Notes, playing : SUBSET Notes,
                      current : Notes \cup {None}, pedal : BOOLEAN]
    /\ layer.poly \in [selected : BOOLEAN, running : BOOLEAN, active : SUBSET Lanes,
                       half : SUBSET Lanes]
    /\ layer.gate \in [gates : BOOLEAN, keyStep : BOOLEAN, triggered : BOOLEAN, high : BOOLEAN]
    /\ latched \subseteq Notes /\ missed \subseteq Notes /\ dropped \subseteq Lanes

\* No orphans: a voice whose gate is open, or that has a note waiting, is one the
\* allocator counts as held or as sustained, never both, and it counts no other. A voice
\* out of its books could not be released by any key, pedal or sequencer.
NoOrphanVoices ==
    /\ Held(layer) \cup layer.sustained = Sounding(layer)
    /\ Held(layer) \cap layer.sustained = {}

\* Without unison every held voice has somebody who will let it go: a key that is down,
\* the note the arpeggiator is at, or a lane the sequencer still counts as active (or
\* counted so before a reset lost its release). A sustained voice has the pedal.
VoicesAreOwned ==
    layer.unison = 0 =>
        /\ \A v \in Held(layer) :
                IF layer.owner[v] = Live
                THEN ActiveNote(layer.lane[v]) \in ToSet(layer.pressed) \cup {layer.arp.current}
                ELSE layer.owner[v] \in layer.poly.active \cup dropped
        /\ layer.sustained # {} => layer.sustain

\* The layer sustains while the player's foot is down, and only then, except for what
\* the arpeggiator took as a pedal of its own.
SustainFollowsPedal == layer.sustain = foot \/ swallowed

\* The arpeggiator plays keys that are down, and those it was told to hold on to.
ArpPlaysHeldKeys ==
    layer.arp.enabled =>
        layer.arp.held \cup layer.arp.pending \subseteq ToSet(layer.pressed) \cup latched \cup missed

\* A key that sounds goes on sounding while it is down, whatever else is played or edited,
\* until the voices run out (no unison, no arpeggiator, no gate).
Free(s) == s.unison = 0 /\ ~s.arp.enabled /\ ~EnvelopeGating(s)
KeepsSounding ==
    Free(layer) /\ Free(layer') /\ Len(layer.held) + LaneCount <= VoiceCount =>
        \A n \in ToSet(layer.pressed) \cap ToSet(layer'.pressed) :
            Playing(layer, n) # {} => Playing(layer', n) # {}
KeysKeepSounding == [][KeepsSounding]_vars

\* With the keys and the pedal up, nothing latched and the sequencer stopped, silence
\* follows: no voice hangs. (Of a unison group under an arpeggiator nobody lets go: the
\* pedal that ends its notes, and a sequencer that stops, look for owners it has not.)
Calm ==
    /\ layer.pressed = <<>> /\ ~layer.sustain
    /\ layer.unison > 0 => ~layer.arp.enabled
    /\ layer.arp.held = {} /\ layer.arp.pending = {} /\ ~ArpHolds(layer.arp)
    /\ ~layer.poly.running /\ dropped = {}
SilenceFollows == (Calm ~> (~Calm \/ \A v \in Voices : IsSilent(layer.lane[v])))
=============================================================================
