--------------------------- MODULE LayerTopology ---------------------------
(***************************************************************************)
(* Layers, programs and keys of the synth engine (synth-core/engine.rs).   *)
(*                                                                         *)
(* A patch holds two layers and the topology that plays them: the mode     *)
(* (one layer, both stacked, or split at a key) and, chosen apart, the     *)
(* layer under edit.  A new topology is applied in silence: the engine     *)
(* fades out, rebuilds its voices in a block of its own and fades in.      *)
(* Meanwhile controls, programs and notes keep arriving, each between two  *)
(* rendered blocks.                                                        *)
(*                                                                         *)
(* A layer's settings are the program they came with and one parameter,    *)
(* edited since or not.  A fade moves one step per block.                  *)
(***************************************************************************)
EXTENDS Integers

CONSTANTS
    LAYERS,         \* layers the engine can render: 2 on the desktop, 1 in the firmware
    Notes,          \* MIDI note numbers
    Splits,         \* split points
    Programs,       \* patches that can be loaded, by name
    Values,         \* values of the parameter
    FadeBlocks      \* blocks a fade lasts (TOPOLOGY_FADE_SAMPLES)

ASSUME TopologyAssumption ==
    /\ LAYERS \in {1, 2}
    /\ Notes \subseteq Int /\ Splits \subseteq Int
    /\ FadeBlocks \in Nat \ {0}

Layers == {"A", "B"}
Modes  == {"normal", "stack", "split"}

\* LayerEngine instances; a single one plays either layer.
EngineLayers == IF LAYERS = 1 THEN {"A"} ELSE Layers
EngineOf(l) == IF LAYERS = 1 THEN "A" ELSE l

Settings == [program : Programs, param : Values]
Topologies == [mode : Modes, split : Splits, edit : Layers]

VARIABLES
    patch,          \* patch[l]: settings of layer l in the program loaded
    wanted,         \* patch.mode, patch.split_point and edit_layer
    applied,        \* applied_mode, applied_split_point, applied_edit_layer
    fade,           \* TopologyTransition.state
    gain,           \* TopologyTransition.gain, in steps
    rendered,       \* has_rendered_audio
    playing,        \* playing[e]: settings the layer engine e plays with
    physical,       \* physical_keys
    route,          \* route_mask: the layers each note was sent to
    pressed,        \* pressed[e]: pressed_keys of the layer engine e
    cancelled       \* history: a program's transition was cancelled, its settings unplayed

notes == <<physical, route, pressed>>
vars == <<patch, wanted, applied, fade, gain, rendered, playing, physical, route,
          pressed, cancelled>>
-----------------------------------------------------------------------------
(* Which layers play.                                                      *)

RenderedMask(t) == IF LAYERS = 1 \/ t.mode = "normal" THEN {t.edit} ELSE Layers

RouteForNote(t, n) ==
    IF LAYERS = 2 /\ t.mode = "split"
    THEN {IF n < t.split THEN "A" ELSE "B"}
    ELSE RenderedMask(t)

\* The layer engine receives a note when a layer it plays does.
KeysOf(e, mask) == {n \in Notes : \E l \in mask[n] : EngineOf(l) = e}

\* Settings the layer engines have once topology t plays patch p.
PlayingAfter(t, p) ==
    [e \in EngineLayers |->
        IF LAYERS = 1 THEN p[t.edit]
        ELSE IF e \in RenderedMask(t) THEN p[e] ELSE playing[e]]
-----------------------------------------------------------------------------
(* TopologyTransition.                                                     *)

\* Mutant: no fade before the rebuild.
RequestAbrupt == fade' = "apply" /\ UNCHANGED gain
Request ==
    /\ fade' = IF fade = "apply" THEN "apply" ELSE "fadeOut"
    /\ UNCHANGED gain

Cancel ==
    /\ fade' = IF gain >= FadeBlocks THEN "idle" ELSE "fadeIn"
    /\ UNCHANGED gain

\* Mutant: the fade in never ends.
AdvanceForever ==
    \/ /\ fade = "idle"
       /\ gain' = FadeBlocks
       /\ fade' = "idle"
    \/ /\ fade = "fadeOut"
       /\ gain' = IF gain = 0 THEN 0 ELSE gain - 1
       /\ fade' = IF gain' <= 0 THEN "apply" ELSE "fadeOut"
    \/ /\ fade = "fadeIn"
       /\ gain' = IF gain = FadeBlocks THEN gain ELSE gain + 1
       /\ fade' = "fadeIn"
\* Mutant: gain is not clamped at zero.
AdvanceUnclamped ==
    \/ /\ fade = "idle"
       /\ gain' = FadeBlocks
       /\ fade' = "idle"
    \/ /\ fade = "fadeOut"
       /\ gain' = gain - 1
       /\ fade' = IF gain' <= 0 THEN "apply" ELSE "fadeOut"
    \/ /\ fade = "fadeIn"
       /\ gain' = IF gain = FadeBlocks THEN gain ELSE gain + 1
       /\ fade' = IF gain' = FadeBlocks THEN "idle" ELSE "fadeIn"
Advance ==
    \/ /\ fade = "idle"
       /\ gain' = FadeBlocks
       /\ fade' = "idle"
    \/ /\ fade = "fadeOut"
       /\ gain' = IF gain = 0 THEN 0 ELSE gain - 1
       /\ fade' = IF gain' <= 0 THEN "apply" ELSE "fadeOut"
    \/ /\ fade = "fadeIn"
       /\ gain' = IF gain = FadeBlocks THEN gain ELSE gain + 1
       /\ fade' = IF gain' = FadeBlocks THEN "idle" ELSE "fadeIn"

\* Mutant: a new split point alone is no reason to rebuild.
TopologyChangedModeEdit(w, a) ==
    IF LAYERS = 1 THEN w.edit # a.edit ELSE w.mode # a.mode \/ w.edit # a.edit
TopologyChanged(w, a) == IF LAYERS = 1 THEN w.edit # a.edit ELSE w # a

\* The settings that play are those of the program loaded.
PlaysPatch == \A l \in RenderedMask(applied) : playing[EngineOf(l)] = patch[l]

RequestTopologyChange ==
    /\ IF TopologyChanged(wanted', applied') THEN Request ELSE Cancel
    /\ cancelled' = (~TopologyChanged(wanted', applied') /\ ~PlaysPatch)
-----------------------------------------------------------------------------
Init ==
    /\ \E p \in Programs, v \in Values, s \in Splits :
          /\ patch = [l \in Layers |-> [program |-> p, param |-> v]]
          /\ playing = [e \in EngineLayers |-> [program |-> p, param |-> v]]
          /\ wanted = [mode |-> "normal", split |-> s, edit |-> "A"]
    /\ applied = wanted
    /\ fade = "idle" /\ gain = FadeBlocks
    /\ rendered = FALSE
    /\ physical = {}
    /\ route = [n \in Notes |-> {}]
    /\ pressed = [e \in EngineLayers |-> {}]
    /\ cancelled = FALSE

\* Mutant: keys are sent on by the topology that is going away.
RestoreKeysOld(t) ==
    /\ route' = [n \in Notes |-> IF n \in physical THEN RouteForNote(applied, n) ELSE {}]
    /\ pressed' = [e \in EngineLayers |-> KeysOf(e, route')]
    /\ UNCHANGED physical
\* clear_note_state everywhere, then the held keys again under topology t.
RestoreKeys(t) ==
    /\ route' = [n \in Notes |-> IF n \in physical THEN RouteForNote(t, n) ELSE {}]
    /\ pressed' = [e \in EngineLayers |-> KeysOf(e, route')]
    /\ UNCHANGED physical

\* Mutant: the layer engines take the settings of the layer edited before.
CommitTopologyStale(w, p) ==
    /\ applied' = w
    /\ playing' = PlayingAfter([w EXCEPT !.edit = applied.edit], p)
    /\ cancelled' = FALSE
    /\ RestoreKeys(w)
\* commit_topology, given the wanted topology and the patch.
CommitTopology(w, p) ==
    /\ applied' = w
    /\ playing' = PlayingAfter(w, p)
    /\ cancelled' = FALSE
    /\ RestoreKeys(w)
-----------------------------------------------------------------------------
(* Controls.                                                               *)

\* set_target_param; LayerTarget::Edit stands for the wanted edit layer.
SetParam(l, v) ==
    /\ patch' = [patch EXCEPT ![l].param = v]
    /\ playing' = IF l \in RenderedMask(applied)
                  THEN [playing EXCEPT ![EngineOf(l)].param = v] ELSE playing
    /\ UNCHANGED <<wanted, applied, fade, gain, rendered, notes, cancelled>>

SetLayerMode(m) ==
    /\ wanted' = [wanted EXCEPT !.mode = m]
    /\ UNCHANGED applied
    /\ RequestTopologyChange
    /\ UNCHANGED <<patch, rendered, playing, notes>>

SetSplitPoint(s) ==
    /\ wanted' = [wanted EXCEPT !.split = s]
    /\ UNCHANGED applied
    /\ RequestTopologyChange
    /\ UNCHANGED <<patch, rendered, playing, notes>>

\* With both layers rendered the edit layer is applied at once.
SetEditLayer(l) ==
    /\ wanted' = [wanted EXCEPT !.edit = l]
    /\ applied' = IF LAYERS > 1 /\ applied.mode # "normal"
                  THEN [applied EXCEPT !.edit = l] ELSE applied
    /\ RequestTopologyChange
    /\ UNCHANGED <<patch, rendered, playing, notes>>

\* apply_patch_owned with patch p, of mode m and split point s.
ApplyPatch(p, v, m, s) ==
    LET next == [l \in Layers |-> [program |-> p, param |-> v]]
        w    == [mode |-> m, split |-> s, edit |-> "A"]
        unchanged ==
            /\ m = applied.mode /\ s = applied.split
            /\ (LAYERS > 1 /\ m # "normal") \/ applied.edit = "A"
        a == IF unchanged /\ LAYERS > 1 /\ applied.mode # "normal"
             THEN [applied EXCEPT !.edit = "A"] ELSE applied
    IN  /\ patch' = next
        /\ wanted' = w
        /\ UNCHANGED rendered
        /\ \/ ~rendered
              /\ CommitTopology(w, next)
              /\ fade' = "idle" /\ gain' = FadeBlocks
           \/ rendered /\ unchanged /\ fade = "idle"
              /\ applied' = a
              /\ playing' = PlayingAfter(a, next)
              /\ cancelled' = FALSE
              /\ UNCHANGED <<fade, gain, notes>>
           \/ rendered /\ ~(unchanged /\ fade = "idle")
              /\ applied' = a
              /\ Request
              /\ cancelled' = FALSE
              /\ UNCHANGED <<playing, notes>>
-----------------------------------------------------------------------------
(* Notes.                                                                  *)

NoteOn(n) ==
    /\ physical' = physical \cup {n}
    /\ route' = [route EXCEPT ![n] = RouteForNote(applied, n)]
    /\ pressed' = [e \in EngineLayers |->
                      IF \E l \in route'[n] \cap RenderedMask(applied) : EngineOf(l) = e
                      THEN pressed[e] \cup {n} ELSE pressed[e]]
    /\ UNCHANGED <<patch, wanted, applied, fade, gain, rendered, playing, cancelled>>

NoteOff(n) ==
    /\ physical' = physical \ {n}
    /\ route' = [route EXCEPT ![n] = {}]
    /\ pressed' = [e \in EngineLayers |->
                      IF \E l \in route[n] \cap RenderedMask(applied) : EngineOf(l) = e
                      THEN pressed[e] \ {n} ELSE pressed[e]]
    /\ UNCHANGED <<patch, wanted, applied, fade, gain, rendered, playing, cancelled>>

AllNotesOff ==
    /\ physical' = {}
    /\ route' = [n \in Notes |-> {}]
    /\ pressed' = [e \in EngineLayers |-> {}]
    /\ UNCHANGED <<patch, wanted, applied, fade, gain, rendered, playing, cancelled>>
-----------------------------------------------------------------------------
(* Rendering, one block.                                                   *)

RenderCommit ==
    /\ fade = "apply"
    /\ CommitTopology(wanted, patch)
    /\ fade' = "fadeIn" /\ gain' = 0
    /\ UNCHANGED <<patch, wanted, rendered>>

RenderSound ==
    /\ fade # "apply"
    /\ rendered' = TRUE
    /\ Advance
    /\ UNCHANGED <<patch, wanted, applied, playing, notes, cancelled>>

Render == RenderCommit \/ RenderSound

Control ==
    \/ \E l \in Layers, v \in Values : SetParam(l, v)
    \/ \E m \in Modes : SetLayerMode(m)
    \/ \E s \in Splits : SetSplitPoint(s)
    \/ \E l \in Layers : SetEditLayer(l)
    \/ \E p \in Programs, v \in Values, m \in Modes, s \in Splits : ApplyPatch(p, v, m, s)
    \/ \E n \in Notes : NoteOn(n)
    \/ \E n \in Notes : NoteOff(n)
    \/ AllNotesOff

Next == Control \/ Render

Spec == Init /\ [][Next]_vars
-----------------------------------------------------------------------------
\* The variables keep their types, and the gain stays between silence and unity.
TypeOK ==
    /\ patch \in [Layers -> Settings]
    /\ wanted \in Topologies /\ applied \in Topologies
    /\ fade \in {"idle", "fadeOut", "apply", "fadeIn"}
    /\ gain \in 0 .. FadeBlocks
    /\ rendered \in BOOLEAN /\ cancelled \in BOOLEAN
    /\ playing \in [EngineLayers -> Settings]
    /\ physical \in SUBSET Notes
    /\ route \in [Notes -> SUBSET Layers]
    /\ pressed \in [EngineLayers -> SUBSET Notes]

\* Whatever topologies came and went, each layer engine holds down exactly the
\* keys the player holds and the topology in force gives it: a key released
\* after a switch leaves no note behind, a key held across one still sounds.
KeysFollowTopology ==
    \A e \in EngineLayers :
        pressed[e] = {n \in physical : \E l \in RouteForNote(applied, n) : EngineOf(l) = e}

\* A transition is only over, or on its way back, when the topology in force is
\* the one last asked for; with one layer rendered, only the layer under edit counts.
SettledTopology ==
    fade \in {"idle", "fadeIn"} =>
        /\ applied.edit = wanted.edit
        /\ LAYERS = 2 => applied = wanted

\* Outside a transition the program loaded is the one that plays, unless its
\* transition was cancelled by a control that asked the old topology back.
LoadedProgramPlaysUnlessCancelled ==
    fade \in {"idle", "fadeIn"} /\ ~cancelled => PlaysPatch

\* apply_patch applies the complete program: outside a transition it is what plays.
LoadedProgramPlays == fade \in {"idle", "fadeIn"} => PlaysPatch

\* Once audio is running, the voices are only rebuilt in silence: the topology
\* that decides what sounds never changes under a listener.
SilentRebuild ==
    [][rendered /\ (applied'.mode # applied.mode \/ applied'.split # applied.split
                    \/ RenderedMask(applied') # RenderedMask(applied)) => gain = 0]_vars

\* Transitions end: with no more controls the engine settles at full gain.
TransitionsEnd == <>[](fade = "idle" /\ gain = FadeBlocks)
=============================================================================
