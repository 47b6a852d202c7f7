------------------------ MODULE LayerTopologyProofs ------------------------
(***************************************************************************)
(* Theorems about LayerTopology for one and for two rendered layers, every *)
(* set of notes, split points, programs and values, and every fade length. *)
(***************************************************************************)
EXTENDS LayerTopology, TLAPS

USE TopologyAssumption DEF TopologyAssumption

-----------------------------------------------------------------------------
(* Masks and routes.                                                       *)

\* Notes go to layers that are rendered, and every layer has an engine.
LEMMA MasksAndRoutes ==
    ASSUME NEW t \in Topologies
    PROVE  /\ RenderedMask(t) \subseteq Layers
           /\ \A n \in Notes : RouteForNote(t, n) \subseteq RenderedMask(t)
           /\ \A n \in Notes : RouteForNote(t, n) \in SUBSET Layers
<1>1. t.mode \in Modes /\ t.edit \in Layers
  BY DEF Topologies
<1>2. RenderedMask(t) \subseteq Layers
  BY <1>1 DEF RenderedMask, Layers
<1>3. ASSUME NEW n \in Notes PROVE RouteForNote(t, n) \subseteq RenderedMask(t)
  BY <1>1 DEF RouteForNote, RenderedMask, Layers, Modes
<1> QED
  BY <1>2, <1>3

LEMMA LayersHaveEngines == \A l \in Layers : EngineOf(l) \in EngineLayers
BY DEF EngineOf, EngineLayers, Layers

\* With both layers rendered the layer under edit decides nothing that sounds.
LEMMA EditIsMetadata ==
    ASSUME NEW t \in Topologies, LAYERS > 1, t.mode # "normal", NEW l \in Layers
    PROVE  LET u == [t EXCEPT !.edit = l]
           IN  /\ u \in Topologies
               /\ u.mode = t.mode /\ u.split = t.split /\ u.edit = l
               /\ RenderedMask(u) = RenderedMask(t)
               /\ \A n \in Notes : RouteForNote(u, n) = RouteForNote(t, n)
<1> DEFINE u == [t EXCEPT !.edit = l]
<1>1. u \in Topologies /\ u.mode = t.mode /\ u.split = t.split /\ u.edit = l
  BY DEF Topologies
<1>2. LAYERS = 2
  OBVIOUS
<1>3. RenderedMask(u) = RenderedMask(t)
  BY <1>1, <1>2 DEF RenderedMask
<1>4. \A n \in Notes : RouteForNote(u, n) = RouteForNote(t, n)
  BY <1>1, <1>2, <1>3 DEF RouteForNote
<1> QED
  BY <1>1, <1>3, <1>4

\* The topology in force after a program that leaves it unchanged.
KeptTopology(a, m, s) ==
    LET unchanged ==
            /\ m = a.mode /\ s = a.split
            /\ (LAYERS > 1 /\ m # "normal") \/ a.edit = "A"
    IN  IF unchanged /\ LAYERS > 1 /\ a.mode # "normal" THEN [a EXCEPT !.edit = "A"] ELSE a

LEMMA KeptTopologySounds ==
    ASSUME NEW a \in Topologies, NEW m, NEW s
    PROVE  /\ KeptTopology(a, m, s) \in Topologies
           /\ KeptTopology(a, m, s).mode = a.mode
           /\ KeptTopology(a, m, s).split = a.split
           /\ RenderedMask(KeptTopology(a, m, s)) = RenderedMask(a)
           /\ \A n \in Notes : RouteForNote(KeptTopology(a, m, s), n) = RouteForNote(a, n)
BY EditIsMetadata DEF KeptTopology, Layers

\* What plays after a commit is the patch, in every layer rendered.
LEMMA PlayingAfterPlays ==
    ASSUME NEW t \in Topologies, NEW p \in [Layers -> Settings],
           playing \in [EngineLayers -> Settings]
    PROVE  /\ PlayingAfter(t, p) \in [EngineLayers -> Settings]
           /\ \A l \in RenderedMask(t) : PlayingAfter(t, p)[EngineOf(l)] = p[l]
<1>1. t.edit \in Layers /\ RenderedMask(t) \subseteq Layers
  BY MasksAndRoutes DEF Topologies
<1>2. CASE LAYERS = 1
  BY <1>1, <1>2 DEF PlayingAfter, RenderedMask, EngineOf, EngineLayers
<1>3. CASE LAYERS = 2
  BY <1>1, <1>3 DEF PlayingAfter, EngineOf, EngineLayers
<1> QED
  BY <1>2, <1>3
-----------------------------------------------------------------------------
(* Type correctness.                                                       *)

FadeOK == fade \in {"idle", "fadeOut", "apply", "fadeIn"} /\ gain \in 0 .. FadeBlocks

LEMMA FadeTypes ==
    ASSUME TypeOK
    PROVE  /\ Request => FadeOK'
           /\ Cancel => FadeOK'
           /\ fade # "apply" /\ Advance => FadeOK'
           /\ RequestTopologyChange => FadeOK' /\ cancelled' \in BOOLEAN
<1>1. Request => FadeOK'
  BY DEF Request, FadeOK, TypeOK
<1>2. Cancel => FadeOK'
  BY DEF Cancel, FadeOK, TypeOK
<1>3. fade # "apply" /\ Advance => FadeOK'
  BY DEF Advance, FadeOK, TypeOK
<1>4. RequestTopologyChange => FadeOK' /\ cancelled' \in BOOLEAN
  BY <1>1, <1>2 DEF RequestTopologyChange
<1> QED
  BY <1>1, <1>2, <1>3, <1>4

LEMMA CommitTypes ==
    ASSUME TypeOK, NEW w \in Topologies, NEW p \in [Layers -> Settings], CommitTopology(w, p)
    PROVE  /\ applied' \in Topologies /\ cancelled' \in BOOLEAN
           /\ playing' \in [EngineLayers -> Settings]
           /\ physical' \in SUBSET Notes
           /\ route' \in [Notes -> SUBSET Layers]
           /\ pressed' \in [EngineLayers -> SUBSET Notes]
<1>1. playing' \in [EngineLayers -> Settings]
  BY PlayingAfterPlays DEF CommitTopology, TypeOK
<1>2. route' \in [Notes -> SUBSET Layers]
  BY MasksAndRoutes DEF CommitTopology, RestoreKeys
<1>3. pressed' \in [EngineLayers -> SUBSET Notes]
  BY DEF CommitTopology, RestoreKeys, KeysOf
<1> QED
  BY <1>1, <1>2, <1>3 DEF CommitTopology, RestoreKeys, TypeOK

LEMMA TypeInit == Init => TypeOK
<1> SUFFICES ASSUME Init PROVE TypeOK
  OBVIOUS
<1>1. PICK p \in Programs, v \in Values, s \in Splits :
          /\ patch = [l \in Layers |-> [program |-> p, param |-> v]]
          /\ playing = [e \in EngineLayers |-> [program |-> p, param |-> v]]
          /\ wanted = [mode |-> "normal", split |-> s, edit |-> "A"]
  BY DEF Init
<1>2. patch \in [Layers -> Settings] /\ playing \in [EngineLayers -> Settings]
  BY <1>1 DEF Settings
<1>3. wanted \in Topologies /\ applied \in Topologies
  BY <1>1 DEF Init, Topologies, Modes, Layers
<1>4. FadeOK
  BY DEF Init, FadeOK
<1> QED
  BY <1>2, <1>3, <1>4 DEF Init, TypeOK, FadeOK

\* The types after a program is applied.
LEMMA ApplyPatchTypes ==
    ASSUME TypeOK, NEW p \in Programs, NEW v \in Values, NEW m \in Modes, NEW s \in Splits,
           ApplyPatch(p, v, m, s)
    PROVE  TypeOK'
<1> DEFINE next == [l \in Layers |-> [program |-> p, param |-> v]]
           w == [mode |-> m, split |-> s, edit |-> "A"]
           a == KeptTopology(applied, m, s)
<1>1. next \in [Layers -> Settings] /\ w \in Topologies /\ patch' = next /\ wanted' = w
      /\ rendered' = rendered
  BY DEF ApplyPatch, Settings, Topologies, Layers
<1>2. a \in Topologies
  BY KeptTopologySounds DEF TypeOK
<1>3. \/ CommitTopology(w, next) /\ fade' = "idle" /\ gain' = FadeBlocks
      \/ /\ applied' = a /\ playing' = PlayingAfter(a, next) /\ cancelled' = FALSE
         /\ UNCHANGED <<fade, gain, notes>>
      \/ applied' = a /\ Request /\ cancelled' = FALSE /\ UNCHANGED <<playing, notes>>
  BY DEF ApplyPatch, KeptTopology
<1>4. CASE CommitTopology(w, next) /\ fade' = "idle" /\ gain' = FadeBlocks
  BY <1>1, <1>4, CommitTypes DEF TypeOK
<1>5. CASE /\ applied' = a /\ playing' = PlayingAfter(a, next) /\ cancelled' = FALSE
           /\ UNCHANGED <<fade, gain, notes>>
  <2>1. playing' \in [EngineLayers -> Settings]
    BY <1>1, <1>2, <1>5, PlayingAfterPlays DEF TypeOK
  <2> QED
    BY <1>1, <1>2, <1>5, <2>1 DEF TypeOK, notes
<1>6. CASE applied' = a /\ Request /\ cancelled' = FALSE /\ UNCHANGED <<playing, notes>>
  BY <1>1, <1>2, <1>6, FadeTypes DEF TypeOK, FadeOK, notes
<1> QED
  BY <1>3, <1>4, <1>5, <1>6

LEMMA TypeStep == TypeOK /\ [Next]_vars => TypeOK'
<1> SUFFICES ASSUME TypeOK, [Next]_vars PROVE TypeOK'
  OBVIOUS
<1>1. ASSUME NEW l \in Layers, NEW v \in Values, SetParam(l, v) PROVE TypeOK'
  <2>1. patch' \in [Layers -> Settings]
    BY <1>1 DEF SetParam, TypeOK, Settings
  <2>2. playing' \in [EngineLayers -> Settings]
    BY <1>1, LayersHaveEngines DEF SetParam, TypeOK, Settings
  <2> QED
    BY <1>1, <2>1, <2>2 DEF SetParam, TypeOK, notes
<1>2. ASSUME NEW m \in Modes, SetLayerMode(m) PROVE TypeOK'
  <2>1. wanted' \in Topologies
    BY <1>2 DEF SetLayerMode, TypeOK, Topologies
  <2> QED
    BY <1>2, <2>1, FadeTypes DEF SetLayerMode, TypeOK, FadeOK, notes
<1>3. ASSUME NEW s \in Splits, SetSplitPoint(s) PROVE TypeOK'
  <2>1. wanted' \in Topologies
    BY <1>3 DEF SetSplitPoint, TypeOK, Topologies
  <2> QED
    BY <1>3, <2>1, FadeTypes DEF SetSplitPoint, TypeOK, FadeOK, notes
<1>4. ASSUME NEW l \in Layers, SetEditLayer(l) PROVE TypeOK'
  <2>1. wanted' \in Topologies /\ applied' \in Topologies
    BY <1>4 DEF SetEditLayer, TypeOK, Topologies
  <2> QED
    BY <1>4, <2>1, FadeTypes DEF SetEditLayer, TypeOK, FadeOK, notes
<1>5. ASSUME NEW n \in Notes, NoteOn(n) PROVE TypeOK'
  <2>1. route' \in [Notes -> SUBSET Layers]
    BY <1>5, MasksAndRoutes DEF NoteOn, TypeOK
  <2>2. pressed' \in [EngineLayers -> SUBSET Notes] /\ physical' \in SUBSET Notes
    BY <1>5 DEF NoteOn, TypeOK
  <2> QED
    BY <1>5, <2>1, <2>2 DEF NoteOn, TypeOK
<1>6. ASSUME NEW n \in Notes, NoteOff(n) PROVE TypeOK'
  BY <1>6 DEF NoteOff, TypeOK
<1>7. ASSUME AllNotesOff PROVE TypeOK'
  BY <1>7 DEF AllNotesOff, TypeOK
<1>8. ASSUME RenderCommit PROVE TypeOK'
  <2>1. fade' = "fadeIn" /\ gain' = 0 /\ UNCHANGED <<patch, wanted, rendered>>
        /\ CommitTopology(wanted, patch)
    BY <1>8 DEF RenderCommit
  <2> QED
    BY <2>1, CommitTypes DEF TypeOK
<1>9. ASSUME RenderSound PROVE TypeOK'
  BY <1>9, FadeTypes DEF RenderSound, TypeOK, FadeOK, notes
<1>10. CASE UNCHANGED vars
  BY <1>10 DEF vars, TypeOK
<1> QED
  BY <1>1, <1>2, <1>3, <1>4, <1>5, <1>6, <1>7, <1>8, <1>9, <1>10, ApplyPatchTypes
     DEF Next, Control, Render

\* The variables of the engine keep their types and its gain its range.
THEOREM TypeCorrect == Spec => []TypeOK
<1>1. TypeOK /\ [Next]_vars => TypeOK'
  BY TypeStep
<1> QED
  BY TypeInit, <1>1, PTL DEF Spec
-----------------------------------------------------------------------------
(* Keys.  The route remembered for a held note is the one the topology in  *)
(* force gives it, and an engine holds the notes routed to it.             *)

RoutesFollowTopology ==
    \A n \in Notes : route[n] = IF n \in physical THEN RouteForNote(applied, n) ELSE {}
EnginesFollowRoutes == \A e \in EngineLayers : pressed[e] = KeysOf(e, route)
KeysInv == RoutesFollowTopology /\ EnginesFollowRoutes

\* The engines' keys after a step, note by note.
LEMMA KeysMemberwise ==
    ASSUME TypeOK',
           \A e \in EngineLayers, k \in Notes :
               k \in pressed'[e] <=> \E l \in route'[k] : EngineOf(l) = e
    PROVE  EnginesFollowRoutes'
<1> SUFFICES ASSUME NEW e \in EngineLayers PROVE pressed'[e] = KeysOf(e, route')
  BY DEF EnginesFollowRoutes
<1>1. pressed'[e] \subseteq Notes
  BY DEF TypeOK
<1>2. KeysOf(e, route') = {k \in Notes : \E l \in route'[k] : EngineOf(l) = e}
  BY DEF KeysOf
<1> QED
  BY <1>1, <1>2

LEMMA KeysKept ==
    ASSUME KeysInv, UNCHANGED notes,
           \A n \in Notes : RouteForNote(applied', n) = RouteForNote(applied, n)
    PROVE  KeysInv'
BY DEF KeysInv, RoutesFollowTopology, EnginesFollowRoutes, notes, KeysOf

LEMMA KeysRestored ==
    ASSUME NEW w \in Topologies, NEW p, TypeOK, CommitTopology(w, p)
    PROVE  KeysInv'
<1>1. applied' = w /\ RestoreKeys(w)
  BY DEF CommitTopology
<1>2. RoutesFollowTopology'
  BY <1>1 DEF RestoreKeys, RoutesFollowTopology
<1>3. EnginesFollowRoutes'
  BY <1>1 DEF RestoreKeys, EnginesFollowRoutes, KeysOf
<1> QED
  BY <1>2, <1>3 DEF KeysInv

LEMMA KeysInit == Init => KeysInv
BY DEF Init, KeysInv, RoutesFollowTopology, EnginesFollowRoutes, KeysOf

LEMMA KeysStep == TypeOK /\ KeysInv /\ [Next]_vars => KeysInv'
<1> SUFFICES ASSUME TypeOK, KeysInv, [Next]_vars PROVE KeysInv'
  OBVIOUS
<1>1. ASSUME UNCHANGED notes, UNCHANGED applied PROVE KeysInv'
  BY <1>1, KeysKept
<1>2. ASSUME NEW l \in Layers, NEW v \in Values, SetParam(l, v) PROVE KeysInv'
  BY <1>1, <1>2 DEF SetParam
<1>3. ASSUME NEW m \in Modes, SetLayerMode(m) PROVE KeysInv'
  BY <1>1, <1>3 DEF SetLayerMode
<1>4. ASSUME NEW s \in Splits, SetSplitPoint(s) PROVE KeysInv'
  BY <1>1, <1>4 DEF SetSplitPoint
<1>5. ASSUME NEW l \in Layers, SetEditLayer(l) PROVE KeysInv'
  <2>1. \A n \in Notes : RouteForNote(applied', n) = RouteForNote(applied, n)
    BY <1>5, EditIsMetadata DEF SetEditLayer, TypeOK
  <2> QED
    BY <1>5, <2>1, KeysKept DEF SetEditLayer
<1>6. ASSUME NEW p \in Programs, NEW v \in Values, NEW m \in Modes, NEW s \in Splits,
             ApplyPatch(p, v, m, s)
      PROVE  KeysInv'
  <2> DEFINE next == [l \in Layers |-> [program |-> p, param |-> v]]
             w == [mode |-> m, split |-> s, edit |-> "A"]
  <2>1. CASE CommitTopology(w, next)
    <3>1. w \in Topologies
      BY DEF Topologies, Layers
    <3> QED
      BY <2>1, <3>1, KeysRestored
  <2>2. CASE applied' = KeptTopology(applied, m, s) /\ UNCHANGED notes
    BY <2>2, KeptTopologySounds, KeysKept DEF TypeOK
  <2> QED
    BY <1>6, <2>1, <2>2 DEF ApplyPatch, KeptTopology
<1>7. ASSUME NEW n \in Notes, NoteOn(n) PROVE KeysInv'
  <2>1. RouteForNote(applied, n) \subseteq RenderedMask(applied)
    BY MasksAndRoutes DEF TypeOK
  <2>2. /\ route' = [route EXCEPT ![n] = RouteForNote(applied, n)]
        /\ physical' = physical \cup {n} /\ applied' = applied
        /\ route \in [Notes -> SUBSET Layers]
    BY <1>7 DEF NoteOn, TypeOK
  <2>3. RoutesFollowTopology'
    BY <2>2 DEF KeysInv, RoutesFollowTopology
  <2>4. \A e \in EngineLayers :
           pressed'[e] = IF \E l \in RouteForNote(applied, n) : EngineOf(l) = e
                         THEN pressed[e] \cup {n} ELSE pressed[e]
    BY <1>7, <2>1, <2>2 DEF NoteOn
  <2>5. ASSUME NEW e \in EngineLayers, NEW k \in Notes
        PROVE  k \in pressed'[e] <=> \E l \in route'[k] : EngineOf(l) = e
    <3>1. CASE k = n
      <4>1. n \in pressed[e] => \E l \in route[n] : EngineOf(l) = e
        BY DEF KeysInv, EnginesFollowRoutes, KeysOf
      <4>2. route[n] \subseteq RouteForNote(applied, n)
        BY DEF KeysInv, RoutesFollowTopology
      <4>3. route'[n] = RouteForNote(applied, n)
        BY <2>2
      <4>4. n \in pressed'[e] <=> \E l \in RouteForNote(applied, n) : EngineOf(l) = e
        BY <2>4, <4>1, <4>2
      <4> QED
        BY <3>1, <4>3, <4>4
    <3>2. CASE k # n
      <4>1. k \in pressed[e] <=> \E l \in route[k] : EngineOf(l) = e
        BY DEF KeysInv, EnginesFollowRoutes, KeysOf
      <4>2. route'[k] = route[k]
        BY <2>2, <3>2
      <4>3. k \in pressed'[e] <=> k \in pressed[e]
        BY <2>4, <3>2
      <4> QED
        BY <4>1, <4>2, <4>3
    <3> QED
      BY <3>1, <3>2
  <2> QED
    BY <2>3, <2>5, KeysMemberwise, TypeStep DEF KeysInv
<1>8. ASSUME NEW n \in Notes, NoteOff(n) PROVE KeysInv'
  <2>1. route[n] \subseteq RenderedMask(applied)
    BY MasksAndRoutes DEF TypeOK, KeysInv, RoutesFollowTopology
  <2>2. /\ route' = [route EXCEPT ![n] = {}]
        /\ physical' = physical \ {n} /\ applied' = applied
        /\ route \in [Notes -> SUBSET Layers]
    BY <1>8 DEF NoteOff, TypeOK
  <2>3. RoutesFollowTopology'
    BY <2>2 DEF KeysInv, RoutesFollowTopology
  <2>4. \A e \in EngineLayers :
           pressed'[e] = IF \E l \in route[n] : EngineOf(l) = e
                         THEN pressed[e] \ {n} ELSE pressed[e]
    BY <1>8, <2>1, <2>2 DEF NoteOff
  <2>5. ASSUME NEW e \in EngineLayers, NEW k \in Notes
        PROVE  k \in pressed'[e] <=> \E l \in route'[k] : EngineOf(l) = e
    <3>1. k \in pressed[e] <=> \E l \in route[k] : EngineOf(l) = e
      BY DEF KeysInv, EnginesFollowRoutes, KeysOf
    <3>2. CASE k = n
      <4>1. route'[k] = {}
        BY <2>2, <3>2
      <4>2. k \notin pressed'[e]
        BY <2>4, <3>1, <3>2
      <4> QED
        BY <4>1, <4>2
    <3>3. CASE k # n
      <4>1. route'[k] = route[k]
        BY <2>2, <3>3
      <4>2. k \in pressed'[e] <=> k \in pressed[e]
        BY <2>4, <3>3
      <4> QED
        BY <3>1, <4>1, <4>2
    <3> QED
      BY <3>2, <3>3
  <2> QED
    BY <2>3, <2>5, KeysMemberwise, TypeStep DEF KeysInv
<1>9. ASSUME AllNotesOff PROVE KeysInv'
  BY <1>9 DEF AllNotesOff, KeysInv, RoutesFollowTopology, EnginesFollowRoutes, KeysOf
<1>10. ASSUME RenderCommit PROVE KeysInv'
  BY <1>10, KeysRestored DEF RenderCommit, TypeOK
<1>11. ASSUME RenderSound PROVE KeysInv'
  BY <1>1, <1>11 DEF RenderSound
<1>12. CASE UNCHANGED vars
  BY <1>1, <1>12 DEF vars, notes
<1> QED
  BY <1>2, <1>3, <1>4, <1>5, <1>6, <1>7, <1>8, <1>9, <1>10, <1>11, <1>12
     DEF Next, Control, Render

LEMMA KeysInvFollow == TypeOK /\ KeysInv => KeysFollowTopology
<1> SUFFICES ASSUME TypeOK, KeysInv, NEW e \in EngineLayers
    PROVE  pressed[e] = {n \in physical : \E l \in RouteForNote(applied, n) : EngineOf(l) = e}
  BY DEF KeysFollowTopology
<1>1. pressed[e] = {n \in Notes : \E l \in route[n] : EngineOf(l) = e}
  BY DEF KeysInv, EnginesFollowRoutes, KeysOf
<1>2. physical \subseteq Notes
  BY DEF TypeOK
<1> QED
  BY <1>1, <1>2 DEF KeysInv, RoutesFollowTopology

\* Each engine holds down the keys the player holds that the topology in force
\* sends it, through every change of topology, program, layer and key.
THEOREM KeysAlwaysFollowTopology == Spec => []KeysFollowTopology
<1>1. Init => TypeOK /\ KeysInv
  BY TypeInit, KeysInit
<1>2. (TypeOK /\ KeysInv) /\ [Next]_vars => (TypeOK /\ KeysInv)'
  BY TypeStep, KeysStep
<1>3. TypeOK /\ KeysInv => KeysFollowTopology
  BY KeysInvFollow
<1> QED
  BY <1>1, <1>2, <1>3, PTL DEF Spec
-----------------------------------------------------------------------------
(* A transition that is over has applied the topology and the program      *)
(* loaded.                                                                 *)

SettledInv == SettledTopology /\ LoadedProgramPlaysUnlessCancelled

LEMMA RequestSettles ==
    ASSUME RequestTopologyChange PROVE SettledTopology'
<1>1. CASE TopologyChanged(wanted', applied')
  <2>1. fade' \in {"fadeOut", "apply"}
    BY <1>1 DEF RequestTopologyChange, Request
  <2> QED
    BY <2>1 DEF SettledTopology
<1>2. CASE ~TopologyChanged(wanted', applied')
  BY <1>2 DEF TopologyChanged, SettledTopology
<1> QED
  BY <1>1, <1>2

\* A request that leaves masks, patch and settings alone keeps what is known
\* of the program loaded: it is either marked as cancelled or it plays.
LEMMA RequestPlays ==
    ASSUME RequestTopologyChange, UNCHANGED <<patch, playing>>,
           RenderedMask(applied') = RenderedMask(applied)
    PROVE  LoadedProgramPlaysUnlessCancelled'
<1>1. CASE TopologyChanged(wanted', applied')
  <2>1. fade' \in {"fadeOut", "apply"}
    BY <1>1 DEF RequestTopologyChange, Request
  <2> QED
    BY <2>1 DEF LoadedProgramPlaysUnlessCancelled
<1>2. CASE ~TopologyChanged(wanted', applied')
  <2>1. ~cancelled' => PlaysPatch
    BY <1>2, Zenon DEF RequestTopologyChange
  <2>2. PlaysPatch => PlaysPatch'
    BY DEF PlaysPatch
  <2> QED
    BY <2>1, <2>2 DEF LoadedProgramPlaysUnlessCancelled
<1> QED
  BY <1>1, <1>2

LEMMA CommitSettles ==
    ASSUME TypeOK, NEW w \in Topologies, NEW p \in [Layers -> Settings],
           CommitTopology(w, p), wanted' = w, patch' = p
    PROVE  SettledInv'
<1>1. applied' = w /\ playing' = PlayingAfter(w, p)
  BY DEF CommitTopology
<1>2. PlaysPatch'
  BY <1>1, PlayingAfterPlays DEF PlaysPatch, TypeOK
<1> QED
  BY <1>1, <1>2 DEF SettledInv, SettledTopology, LoadedProgramPlaysUnlessCancelled

LEMMA ApplyPatchSettles ==
    ASSUME TypeOK, NEW p \in Programs, NEW v \in Values, NEW m \in Modes, NEW s \in Splits,
           ApplyPatch(p, v, m, s)
    PROVE  SettledInv'
<1> DEFINE next == [l \in Layers |-> [program |-> p, param |-> v]]
           w == [mode |-> m, split |-> s, edit |-> "A"]
           a == KeptTopology(applied, m, s)
           unchanged == /\ m = applied.mode /\ s = applied.split
                        /\ (LAYERS > 1 /\ m # "normal") \/ applied.edit = "A"
<1>1. next \in [Layers -> Settings] /\ w \in Topologies /\ patch' = next /\ wanted' = w
  BY DEF ApplyPatch, Settings, Topologies, Layers
<1>2. CASE CommitTopology(w, next)
  BY <1>1, <1>2, CommitSettles
<1>3. CASE unchanged /\ applied' = a /\ playing' = PlayingAfter(a, next)
  <2>1. a \in Topologies /\ a.mode = m /\ a.split = s
    BY <1>3, KeptTopologySounds DEF TypeOK
  <2>2. a.edit = "A"
    BY <1>3 DEF KeptTopology, TypeOK, Topologies
  <2>3. a = w
    BY <2>1, <2>2 DEF Topologies
  <2>4. PlaysPatch'
    BY <1>1, <1>3, <2>1, PlayingAfterPlays DEF PlaysPatch, TypeOK
  <2> QED
    BY <1>1, <1>3, <2>3, <2>4
       DEF SettledInv, SettledTopology, LoadedProgramPlaysUnlessCancelled
<1>4. CASE Request
  <2>1. fade' \in {"fadeOut", "apply"}
    BY <1>4 DEF Request
  <2> QED
    BY <2>1 DEF SettledInv, SettledTopology, LoadedProgramPlaysUnlessCancelled
<1> QED
  BY <1>2, <1>3, <1>4 DEF ApplyPatch, KeptTopology

LEMMA SettledInit == Init => SettledInv
<1> SUFFICES ASSUME Init PROVE SettledInv
  OBVIOUS
<1>1. PICK p \in Programs, v \in Values, s \in Splits :
          /\ patch = [l \in Layers |-> [program |-> p, param |-> v]]
          /\ playing = [e \in EngineLayers |-> [program |-> p, param |-> v]]
  BY DEF Init
<1>2. applied \in Topologies
  BY TypeInit DEF TypeOK
<1>3. PlaysPatch
  BY <1>1, <1>2, MasksAndRoutes, LayersHaveEngines DEF PlaysPatch
<1> QED
  BY <1>3 DEF Init, SettledInv, SettledTopology, LoadedProgramPlaysUnlessCancelled

\* A parameter edited reaches the layer engine when its layer is rendered.
LEMMA SetParamPlays ==
    ASSUME TypeOK, NEW l \in Layers, NEW v \in Values, SetParam(l, v), PlaysPatch
    PROVE  PlaysPatch'
<1> SUFFICES ASSUME NEW k \in RenderedMask(applied)
    PROVE  playing'[EngineOf(k)] = patch'[k]
  BY DEF PlaysPatch, SetParam
<1>1. k \in Layers /\ playing[EngineOf(k)] = patch[k]
  BY MasksAndRoutes DEF PlaysPatch, TypeOK
<1>2. EngineOf(k) \in EngineLayers /\ EngineOf(l) \in EngineLayers
  BY <1>1, LayersHaveEngines
<1>3. CASE k = l
  BY <1>1, <1>2, <1>3 DEF SetParam, TypeOK
<1>4. CASE k # l
  <2>1. patch'[k] = patch[k]
    BY <1>1, <1>4 DEF SetParam, TypeOK
  <2>2. l \in RenderedMask(applied) => EngineOf(k) # EngineOf(l)
    BY <1>1, <1>4 DEF RenderedMask, EngineOf, TypeOK
  <2>3. playing'[EngineOf(k)] = playing[EngineOf(k)]
    BY <1>2, <2>2 DEF SetParam, TypeOK
  <2> QED
    BY <1>1, <2>1, <2>3
<1> QED
  BY <1>3, <1>4

LEMMA SettledStep == TypeOK /\ SettledInv /\ [Next]_vars => SettledInv'
<1> SUFFICES ASSUME TypeOK, SettledInv, [Next]_vars PROVE SettledInv'
  OBVIOUS
<1>1. ASSUME NEW l \in Layers, NEW v \in Values, SetParam(l, v) PROVE SettledInv'
  <2>1. UNCHANGED <<wanted, applied, fade, cancelled>>
    BY <1>1 DEF SetParam
  <2>2. PlaysPatch => PlaysPatch'
    BY <1>1, SetParamPlays
  <2> QED
    BY <2>1, <2>2 DEF SettledInv, SettledTopology, LoadedProgramPlaysUnlessCancelled
<1>2. ASSUME NEW m \in Modes, SetLayerMode(m) PROVE SettledInv'
  BY <1>2, RequestSettles, RequestPlays DEF SetLayerMode, SettledInv
<1>3. ASSUME NEW s \in Splits, SetSplitPoint(s) PROVE SettledInv'
  BY <1>3, RequestSettles, RequestPlays DEF SetSplitPoint, SettledInv
<1>4. ASSUME NEW l \in Layers, SetEditLayer(l) PROVE SettledInv'
  <2>1. RenderedMask(applied') = RenderedMask(applied)
    BY <1>4, EditIsMetadata DEF SetEditLayer, TypeOK
  <2> QED
    BY <1>4, <2>1, RequestSettles, RequestPlays DEF SetEditLayer, SettledInv
<1>5. ASSUME UNCHANGED <<patch, wanted, applied, fade, playing, cancelled>> PROVE SettledInv'
  BY <1>5 DEF SettledInv, SettledTopology, LoadedProgramPlaysUnlessCancelled, PlaysPatch
<1>6. ASSUME NEW n \in Notes, NoteOn(n) PROVE SettledInv'
  BY <1>5, <1>6 DEF NoteOn
<1>7. ASSUME NEW n \in Notes, NoteOff(n) PROVE SettledInv'
  BY <1>5, <1>7 DEF NoteOff
<1>8. ASSUME AllNotesOff PROVE SettledInv'
  BY <1>5, <1>8 DEF AllNotesOff
<1>9. ASSUME RenderCommit PROVE SettledInv'
  BY <1>9, CommitSettles DEF RenderCommit, TypeOK
<1>10. ASSUME RenderSound PROVE SettledInv'
  <2>1. UNCHANGED <<patch, wanted, applied, playing, cancelled>>
    BY <1>10 DEF RenderSound
  <2>2. fade' \in {"idle", "fadeIn"} => fade \in {"idle", "fadeIn"}
    BY <1>10 DEF RenderSound, Advance
  <2> QED
    BY <2>1, <2>2
       DEF SettledInv, SettledTopology, LoadedProgramPlaysUnlessCancelled, PlaysPatch
<1>11. CASE UNCHANGED vars
  BY <1>5, <1>11 DEF vars
<1> QED
  BY <1>1, <1>2, <1>3, <1>4, <1>6, <1>7, <1>8, <1>9, <1>10, <1>11, ApplyPatchSettles
     DEF Next, Control, Render

LEMMA SettledAlways == Spec => []SettledInv
<1>1. Init => TypeOK /\ SettledInv
  BY TypeInit, SettledInit
<1>2. (TypeOK /\ SettledInv) /\ [Next]_vars => (TypeOK /\ SettledInv)'
  BY TypeStep, SettledStep
<1> QED
  BY <1>1, <1>2, PTL DEF Spec

\* The topology last asked for is in force whenever no transition to it is due.
THEOREM TopologySettles == Spec => []SettledTopology
<1>1. SettledInv => SettledTopology
  BY DEF SettledInv
<1> QED
  BY <1>1, SettledAlways, PTL

\* The program loaded plays outside a transition, but for a transition cancelled.
THEOREM LoadedProgramAlwaysPlays == Spec => []LoadedProgramPlaysUnlessCancelled
<1>1. SettledInv => LoadedProgramPlaysUnlessCancelled
  BY DEF SettledInv
<1> QED
  BY <1>1, SettledAlways, PTL
-----------------------------------------------------------------------------
(* Rebuilding the voices.                                                  *)

SilentInv == fade = "apply" => gain = 0

LEMMA SilentStep == TypeOK /\ SilentInv /\ [Next]_vars => SilentInv'
<1> SUFFICES ASSUME TypeOK, SilentInv, [Next]_vars PROVE SilentInv'
  OBVIOUS
<1>1. ASSUME Request PROVE SilentInv'
  BY <1>1 DEF Request, SilentInv
<1>2. ASSUME RequestTopologyChange PROVE SilentInv'
  BY <1>1, <1>2 DEF RequestTopologyChange, Cancel, SilentInv
<1>3. ASSUME UNCHANGED <<fade, gain>> PROVE SilentInv'
  BY <1>3 DEF SilentInv
<1>4. ASSUME NEW p \in Programs, NEW v \in Values, NEW m \in Modes, NEW s \in Splits,
             ApplyPatch(p, v, m, s)
      PROVE  SilentInv'
  <2>1. fade' = "idle" \/ UNCHANGED <<fade, gain>> \/ Request
    BY <1>4 DEF ApplyPatch
  <2> QED
    BY <1>1, <1>3, <2>1 DEF SilentInv
<1>5. ASSUME RenderSound PROVE SilentInv'
  BY <1>5 DEF RenderSound, Advance, SilentInv, TypeOK
<1>6. ASSUME RenderCommit PROVE SilentInv'
  BY <1>6 DEF RenderCommit, SilentInv
<1> QED
  BY <1>2, <1>3, <1>4, <1>5, <1>6
     DEF Next, Control, Render, SetParam, SetLayerMode, SetSplitPoint, SetEditLayer,
         NoteOn, NoteOff, AllNotesOff, vars

\* What decides the sound of held notes, before and after a step.
SameSound == /\ applied'.mode = applied.mode /\ applied'.split = applied.split
             /\ RenderedMask(applied') = RenderedMask(applied)

LEMMA RebuildStep ==
    TypeOK /\ SilentInv /\ [Next]_vars => (rendered /\ ~SameSound => gain = 0)
<1> SUFFICES ASSUME TypeOK, SilentInv, Next, rendered PROVE SameSound \/ gain = 0
  BY DEF vars, SameSound
<1>1. ASSUME UNCHANGED applied PROVE SameSound
  BY <1>1 DEF SameSound
<1>2. ASSUME NEW l \in Layers, SetEditLayer(l) PROVE SameSound
  BY <1>2, EditIsMetadata DEF SetEditLayer, SameSound, TypeOK
<1>3. ASSUME NEW p \in Programs, NEW v \in Values, NEW m \in Modes, NEW s \in Splits,
             ApplyPatch(p, v, m, s)
      PROVE  SameSound
  <2>1. applied' = KeptTopology(applied, m, s)
    BY <1>3 DEF ApplyPatch, KeptTopology
  <2> QED
    BY <2>1, KeptTopologySounds DEF SameSound, TypeOK
<1>4. ASSUME RenderCommit PROVE gain = 0
  BY <1>4 DEF RenderCommit, SilentInv
<1> QED
  BY <1>1, <1>2, <1>3, <1>4
     DEF Next, Control, Render, SetParam, SetLayerMode, SetSplitPoint,
         NoteOn, NoteOff, AllNotesOff, RenderSound

\* Once audio is running, what decides the sound of held notes changes in silence.
THEOREM RebuildsAreSilent == Spec => SilentRebuild
<1>1. Init => TypeOK /\ SilentInv
  BY TypeInit DEF Init, SilentInv
<1>2. (TypeOK /\ SilentInv) /\ [Next]_vars => (TypeOK /\ SilentInv)'
  BY TypeStep, SilentStep
<1>3. (TypeOK /\ SilentInv) /\ [Next]_vars =>
        [rendered /\ (applied'.mode # applied.mode \/ applied'.split # applied.split
                      \/ RenderedMask(applied') # RenderedMask(applied)) => gain = 0]_vars
  BY RebuildStep DEF SameSound
<1> QED
  BY <1>1, <1>2, <1>3, PTL DEF Spec, SilentRebuild
=============================================================================
