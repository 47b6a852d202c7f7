--------------------------- MODULE MCLayerEngine ---------------------------
(***************************************************************************)
(* LayerEngine for TLC.  A session edits the layer a few times, between    *)
(* any two keys, clocks and samples, towards the patches it is about.      *)
(***************************************************************************)
EXTENDS LayerEngine

VARIABLES session, edits

mcVars == <<vars, session, edits>>

LastKey == [picks |-> "Last", retriggers |-> FALSE]
LowKey  == [picks |-> "Low", retriggers |-> TRUE]
Plain ==
    [unison |-> 0, keyMode |-> LastKey, arp |-> FALSE, hold |-> FALSE, mode |-> "Sustain",
     relatch |-> FALSE, beatSync |-> FALSE, poly |-> FALSE, gates |-> FALSE, keyStep |-> FALSE]
Poly   == [Plain EXCEPT !.poly = TRUE]
Arp    == [Plain EXCEPT !.arp = TRUE, !.mode = "ArpHoldMom"]
Unison == [Poly EXCEPT !.unison = VoiceCount, !.keyMode = LowKey]
Gated  == [Plain EXCEPT !.gates = TRUE]

Sessions ==
    {[patches |-> {Plain, Arp}, edits |-> 2],
     [patches |-> {Plain, [Arp EXCEPT !.mode = "ArpHold", !.relatch = TRUE, !.beatSync = TRUE]},
      edits |-> 1],
     [patches |-> {Poly, [Arp EXCEPT !.poly = TRUE, !.mode = "Sustain"]}, edits |-> 1],
     [patches |-> {Poly, Unison}, edits |-> 3],
     [patches |-> {Plain, [Unison EXCEPT !.poly = FALSE, !.arp = TRUE]}, edits |-> 1],
     [patches |-> {Poly, Gated}, edits |-> 3],
     [patches |-> {Plain, [Gated EXCEPT !.keyStep = TRUE]}, edits |-> 2]}
MCPatches == UNION {s.patches : s \in Sessions}

MCInit ==
    /\ Init /\ edits = 0
    /\ session \in Sessions /\ \E p \in session.patches : layer = Fresh(p)
MCEdit == Edits(session.patches) /\ edits < session.edits /\ edits' = edits + 1
MCPlay == (Perform \/ Sample) /\ UNCHANGED edits
MCNext == (MCEdit \/ MCPlay) /\ UNCHANGED session

MCSpec == MCInit /\ [][MCNext]_mcVars /\ Fairness
=============================================================================
