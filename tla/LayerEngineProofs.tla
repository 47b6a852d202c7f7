------------------------- MODULE LayerEngineProofs -------------------------
(***************************************************************************)
(* Theorems about LayerEngine for every number of voices and lanes, every  *)
(* set of notes and every set of patches.                                  *)
(***************************************************************************)
EXTENDS LayerEngine, FoldLemmas

USE LayerEngineAssumption DEF LayerEngineAssumption
-----------------------------------------------------------------------------
(* Sequences without some of their elements.                               *)

\* Leaving the elements of S out, as a function of each element, for folds in E.
Leaving(S, T, E) ==
    [c \in T |-> [x \in E |-> IF c \in S THEN x ELSE Append(x, c)]]

LEMMA WithoutFolds ==
    ASSUME NEW S, NEW T, NEW E, <<>> \in E, NEW q \in Seq(T),
           \A x \in E, c \in T : (IF c \in S THEN x ELSE Append(x, c)) \in E
    PROVE  /\ Leaving(S, T, E) \in [T -> [E -> E]]
           /\ Without(q, S) = Folded(Leaving(S, T, E), E, <<>>, q)
<1> DEFINE n == Len(q)
           step == StepsOf(Leaving(S, T, E), q)
           Folds(g) == g = [s \in SUBSET DOMAIN q |->
                               IF s = {} THEN <<>> ELSE (IF q[Max(s)] \in S THEN g[s \ {Max(s)}] ELSE Append(g[s \ {Max(s)}], q[Max(s)]))]
           fold == CHOOSE g : Folds(g)
<1>1. n \in Nat /\ DOMAIN q = 1 .. n /\ \A i \in 1 .. n : q[i] \in T
  OBVIOUS
<1>2. Leaving(S, T, E) \in [T -> [E -> E]]
  BY DEF Leaving
<1>3. step \in [1 .. n -> [E -> E]] /\ \A i \in 1 .. n, x \in E : step[i][x] = (IF q[i] \in S THEN x ELSE Append(x, q[i]))
  BY <1>1, <1>2 DEF StepsOf, Leaving
<1> HIDE DEF n, step
<1>4. PICK g : FoldTable(g, E, <<>>, n, step)
  BY <1>1, <1>3, FoldExists
<1>5. Folds(g)
  <2>1. ASSUME NEW s \in SUBSET (1 .. n), s # {}
        PROVE  g[s] = (IF q[Max(s)] \in S THEN g[s \ {Max(s)}] ELSE Append(g[s \ {Max(s)}], q[Max(s)]))
    BY <1>3, <1>4, <2>1 DEF FoldTable
  <2> QED
    BY <1>1, <1>4, <2>1 DEF FoldTable
<1>6. Folds(fold)
  <2> HIDE DEF Folds
  <2> QED
    BY <1>5
<1>7. Without(q, S) = fold[1 .. n]
  BY <1>1 DEF Without, FoldLeft, MapThenFoldSet
<1> HIDE DEF fold
<1>8. ASSUME NEW s \in SUBSET (1 .. n), s # {}, fold[s \ {Max(s)}] \in E
      PROVE  fold[s] = step[Max(s)][fold[s \ {Max(s)}]]
  <2>1. Max(s) \in 1 .. n
    BY <1>4, <1>8 DEF FoldTable
  <2>2. fold[s] = (IF q[Max(s)] \in S THEN fold[s \ {Max(s)}] ELSE Append(fold[s \ {Max(s)}], q[Max(s)]))
    BY <1>1, <1>6, <1>8
  <2> QED
    BY <1>3, <1>8, <2>1, <2>2
<1>9. FoldsBy(fold, E, <<>>, n, step)
  BY <1>6, <1>8 DEF FoldsBy
<1>10. PICK at : Through(at, E, <<>>, n, step) /\ at[n] = fold[1 .. n]
  <2>1. n \in Nat /\ step \in [1 .. n -> [E -> E]]
    BY <1>1, <1>3
  <2> HIDE DEF Folds
  <2> QED
    BY <2>1, <1>9, FoldReaches
<1>11. Folded(Leaving(S, T, E), E, <<>>, q) = at[n]
  BY <1>2, <1>10, FoldedIs DEF n, step
<1> QED
  BY <1>2, <1>7, <1>10, <1>11

LEMMA ElementsEmpty == ToSet(<<>>) = {}
BY DEF ToSet

LEMMA ElementsAppend ==
    ASSUME NEW T, NEW q \in Seq(T), NEW x \in T
    PROVE  ToSet(Append(q, x)) = ToSet(q) \cup {x}
<1> DEFINE r == Append(q, x)
<1>1. /\ Len(q) \in Nat /\ DOMAIN q = 1 .. Len(q) /\ DOMAIN r = 1 .. Len(q) + 1
      /\ \A i \in DOMAIN q : r[i] = q[i]
      /\ r[Len(q) + 1] = x
  BY Appended
<1> HIDE DEF r
<1>2. ToSet(r) \subseteq ToSet(q) \cup {x}
  <2> SUFFICES ASSUME NEW i \in DOMAIN r PROVE r[i] \in ToSet(q) \cup {x}
    BY DEF ToSet
  <2>1. CASE i \in DOMAIN q
    BY <1>1, <2>1 DEF ToSet
  <2>2. CASE i \notin DOMAIN q
    <3>1. i = Len(q) + 1
      BY <1>1, <2>2
    <3> QED
      BY <1>1, <3>1
  <2> QED
    BY <2>1, <2>2
<1>3. ToSet(q) \subseteq ToSet(r)
  BY <1>1 DEF ToSet
<1>4. x \in ToSet(r)
  <2>1. Len(q) + 1 \in DOMAIN r
    BY <1>1
  <2> QED
    BY <1>1, <2>1 DEF ToSet
<1> QED
  BY <1>2, <1>3, <1>4 DEF r

\* The elements of a sequence; one that is not empty has a first and a last.
LEMMA Elements ==
    ASSUME NEW T, NEW q \in Seq(T)
    PROVE  /\ ToSet(q) \subseteq T
           /\ q # <<>> => /\ Head(q) \in ToSet(q) /\ Last(q) \in ToSet(q)
                          /\ ToSet(q) # {}
<1>1. Len(q) \in Nat /\ DOMAIN q = 1 .. Len(q) /\ (q # <<>> => 1 \in DOMAIN q /\ Len(q) \in DOMAIN q)
  OBVIOUS
<1>2. ToSet(q) \subseteq T
  BY <1>1 DEF ToSet
<1>3. q # <<>> => Head(q) = q[1]
  OBVIOUS
<1> QED
  BY <1>1, <1>2, <1>3 DEF ToSet, Last

LEMMA WithoutIs ==
    ASSUME NEW T, NEW S, NEW q \in Seq(T)
    PROVE  Without(q, S) \in Seq(T) /\ ToSet(Without(q, S)) = ToSet(q) \ S
<1> DEFINE n == Len(q)
           E == Seq(T)
           e == <<>>
           h == Leaving(S, T, E)
           Seen(i) == {q[j] : j \in 1 .. i}
           G == [i \in 0 .. n |-> {r \in E : ToSet(r) = Seen(i) \ S}]
<1>1. n \in Nat /\ DOMAIN q = 1 .. n /\ \A i \in 1 .. n : q[i] \in T
  OBVIOUS
<1>2. \A x \in E, c \in T : (IF c \in S THEN x ELSE Append(x, c)) \in E
  OBVIOUS
<1>0. e \in E
  OBVIOUS
<1> HIDE DEF e
<1>3. h \in [T -> [E -> E]] /\ Without(q, S) = Folded(h, E, e, q)
  <2> HIDE DEF E, h
  <2> QED
    BY <1>0, <1>2, WithoutFolds DEF h, e
<1>4. LeadsOn(G, h, E, q)
  <2>1. G \in [0 .. n -> SUBSET E]
    OBVIOUS
  <2>2. ASSUME NEW i \in 1 .. n, NEW x \in G[i - 1] PROVE h[q[i]][x] \in G[i]
    <3>1. i \in 0 .. n /\ i - 1 \in 0 .. n /\ q[i] \in T
      BY <1>1
    <3>2. x \in E /\ ToSet(x) = Seen(i - 1) \ S
      BY <3>1
    <3>3. Seen(i) = Seen(i - 1) \cup {q[i]}
      <4>1. 1 .. i = (1 .. (i - 1)) \cup {i}
        BY <1>1
      <4> QED
        BY <4>1
    <3>4. h[q[i]][x] = IF q[i] \in S THEN x ELSE Append(x, q[i])
      BY <3>1, <3>2 DEF Leaving
    <3>5. ToSet(Append(x, q[i])) = ToSet(x) \cup {q[i]} /\ Append(x, q[i]) \in E
      BY <3>1, <3>2, ElementsAppend
    <3> HIDE DEF E, Seen, h
    <3>6. h[q[i]][x] \in E /\ ToSet(h[q[i]][x]) = Seen(i) \ S
      BY <3>2, <3>3, <3>4, <3>5
    <3> QED
      BY <3>1, <3>6
  <2> HIDE DEF h, E, G
  <2> QED
    BY <2>1, <2>2 DEF LeadsOn, n
<1>5. e \in G[0]
  <2>1. Seen(0) = {} /\ 0 \in 0 .. n
    BY <1>1
  <2>2. ToSet(e) = Seen(0) \ S
    BY <2>1, ElementsEmpty DEF e
  <2> QED
    BY <1>0, <2>1, <2>2
<1>6. Folded(h, E, e, q) \in G[n]
  <2> HIDE DEF h, E, G
  <2> QED
    BY <1>3, <1>4, <1>5, FoldedWithin
<1>7. Seen(n) = ToSet(q)
  BY <1>1 DEF ToSet
<1> QED
  <2> HIDE DEF h, Seen
  <2> QED
    BY <1>1, <1>3, <1>6, <1>7
-----------------------------------------------------------------------------
(* The invariant.                                                          *)

Arps ==
    [enabled : BOOLEAN, hold : BOOLEAN, mode : SustainModes, relatch : BOOLEAN,
     beatSync : BOOLEAN, held : SUBSET Notes, pending : SUBSET Notes, playing : SUBSET Notes,
     current : Notes \cup {None}, pedal : BOOLEAN]
Sequencers ==
    [selected : BOOLEAN, running : BOOLEAN, active : SUBSET Lanes, half : SUBSET Lanes]
GateStates == [gates : BOOLEAN, keyStep : BOOLEAN, triggered : BOOLEAN, high : BOOLEAN]
Layers ==
    [lane : [Voices -> Lane], held : Seq(Voices), sustained : SUBSET Voices,
     owner : [Voices -> Lanes \cup {Live, Nobody}], next : Voices, sustain : BOOLEAN,
     pressed : Seq(Notes), unison : 0..VoiceCount, keyMode : KeyModes,
     arp : Arps, poly : Sequencers, gate : GateStates]

\* The books of the allocator list the voices that sound, once each.
Books(s) == Held(s) \cup s.sustained = Sounding(s) /\ Held(s) \cap s.sustained = {}
Kept == {s \in Layers : Books(s)}

\* The held voices play notes of P for keys and the arpeggiator, or lanes of A.
OwnedBy(s, P, A) ==
    \A v \in Held(s) :
        IF s.owner[v] = Live THEN ActiveNote(s.lane[v]) \in P ELSE s.owner[v] \in A
\* What keys and the arpeggiator may have sounding.
Claims(s) == IF ToArp(s) THEN {s.arp.current} ELSE ToSet(s.pressed)
\* d: lanes whose release was dropped.
Owned(s, d) ==
    /\ s.unison = 0 =>
        /\ OwnedBy(s, Claims(s), s.poly.active \cup d)
        /\ s.sustained # {} => s.sustain
    /\ PolyActive(s) \/ s.poly.active = {}

\* The arpeggiator has no other notes than those of K.
ArpWithin(s, K) == s.arp.held \cup s.arp.pending \subseteq K

\* t differs from s in its voices only, and none is sustained without the pedal.
SameControls(s, t) ==
    /\ t.sustain = s.sustain /\ t.pressed = s.pressed /\ t.unison = s.unison
    /\ t.keyMode = s.keyMode /\ t.arp = s.arp /\ t.poly = s.poly /\ t.gate = s.gate
Plays(s, t) ==
    /\ t \in Kept /\ SameControls(s, t)
    /\ s.sustain \/ t.sustained \subseteq s.sustained

Inv ==
    /\ layer \in Kept /\ foot \in BOOLEAN /\ swallowed \in BOOLEAN
    /\ latched \subseteq Notes /\ missed \subseteq Notes /\ dropped \subseteq Lanes
    /\ Owned(layer, dropped)
    /\ SustainFollowsPedal
    /\ ArpWithin(layer, ToSet(layer.pressed) \cup latched \cup missed)
-----------------------------------------------------------------------------
(* Lanes and voices.                                                       *)

LEMMA LaneFacts ==
    ASSUME NEW l \in Lane, NEW n \in Notes
    PROVE  /\ n # None /\ ActiveNote(l) \in Notes \cup {None}
           /\ Off(l) \in Lane /\ ActiveNote(Off(l)) = None
           /\ Started(n) \in Lane /\ ActiveNote(Started(n)) = n
           /\ Scheduled(l, n) \in Lane /\ ActiveNote(Scheduled(l, n)) = n
           /\ Retuned(l, n) \in Lane /\ ActiveNote(Retuned(l, n)) = n
<1>1. n \in Nat /\ n # None
  BY DEF None
<1> QED
  BY <1>1 DEF Lane, ActiveNote, Off, Started, Scheduled, Retuned

LEMMA QuietFacts == Quiet \in Lane /\ ActiveNote(Quiet) = None
BY DEF Quiet, Lane, ActiveNote

LEMMA OffFacts ==
    ASSUME NEW l \in Lane
    PROVE  Off(l) \in Lane /\ ActiveNote(Off(l)) = None
BY DEF Lane, ActiveNote, Off

LEMMA LayerFields ==
    ASSUME NEW s \in Kept
    PROVE  /\ s \in Layers /\ s.lane \in [Voices -> Lane] /\ s.held \in Seq(Voices)
           /\ s.sustained \subseteq Voices /\ s.owner \in [Voices -> Lanes \cup {Live, Nobody}]
           /\ s.next \in Voices /\ s.sustain \in BOOLEAN /\ s.pressed \in Seq(Notes)
           /\ s.unison \in 0 .. VoiceCount /\ s.keyMode \in KeyModes
           /\ s.arp \in Arps /\ s.poly \in Sequencers /\ s.gate \in GateStates
           /\ Held(s) \subseteq Voices /\ Held(s) = ToSet(s.held)
           /\ Held(s) \cup s.sustained = Sounding(s) /\ Held(s) \cap s.sustained = {}
<1>1. s \in Layers /\ Books(s)
  BY DEF Kept
<1>2. s.held \in Seq(Voices)
  BY <1>1 DEF Layers
<1>3. Held(s) \subseteq Voices
  BY <1>2, Elements DEF Held
<1> QED
  BY <1>1, <1>3 DEF Layers, Books, Held

\* The voices of S let go.
LEMMA ReleasedIs ==
    ASSUME NEW s \in Kept, NEW S \in SUBSET Voices, NEW t, t = Released(s, S)
    PROVE  /\ Plays(s, t) /\ t.owner = s.owner /\ t.sustained = s.sustained \ S
           /\ Held(t) = Held(s) \ S
           /\ \A v \in Voices \ S : t.lane[v] = s.lane[v]
<1>0. /\ s \in Layers /\ s.lane \in [Voices -> Lane] /\ s.held \in Seq(Voices)
      /\ s.sustained \subseteq Voices
      /\ Held(s) \cup s.sustained = Sounding(s) /\ Held(s) \cap s.sustained = {}
  BY LayerFields
<1> DEFINE q == Without(s.held, S)
           f == LanesOff(s, S)
<1>1. q \in Seq(Voices) /\ ToSet(q) = ToSet(s.held) \ S
  BY <1>0, WithoutIs
<1>2. /\ f \in [Voices -> Lane]
      /\ \A v \in S : ActiveNote(f[v]) = None
      /\ \A v \in Voices \ S : f[v] = s.lane[v]
  BY <1>0, OffFacts DEF LanesOff
<1> HIDE DEF q, f
<1>3. t = [s EXCEPT !.lane = f, !.held = q, !.sustained = s.sustained \ S]
  BY DEF Released, q, f
<1>4. /\ t \in Layers /\ t.lane = f /\ t.held = q /\ t.sustained = s.sustained \ S
      /\ t.owner = s.owner /\ SameControls(s, t)
  BY <1>0, <1>1, <1>2, <1>3 DEF Layers, SameControls
<1>5. Held(t) = Held(s) \ S
  BY <1>1, <1>4 DEF Held
<1>6. Sounding(t) = Sounding(s) \ S
  BY <1>2, <1>4 DEF Sounding
<1>7. Books(t)
  BY <1>0, <1>4, <1>5, <1>6 DEF Books
<1> QED
  BY <1>2, <1>4, <1>5, <1>7 DEF Plays, Kept

\* The voices of S let go and nobody's.
LEMMA LetGoIs ==
    ASSUME NEW s \in Kept, NEW S \in SUBSET Voices, NEW t, t = Disowned(Released(s, S), S)
    PROVE  /\ Plays(s, t) /\ t.sustained = s.sustained \ S /\ Held(t) = Held(s) \ S
           /\ \A v \in Voices \ S : t.lane[v] = s.lane[v] /\ t.owner[v] = s.owner[v]
           /\ \A v \in S : t.owner[v] = Nobody
<1> DEFINE r == Released(s, S)
           f == [v \in Voices |-> IF v \in S THEN Nobody ELSE r.owner[v]]
<1>1. /\ Plays(s, r) /\ r.owner = s.owner /\ r.sustained = s.sustained \ S
      /\ Held(r) = Held(s) \ S /\ \A v \in Voices \ S : r.lane[v] = s.lane[v]
  BY ReleasedIs
<1>2. r \in Layers /\ Books(r) /\ r.owner \in [Voices -> Lanes \cup {Live, Nobody}]
  BY <1>1 DEF Plays, Kept, Layers
<1>3. t = [r EXCEPT !.owner = [v \in Voices |-> IF v \in S THEN Nobody ELSE r.owner[v]]]
  BY DEF Disowned
<1> HIDE DEF r
<1>4. /\ f \in [Voices -> Lanes \cup {Live, Nobody}]
      /\ \A v \in Voices : f[v] = IF v \in S THEN Nobody ELSE r.owner[v]
  BY <1>2
<1> HIDE DEF f
<1>5. t = [r EXCEPT !.owner = f]
  BY <1>3 DEF f
<1>6. /\ t \in Layers /\ t.lane = r.lane /\ t.held = r.held /\ t.sustained = r.sustained
      /\ t.owner = f /\ SameControls(r, t)
  BY <1>2, <1>4, <1>5 DEF Layers, SameControls
<1>7. Held(t) = Held(r) /\ Sounding(t) = Sounding(r)
  BY <1>6 DEF Held, Sounding
<1>8. Books(t)
  BY <1>2, <1>6, <1>7 DEF Books
<1>9. SameControls(s, t)
  BY <1>1, <1>6 DEF Plays, SameControls
<1> QED
  BY <1>1, <1>4, <1>6, <1>7, <1>8, <1>9 DEF Plays, Kept

\* Voice v, taken by an owner for a note.
LEMMA TakenIs ==
    ASSUME NEW s \in Kept, NEW v \in Voices, NEW l \in Lane, ActiveNote(l) \in Notes,
           NEW o \in Lanes \cup {Live}, NEW t, t = Taken(s, v, l, o)
    PROVE  /\ Plays(s, t) /\ Held(t) = Held(s) \cup {v} /\ t.sustained = s.sustained \ {v}
           /\ t.lane[v] = l /\ t.owner[v] = o
           /\ \A w \in Voices \ {v} : t.lane[w] = s.lane[w] /\ t.owner[w] = s.owner[w]
<1>0. /\ s \in Layers /\ s.lane \in [Voices -> Lane] /\ s.held \in Seq(Voices)
      /\ s.sustained \subseteq Voices /\ s.owner \in [Voices -> Lanes \cup {Live, Nobody}]
      /\ Held(s) \cup s.sustained = Sounding(s) /\ Held(s) \cap s.sustained = {}
      /\ s.next \in Voices
  BY LayerFields
<1> DEFINE q == Append(Without(s.held, {v}), v)
           f == [s.lane EXCEPT ![v] = l]
           g == [s.owner EXCEPT ![v] = o]
           m == (v + 1) % VoiceCount
<1>1. q \in Seq(Voices) /\ ToSet(q) = ToSet(s.held) \cup {v}
  <2> DEFINE r == Without(s.held, {v})
  <2>1. r \in Seq(Voices) /\ ToSet(r) = ToSet(s.held) \ {v}
    BY <1>0, WithoutIs
  <2> HIDE DEF r
  <2>2. Append(r, v) \in Seq(Voices) /\ ToSet(Append(r, v)) = ToSet(r) \cup {v}
    BY <2>1, ElementsAppend
  <2>3. q \in Seq(Voices) /\ ToSet(q) = ToSet(r) \cup {v}
    BY <2>2 DEF r
  <2> QED
    BY <2>1, <2>3
<1>2. /\ f \in [Voices -> Lane] /\ f[v] = l
      /\ \A w \in Voices \ {v} : f[w] = s.lane[w]
  BY <1>0
<1>3. /\ g \in [Voices -> Lanes \cup {Live, Nobody}] /\ g[v] = o
      /\ \A w \in Voices \ {v} : g[w] = s.owner[w]
  BY <1>0
<1>4. m \in Voices
  BY DEF Voices
<1>5. t = [s EXCEPT !.lane = f, !.held = q, !.sustained = s.sustained \ {v},
                    !.owner = g, !.next = m]
  BY <1>0 DEF Taken, Layers
<1> HIDE DEF q, f, g, m
<1>6. /\ t \in Layers /\ t.lane = f /\ t.held = q /\ t.sustained = s.sustained \ {v}
      /\ t.owner = g /\ SameControls(s, t)
  BY <1>0, <1>1, <1>2, <1>3, <1>4, <1>5 DEF Layers, SameControls
<1>7. Held(t) = Held(s) \cup {v}
  BY <1>1, <1>6 DEF Held
<1>8. Sounding(t) = Sounding(s) \cup {v}
  <2>1. ActiveNote(l) # None
    BY DEF None
  <2> QED
    BY <1>2, <1>6, <2>1 DEF Sounding
<1>9. Books(t)
  BY <1>0, <1>6, <1>7, <1>8 DEF Books
<1> QED
  BY <1>2, <1>3, <1>6, <1>7, <1>9 DEF Plays, Kept

LEMMA FirstFromIs ==
    ASSUME NEW s \in Kept, NEW S \in SUBSET Voices, S # {}
    PROVE  FirstFrom(s, S) \in S
<1> DEFINE Far(v) == (v - s.next) % VoiceCount
           Fars == {Far(v) : v \in S}
<1>1. s.next \in Int /\ \A v \in S : v \in Int
  BY LayerFields DEF Voices
<1>2. \A v \in S : Far(v) \in Nat
  BY <1>1
<1> HIDE DEF Far
<1>3. Fars \in SUBSET Nat /\ Fars # {}
  BY <1>2
<1>4. PICK v \in S : \A w \in S : Far(v) <= Far(w)
  <2>1. Min(Fars) \in Fars /\ \A y \in Fars : Min(Fars) <= y
    BY <1>3, MinExists
  <2> QED
    BY <2>1
<1> QED
  BY <1>4 DEF FirstFrom, Far

LEMMA AllocateIs ==
    ASSUME NEW s \in Kept
    PROVE  Allocate(s) \in Voices
<1> DEFINE silent   == {v \in Voices : IsSilent(s.lane[v])}
           released == {v \in Voices : IsReleased(s.lane[v])}
<1>0. s.sustained \in SUBSET Voices /\ s.held \in Seq(Voices) /\ 0 \in Voices
  BY LayerFields DEF Voices
<1>1. CASE silent # {}
  <2>0. released # {}
    BY <1>1, QuietFacts DEF IsSilent, IsReleased
  <2>1. Allocate(s) = FirstFrom(s, silent)
    BY <1>1, <2>0 DEF Allocate
  <2> QED
    BY <1>1, <2>1, FirstFromIs
<1>2. CASE silent = {} /\ released # {}
  <2>1. Allocate(s) = FirstFrom(s, released)
    BY <1>2 DEF Allocate
  <2> QED
    BY <1>2, <2>1, FirstFromIs
<1>3. CASE silent = {} /\ released = {} /\ s.sustained # {}
  <2>1. Allocate(s) = FirstFrom(s, s.sustained)
    BY <1>3 DEF Allocate
  <2> QED
    BY <1>0, <1>3, <2>1, FirstFromIs
<1>4. CASE silent = {} /\ released = {} /\ s.sustained = {}
  <2>1. Allocate(s) = IF s.held = <<>> THEN 0 ELSE Head(s.held)
    BY <1>4 DEF Allocate
  <2>2. s.held # <<>> => Head(s.held) \in Voices
    BY <1>0
  <2> QED
    BY <1>0, <2>1, <2>2
<1> QED
  BY <1>1, <1>2, <1>3, <1>4

LEMMA PolyNoteOnIs ==
    ASSUME NEW s \in Kept, NEW n \in Notes, NEW t, t = PolyNoteOn(s, n)
    PROVE  Plays(s, t)
<1> DEFINE old == Without(s.held, Voices \ Playing(s, n))
           v == IF old # <<>> THEN Head(old) ELSE Allocate(s)
           l == s.lane[v]
           starts == IsSilent(l) \/ (old # <<>> /\ l.pending = None)
           x == IF starts THEN Started(n) ELSE Scheduled(l, n)
<1>1. old \in Seq(Voices)
  BY LayerFields, WithoutIs
<1>2. v \in Voices
  <2>1. old # <<>> => Head(old) \in Voices
    BY <1>1
  <2> QED
    BY <2>1, AllocateIs
<1>3. l \in Lane
  BY <1>2, LayerFields
<1>4. x \in Lane /\ ActiveNote(x) = n
  BY <1>3, LaneFacts
<1>5. t = Taken(s, v, x, Live)
  BY DEF PolyNoteOn
<1> HIDE DEF v, x
<1> QED
  BY <1>2, <1>4, <1>5, TakenIs

LEMMA PolyNoteOnOwned ==
    ASSUME NEW s \in Kept, NEW n \in Notes, NEW P, NEW A, n \in P, OwnedBy(s, P, A)
    PROVE  OwnedBy(PolyNoteOn(s, n), P, A)
<1> DEFINE old == Without(s.held, Voices \ Playing(s, n))
           v == IF old # <<>> THEN Head(old) ELSE Allocate(s)
           l == s.lane[v]
           starts == IsSilent(l) \/ (old # <<>> /\ l.pending = None)
           x == IF starts THEN Started(n) ELSE Scheduled(l, n)
           t == Taken(s, v, x, Live)
<1>1. old \in Seq(Voices)
  BY LayerFields, WithoutIs
<1>2. v \in Voices
  <2>1. old # <<>> => Head(old) \in Voices
    BY <1>1
  <2> QED
    BY <2>1, AllocateIs
<1>3. l \in Lane
  BY <1>2, LayerFields
<1>4. x \in Lane /\ ActiveNote(x) = n
  BY <1>3, LaneFacts
<1>5. PolyNoteOn(s, n) = t
  BY DEF PolyNoteOn
<1> HIDE DEF v, x
<1>6. /\ Held(t) = Held(s) \cup {v} /\ t.lane[v] = x /\ t.owner[v] = Live
      /\ \A w \in Voices \ {v} : t.lane[w] = s.lane[w] /\ t.owner[w] = s.owner[w]
  BY <1>2, <1>4, TakenIs
<1>7. Held(s) \subseteq Voices
  BY LayerFields
<1> HIDE DEF t
<1> QED
  BY <1>4, <1>5, <1>6, <1>7 DEF OwnedBy

LEMMA PolyNoteOffIs ==
    ASSUME NEW s \in Kept, NEW n, NEW t, t = PolyNoteOff(s, n)
    PROVE  /\ Plays(s, t) /\ Held(t) = Held(s) \ Playing(s, n)
           /\ \A v \in Held(t) : t.lane[v] = s.lane[v] /\ t.owner[v] = s.owner[v]
<1> DEFINE S == Playing(s, n)
<1>0. /\ s \in Layers /\ s.held \in Seq(Voices) /\ s.sustained \subseteq Voices
      /\ Held(s) \cup s.sustained = Sounding(s) /\ Held(s) \cap s.sustained = {}
      /\ Held(s) \subseteq Voices /\ S \subseteq Held(s)
  BY LayerFields DEF Playing
<1>1. CASE s.sustain
  <2> DEFINE q == Without(s.held, S)
             u == s.sustained \cup S
  <2>1. q \in Seq(Voices) /\ ToSet(q) = ToSet(s.held) \ S
    BY <1>0, WithoutIs
  <2>2. t = [s EXCEPT !.held = q, !.sustained = u]
    BY <1>1 DEF PolyNoteOff
  <2>3. u \subseteq Voices
    BY <1>0
  <2> HIDE DEF q, u
  <2>4. /\ t \in Layers /\ t.lane = s.lane /\ t.held = q /\ t.sustained = u
        /\ t.owner = s.owner /\ SameControls(s, t)
    BY <1>0, <2>1, <2>2, <2>3 DEF Layers, SameControls
  <2>5. Held(t) = Held(s) \ S /\ Sounding(t) = Sounding(s)
    BY <2>1, <2>4 DEF Held, Sounding
  <2>6. Books(t)
    BY <1>0, <2>4, <2>5 DEF Books, u
  <2> QED
    BY <1>1, <2>4, <2>5, <2>6 DEF Plays, Kept
<1>2. CASE ~s.sustain
  <2>1. t = Disowned(Released(s, S), S)
    BY <1>2 DEF PolyNoteOff
  <2>2. S \in SUBSET Voices
    BY <1>0
  <2>3. /\ Plays(s, t) /\ Held(t) = Held(s) \ S
        /\ \A v \in Voices \ S : t.lane[v] = s.lane[v] /\ t.owner[v] = s.owner[v]
    BY <2>1, <2>2, LetGoIs
  <2> QED
    BY <1>0, <2>3
<1> QED
  BY <1>1, <1>2

LEMMA PolyNoteOffOwned ==
    ASSUME NEW s \in Kept, NEW n, NEW P, NEW A, OwnedBy(s, P, A)
    PROVE  OwnedBy(PolyNoteOff(s, n), P \ {n}, A)
<1> DEFINE t == PolyNoteOff(s, n)
<1>1. /\ Held(t) = Held(s) \ Playing(s, n)
      /\ \A v \in Held(t) : t.lane[v] = s.lane[v] /\ t.owner[v] = s.owner[v]
  BY PolyNoteOffIs
<1> HIDE DEF t
<1>2. OwnedBy(t, P \ {n}, A)
  BY <1>1 DEF OwnedBy, Playing
<1> QED
  BY <1>2 DEF t

LEMMA SequenceNoteOffIs ==
    ASSUME NEW s \in Kept, NEW ls \in SUBSET Lanes
    PROVE  /\ Plays(s, SequenceNoteOff(s, ls))
           /\ \A P, A : OwnedBy(s, P, A) => OwnedBy(SequenceNoteOff(s, ls), P, A \ ls)
<1> DEFINE S == {v \in Voices : s.owner[v] \in ls}
           t == SequenceNoteOff(s, ls)
<1>0. S \in SUBSET Voices /\ Held(s) \subseteq Voices
  BY LayerFields
<1>1. t = Disowned(Released(s, S), S)
  BY DEF SequenceNoteOff
<1> HIDE DEF t
<1>2. /\ Plays(s, t) /\ Held(t) = Held(s) \ S
      /\ \A v \in Voices \ S : t.lane[v] = s.lane[v] /\ t.owner[v] = s.owner[v]
  BY <1>0, <1>1, LetGoIs
<1>3. ASSUME NEW P, NEW A, OwnedBy(s, P, A) PROVE OwnedBy(t, P, A \ ls)
  BY <1>0, <1>2, <1>3 DEF OwnedBy
<1> QED
  BY <1>2, <1>3 DEF t

LEMMA PlaysOn ==
    ASSUME NEW s, NEW t, NEW u, Plays(s, t), Plays(t, u)
    PROVE  Plays(s, u)
BY DEF Plays, SameControls

LEMMA PlaysStill ==
    ASSUME NEW s \in Kept
    PROVE  Plays(s, s)
BY DEF Plays, SameControls

LEMMA SequenceNoteOnIs ==
    ASSUME NEW s \in Kept, NEW lane \in Lanes, NEW n \in Notes
    PROVE  /\ Plays(s, SequenceNoteOn(s, lane, n))
           /\ \A P, A : OwnedBy(s, P, A) => OwnedBy(SequenceNoteOn(s, lane, n), P, A \cup {lane})
<1> DEFINE t == SequenceNoteOff(s, {lane})
           v == Allocate(t)
           x == IF IsSilent(t.lane[v]) THEN Started(n) ELSE Scheduled(t.lane[v], n)
           u == SequenceNoteOn(s, lane, n)
<1>1. /\ Plays(s, t) /\ t \in Kept
      /\ \A P, A : OwnedBy(s, P, A) => OwnedBy(t, P, A \ {lane})
  BY SequenceNoteOffIs DEF Plays
<1> HIDE DEF t
<1>2. v \in Voices
  BY <1>1, AllocateIs
<1> HIDE DEF v
<1>3. t.lane[v] \in Lane /\ Held(t) \subseteq Voices
  BY <1>1, <1>2, LayerFields
<1>4. x \in Lane /\ ActiveNote(x) = n
  BY <1>3, LaneFacts
<1>5. u = Taken(t, v, x, lane)
  BY DEF SequenceNoteOn, t, v
<1> HIDE DEF x, u
<1>6. /\ Plays(t, u) /\ Held(u) = Held(t) \cup {v}
      /\ u.lane[v] = x /\ u.owner[v] = lane
      /\ \A w \in Voices \ {v} : u.lane[w] = t.lane[w] /\ u.owner[w] = t.owner[w]
  BY <1>1, <1>2, <1>4, <1>5, TakenIs
<1>7. lane # Live
  BY DEF Lanes, Live
<1>8. ASSUME NEW P, NEW A, OwnedBy(s, P, A) PROVE OwnedBy(u, P, A \cup {lane})
  <2>1. OwnedBy(t, P, A \ {lane})
    BY <1>1, <1>8
  <2> QED
    BY <1>3, <1>6, <1>7, <2>1 DEF OwnedBy
<1>9. Plays(s, u)
  BY <1>1, <1>6, PlaysOn
<1> QED
  BY <1>8, <1>9 DEF u

LEMMA UpdateUnisonGroupIs ==
    ASSUME NEW s \in Kept, NEW n \in Notes, NEW r, NEW t, t = UpdateUnisonGroup(s, n, r)
    PROVE  Plays(s, t)
<1> DEFINE group == 0..(s.unison - 1)
           L(v) ==
              LET l == s.lane[v] IN
              CASE v \notin group -> IF v \in Held(s) THEN Off(l) ELSE l
                [] v \in group /\ v \in Held(s) /\ ActiveNote(l) # None ->
                      IF r THEN Started(n) ELSE Retuned(l, n)
                [] OTHER -> IF IsSilent(l) THEN Started(n) ELSE Scheduled(l, n)
           f == [v \in Voices |-> L(v)]
           q == [i \in 1..s.unison |-> i - 1]
           S == s.sustained \ (group \cup Held(s))
<1>0. /\ s \in Layers /\ s.lane \in [Voices -> Lane] /\ s.held \in Seq(Voices)
      /\ s.sustained \subseteq Voices /\ s.unison \in 0 .. VoiceCount
      /\ Held(s) \cup s.sustained = Sounding(s) /\ Held(s) \cap s.sustained = {}
  BY LayerFields
<1>1. group \subseteq Voices
  BY <1>0 DEF Voices
<1>2. q \in Seq(Voices) /\ ToSet(q) = group
  <2>1. q \in [1 .. s.unison -> Voices] /\ s.unison \in Nat /\ DOMAIN q = 1 .. s.unison
    BY <1>0 DEF Voices
  <2>2. q \in Seq(Voices)
    <3> HIDE DEF q
    <3> QED
      BY <2>1
  <2>3. \A v \in group : v + 1 \in DOMAIN q /\ q[v + 1] = v
    BY <2>1
  <2>4. \A i \in DOMAIN q : q[i] \in group
    BY <2>1
  <2> HIDE DEF q, group
  <2> QED
    BY <2>2, <2>3, <2>4 DEF ToSet
<1> HIDE DEF group
<1>3. ASSUME NEW v \in Voices
      PROVE  /\ L(v) \in Lane
             /\ v \in group => ActiveNote(L(v)) = n
             /\ v \notin group => ActiveNote(L(v)) = IF v \in Held(s) THEN None
                                                     ELSE ActiveNote(s.lane[v])
  <2> DEFINE l == s.lane[v]
  <2>1. l \in Lane
    BY <1>0
  <2>2. /\ Off(l) \in Lane /\ ActiveNote(Off(l)) = None
        /\ Started(n) \in Lane /\ ActiveNote(Started(n)) = n
        /\ Scheduled(l, n) \in Lane /\ ActiveNote(Scheduled(l, n)) = n
        /\ Retuned(l, n) \in Lane /\ ActiveNote(Retuned(l, n)) = n
    BY <2>1, LaneFacts
  <2>3. CASE v \notin group
    <3>1. L(v) = IF v \in Held(s) THEN Off(l) ELSE l
      BY <2>3
    <3> HIDE DEF L, l
    <3>2. s.lane[v] = l
      BY DEF l
    <3> QED
      BY <2>1, <2>2, <2>3, <3>1, <3>2
  <2>4. CASE v \in group /\ v \in Held(s) /\ ActiveNote(l) # None
    <3>1. L(v) = IF r THEN Started(n) ELSE Retuned(l, n)
      BY <2>4
    <3> HIDE DEF L, l
    <3> QED
      BY <2>2, <2>4, <3>1
  <2>5. CASE v \in group /\ ~(v \in Held(s) /\ ActiveNote(l) # None)
    <3>1. L(v) = IF IsSilent(l) THEN Started(n) ELSE Scheduled(l, n)
      BY <2>5
    <3> HIDE DEF L, l
    <3> QED
      BY <2>2, <2>5, <3>1
  <2> HIDE DEF L, l
  <2> QED
    BY <2>3, <2>4, <2>5
<1>4. t = [s EXCEPT !.lane = f, !.held = q, !.sustained = S]
  BY DEF UpdateUnisonGroup, group
<1> HIDE DEF L
<1>5. f \in [Voices -> Lane] /\ \A v \in Voices : f[v] = L(v)
  BY <1>3
<1> HIDE DEF f, q
<1>6. S \subseteq Voices /\ S \subseteq s.sustained
  BY <1>0
<1> HIDE DEF S
<1>7. /\ t \in Layers /\ t.lane = f /\ t.held = q /\ t.sustained = S
      /\ SameControls(s, t)
  BY <1>0, <1>2, <1>4, <1>5, <1>6 DEF Layers, SameControls
<1>8. Held(t) = group
  BY <1>2, <1>7 DEF Held
<1>9. n # None
  BY DEF None
<1>10. \A v \in Voices : v \in Sounding(t) <=> v \in group \/ (v \notin Held(s) /\ v \in Sounding(s))
  BY <1>3, <1>5, <1>7, <1>9 DEF Sounding
<1>11. Held(t) \cup t.sustained = Sounding(t) /\ Held(t) \cap t.sustained = {}
  <2>1. Sounding(t) \subseteq Voices /\ Sounding(s) \subseteq Voices
    BY DEF Sounding
  <2> QED
    BY <1>0, <1>1, <1>7, <1>8, <1>10, <2>1 DEF S
<1> QED
  BY <1>6, <1>7, <1>11 DEF Plays, Kept, Books

LEMMA AllLanesOffIs ==
    ASSUME NEW s \in Kept, NEW t, t = AllLanesOff(s)
    PROVE  /\ Plays(s, t) /\ t.sustained = {} /\ Held(t) = {}
           /\ t.lane = LanesOff(s, Voices)
<1>0. s \in Layers /\ s.lane \in [Voices -> Lane]
  BY LayerFields
<1> DEFINE f == LanesOff(s, Voices)
           g == [v \in Voices |-> Nobody]
<1>1. f \in [Voices -> Lane] /\ \A v \in Voices : ActiveNote(f[v]) = None
  BY <1>0, OffFacts DEF LanesOff
<1>2. g \in [Voices -> Lanes \cup {Live, Nobody}]
  OBVIOUS
<1>3. t = [s EXCEPT !.lane = f, !.held = <<>>, !.sustained = {}, !.owner = g]
  BY DEF AllLanesOff
<1> HIDE DEF f, g
<1>4. <<>> \in Seq(Voices)
  OBVIOUS
<1>5. /\ t \in Layers /\ t.lane = f /\ t.held = <<>> /\ t.sustained = {}
      /\ SameControls(s, t)
  BY <1>0, <1>1, <1>2, <1>3, <1>4 DEF Layers, SameControls
<1>6. Held(t) = {}
  BY <1>5, ElementsEmpty DEF Held
<1>7. Sounding(t) = {}
  BY <1>1, <1>5 DEF Sounding
<1>8. Books(t)
  BY <1>5, <1>6, <1>7 DEF Books
<1> QED
  BY <1>5, <1>6, <1>8 DEF Plays, Kept, f
-----------------------------------------------------------------------------
(* Several keys.                                                           *)

\* The model's operators as functions, for folds over states in E.
NoteOns(S, E) == [c \in S |-> [x \in E |-> PolyNoteOn(x, c)]]
NoteOffs(S, E) == [c \in S |-> [x \in E |-> PolyNoteOff(x, c)]]
ArpNoteOns(S, E) == [c \in S |-> [x \in E |-> ArpNoteOn(x, c)]]
NoteOnStays(S, E) == \A x \in E, c \in S : PolyNoteOn(x, c) \in E
NoteOffStays(S, E) == \A x \in E, c \in S : PolyNoteOff(x, c) \in E
ArpNoteOnStays(S, E) == \A x \in E, c \in S : ArpNoteOn(x, c) \in E

LEMMA NoteOnFolds ==
    ASSUME NEW S, NEW E, NEW e \in E, NEW q \in Seq(S),
           NoteOnStays(S, E)
    PROVE  /\ NoteOns(S, E) \in [S -> [E -> E]]
           /\ FoldLeft(PolyNoteOn, e, q) = Folded(NoteOns(S, E), E, e, q)
<1> DEFINE n == Len(q)
           step == StepsOf(NoteOns(S, E), q)
           Folds(g) == g = [s \in SUBSET DOMAIN q |->
                               IF s = {} THEN e ELSE PolyNoteOn(g[s \ {Max(s)}], q[Max(s)])]
           fold == CHOOSE g : Folds(g)
<1>1. n \in Nat /\ DOMAIN q = 1 .. n /\ \A i \in 1 .. n : q[i] \in S
  OBVIOUS
<1>2. NoteOns(S, E) \in [S -> [E -> E]]
  BY DEF NoteOns, NoteOnStays
<1>3. step \in [1 .. n -> [E -> E]] /\ \A i \in 1 .. n, x \in E : step[i][x] = PolyNoteOn(x, q[i])
  BY <1>1, <1>2 DEF StepsOf, NoteOns
<1> HIDE DEF n, step
<1>4. PICK g : FoldTable(g, E, e, n, step)
  BY <1>1, <1>3, FoldExists
<1>5. Folds(g)
  <2>1. ASSUME NEW s \in SUBSET (1 .. n), s # {}
        PROVE  g[s] = PolyNoteOn(g[s \ {Max(s)}], q[Max(s)])
    BY <1>3, <1>4, <2>1 DEF FoldTable
  <2> QED
    BY <1>1, <1>4, <2>1 DEF FoldTable
<1>6. Folds(fold)
  <2> HIDE DEF Folds
  <2> QED
    BY <1>5
<1>7. FoldLeft(PolyNoteOn, e, q) = fold[1 .. n]
  BY <1>1 DEF FoldLeft, MapThenFoldSet
<1> HIDE DEF fold
<1>8. ASSUME NEW s \in SUBSET (1 .. n), s # {}, fold[s \ {Max(s)}] \in E
      PROVE  fold[s] = step[Max(s)][fold[s \ {Max(s)}]]
  <2>1. Max(s) \in 1 .. n
    BY <1>4, <1>8 DEF FoldTable
  <2>2. fold[s] = PolyNoteOn(fold[s \ {Max(s)}], q[Max(s)])
    BY <1>1, <1>6, <1>8
  <2> QED
    BY <1>3, <1>8, <2>1, <2>2
<1>9. FoldsBy(fold, E, e, n, step)
  BY <1>6, <1>8 DEF FoldsBy
<1>10. PICK at : Through(at, E, e, n, step) /\ at[n] = fold[1 .. n]
  <2>1. n \in Nat /\ step \in [1 .. n -> [E -> E]]
    BY <1>1, <1>3
  <2> HIDE DEF Folds
  <2> QED
    BY <2>1, <1>9, FoldReaches
<1>11. Folded(NoteOns(S, E), E, e, q) = at[n]
  BY <1>2, <1>10, FoldedIs DEF n, step
<1> QED
  BY <1>2, <1>7, <1>10, <1>11

LEMMA NoteOffFolds ==
    ASSUME NEW S, NEW E, NEW e \in E, NEW q \in Seq(S),
           NoteOffStays(S, E)
    PROVE  /\ NoteOffs(S, E) \in [S -> [E -> E]]
           /\ FoldLeft(PolyNoteOff, e, q) = Folded(NoteOffs(S, E), E, e, q)
<1> DEFINE n == Len(q)
           step == StepsOf(NoteOffs(S, E), q)
           Folds(g) == g = [s \in SUBSET DOMAIN q |->
                               IF s = {} THEN e ELSE PolyNoteOff(g[s \ {Max(s)}], q[Max(s)])]
           fold == CHOOSE g : Folds(g)
<1>1. n \in Nat /\ DOMAIN q = 1 .. n /\ \A i \in 1 .. n : q[i] \in S
  OBVIOUS
<1>2. NoteOffs(S, E) \in [S -> [E -> E]]
  BY DEF NoteOffs, NoteOffStays
<1>3. step \in [1 .. n -> [E -> E]] /\ \A i \in 1 .. n, x \in E : step[i][x] = PolyNoteOff(x, q[i])
  BY <1>1, <1>2 DEF StepsOf, NoteOffs
<1> HIDE DEF n, step
<1>4. PICK g : FoldTable(g, E, e, n, step)
  BY <1>1, <1>3, FoldExists
<1>5. Folds(g)
  <2>1. ASSUME NEW s \in SUBSET (1 .. n), s # {}
        PROVE  g[s] = PolyNoteOff(g[s \ {Max(s)}], q[Max(s)])
    BY <1>3, <1>4, <2>1 DEF FoldTable
  <2> QED
    BY <1>1, <1>4, <2>1 DEF FoldTable
<1>6. Folds(fold)
  <2> HIDE DEF Folds
  <2> QED
    BY <1>5
<1>7. FoldLeft(PolyNoteOff, e, q) = fold[1 .. n]
  BY <1>1 DEF FoldLeft, MapThenFoldSet
<1> HIDE DEF fold
<1>8. ASSUME NEW s \in SUBSET (1 .. n), s # {}, fold[s \ {Max(s)}] \in E
      PROVE  fold[s] = step[Max(s)][fold[s \ {Max(s)}]]
  <2>1. Max(s) \in 1 .. n
    BY <1>4, <1>8 DEF FoldTable
  <2>2. fold[s] = PolyNoteOff(fold[s \ {Max(s)}], q[Max(s)])
    BY <1>1, <1>6, <1>8
  <2> QED
    BY <1>3, <1>8, <2>1, <2>2
<1>9. FoldsBy(fold, E, e, n, step)
  BY <1>6, <1>8 DEF FoldsBy
<1>10. PICK at : Through(at, E, e, n, step) /\ at[n] = fold[1 .. n]
  <2>1. n \in Nat /\ step \in [1 .. n -> [E -> E]]
    BY <1>1, <1>3
  <2> HIDE DEF Folds
  <2> QED
    BY <2>1, <1>9, FoldReaches
<1>11. Folded(NoteOffs(S, E), E, e, q) = at[n]
  BY <1>2, <1>10, FoldedIs DEF n, step
<1> QED
  BY <1>2, <1>7, <1>10, <1>11

LEMMA ArpNoteOnFolds ==
    ASSUME NEW S, NEW E, NEW e \in E, NEW q \in Seq(S),
           ArpNoteOnStays(S, E)
    PROVE  /\ ArpNoteOns(S, E) \in [S -> [E -> E]]
           /\ FoldLeft(ArpNoteOn, e, q) = Folded(ArpNoteOns(S, E), E, e, q)
<1> DEFINE n == Len(q)
           step == StepsOf(ArpNoteOns(S, E), q)
           Folds(g) == g = [s \in SUBSET DOMAIN q |->
                               IF s = {} THEN e ELSE ArpNoteOn(g[s \ {Max(s)}], q[Max(s)])]
           fold == CHOOSE g : Folds(g)
<1>1. n \in Nat /\ DOMAIN q = 1 .. n /\ \A i \in 1 .. n : q[i] \in S
  OBVIOUS
<1>2. ArpNoteOns(S, E) \in [S -> [E -> E]]
  BY DEF ArpNoteOns, ArpNoteOnStays
<1>3. step \in [1 .. n -> [E -> E]] /\ \A i \in 1 .. n, x \in E : step[i][x] = ArpNoteOn(x, q[i])
  BY <1>1, <1>2 DEF StepsOf, ArpNoteOns
<1> HIDE DEF n, step
<1>4. PICK g : FoldTable(g, E, e, n, step)
  BY <1>1, <1>3, FoldExists
<1>5. Folds(g)
  <2>1. ASSUME NEW s \in SUBSET (1 .. n), s # {}
        PROVE  g[s] = ArpNoteOn(g[s \ {Max(s)}], q[Max(s)])
    BY <1>3, <1>4, <2>1 DEF FoldTable
  <2> QED
    BY <1>1, <1>4, <2>1 DEF FoldTable
<1>6. Folds(fold)
  <2> HIDE DEF Folds
  <2> QED
    BY <1>5
<1>7. FoldLeft(ArpNoteOn, e, q) = fold[1 .. n]
  BY <1>1 DEF FoldLeft, MapThenFoldSet
<1> HIDE DEF fold
<1>8. ASSUME NEW s \in SUBSET (1 .. n), s # {}, fold[s \ {Max(s)}] \in E
      PROVE  fold[s] = step[Max(s)][fold[s \ {Max(s)}]]
  <2>1. Max(s) \in 1 .. n
    BY <1>4, <1>8 DEF FoldTable
  <2>2. fold[s] = ArpNoteOn(fold[s \ {Max(s)}], q[Max(s)])
    BY <1>1, <1>6, <1>8
  <2> QED
    BY <1>3, <1>8, <2>1, <2>2
<1>9. FoldsBy(fold, E, e, n, step)
  BY <1>6, <1>8 DEF FoldsBy
<1>10. PICK at : Through(at, E, e, n, step) /\ at[n] = fold[1 .. n]
  <2>1. n \in Nat /\ step \in [1 .. n -> [E -> E]]
    BY <1>1, <1>3
  <2> HIDE DEF Folds
  <2> QED
    BY <2>1, <1>9, FoldReaches
<1>11. Folded(ArpNoteOns(S, E), E, e, q) = at[n]
  BY <1>2, <1>10, FoldedIs DEF n, step
<1> QED
  BY <1>2, <1>7, <1>10, <1>11

LEMMA OfItsElements ==
    ASSUME NEW T, NEW q \in Seq(T)
    PROVE  q \in Seq(ToSet(q))
<1>1. Len(q) \in Nat /\ q \in [1 .. Len(q) -> T]
  OBVIOUS
<1>2. q \in [1 .. Len(q) -> ToSet(q)]
  BY <1>1 DEF ToSet
<1> QED
  BY <1>1, <1>2

LEMMA AllNoteOn ==
    ASSUME NEW s \in Kept, NEW q \in Seq(Notes), NEW P, NEW A, OwnedBy(s, P, A), ToSet(q) \subseteq P
    PROVE  /\ Plays(s, FoldLeft(PolyNoteOn, s, q))
           /\ OwnedBy(FoldLeft(PolyNoteOn, s, q), P, A)
<1> DEFINE E == {x \in Kept : Plays(s, x) /\ OwnedBy(x, P, A)}
           S == ToSet(q)
<1>1. S \subseteq Notes /\ q \in Seq(S)
  BY Elements, OfItsElements
<1>2. s \in E
  BY PlaysStill
<1>3. ASSUME NEW x \in E, NEW c \in S PROVE PolyNoteOn(x, c) \in E
  <2>1. x \in Kept /\ c \in Notes /\ c \in P /\ Plays(s, x) /\ OwnedBy(x, P, A)
    BY <1>1
  <2>2. Plays(x, PolyNoteOn(x, c)) /\ OwnedBy(PolyNoteOn(x, c), P, A)
    BY <2>1, PolyNoteOnIs, PolyNoteOnOwned
  <2>3. Plays(s, PolyNoteOn(x, c)) /\ PolyNoteOn(x, c) \in Kept
    BY <2>1, <2>2, PlaysOn DEF Plays
  <2> QED
    BY <2>2, <2>3
<1>0. NoteOnStays(S, E)
  BY <1>3 DEF NoteOnStays
<1> HIDE DEF E, S
<1>4. NoteOns(S, E) \in [S -> [E -> E]] /\ FoldLeft(PolyNoteOn, s, q) = Folded(NoteOns(S, E), E, s, q)
  BY <1>0, <1>1, <1>2, NoteOnFolds
<1>5. Folded(NoteOns(S, E), E, s, q) \in E
  BY <1>1, <1>2, <1>4, FoldedTyped
<1> QED
  BY <1>4, <1>5 DEF E

LEMMA AllNoteOff ==
    ASSUME NEW s \in Kept, NEW q \in Seq(Notes), NEW P, NEW A, OwnedBy(s, P, A)
    PROVE  /\ Plays(s, FoldLeft(PolyNoteOff, s, q))
           /\ OwnedBy(FoldLeft(PolyNoteOff, s, q), P \ ToSet(q), A)
<1> DEFINE n == Len(q)
           E == {x \in Kept : Plays(s, x)}
           Seen(i) == {q[j] : j \in 1 .. i}
           G == [i \in 0 .. n |-> {x \in E : OwnedBy(x, P \ Seen(i), A)}]
           h == NoteOffs(Notes, E)
<1>1. n \in Nat /\ DOMAIN q = 1 .. n /\ \A i \in 1 .. n : q[i] \in Notes
  OBVIOUS
<1>2. s \in E
  BY PlaysStill
<1>3. ASSUME NEW x \in E, NEW c \in Notes PROVE PolyNoteOff(x, c) \in E
  <2>1. Plays(x, PolyNoteOff(x, c))
    BY PolyNoteOffIs
  <2>2. Plays(s, PolyNoteOff(x, c)) /\ PolyNoteOff(x, c) \in Kept
    BY <2>1, PlaysOn DEF Plays
  <2> QED
    BY <2>2
<1>0. E \subseteq Kept /\ NoteOffStays(Notes, E)
  BY <1>3 DEF NoteOffStays
<1>4. h \in [Notes -> [E -> E]] /\ FoldLeft(PolyNoteOff, s, q) = Folded(h, E, s, q)
  <2> HIDE DEF E
  <2> QED
    BY <1>0, <1>2, NoteOffFolds
<1>5. LeadsOn(G, h, E, q)
  <2>1. G \in [0 .. n -> SUBSET E]
    OBVIOUS
  <2>2. ASSUME NEW i \in 1 .. n, NEW x \in G[i - 1] PROVE h[q[i]][x] \in G[i]
    <3>1. i \in 0 .. n /\ i - 1 \in 0 .. n /\ q[i] \in Notes
      BY <1>1
    <3>2. x \in E /\ OwnedBy(x, P \ Seen(i - 1), A)
      BY <3>1
    <3>3. Seen(i) = Seen(i - 1) \cup {q[i]}
      <4>1. 1 .. i = (1 .. (i - 1)) \cup {i}
        BY <1>1
      <4> QED
        BY <4>1
    <3> HIDE DEF E, Seen
    <3>4. h[q[i]][x] = PolyNoteOff(x, q[i])
      BY <3>1, <3>2 DEF NoteOffs
    <3> HIDE DEF h
    <3>5. OwnedBy(PolyNoteOff(x, q[i]), (P \ Seen(i - 1)) \ {q[i]}, A)
      <4> DEFINE R == P \ Seen(i - 1)
      <4>1. x \in Kept /\ OwnedBy(x, R, A)
        BY <1>0, <3>2
      <4> HIDE DEF R
      <4>2. OwnedBy(PolyNoteOff(x, q[i]), R \ {q[i]}, A)
        BY <4>1, PolyNoteOffOwned
      <4> QED
        BY <4>2 DEF R
    <3>6. (P \ Seen(i - 1)) \ {q[i]} = P \ Seen(i)
      BY <3>3
    <3>7. PolyNoteOff(x, q[i]) \in E
      BY <1>3, <3>1, <3>2
    <3>8. OwnedBy(h[q[i]][x], P \ Seen(i), A) /\ h[q[i]][x] \in E
      BY <3>4, <3>5, <3>6, <3>7
    <3> QED
      BY <3>1, <3>8
  <2> HIDE DEF h, E, G
  <2> QED
    BY <2>1, <2>2 DEF LeadsOn, n
<1>6. s \in G[0]
  <2>1. Seen(0) = {} /\ 0 \in 0 .. n
    BY <1>1
  <2>2. P \ Seen(0) = P
    BY <2>1
  <2> HIDE DEF E, Seen
  <2> QED
    BY <1>2, <2>1, <2>2
<1>7. Folded(h, E, s, q) \in G[n]
  <2> HIDE DEF h, E, G
  <2> QED
    BY <1>4, <1>5, <1>6, FoldedWithin
<1>8. Seen(n) = ToSet(q)
  BY <1>1 DEF ToSet
<1> QED
  <2> HIDE DEF h, Seen
  <2> QED
    BY <1>1, <1>4, <1>7, <1>8
-----------------------------------------------------------------------------
(* Unison, and what sounds anew.                                           *)

LEMMA GreatestElement ==
    ASSUME NEW T \in SUBSET Nat, NEW q \in Seq(T), q # <<>>
    PROVE  Max(ToSet(q)) \in ToSet(q)
<1> DEFINE n == Len(q)
           Top(i) == \E k \in 1 .. i : \A j \in 1 .. i : q[k] >= q[j]
           R == {i \in Nat : i < n => Top(i + 1)}
<1>1. n \in Nat \ {0} /\ DOMAIN q = 1 .. n /\ \A i \in 1 .. n : q[i] \in Nat
  <2>1. n \in Nat \ {0} /\ DOMAIN q = 1 .. n /\ \A i \in 1 .. n : q[i] \in T
    OBVIOUS
  <2> QED
    BY <2>1
<1>2. 0 \in R
  <2>1. 1 .. 1 = {1}
    OBVIOUS
  <2>2. Top(1)
    BY <1>1, <2>1
  <2> QED
    BY <2>2
<1>3. ASSUME NEW i \in Nat, i \in R PROVE i + 1 \in R
  <2> DEFINE m == i + 1
  <2> SUFFICES ASSUME m < n PROVE Top(m + 1)
    OBVIOUS
  <2>1. i < n /\ m \in Nat /\ m + 1 \in 1 .. n
    BY <1>1
  <2>2. Top(m)
    BY <1>3, <2>1
  <2>3. PICK k \in 1 .. m : \A j \in 1 .. m : q[k] >= q[j]
    BY <2>2
  <2> HIDE DEF m
  <2>4. 1 .. (m + 1) = (1 .. m) \cup {m + 1}
    BY <2>1
  <2>5. /\ k \in 1 .. n /\ q[k] \in Nat /\ q[m + 1] \in Nat
        /\ \A j \in 1 .. m : q[j] \in Nat
    BY <1>1, <2>1
  <2>6. CASE q[k] >= q[m + 1]
    BY <2>3, <2>4, <2>6
  <2>7. CASE q[m + 1] >= q[k]
    <3>1. \A j \in 1 .. (m + 1) : q[m + 1] >= q[j]
      BY <2>3, <2>4, <2>5, <2>7
    <3> QED
      BY <2>4, <3>1
  <2> QED
    BY <2>5, <2>6, <2>7
<1>4. Top(n)
  <2> HIDE DEF Top
  <2>1. \A i \in Nat : i \in R => i + 1 \in R
    BY <1>3
  <2>2. n - 1 \in Nat /\ (n - 1) + 1 = n
    BY <1>1
  <2>3. Nat \subseteq R
    <3> HIDE DEF R
    <3> QED
      BY <1>2, <2>1, Naturals
  <2>4. n - 1 < n /\ n - 1 \in R
    BY <2>2, <2>3, <1>1
  <2>5. Top((n - 1) + 1)
    BY <2>4
  <2> QED
    BY <2>2, <2>5
<1>5. PICK k \in 1 .. n : \A j \in 1 .. n : q[k] >= q[j]
  BY <1>4
<1>6. q[k] \in ToSet(q) /\ \A y \in ToSet(q) : q[k] >= y
  BY <1>1, <1>5 DEF ToSet
<1> QED
  BY <1>6 DEF Max

LEMMA SelectedIs ==
    ASSUME NEW s \in Kept, s.pressed # <<>>
    PROVE  Selected(s) \in Notes
<1>1. s.pressed \in Seq(Notes) /\ s.keyMode.picks \in {"Low", "High", "Last"}
  BY LayerFields DEF KeyModes
<1>2. /\ ToSet(s.pressed) \subseteq Notes /\ ToSet(s.pressed) # {}
      /\ Last(s.pressed) \in ToSet(s.pressed)
  BY <1>1, Elements
<1>3. CASE s.keyMode.picks = "Low"
  <2>1. Min(ToSet(s.pressed)) \in ToSet(s.pressed)
    BY <1>2, MinExists
  <2> QED
    BY <1>2, <1>3, <2>1 DEF Selected
<1>4. CASE s.keyMode.picks = "High"
  <2>1. Notes \in SUBSET Nat
    OBVIOUS
  <2>2. Max(ToSet(s.pressed)) \in ToSet(s.pressed)
    BY <1>1, <2>1, GreatestElement
  <2> QED
    BY <1>2, <1>4, <2>2 DEF Selected
<1>5. CASE s.keyMode.picks = "Last"
  BY <1>2, <1>5 DEF Selected
<1> QED
  BY <1>1, <1>3, <1>4, <1>5

\* What sounds after all voices were let go: the keys, unless the arpeggiator has them.
Anew(t) ==
    t.unison = 0 =>
        /\ OwnedBy(t, IF t.arp.enabled THEN {} ELSE ToSet(t.pressed), {})
        /\ t.sustained # {} => t.sustain

LEMMA OwnedByMore ==
    ASSUME NEW s, NEW P, NEW A, NEW Q, NEW B, OwnedBy(s, P, A), P \subseteq Q, A \subseteq B
    PROVE  OwnedBy(s, Q, B)
BY DEF OwnedBy

LEMMA RebuildIs ==
    ASSUME NEW s \in Kept, NEW t, t = RebuildSoundingNotes(s)
    PROVE  Plays(s, t) /\ Anew(t)
<1> DEFINE u == AllLanesOff(s)
<1>1. Plays(s, u) /\ u.sustained = {} /\ Held(u) = {}
  BY AllLanesOffIs
<1>2. /\ u \in Kept /\ SameControls(s, u)
      /\ s.pressed \in Seq(Notes) /\ s.arp.enabled \in BOOLEAN /\ s.unison \in Nat
  BY <1>1, LayerFields DEF Plays, Arps
<1>3. \A P, A : OwnedBy(u, P, A)
  BY <1>1 DEF OwnedBy
<1> HIDE DEF u
<1>4. CASE s.arp.enabled
  <2>1. t = u
    BY <1>2, <1>4 DEF RebuildSoundingNotes, u
  <2> QED
    BY <1>1, <1>3, <2>1 DEF Anew
<1>5. CASE ~s.arp.enabled /\ s.unison > 0
  <2>1. t = IF s.pressed = <<>> THEN u ELSE UpdateUnisonGroup(u, Selected(s), TRUE)
    BY <1>2, <1>5 DEF RebuildSoundingNotes, u
  <2>2. Plays(u, t)
    <3>1. CASE s.pressed = <<>>
      BY <1>2, <2>1, <3>1, PlaysStill
    <3>2. CASE s.pressed # <<>>
      <4>1. Selected(s) \in Notes
        BY <3>2, SelectedIs
      <4>2. t = UpdateUnisonGroup(u, Selected(s), TRUE)
        BY <2>1, <3>2
      <4> QED
        BY <1>2, <4>1, <4>2, UpdateUnisonGroupIs
    <3> QED
      BY <3>1, <3>2
  <2>3. Plays(s, t)
    BY <1>1, <2>2, PlaysOn
  <2>4. t.unison # 0
    BY <1>2, <1>5, <2>3 DEF Plays, SameControls
  <2> QED
    BY <2>3, <2>4 DEF Anew
<1>6. CASE ~s.arp.enabled /\ s.unison = 0
  <2>1. t = FoldLeft(PolyNoteOn, u, s.pressed)
    BY <1>2, <1>6 DEF RebuildSoundingNotes, u
  <2> DEFINE P == ToSet(s.pressed)
  <2>2. OwnedBy(u, P, {}) /\ ToSet(s.pressed) \subseteq P
    BY <1>3
  <2> HIDE DEF P
  <2>3. Plays(u, t) /\ OwnedBy(t, P, {})
    BY <1>2, <2>1, <2>2, AllNoteOn
  <2>4. Plays(s, t)
    BY <1>1, <2>3, PlaysOn
  <2> QED
    <3>1. t.arp.enabled = s.arp.enabled /\ t.pressed = s.pressed /\ t.sustain = s.sustain
      BY <2>4 DEF Plays, SameControls
    <3>0. t.sustained # {} => t.sustain
      BY <1>1, <1>2, <2>3 DEF Plays, SameControls
    <3>2. OwnedBy(t, IF t.arp.enabled THEN {} ELSE ToSet(t.pressed), {})
      BY <1>6, <2>3, <3>1 DEF P
    <3> QED
      BY <2>4, <3>0, <3>2 DEF Anew
<1> QED
  BY <1>2, <1>4, <1>5, <1>6
-----------------------------------------------------------------------------
(* Who owns the voices.                                                    *)

SameVoices(s, t) ==
    /\ t.lane = s.lane /\ t.held = s.held /\ t.sustained = s.sustained /\ t.owner = s.owner

LEMMA VoicesStay ==
    ASSUME NEW s \in Kept, NEW t \in Layers, SameVoices(s, t)
    PROVE  /\ t \in Kept /\ t.sustained = s.sustained
           /\ \A P, A : OwnedBy(s, P, A) => OwnedBy(t, P, A)
<1>1. Books(s)
  BY DEF Kept
<1>2. Held(t) = Held(s) /\ Sounding(t) = Sounding(s)
  BY DEF Held, Sounding, SameVoices
<1> QED
  BY <1>1, <1>2 DEF Kept, Books, SameVoices, OwnedBy

LEMMA ControlsClaim ==
    ASSUME NEW s, NEW t, SameControls(s, t)
    PROVE  Claims(t) = Claims(s) /\ (PolyActive(t) <=> PolyActive(s)) /\ t.poly = s.poly
BY DEF SameControls, Claims, ToArp, PolyActive

LEMMA OwnedStays ==
    ASSUME NEW s \in Kept, NEW t, NEW d, Plays(s, t), Owned(s, d),
           s.unison = 0 => OwnedBy(t, Claims(s), s.poly.active \cup d)
    PROVE  Owned(t, d)
<1>1. SameControls(s, t) /\ (s.sustain \/ t.sustained \subseteq s.sustained)
  BY DEF Plays
<1>2. t.unison = s.unison /\ t.sustain = s.sustain /\ t.poly = s.poly
  BY <1>1 DEF SameControls
<1>3. Claims(t) = Claims(s) /\ (PolyActive(t) <=> PolyActive(s))
  BY <1>1, ControlsClaim
<1> QED
  BY <1>1, <1>2, <1>3 DEF Owned

LEMMA AnewOwned ==
    ASSUME NEW s, NEW d, Anew(s), PolyActive(s) \/ s.poly.active = {}
    PROVE  Owned(s, d)
<1> SUFFICES ASSUME s.unison = 0
             PROVE  OwnedBy(s, Claims(s), s.poly.active \cup d)
  BY DEF Anew, Owned
<1>1. OwnedBy(s, IF s.arp.enabled THEN {} ELSE ToSet(s.pressed), {})
  BY DEF Anew
<1>2. (IF s.arp.enabled THEN {} ELSE ToSet(s.pressed)) \subseteq Claims(s)
  BY DEF Claims, ToArp
<1> DEFINE P == IF s.arp.enabled THEN {} ELSE ToSet(s.pressed)
           A == {}
           Q == Claims(s)
           B == s.poly.active \cup d
<1>3. OwnedBy(s, P, A) /\ P \subseteq Q /\ A \subseteq B
  BY <1>1, <1>2
<1> HIDE DEF P, A, Q, B
<1>4. OwnedBy(s, Q, B)
  BY <1>3, OwnedByMore
<1> QED
  BY <1>4 DEF Q, B

\* A layer that plays what another one does, owned alike.
LEMMA PlaysOwned ==
    ASSUME NEW s \in Kept, NEW d, Owned(s, d), NEW t, Plays(s, t),
           \A P, A : OwnedBy(s, P, A) => OwnedBy(t, P, A)
    PROVE  Owned(t, d)
<1>1. s.unison = 0 => OwnedBy(t, Claims(s), s.poly.active \cup d)
  BY DEF Owned
<1> QED
  BY <1>1, OwnedStays

LEMMA RebuildOwned ==
    ASSUME NEW s \in Kept, NEW d, PolyActive(s) \/ s.poly.active = {}
    PROVE  Owned(RebuildSoundingNotes(s), d)
<1> DEFINE t == RebuildSoundingNotes(s)
<1>1. Plays(s, t) /\ Anew(t)
  BY RebuildIs
<1> HIDE DEF t
<1>2. (PolyActive(t) <=> PolyActive(s)) /\ t.poly = s.poly
  BY <1>1, ControlsClaim DEF Plays
<1>3. Owned(t, d)
  BY <1>1, <1>2, AnewOwned
<1> QED
  BY <1>3 DEF t

LEMMA ReleaseGatedIs ==
    ASSUME NEW s \in Kept, NEW t, t = ReleaseGatedNotes(s)
    PROVE  Plays(s, t) /\ \A P, A : OwnedBy(s, P, A) => OwnedBy(t, P, A)
<1>0. s \in Layers /\ s.sustain \in BOOLEAN /\ s.pressed \in Seq(Notes) /\ Held(s) \subseteq Voices
  BY LayerFields
<1>1. CASE s.unison > 0
  <2> DEFINE S == Held(s)
  <2>1. t = Released(s, S)
    BY <1>1 DEF ReleaseGatedNotes, ReleaseUnisonGroup
  <2>2. S \in SUBSET Voices
    BY <1>0
  <2> HIDE DEF S
  <2>3. Plays(s, t) /\ Held(t) = Held(s) \ S
    BY <2>1, <2>2, ReleasedIs
  <2> QED
    BY <2>3 DEF S, OwnedBy
<1>2. CASE ~(s.unison > 0)
  <2> DEFINE r == [s EXCEPT !.sustain = FALSE]
             u == FoldLeft(PolyNoteOff, r, s.pressed)
  <2>1. t = [u EXCEPT !.sustain = s.sustain]
    BY <1>2 DEF ReleaseGatedNotes
  <2>2. /\ r \in Layers /\ SameVoices(s, r) /\ r.sustain = FALSE
        /\ SameControls([s EXCEPT !.sustain = FALSE], r)
    BY <1>0 DEF Layers, SameVoices, SameControls
  <2>3. /\ r.pressed = s.pressed /\ r.unison = s.unison /\ r.keyMode = s.keyMode
        /\ r.arp = s.arp /\ r.poly = s.poly /\ r.gate = s.gate
    BY <1>0 DEF Layers
  <2> HIDE DEF r
  <2>4. /\ r \in Kept /\ r.sustained = s.sustained
        /\ \A P, A : OwnedBy(s, P, A) => OwnedBy(r, P, A)
    BY <2>2, VoicesStay
  <2>5. Plays(r, u)
    <3>1. OwnedBy(r, {ActiveNote(r.lane[v]) : v \in Voices}, {r.owner[v] : v \in Voices})
      <4>1. Held(r) \subseteq Voices
        BY <2>4, LayerFields
      <4> QED
        BY <4>1 DEF OwnedBy
    <3> DEFINE P == {ActiveNote(r.lane[v]) : v \in Voices}
               A == {r.owner[v] : v \in Voices}
    <3>2. OwnedBy(r, P, A)
      BY <3>1
    <3> HIDE DEF P, A
    <3> QED
      BY <1>0, <2>4, <3>2, AllNoteOff
  <2>6. ASSUME NEW P, NEW A, OwnedBy(s, P, A) PROVE OwnedBy(u, P, A)
    <3>1. OwnedBy(r, P, A)
      BY <2>4, <2>6
    <3>2. OwnedBy(u, P \ ToSet(s.pressed), A)
      BY <1>0, <2>4, <3>1, AllNoteOff
    <3> QED
      BY <3>2 DEF OwnedBy
  <2> HIDE DEF u
  <2>7. /\ u \in Kept /\ u \in Layers /\ SameControls(r, u) /\ u.sustained \subseteq r.sustained
    BY <2>2, <2>5 DEF Plays, Kept
  <2>8. t \in Layers /\ SameVoices(u, t) /\ SameControls(s, t)
    <3>1. /\ u.pressed = s.pressed /\ u.unison = s.unison /\ u.keyMode = s.keyMode
          /\ u.arp = s.arp /\ u.poly = s.poly /\ u.gate = s.gate
      BY <2>3, <2>7 DEF SameControls
    <3> QED
      BY <1>0, <2>1, <2>7, <3>1 DEF Layers, SameVoices, SameControls
  <2>9. /\ t \in Kept /\ t.sustained = u.sustained
        /\ \A P, A : OwnedBy(u, P, A) => OwnedBy(t, P, A)
    BY <2>7, <2>8, VoicesStay
  <2> QED
    BY <2>4, <2>6, <2>7, <2>8, <2>9 DEF Plays
<1> QED
  BY <1>1, <1>2

LEMMA GatedEventIs ==
    ASSUME NEW s \in Kept, NEW open, NEW r, NEW t, t = GatedEvent(s, open, r)
    PROVE  Plays(s, t) /\ \A d : Owned(s, d) => Owned(t, d)
<1>1. CASE EnvelopeGating(s) /\ open /\ r
  <2>1. t = RebuildSoundingNotes(s)
    BY <1>1 DEF GatedEvent
  <2>2. Plays(s, t)
    BY <2>1, RebuildIs
  <2>3. ASSUME NEW d, Owned(s, d) PROVE Owned(t, d)
    BY <2>1, <2>3, RebuildOwned DEF Owned
  <2> QED
    BY <2>2, <2>3
<1>2. CASE EnvelopeGating(s) /\ ~open
  <2>1. t = ReleaseGatedNotes(s)
    BY <1>2 DEF GatedEvent
  <2>2. Plays(s, t) /\ \A P, A : OwnedBy(s, P, A) => OwnedBy(t, P, A)
    BY <2>1, ReleaseGatedIs
  <2>3. ASSUME NEW d, Owned(s, d) PROVE Owned(t, d)
    <3>1. s.unison = 0 => OwnedBy(t, Claims(s), s.poly.active \cup d)
      BY <2>2, <2>3 DEF Owned
    <3> QED
      BY <2>2, <2>3, <3>1, OwnedStays
  <2> QED
    BY <2>2, <2>3
<1>3. CASE ~(EnvelopeGating(s) /\ open /\ r) /\ ~(EnvelopeGating(s) /\ ~open)
  <2>1. t = s
    BY <1>3 DEF GatedEvent
  <2> QED
    BY <2>1, PlaysStill
<1> QED
  BY <1>1, <1>2, <1>3
-----------------------------------------------------------------------------
(* The arpeggiator.                                                        *)

\* b goes on like a, with no other notes than those of K besides.
ArpKeeps(a, b, K) ==
    /\ b \in Arps /\ b.enabled = a.enabled /\ b.mode = a.mode /\ b.current = a.current
    /\ b.held \cup b.pending \subseteq (a.held \cup a.pending) \cup K

LEMMA ArpRebuiltIs ==
    ASSUME NEW a \in Arps
    PROVE  /\ ArpRebuilt(a) \in Arps /\ ArpKeeps(a, ArpRebuilt(a), {})
           /\ ArpRebuilt(a).held = a.held /\ ArpRebuilt(a).pending = a.pending
BY DEF ArpRebuilt, Arps, ArpKeeps

LEMMA ArpNoteOnIs ==
    ASSUME NEW a \in Arps, NEW n \in Notes
    PROVE  ArpNoteOn(a, n) \in Arps /\ ArpKeeps(a, ArpNoteOn(a, n), {n})
<1> DEFINE kept == IF a.relatch /\ ~a.hold THEN {} ELSE a.held
           b == [a EXCEPT !.held = kept, !.pending = @ \cup {n}]
           c == [a EXCEPT !.held = kept \cup {n}]
<1>1. kept \subseteq a.held /\ a.held \subseteq Notes /\ a.pending \subseteq Notes
  BY DEF Arps
<1>2. ArpNoteOn(a, n) = IF a.beatSync /\ a.current # None THEN b ELSE ArpRebuilt(c)
  BY DEF ArpNoteOn
<1> HIDE DEF kept
<1>3. b \in Arps /\ ArpKeeps(a, b, {n})
  BY <1>1 DEF Arps, ArpKeeps
<1>4. c \in Arps /\ ArpKeeps(a, c, {n})
  BY <1>1 DEF Arps, ArpKeeps
<1> HIDE DEF b, c
<1>5. ArpKeeps(c, ArpRebuilt(c), {})
  BY <1>4, ArpRebuiltIs
<1>6. ArpKeeps(a, ArpRebuilt(c), {n})
  BY <1>4, <1>5 DEF ArpKeeps
<1> QED
  BY <1>2, <1>3, <1>6 DEF ArpKeeps

LEMMA ArpNoteOffIs ==
    ASSUME NEW a \in Arps, NEW n \in Notes
    PROVE  /\ ArpNoteOff(a, n) \in Arps /\ ArpKeeps(a, ArpNoteOff(a, n), {})
           /\ ArpHolds(a) \/ n \notin ArpNoteOff(a, n).held \cup ArpNoteOff(a, n).pending
<1> DEFINE b == [a EXCEPT !.pending = @ \ {n}]
           c == [b EXCEPT !.held = @ \ {n}]
<1>1. ArpNoteOff(a, n) = IF ArpHolds(a) THEN b ELSE ArpRebuilt(c)
  BY DEF ArpNoteOff
<1>2. b \in Arps /\ ArpKeeps(a, b, {})
  BY DEF Arps, ArpKeeps
<1>3. c \in Arps /\ ArpKeeps(a, c, {}) /\ n \notin c.held \cup c.pending
  BY DEF Arps, ArpKeeps
<1> HIDE DEF b, c
<1>4. /\ ArpKeeps(c, ArpRebuilt(c), {})
      /\ ArpRebuilt(c).held = c.held /\ ArpRebuilt(c).pending = c.pending
  BY <1>3, ArpRebuiltIs
<1>5. ArpKeeps(a, ArpRebuilt(c), {})
  BY <1>3, <1>4 DEF ArpKeeps
<1> QED
  BY <1>1, <1>2, <1>3, <1>4, <1>5 DEF ArpKeeps

LEMMA ArpAllNotesOffIs ==
    ASSUME NEW a \in Arps, NEW b, b = ArpAllNotesOff(a)
    PROVE  /\ b \in Arps /\ b.enabled = a.enabled /\ b.mode = a.mode
           /\ b.held = {} /\ b.pending = {} /\ b.current = None
BY DEF ArpAllNotesOff, Arps

LEMMA ArpPedalIs ==
    ASSUME NEW a \in Arps, NEW down \in BOOLEAN
    PROVE  ArpPedal(a, down) \in Arps /\ ArpKeeps(a, ArpPedal(a, down), {})
<1> DEFINE b == [a EXCEPT !.pedal = down]
           c == [b EXCEPT !.hold = FALSE]
           d == [b EXCEPT !.hold = TRUE]
           e == [b EXCEPT !.held = {}]
<1>1. /\ b \in Arps /\ ArpKeeps(a, b, {}) /\ c \in Arps /\ ArpKeeps(a, c, {})
      /\ d \in Arps /\ ArpKeeps(a, d, {})
  BY DEF Arps, ArpKeeps
<1>2. e \in Arps /\ ArpKeeps(a, e, {})
  BY DEF Arps, ArpKeeps
<1>3. ArpPedal(a, down) \in {b, d, ArpRebuilt(c), ArpRebuilt(e)}
  <2>1. CASE a.mode = "ArpHold" /\ down /\ ~a.pedal
    <3>1. ArpPedal(a, down) = IF a.hold THEN ArpRebuilt(c) ELSE d
      BY <2>1 DEF ArpPedal
    <3> QED
      BY <3>1
  <2>2. CASE a.mode = "ArpHoldMom" /\ ~down /\ ~a.hold
    <3>1. ArpPedal(a, down) = ArpRebuilt(e)
      BY <2>2 DEF ArpPedal
    <3> QED
      BY <3>1
  <2>3. CASE a.mode = "Sustain" /\ down /\ ~a.pedal
    <3>1. ArpPedal(a, down) = d
      BY <2>3 DEF ArpPedal
    <3> QED
      BY <3>1
  <2>4. CASE a.mode = "Sustain" /\ ~down /\ a.pedal
    <3>1. ArpPedal(a, down) = ArpRebuilt(c)
      BY <2>4 DEF ArpPedal
    <3> QED
      BY <3>1
  <2>5. CASE /\ ~(a.mode = "ArpHold" /\ down /\ ~a.pedal)
             /\ ~(a.mode = "ArpHoldMom" /\ ~down /\ ~a.hold)
             /\ ~(a.mode = "Sustain" /\ down /\ ~a.pedal)
             /\ ~(a.mode = "Sustain" /\ ~down /\ a.pedal)
    <3>1. ArpPedal(a, down) = b
      BY <2>5 DEF ArpPedal
    <3> QED
      BY <3>1
  <2> HIDE DEF b, c, d, e
  <2> QED
    BY <2>1, <2>2, <2>3, <2>4, <2>5
<1> HIDE DEF b, c, d, e
<1>4. ArpKeeps(c, ArpRebuilt(c), {}) /\ ArpKeeps(e, ArpRebuilt(e), {})
  BY <1>1, <1>2, ArpRebuiltIs
<1>5. ArpKeeps(a, ArpRebuilt(c), {}) /\ ArpKeeps(a, ArpRebuilt(e), {})
  BY <1>1, <1>2, <1>4 DEF ArpKeeps
<1>6. ArpKeeps(a, ArpPedal(a, down), {})
  BY <1>1, <1>3, <1>5
<1> QED
  BY <1>6 DEF ArpKeeps

LEMMA SetEnabledIs ==
    ASSUME NEW a \in Arps, NEW on \in BOOLEAN, NEW b, b = SetEnabled(a, on)
    PROVE  /\ b \in Arps /\ b.enabled = on /\ b.mode = a.mode
           /\ b.held \cup b.pending \subseteq a.held \cup a.pending
<1>1. CASE a.enabled = on
  <2>1. b = a
    BY <1>1 DEF SetEnabled
  <2> QED
    BY <1>1, <2>1
<1>2. CASE a.enabled /\ ~on
  <2> DEFINE c == [a EXCEPT !.enabled = FALSE]
  <2>1. b = ArpAllNotesOff(c)
    BY <1>2 DEF SetEnabled
  <2>2. c \in Arps /\ c.mode = a.mode /\ c.enabled = FALSE
    BY DEF Arps
  <2> HIDE DEF c
  <2> QED
    BY <1>2, <2>1, <2>2, ArpAllNotesOffIs
<1>3. CASE ~a.enabled /\ on
  <2> DEFINE c == [a EXCEPT !.enabled = TRUE]
  <2>1. b = ArpRebuilt(c)
    BY <1>3 DEF SetEnabled
  <2>2. /\ c \in Arps /\ c.mode = a.mode /\ c.enabled = TRUE
        /\ c.held = a.held /\ c.pending = a.pending
    BY DEF Arps
  <2> HIDE DEF c
  <2>3. ArpKeeps(c, b, {})
    BY <2>1, <2>2, ArpRebuiltIs
  <2> QED
    BY <1>3, <2>2, <2>3 DEF ArpKeeps
<1>4. a.enabled \in BOOLEAN
  BY DEF Arps
<1> QED
  BY <1>1, <1>2, <1>3, <1>4

LEMMA AllArpNoteOn ==
    ASSUME NEW a \in Arps, NEW q \in Seq(Notes)
    PROVE  ArpKeeps(a, FoldLeft(ArpNoteOn, a, q), ToSet(q))
<1> DEFINE S == ToSet(q)
           E == {b \in Arps : ArpKeeps(a, b, S)}
<1>1. S \subseteq Notes /\ q \in Seq(S)
  BY Elements, OfItsElements
<1>2. a \in E
  BY DEF ArpKeeps
<1>3. ASSUME NEW b \in E, NEW n \in S PROVE ArpNoteOn(b, n) \in E
  <2>1. b \in Arps /\ n \in Notes /\ ArpKeeps(a, b, S)
    BY <1>1
  <2>2. ArpNoteOn(b, n) \in Arps /\ ArpKeeps(b, ArpNoteOn(b, n), {n})
    BY <2>1, ArpNoteOnIs
  <2>3. ArpKeeps(a, ArpNoteOn(b, n), S)
    BY <2>1, <2>2 DEF ArpKeeps
  <2> QED
    BY <2>2, <2>3
<1>4. ArpNoteOnStays(S, E)
  BY <1>3 DEF ArpNoteOnStays
<1>5. E \subseteq {b : b \in E} /\ \A b \in E : ArpKeeps(a, b, S)
  OBVIOUS
<1> HIDE DEF E, S
<1>6. /\ ArpNoteOns(S, E) \in [S -> [E -> E]]
      /\ FoldLeft(ArpNoteOn, a, q) = Folded(ArpNoteOns(S, E), E, a, q)
  BY <1>1, <1>2, <1>4, ArpNoteOnFolds
<1>7. Folded(ArpNoteOns(S, E), E, a, q) \in E
  BY <1>1, <1>2, <1>6, FoldedTyped
<1> QED
  BY <1>5, <1>6, <1>7 DEF S
-----------------------------------------------------------------------------
(* Routing between keys, arpeggiator and sequencer.                        *)

\* t is s with its keys routed anew.
Reroutes(s, t) ==
    /\ t \in Kept
    /\ t.sustain = s.sustain /\ t.pressed = s.pressed /\ t.unison = s.unison
    /\ t.keyMode = s.keyMode /\ t.poly = s.poly /\ t.gate = s.gate
    /\ t.arp.enabled = s.arp.enabled /\ t.arp.mode = s.arp.mode
    /\ t.arp.held \cup t.arp.pending \subseteq (s.arp.held \cup s.arp.pending) \cup ToSet(s.pressed)
    /\ s.sustain \/ t.sustained \subseteq s.sustained

LEMMA PlaysReroutes ==
    ASSUME NEW s, NEW t, Plays(s, t)
    PROVE  Reroutes(s, t)
BY DEF Plays, SameControls, Reroutes

\* The same layer with another arpeggiator.
LEMMA ArpReplaced ==
    ASSUME NEW s \in Kept, NEW a \in Arps, NEW t, t = [s EXCEPT !.arp = a]
    PROVE  /\ t \in Kept /\ t.sustained = s.sustained /\ t.arp = a
           /\ t.sustain = s.sustain /\ t.pressed = s.pressed /\ t.unison = s.unison
           /\ t.keyMode = s.keyMode /\ t.poly = s.poly /\ t.gate = s.gate
           /\ \A P, A : OwnedBy(s, P, A) => OwnedBy(t, P, A)
<1>0. s \in Layers
  BY DEF Kept
<1>1. /\ t \in Layers /\ SameVoices(s, t) /\ t.arp = a
      /\ t.sustain = s.sustain /\ t.pressed = s.pressed /\ t.unison = s.unison
      /\ t.keyMode = s.keyMode /\ t.poly = s.poly /\ t.gate = s.gate
  BY <1>0 DEF Layers, SameVoices
<1> QED
  BY <1>1, VoicesStay

\* Keys to the sequencer's side: what the arpeggiator left is released.
LEMMA EnterPolyRoutingIs ==
    ASSUME NEW s \in Kept, NEW t, t = EnterPolyRouting(s)
    PROVE  /\ Reroutes(s, t)
           /\ \A A : OwnedBy(s, IF s.arp.enabled THEN ToSet(s.pressed) \cup {s.arp.current}
                                ELSE ToSet(s.pressed), A)
                        => OwnedBy(t, ToSet(s.pressed), A)
<1>0. s.arp \in Arps /\ s.pressed \in Seq(Notes)
  BY LayerFields
<1>1. CASE ~s.arp.enabled
  <2>1. t = s
    BY <1>1 DEF EnterPolyRouting
  <2> QED
    BY <1>1, <2>1, PlaysStill, PlaysReroutes
<1>2. CASE s.arp.enabled
  <2> DEFINE K == ToSet(s.pressed)
             c == s.arp.current
             r == IF c = None THEN s ELSE PolyNoteOff(s, c)
             a == ArpAllNotesOff(r.arp)
             u == [r EXCEPT !.arp = a]
  <2>1. t = FoldLeft(PolyNoteOn, u, s.pressed)
    BY <1>2 DEF EnterPolyRouting
  <2>2. Plays(s, r)
    BY PlaysStill, PolyNoteOffIs
  <2>3. ASSUME NEW A, OwnedBy(s, K \cup {c}, A) PROVE OwnedBy(r, K, A)
    <3>1. CASE c = None
      <4>1. \A v \in Held(s) : v \in Voices /\ v \in Sounding(s)
        BY LayerFields
      <4>2. \A v \in Held(s) : ActiveNote(s.lane[v]) # None
        BY <4>1 DEF Sounding
      <4>3. OwnedBy(s, K, A)
        BY <2>3, <3>1, <4>2 DEF OwnedBy
      <4> QED
        BY <3>1, <4>3
    <3>2. CASE c # None
      <4> DEFINE P == K \cup {c}
      <4>1. OwnedBy(s, P, A)
        BY <2>3
      <4> HIDE DEF P
      <4>2. OwnedBy(PolyNoteOff(s, c), P \ {c}, A)
        BY <4>1, PolyNoteOffOwned
      <4> QED
        BY <3>2, <4>2 DEF P, OwnedBy
    <3> QED
      BY <3>1, <3>2
  <2> HIDE DEF r
  <2>4. r \in Kept /\ r.arp = s.arp /\ r.pressed = s.pressed
    BY <2>2 DEF Plays, SameControls
  <2>5. /\ a \in Arps /\ a.enabled = s.arp.enabled /\ a.mode = s.arp.mode
        /\ a.held = {} /\ a.pending = {}
    BY <1>0, <2>4, ArpAllNotesOffIs
  <2> HIDE DEF a
  <2>6. /\ u \in Kept /\ u.sustained = r.sustained /\ u.arp = a
        /\ u.sustain = r.sustain /\ u.pressed = r.pressed /\ u.unison = r.unison
        /\ u.keyMode = r.keyMode /\ u.poly = r.poly /\ u.gate = r.gate
        /\ \A P, A : OwnedBy(r, P, A) => OwnedBy(u, P, A)
    BY <2>4, <2>5, ArpReplaced
  <2> HIDE DEF u
  <2>7. Plays(u, t)
    <3> DEFINE P == K \cup {ActiveNote(u.lane[v]) : v \in Voices}
               A == {u.owner[v] : v \in Voices}
    <3>1. OwnedBy(u, P, A) /\ ToSet(s.pressed) \subseteq P
      <4>1. Held(u) \subseteq Voices
        BY <2>6, LayerFields
      <4> QED
        BY <4>1 DEF OwnedBy
    <3> HIDE DEF P, A
    <3> QED
      BY <1>0, <2>1, <2>6, <3>1, AllNoteOn
  <2>8. ASSUME NEW A, OwnedBy(s, K \cup {c}, A) PROVE OwnedBy(t, K, A)
    <3>1. OwnedBy(u, K, A) /\ ToSet(s.pressed) \subseteq K
      BY <2>3, <2>6, <2>8
    <3> HIDE DEF K
    <3> QED
      BY <1>0, <2>1, <2>6, <3>1, AllNoteOn
  <2>9. Reroutes(s, t)
    BY <2>2, <2>5, <2>6, <2>7 DEF Plays, SameControls, Reroutes
  <2> QED
    BY <1>2, <2>8, <2>9
<1> QED
  BY <1>1, <1>2

\* Keys to the arpeggiator: what they have sounding is released.
LEMMA RestoreArpRoutingIs ==
    ASSUME NEW s \in Kept, NEW t, t = RestoreArpRouting(s)
    PROVE  /\ Reroutes(s, t)
           /\ \A A : OwnedBy(s, ToSet(s.pressed), A)
                        => OwnedBy(t, IF s.arp.enabled THEN {} ELSE ToSet(s.pressed), A)
<1>0. s.arp \in Arps /\ s.pressed \in Seq(Notes)
  BY LayerFields
<1>1. CASE ~s.arp.enabled
  <2>1. t = s
    BY <1>1 DEF RestoreArpRouting
  <2> QED
    BY <1>1, <2>1, PlaysStill, PlaysReroutes
<1>2. CASE s.arp.enabled
  <2> DEFINE K == ToSet(s.pressed)
             u == FoldLeft(PolyNoteOff, s, s.pressed)
             b == ArpAllNotesOff(u.arp)
             a == FoldLeft(ArpNoteOn, b, s.pressed)
  <2>1. t = [u EXCEPT !.arp = a]
    BY <1>2 DEF RestoreArpRouting
  <2>2. Plays(s, u)
    <3> DEFINE P == {ActiveNote(s.lane[v]) : v \in Voices}
               A == {s.owner[v] : v \in Voices}
    <3>1. OwnedBy(s, P, A)
      BY LayerFields DEF OwnedBy
    <3> HIDE DEF P, A
    <3> QED
      BY <1>0, <3>1, AllNoteOff
  <2>3. ASSUME NEW A, OwnedBy(s, K, A) PROVE OwnedBy(u, {}, A)
    <3>1. OwnedBy(u, K \ ToSet(s.pressed), A)
      <4> HIDE DEF K
      <4> QED
        BY <1>0, <2>3, AllNoteOff
    <3>2. K \ ToSet(s.pressed) = {}
      OBVIOUS
    <3> QED
      BY <3>1, <3>2 DEF OwnedBy
  <2> HIDE DEF u
  <2>4. u \in Kept /\ u.arp = s.arp
    BY <2>2 DEF Plays, SameControls
  <2>5. /\ b \in Arps /\ b.enabled = s.arp.enabled /\ b.mode = s.arp.mode
        /\ b.held = {} /\ b.pending = {}
    BY <1>0, <2>4, ArpAllNotesOffIs
  <2> HIDE DEF b
  <2>6. ArpKeeps(b, a, K)
    BY <1>0, <2>5, AllArpNoteOn
  <2> HIDE DEF a
  <2>7. /\ t \in Kept /\ t.sustained = u.sustained /\ t.arp = a
        /\ t.sustain = u.sustain /\ t.pressed = u.pressed /\ t.unison = u.unison
        /\ t.keyMode = u.keyMode /\ t.poly = u.poly /\ t.gate = u.gate
        /\ \A P, A : OwnedBy(u, P, A) => OwnedBy(t, P, A)
    BY <2>1, <2>4, <2>6, ArpReplaced DEF ArpKeeps
  <2>8. Reroutes(s, t)
    BY <2>2, <2>5, <2>6, <2>7 DEF Plays, SameControls, ArpKeeps, Reroutes
  <2> QED
    BY <1>2, <2>3, <2>7, <2>8
<1> QED
  BY <1>1, <1>2

\* Whoever the keys went to before, what sounds afterwards is claimed by whom they go to.
\* was: whether the sequencer ran before.
ClaimsBefore(s, was) ==
    IF s.arp.enabled /\ ~was THEN {s.arp.current} ELSE ToSet(s.pressed)
LEMMA RoutingTransitionIs ==
    ASSUME NEW s \in Kept, NEW was \in BOOLEAN, NEW t, t = RoutingTransition(s, was)
    PROVE  /\ Reroutes(s, t)
           /\ \A A : OwnedBy(s, ClaimsBefore(s, was), A) => OwnedBy(t, Claims(t), A)
<1>1. CASE was /\ ~PolyActive(s)
  <2>1. t = RestoreArpRouting(s)
    BY <1>1 DEF RoutingTransition
  <2>2. /\ Reroutes(s, t)
        /\ \A A : OwnedBy(s, ToSet(s.pressed), A)
                      => OwnedBy(t, IF s.arp.enabled THEN {} ELSE ToSet(s.pressed), A)
    BY <2>1, RestoreArpRoutingIs
  <2>3. Claims(t) = IF s.arp.enabled THEN {t.arp.current} ELSE ToSet(s.pressed)
    BY <1>1, <2>2 DEF Reroutes, Claims, ToArp, PolyActive
  <2>4. ASSUME NEW A, OwnedBy(s, ClaimsBefore(s, was), A) PROVE OwnedBy(t, Claims(t), A)
    <3>1. OwnedBy(s, ToSet(s.pressed), A)
      BY <1>1, <2>4 DEF ClaimsBefore
    <3>2. OwnedBy(t, IF s.arp.enabled THEN {} ELSE ToSet(s.pressed), A)
      BY <2>2, <3>1
    <3> QED
      BY <2>3, <3>2 DEF OwnedBy
  <2> QED
    BY <2>2, <2>4
<1>2. CASE ~was /\ PolyActive(s)
  <2>1. t = EnterPolyRouting(s)
    BY <1>2 DEF RoutingTransition
  <2>2. /\ Reroutes(s, t)
        /\ \A A : OwnedBy(s, IF s.arp.enabled THEN ToSet(s.pressed) \cup {s.arp.current}
                             ELSE ToSet(s.pressed), A)
                     => OwnedBy(t, ToSet(s.pressed), A)
    BY <2>1, EnterPolyRoutingIs
  <2>3. Claims(t) = ToSet(s.pressed)
    BY <1>2, <2>2 DEF Reroutes, Claims, ToArp, PolyActive
  <2>4. ASSUME NEW A, OwnedBy(s, ClaimsBefore(s, was), A) PROVE OwnedBy(t, Claims(t), A)
    <3>1. OwnedBy(s, IF s.arp.enabled THEN ToSet(s.pressed) \cup {s.arp.current}
                     ELSE ToSet(s.pressed), A)
      BY <1>2, <2>4 DEF ClaimsBefore, OwnedBy
    <3> QED
      BY <2>2, <2>3, <3>1
  <2> QED
    BY <2>2, <2>4
<1>3. CASE was <=> PolyActive(s)
  <2>1. t = s
    BY <1>3 DEF RoutingTransition
  <2>2. ClaimsBefore(s, was) = Claims(s)
    BY <1>3 DEF ClaimsBefore, Claims, ToArp
  <2> QED
    BY <2>1, <2>2, PlaysStill, PlaysReroutes
<1> QED
  BY <1>1, <1>2, <1>3
-----------------------------------------------------------------------------
(* Keys.                                                                   *)

LEMMA PressIs ==
    ASSUME NEW T, NEW q \in Seq(T), NEW n \in T
    PROVE  Press(q, n) \in Seq(T) /\ ToSet(Press(q, n)) = ToSet(q) \cup {n} /\ Press(q, n) # <<>>
<1> DEFINE r == Without(q, {n})
<1>1. r \in Seq(T) /\ ToSet(r) = ToSet(q) \ {n}
  BY WithoutIs
<1>2. Press(q, n) = Append(r, n)
  BY DEF Press
<1> HIDE DEF r
<1>3. Append(r, n) \in Seq(T) /\ ToSet(Append(r, n)) = ToSet(r) \cup {n} /\ Append(r, n) # <<>>
  BY <1>1, ElementsAppend
<1> QED
  BY <1>1, <1>2, <1>3

\* The same layer with other keys down.
LEMMA PressedReplaced ==
    ASSUME NEW s \in Kept, NEW q \in Seq(Notes), NEW t, t = [s EXCEPT !.pressed = q]
    PROVE  /\ t \in Kept /\ t.sustained = s.sustained /\ t.pressed = q
           /\ t.sustain = s.sustain /\ t.unison = s.unison /\ t.keyMode = s.keyMode
           /\ t.arp = s.arp /\ t.poly = s.poly /\ t.gate = s.gate
           /\ \A P, A : OwnedBy(s, P, A) => OwnedBy(t, P, A)
<1>0. s \in Layers
  BY DEF Kept
<1>1. /\ t \in Layers /\ SameVoices(s, t) /\ t.pressed = q
      /\ t.sustain = s.sustain /\ t.unison = s.unison /\ t.keyMode = s.keyMode
      /\ t.arp = s.arp /\ t.poly = s.poly /\ t.gate = s.gate
  BY <1>0 DEF Layers, SameVoices
<1> QED
  BY <1>1, VoicesStay

LEMMA GateReplaced ==
    ASSUME NEW s \in Kept, NEW g \in GateStates, NEW t, t = [s EXCEPT !.gate = g]
    PROVE  /\ t \in Kept /\ t.sustained = s.sustained /\ t.pressed = s.pressed
           /\ t.sustain = s.sustain /\ t.unison = s.unison /\ t.keyMode = s.keyMode
           /\ t.arp = s.arp /\ t.poly = s.poly /\ t.gate = g
           /\ \A d : Owned(s, d) => Owned(t, d)
<1>0. s \in Layers
  BY DEF Kept
<1>1. /\ t \in Layers /\ SameVoices(s, t) /\ t.pressed = s.pressed
      /\ t.sustain = s.sustain /\ t.unison = s.unison /\ t.keyMode = s.keyMode
      /\ t.arp = s.arp /\ t.poly = s.poly /\ t.gate = g
  BY <1>0 DEF Layers, SameVoices
<1>2. /\ t \in Kept /\ t.sustained = s.sustained
      /\ \A P, A : OwnedBy(s, P, A) => OwnedBy(t, P, A)
  BY <1>1, VoicesStay
<1>3. Claims(t) = Claims(s) /\ (PolyActive(t) <=> PolyActive(s))
  BY <1>1 DEF Claims, ToArp, PolyActive
<1>4. \A d : Owned(s, d) => Owned(t, d)
  BY <1>1, <1>2, <1>3 DEF Owned
<1> QED
  BY <1>1, <1>2, <1>4

LEMMA VoiceNoteOnIs ==
    ASSUME NEW s \in Kept, NEW n \in Notes, NEW t, t = VoiceNoteOn(s, n)
    PROVE  /\ t \in Kept /\ t.sustain = s.sustain
           /\ ToSet(t.pressed) = ToSet(s.pressed) \cup {n}
           /\ t.poly = s.poly /\ t.gate = s.gate /\ ArpKeeps(s.arp, t.arp, {n})
           /\ \A d : Owned(s, d) => Owned(t, d)
<1>0. s.arp \in Arps /\ s.pressed \in Seq(Notes) /\ s.unison \in Nat
  BY LayerFields
<1> DEFINE q == Press(s.pressed, n)
           u == [s EXCEPT !.pressed = q]
<1>1. q \in Seq(Notes) /\ ToSet(q) = ToSet(s.pressed) \cup {n} /\ q # <<>>
  BY <1>0, PressIs
<1> HIDE DEF q
<1>2. /\ u \in Kept /\ u.sustained = s.sustained /\ u.pressed = q
      /\ u.sustain = s.sustain /\ u.unison = s.unison /\ u.keyMode = s.keyMode
      /\ u.arp = s.arp /\ u.poly = s.poly /\ u.gate = s.gate
      /\ \A P, A : OwnedBy(s, P, A) => OwnedBy(u, P, A)
  BY <1>1, PressedReplaced
<1>3. CASE ToArp(s)
  <2> DEFINE a == ArpNoteOn(s.arp, n)
  <2>1. t = [u EXCEPT !.arp = a]
    BY <1>2, <1>3 DEF VoiceNoteOn, q
  <2>2. a \in Arps /\ ArpKeeps(s.arp, a, {n})
    BY <1>0, ArpNoteOnIs
  <2> HIDE DEF u, a
  <2>3. /\ t \in Kept /\ t.sustained = u.sustained /\ t.arp = a
        /\ t.sustain = u.sustain /\ t.pressed = u.pressed /\ t.unison = u.unison
        /\ t.keyMode = u.keyMode /\ t.poly = u.poly /\ t.gate = u.gate
        /\ \A P, A : OwnedBy(u, P, A) => OwnedBy(t, P, A)
    BY <1>2, <2>1, <2>2, ArpReplaced
  <2>4. Claims(t) = Claims(s) /\ (PolyActive(t) <=> PolyActive(s))
    BY <1>2, <1>3, <2>2, <2>3 DEF Claims, ToArp, PolyActive, ArpKeeps
  <2>5. ASSUME NEW d, Owned(s, d) PROVE Owned(t, d)
    BY <1>2, <2>3, <2>4, <2>5 DEF Owned
  <2> QED
    BY <1>1, <1>2, <2>2, <2>3, <2>5
<1>4. ArpKeeps(s.arp, s.arp, {n})
  BY <1>0 DEF ArpKeeps
<1>5. CASE ~ToArp(s) /\ s.unison = 0
  <2>1. t = PolyNoteOn(u, n)
    BY <1>5 DEF VoiceNoteOn, q
  <2> HIDE DEF u
  <2>2. Plays(u, t)
    BY <1>2, <2>1, PolyNoteOnIs
  <2>3. /\ t \in Kept /\ t.sustain = s.sustain /\ t.pressed = q /\ t.arp = s.arp
        /\ t.poly = s.poly /\ t.gate = s.gate /\ t.unison = s.unison
        /\ s.sustain \/ t.sustained \subseteq s.sustained
    BY <1>2, <2>2 DEF Plays, SameControls
  <2>4. Claims(s) = ToSet(s.pressed) /\ Claims(t) = ToSet(q) /\ (PolyActive(t) <=> PolyActive(s))
    BY <1>5, <2>3 DEF Claims, ToArp, PolyActive
  <2>5. ASSUME NEW d, Owned(s, d) PROVE Owned(t, d)
    <3> DEFINE P == ToSet(q)
               A == s.poly.active \cup d
    <3>1. OwnedBy(u, ToSet(s.pressed), A)
      BY <1>2, <1>5, <2>4, <2>5 DEF Owned
    <3>2. OwnedBy(u, P, A) /\ n \in P
      BY <1>1, <3>1 DEF OwnedBy
    <3> HIDE DEF P, A
    <3>3. OwnedBy(t, P, A)
      BY <1>2, <2>1, <3>2, PolyNoteOnOwned
    <3> QED
      BY <1>5, <2>3, <2>4, <2>5, <3>3 DEF Owned, P, A
  <2> QED
    BY <1>1, <1>4, <2>3, <2>5
<1>6. CASE ~ToArp(s) /\ s.unison # 0
  <2> DEFINE r == s.pressed = <<>> \/ s.keyMode.retriggers
  <2>1. t = UpdateUnisonGroup(u, Selected(u), r)
    BY <1>6 DEF VoiceNoteOn, q
  <2> HIDE DEF u, r
  <2>2. Selected(u) \in Notes
    BY <1>1, <1>2, SelectedIs
  <2>3. Plays(u, t)
    BY <1>2, <2>1, <2>2, UpdateUnisonGroupIs
  <2>4. /\ t \in Kept /\ t.sustain = s.sustain /\ t.pressed = q /\ t.arp = s.arp
        /\ t.poly = s.poly /\ t.gate = s.gate /\ t.unison = s.unison
    BY <1>2, <2>3 DEF Plays, SameControls
  <2>5. ASSUME NEW d, Owned(s, d) PROVE Owned(t, d)
    BY <1>6, <2>4, <2>5 DEF Owned, PolyActive
  <2> QED
    BY <1>1, <1>4, <2>4, <2>5
<1> QED
  BY <1>3, <1>5, <1>6

LEMMA KeyDownIs ==
    ASSUME NEW s \in Kept, NEW n \in Notes, NEW gate \in BOOLEAN, NEW t, t = KeyDown(s, n, gate)
    PROVE  /\ t \in Kept /\ t.sustain = s.sustain
           /\ ToSet(t.pressed) = ToSet(s.pressed) \cup {n}
           /\ ArpKeeps(s.arp, t.arp, {n})
           /\ \A d : Owned(s, d) => Owned(t, d)
<1> DEFINE u == VoiceNoteOn(s, n)
           open == gate /\ s.gate.gates
<1>1. /\ u \in Kept /\ u.sustain = s.sustain
      /\ ToSet(u.pressed) = ToSet(s.pressed) \cup {n}
      /\ u.poly = s.poly /\ u.gate = s.gate /\ ArpKeeps(s.arp, u.arp, {n})
      /\ \A d : Owned(s, d) => Owned(u, d)
  BY VoiceNoteOnIs
<1>2. u.gate \in GateStates /\ open \in BOOLEAN /\ u \in Layers
  BY <1>1, LayerFields DEF GateStates
<1>3. CASE s.poly.selected
  <2>1. t = u
    BY <1>3 DEF KeyDown
  <2> QED
    BY <1>1, <2>1
<1>4. CASE ~s.poly.selected /\ ~s.gate.keyStep
  <2> DEFINE g == [u.gate EXCEPT !.triggered = TRUE]
  <2>1. t = [u EXCEPT !.gate.triggered = TRUE]
    BY <1>4 DEF KeyDown
  <2> HIDE DEF u
  <2>2. g \in GateStates
    BY <1>2 DEF GateStates
  <2>3. t = [u EXCEPT !.gate = g]
    BY <1>2, <2>1 DEF Layers
  <2> HIDE DEF g
  <2>4. /\ t \in Kept /\ t.sustain = u.sustain /\ t.pressed = u.pressed /\ t.arp = u.arp
        /\ \A d : Owned(u, d) => Owned(t, d)
    BY <1>1, <2>2, <2>3, GateReplaced
  <2> QED
    BY <1>1, <2>4
<1>5. CASE ~s.poly.selected /\ s.gate.keyStep
  <2> DEFINE g == [u.gate EXCEPT !.triggered = TRUE, !.high = open]
             x == [u EXCEPT !.gate.triggered = TRUE, !.gate.high = open]
  <2>1. t = GatedEvent(x, open, FALSE)
    BY <1>5 DEF KeyDown
  <2> HIDE DEF u, open
  <2>2. g \in GateStates
    BY <1>2 DEF GateStates
  <2>3. x = [u EXCEPT !.gate = g]
    BY <1>2 DEF Layers
  <2> HIDE DEF g, x
  <2>4. /\ x \in Kept /\ x.sustain = u.sustain /\ x.pressed = u.pressed /\ x.arp = u.arp
        /\ \A d : Owned(u, d) => Owned(x, d)
    BY <1>1, <2>2, <2>3, GateReplaced
  <2>5. Plays(x, t) /\ \A d : Owned(x, d) => Owned(t, d)
    BY <2>1, <2>4, GatedEventIs
  <2>6. t \in Kept /\ t.sustain = x.sustain /\ t.pressed = x.pressed /\ t.arp = x.arp
    BY <2>5 DEF Plays, SameControls
  <2> QED
    BY <1>1, <2>4, <2>5, <2>6
<1> QED
  BY <1>3, <1>4, <1>5

LEMMA VoiceNoteOffIs ==
    ASSUME NEW s \in Kept, NEW n \in Notes, NEW t, t = VoiceNoteOff(s, n)
    PROVE  /\ t \in Kept /\ t.sustain = s.sustain
           /\ ToSet(t.pressed) = ToSet(s.pressed) \ {n}
           /\ t.gate = s.gate /\ ArpKeeps(s.arp, t.arp, {})
           /\ ToArp(s) => ArpHolds(s.arp) \/ n \notin t.arp.held \cup t.arp.pending
           /\ ~ToArp(s) => t.arp = s.arp
           /\ \A d : Owned(s, d) => Owned(t, d)
<1>0. s.arp \in Arps /\ s.pressed \in Seq(Notes) /\ s.unison \in Nat
  BY LayerFields
<1> DEFINE q == Without(s.pressed, {n})
           u == [s EXCEPT !.pressed = q]
<1>1. q \in Seq(Notes) /\ ToSet(q) = ToSet(s.pressed) \ {n}
  BY <1>0, WithoutIs
<1> HIDE DEF q
<1>2. /\ u \in Kept /\ u.sustained = s.sustained /\ u.pressed = q
      /\ u.sustain = s.sustain /\ u.unison = s.unison /\ u.keyMode = s.keyMode
      /\ u.arp = s.arp /\ u.poly = s.poly /\ u.gate = s.gate
      /\ \A P, A : OwnedBy(s, P, A) => OwnedBy(u, P, A)
  BY <1>1, PressedReplaced
<1>3. CASE ToArp(s)
  <2> DEFINE a == ArpNoteOff(s.arp, n)
  <2>1. t = [u EXCEPT !.arp = a]
    BY <1>2, <1>3 DEF VoiceNoteOff, q
  <2>2. /\ a \in Arps /\ ArpKeeps(s.arp, a, {})
        /\ ArpHolds(s.arp) \/ n \notin a.held \cup a.pending
    BY <1>0, ArpNoteOffIs
  <2> HIDE DEF u, a
  <2>3. /\ t \in Kept /\ t.sustained = u.sustained /\ t.arp = a
        /\ t.sustain = u.sustain /\ t.pressed = u.pressed /\ t.unison = u.unison
        /\ t.keyMode = u.keyMode /\ t.poly = u.poly /\ t.gate = u.gate
        /\ \A P, A : OwnedBy(u, P, A) => OwnedBy(t, P, A)
    BY <1>2, <2>1, <2>2, ArpReplaced
  <2>4. Claims(t) = Claims(s) /\ (PolyActive(t) <=> PolyActive(s))
    BY <1>2, <1>3, <2>2, <2>3 DEF Claims, ToArp, PolyActive, ArpKeeps
  <2>5. ASSUME NEW d, Owned(s, d) PROVE Owned(t, d)
    BY <1>2, <2>3, <2>4, <2>5 DEF Owned
  <2> QED
    BY <1>1, <1>2, <1>3, <2>2, <2>3, <2>5
<1>4. ArpKeeps(s.arp, s.arp, {})
  BY <1>0 DEF ArpKeeps
<1>5. CASE ~ToArp(s) /\ s.unison = 0
  <2>1. t = PolyNoteOff(u, n)
    BY <1>5 DEF VoiceNoteOff, q
  <2> HIDE DEF u
  <2>2. Plays(u, t)
    BY <1>2, <2>1, PolyNoteOffIs
  <2>3. /\ t \in Kept /\ t.sustain = s.sustain /\ t.pressed = q /\ t.arp = s.arp
        /\ t.poly = s.poly /\ t.gate = s.gate /\ t.unison = s.unison
        /\ s.sustain \/ t.sustained \subseteq s.sustained
    BY <1>2, <2>2 DEF Plays, SameControls
  <2>4. Claims(s) = ToSet(s.pressed) /\ Claims(t) = ToSet(q) /\ (PolyActive(t) <=> PolyActive(s))
    BY <1>5, <2>3 DEF Claims, ToArp, PolyActive
  <2>5. ASSUME NEW d, Owned(s, d) PROVE Owned(t, d)
    <3> DEFINE P == ToSet(s.pressed)
               A == s.poly.active \cup d
    <3>1. OwnedBy(u, P, A)
      BY <1>2, <1>5, <2>4, <2>5 DEF Owned
    <3> HIDE DEF P, A
    <3>2. OwnedBy(t, P \ {n}, A)
      BY <1>2, <2>1, <3>1, PolyNoteOffOwned
    <3>3. OwnedBy(t, ToSet(q), A)
      BY <1>1, <3>2 DEF P
    <3> QED
      BY <1>5, <2>3, <2>4, <2>5, <3>3 DEF Owned, A
  <2> QED
    BY <1>1, <1>4, <1>5, <2>3, <2>5
<1>6. CASE ~ToArp(s) /\ s.unison # 0
  <2>1. t = IF q # <<>> THEN UpdateUnisonGroup(u, Selected(u), FALSE)
            ELSE IF s.sustain THEN u ELSE ReleaseUnisonGroup(u)
    <3>0. t = CASE ToArp(s) -> [u EXCEPT !.arp = ArpNoteOff(@, n)]
                [] ~ToArp(s) /\ s.unison = 0 -> PolyNoteOff(u, n)
                [] ~ToArp(s) /\ s.unison > 0 /\ u.pressed # <<>> ->
                      UpdateUnisonGroup(u, Selected(u), FALSE)
                [] OTHER -> IF s.sustain THEN u ELSE ReleaseUnisonGroup(u)
      BY DEF VoiceNoteOff, q
    <3> HIDE DEF u
    <3>a. ~ToArp(s) /\ s.unison > 0 /\ s.unison # 0 /\ u.pressed = q
      BY <1>0, <1>2, <1>6
    <3>1. CASE q # <<>>
      <4>1. t = UpdateUnisonGroup(u, Selected(u), FALSE)
        BY <3>0, <3>1, <3>a
      <4> QED
        BY <3>1, <4>1
    <3>2. CASE q = <<>>
      <4>1. t = IF s.sustain THEN u ELSE ReleaseUnisonGroup(u)
        BY <3>0, <3>2, <3>a
      <4> QED
        BY <3>2, <4>1
    <3> QED
      BY <3>1, <3>2
  <2> HIDE DEF u
  <2>2. Plays(u, t)
    <3>1. CASE q # <<>>
      <4>1. Selected(u) \in Notes
        BY <1>2, <3>1, SelectedIs
      <4>2. t = UpdateUnisonGroup(u, Selected(u), FALSE)
        BY <2>1, <3>1
      <4> QED
        BY <1>2, <4>1, <4>2, UpdateUnisonGroupIs
    <3>2. CASE q = <<>> /\ s.sustain
      BY <1>2, <2>1, <3>2, PlaysStill
    <3>3. CASE q = <<>> /\ ~s.sustain
      <4> DEFINE S == Held(u)
      <4>1. t = Released(u, S)
        BY <2>1, <3>3 DEF ReleaseUnisonGroup
      <4>2. S \in SUBSET Voices
        BY <1>2, LayerFields
      <4> HIDE DEF S
      <4> QED
        BY <1>2, <4>1, <4>2, ReleasedIs
    <3> QED
      BY <3>1, <3>2, <3>3
  <2>3. /\ t \in Kept /\ t.sustain = s.sustain /\ t.pressed = q /\ t.arp = s.arp
        /\ t.poly = s.poly /\ t.gate = s.gate /\ t.unison = s.unison
    BY <1>2, <2>2 DEF Plays, SameControls
  <2>4. ASSUME NEW d, Owned(s, d) PROVE Owned(t, d)
    BY <1>6, <2>3, <2>4 DEF Owned, PolyActive
  <2> QED
    BY <1>1, <1>4, <1>6, <2>3, <2>4
<1> QED
  BY <1>3, <1>5, <1>6

LEMMA UngatedIs ==
    ASSUME NEW g \in GateStates
    PROVE  Ungated(g) \in GateStates
BY DEF Ungated, GateStates

LEMMA KeyUpIs ==
    ASSUME NEW s \in Kept, NEW n \in Notes, NEW t, t = KeyUp(s, n)
    PROVE  /\ t \in Kept /\ t.sustain = s.sustain
           /\ ToSet(t.pressed) = ToSet(s.pressed) \ {n}
           /\ ArpKeeps(s.arp, t.arp, {})
           /\ ToArp(s) => ArpHolds(s.arp) \/ n \notin t.arp.held \cup t.arp.pending
           /\ ~ToArp(s) => t.arp = s.arp
           /\ \A d : Owned(s, d) => Owned(t, d)
<1> DEFINE u == VoiceNoteOff(s, n)
           g == Ungated(u.gate)
<1>1. /\ u \in Kept /\ u.sustain = s.sustain
      /\ ToSet(u.pressed) = ToSet(s.pressed) \ {n}
      /\ ArpKeeps(s.arp, u.arp, {})
      /\ ToArp(s) => ArpHolds(s.arp) \/ n \notin u.arp.held \cup u.arp.pending
      /\ ~ToArp(s) => u.arp = s.arp
      /\ \A d : Owned(s, d) => Owned(u, d)
  BY VoiceNoteOffIs
<1>2. t = IF u.pressed = <<>> THEN [u EXCEPT !.gate = g] ELSE u
  BY DEF KeyUp
<1> HIDE DEF u
<1>3. g \in GateStates
  BY <1>1, LayerFields, UngatedIs
<1> DEFINE x == [u EXCEPT !.gate = g]
<1> HIDE DEF g
<1>4. /\ x \in Kept /\ x.sustain = u.sustain /\ x.pressed = u.pressed /\ x.arp = u.arp
      /\ \A d : Owned(u, d) => Owned(x, d)
  BY <1>1, <1>3, GateReplaced
<1>5. t = x \/ t = u
  BY <1>2
<1> HIDE DEF x
<1>6. CASE t = x
  BY <1>1, <1>4, <1>6
<1>7. CASE t = u
  BY <1>1, <1>7
<1> QED
  BY <1>5, <1>6, <1>7

LEMMA ClearedIs ==
    ASSUME NEW s \in Kept, NEW t, t = Cleared(s)
    PROVE  /\ t \in Kept /\ t.sustain = FALSE /\ t.pressed = <<>> /\ t.sustained = {}
           /\ t.arp.enabled = s.arp.enabled /\ t.arp.mode = s.arp.mode
           /\ t.arp.held \cup t.arp.pending = {}
           /\ Held(t) = {} /\ Sounding(t) = {}
           /\ ~PolyActive(t) /\ t.poly.active = {} /\ \A d : Owned(t, d)
<1> DEFINE u == AllLanesOff(s)
           a == ArpPedal(ArpAllNotesOff(u.arp), FALSE)
           g == Ungated(u.gate)
           p == [u.poly EXCEPT !.running = FALSE, !.active = {}, !.half = {}]
<1>1. Plays(s, u) /\ u.sustained = {} /\ Held(u) = {}
  BY AllLanesOffIs
<1>2. /\ u \in Kept /\ u \in Layers /\ u.arp = s.arp /\ u.arp \in Arps /\ u.poly \in Sequencers
      /\ u.gate \in GateStates
      /\ Held(u) \cup u.sustained = Sounding(u)
  <2>1. u \in Kept /\ u.arp = s.arp
    BY <1>1 DEF Plays, SameControls
  <2> QED
    BY <2>1, LayerFields
<1>3. t = [u EXCEPT !.sustain = FALSE, !.pressed = <<>>, !.arp = a, !.gate = g,
                    !.poly.running = FALSE, !.poly.active = {}, !.poly.half = {}]
  BY DEF Cleared
<1> HIDE DEF u
<1>4. /\ a \in Arps /\ a.enabled = s.arp.enabled /\ a.mode = s.arp.mode
      /\ a.held \cup a.pending = {}
  <2> DEFINE b == ArpAllNotesOff(u.arp)
  <2>1. /\ b \in Arps /\ b.enabled = u.arp.enabled /\ b.mode = u.arp.mode
        /\ b.held = {} /\ b.pending = {}
    BY <1>2, ArpAllNotesOffIs
  <2> HIDE DEF b
  <2>2. ArpKeeps(b, ArpPedal(b, FALSE), {})
    BY <2>1, ArpPedalIs
  <2>3. a = ArpPedal(b, FALSE)
    BY DEF b
  <2> QED
    BY <1>2, <2>1, <2>2, <2>3 DEF ArpKeeps
<1>5. g \in GateStates
  BY <1>2, UngatedIs
<1>6. p \in Sequencers /\ p.running = FALSE /\ p.active = {}
  BY <1>2 DEF Sequencers
<1> HIDE DEF a, g
<1>7. t = [u EXCEPT !.sustain = FALSE, !.pressed = <<>>, !.arp = a, !.gate = g, !.poly = p]
  BY <1>2, <1>3 DEF Layers
<1> HIDE DEF p
<1>8. <<>> \in Seq(Notes)
  OBVIOUS
<1>9. /\ t \in Layers /\ SameVoices(u, t) /\ t.sustain = FALSE /\ t.pressed = <<>>
      /\ t.arp = a /\ t.poly = p
  BY <1>2, <1>4, <1>5, <1>6, <1>7, <1>8 DEF Layers, SameVoices
<1>10. t \in Kept /\ t.sustained = {}
  BY <1>1, <1>2, <1>9, VoicesStay
<1>11. Held(t) = {} /\ Sounding(t) = {}
  BY <1>1, <1>2, <1>9 DEF SameVoices, Held, Sounding
<1>12. ~PolyActive(t) /\ t.poly.active = {}
  BY <1>6, <1>9 DEF PolyActive
<1>13. \A d : Owned(t, d)
  BY <1>10, <1>11, <1>12 DEF Owned, OwnedBy
<1> QED
  BY <1>4, <1>9, <1>10, <1>11, <1>12, <1>13

LEMMA PressPedalIs ==
    ASSUME NEW s \in Kept, NEW down \in BOOLEAN, NEW t, t = PressPedal(s, down)
    PROVE  /\ t \in Kept /\ t.pressed = s.pressed
           /\ ArpKeeps(s.arp, t.arp, {})
           /\ t.sustain = IF TakesPedal(s) THEN s.sustain ELSE down
           /\ \A d : Owned(s, d) => Owned(t, d)
<1>0. s.arp \in Arps /\ s \in Layers /\ s.unison \in Nat
  BY LayerFields
<1> DEFINE a == IF s.arp.enabled THEN ArpPedal(s.arp, down) ELSE s.arp
           w == IF s.arp.enabled THEN [s EXCEPT !.arp = ArpPedal(@, down)] ELSE s
           x == [s EXCEPT !.arp = a]
           u == [w EXCEPT !.sustain = down]
           up == s.sustain /\ ~down
<1>1. a \in Arps /\ ArpKeeps(s.arp, a, {})
  <2>1. ArpKeeps(s.arp, s.arp, {})
    BY <1>0 DEF ArpKeeps
  <2> QED
    BY <1>0, <2>1, ArpPedalIs
<1>2. w = x
  BY <1>0 DEF Layers
<1>3. t = CASE TakesPedal(s) -> w
            [] ~TakesPedal(s) /\ s.unison > 0 ->
                  IF up /\ s.pressed = <<>> THEN ReleaseUnisonGroup(u) ELSE u
            [] OTHER -> IF up THEN Disowned(Released(u, s.sustained), s.sustained) ELSE u
  BY DEF PressPedal
<1> HIDE DEF a, w, x
<1>4. /\ w \in Kept /\ w.sustained = s.sustained /\ w.arp = a
      /\ w.sustain = s.sustain /\ w.pressed = s.pressed /\ w.unison = s.unison
      /\ w.keyMode = s.keyMode /\ w.poly = s.poly /\ w.gate = s.gate
      /\ \A P, A : OwnedBy(s, P, A) => OwnedBy(w, P, A)
  BY <1>1, <1>2, ArpReplaced DEF x
<1>5. /\ u \in Kept /\ u.sustained = s.sustained /\ u.arp = a
      /\ u.sustain = down /\ u.pressed = s.pressed /\ u.unison = s.unison
      /\ u.poly = s.poly
      /\ \A P, A : OwnedBy(s, P, A) => OwnedBy(u, P, A)
  <2>1. w \in Layers
    BY <1>4 DEF Kept
  <2>2. /\ u \in Layers /\ SameVoices(w, u) /\ u.sustain = down /\ u.pressed = w.pressed
        /\ u.arp = w.arp /\ u.unison = w.unison /\ u.poly = w.poly
    BY <2>1 DEF Layers, SameVoices
  <2> HIDE DEF u
  <2>3. /\ u \in Kept /\ u.sustained = w.sustained
        /\ \A P, A : OwnedBy(w, P, A) => OwnedBy(u, P, A)
    BY <1>4, <2>2, VoicesStay
  <2> QED
    BY <1>4, <2>2, <2>3
<1> HIDE DEF u
<1>6. CASE TakesPedal(s)
  <2>1. t = w
    BY <1>3, <1>6
  <2>2. Claims(t) = Claims(s) /\ (PolyActive(t) <=> PolyActive(s))
    BY <1>1, <1>4, <2>1 DEF Claims, ToArp, PolyActive, ArpKeeps
  <2>3. \A d : Owned(s, d) => Owned(t, d)
    BY <1>4, <2>1, <2>2 DEF Owned
  <2> QED
    BY <1>1, <1>4, <1>6, <2>1, <2>3
<1>7. CASE ~TakesPedal(s) /\ s.unison > 0
  <2>1. t = IF up /\ s.pressed = <<>> THEN ReleaseUnisonGroup(u) ELSE u
    BY <1>3, <1>7
  <2>2. Plays(u, t)
    <3> DEFINE S == Held(u)
    <3>1. S \in SUBSET Voices
      BY <1>5, LayerFields
    <3>2. t = Released(u, S) \/ t = u
      BY <2>1 DEF ReleaseUnisonGroup
    <3> HIDE DEF S
    <3> QED
      BY <1>5, <3>1, <3>2, ReleasedIs, PlaysStill
  <2>3. /\ t \in Kept /\ t.sustain = down /\ t.pressed = s.pressed /\ t.arp = a
        /\ t.unison = s.unison /\ t.poly = s.poly
    BY <1>5, <2>2 DEF Plays, SameControls
  <2>4. \A d : Owned(s, d) => Owned(t, d)
    BY <1>7, <2>3 DEF Owned, PolyActive
  <2> QED
    BY <1>1, <1>7, <2>3, <2>4
<1>8. CASE ~TakesPedal(s) /\ ~(s.unison > 0)
  <2> DEFINE S == s.sustained
  <2>0. S \in SUBSET Voices
    BY LayerFields
  <2>1. t = IF up THEN Disowned(Released(u, S), S) ELSE u
    BY <1>3, <1>8
  <2> HIDE DEF S
  <2>2. /\ Plays(u, t) /\ t.sustained \subseteq S /\ (up => t.sustained = {})
        /\ \A P, A : OwnedBy(u, P, A) => OwnedBy(t, P, A)
    <3>1. CASE up
      <4>1. t = Disowned(Released(u, S), S)
        BY <2>1, <3>1
      <4>2. /\ Plays(u, t) /\ t.sustained = u.sustained \ S /\ Held(t) = Held(u) \ S
            /\ \A v \in Voices \ S : t.lane[v] = u.lane[v] /\ t.owner[v] = u.owner[v]
        BY <1>5, <2>0, <4>1, LetGoIs
      <4>3. Held(u) \subseteq Voices
        BY <1>5, LayerFields
      <4>4. \A P, A : OwnedBy(u, P, A) => OwnedBy(t, P, A)
        BY <4>2, <4>3 DEF OwnedBy
      <4> QED
        BY <1>5, <4>2, <4>4 DEF S
    <3>2. CASE ~up
      <4>1. t = u
        BY <2>1, <3>2
      <4> QED
        BY <1>5, <3>2, <4>1, PlaysStill DEF S
    <3> QED
      BY <3>1, <3>2
  <2>3. /\ t \in Kept /\ t.sustain = down /\ t.pressed = s.pressed /\ t.arp = a
        /\ t.unison = s.unison /\ t.poly = s.poly
    BY <1>5, <2>2 DEF Plays, SameControls
  <2>4. Claims(t) = Claims(s) /\ (PolyActive(t) <=> PolyActive(s))
    BY <1>1, <2>3 DEF Claims, ToArp, PolyActive, ArpKeeps
  <2>5. ASSUME NEW d, Owned(s, d) PROVE Owned(t, d)
    <3>1. s.unison = 0 => OwnedBy(t, Claims(s), s.poly.active \cup d)
      BY <1>5, <2>2, <2>5 DEF Owned
    <3>2. s.sustain \in BOOLEAN
      BY LayerFields
    <3>3. s.unison = 0 => (t.sustained # {} => t.sustain)
      BY <2>2, <2>3, <2>5, <3>2 DEF Owned, S
    <3> QED
      BY <2>3, <2>4, <2>5, <3>1, <3>3 DEF Owned
  <2> QED
    BY <1>1, <1>8, <2>3, <2>5
<1> QED
  BY <1>0, <1>6, <1>7, <1>8
-----------------------------------------------------------------------------
(* The sequencer.                                                          *)

\* What a step that has nothing to do with keys and pedal may change of them.
Goes(s, t) ==
    /\ t \in Kept /\ t.sustain = s.sustain /\ ToSet(t.pressed) = ToSet(s.pressed)
    /\ t.arp.held \cup t.arp.pending \subseteq (s.arp.held \cup s.arp.pending) \cup ToSet(s.pressed)

LEMMA ReroutesGoes ==
    ASSUME NEW s, NEW t, Reroutes(s, t)
    PROVE  Goes(s, t)
BY DEF Reroutes, Goes

LEMMA GoesOn ==
    ASSUME NEW s, NEW t, NEW u, Goes(s, t), Goes(t, u)
    PROVE  Goes(s, u)
BY DEF Goes

LEMMA SequencerReplaced ==
    ASSUME NEW s \in Kept, NEW p \in Sequencers, NEW t, t = [s EXCEPT !.poly = p]
    PROVE  /\ t \in Kept /\ t.sustained = s.sustained /\ t.pressed = s.pressed
           /\ t.sustain = s.sustain /\ t.unison = s.unison /\ t.keyMode = s.keyMode
           /\ t.arp = s.arp /\ t.poly = p /\ t.gate = s.gate
           /\ \A P, A : OwnedBy(s, P, A) => OwnedBy(t, P, A)
<1>0. s \in Layers
  BY DEF Kept
<1>1. /\ t \in Layers /\ SameVoices(s, t) /\ t.pressed = s.pressed
      /\ t.sustain = s.sustain /\ t.unison = s.unison /\ t.keyMode = s.keyMode
      /\ t.arp = s.arp /\ t.poly = p /\ t.gate = s.gate
  BY <1>0 DEF Layers, SameVoices
<1> QED
  BY <1>1, VoicesStay

\* The lanes of ls end, and the sequencer is left as p.
SequencerEnds(s, p, ls, t) ==
    /\ t \in Kept
    /\ t.sustain = s.sustain /\ t.pressed = s.pressed /\ t.unison = s.unison
    /\ t.keyMode = s.keyMode /\ t.arp = s.arp /\ t.gate = s.gate /\ t.poly = p
    /\ s.sustain \/ t.sustained \subseteq s.sustained
    /\ \A P, A : OwnedBy(s, P, A) => OwnedBy(t, P, A \ ls)

LEMMA LanesEnd ==
    ASSUME NEW s \in Kept, NEW p \in Sequencers, NEW ls \in SUBSET Lanes,
           NEW t, t = SequenceNoteOff([s EXCEPT !.poly = p], ls)
    PROVE  SequencerEnds(s, p, ls, t)
<1> DEFINE u == [s EXCEPT !.poly = p]
<1>1. /\ u \in Kept /\ u.sustained = s.sustained /\ u.pressed = s.pressed
      /\ u.sustain = s.sustain /\ u.unison = s.unison /\ u.keyMode = s.keyMode
      /\ u.arp = s.arp /\ u.poly = p /\ u.gate = s.gate
      /\ \A P, A : OwnedBy(s, P, A) => OwnedBy(u, P, A)
  BY SequencerReplaced
<1> HIDE DEF u
<1>2. t = SequenceNoteOff(u, ls)
  BY DEF u
<1>3. /\ Plays(u, t)
      /\ \A P, A : OwnedBy(u, P, A) => OwnedBy(t, P, A \ ls)
  BY <1>1, <1>2, SequenceNoteOffIs
<1> QED
  BY <1>1, <1>3 DEF SequencerEnds, Plays, SameControls

LEMMA StopPolyIs ==
    ASSUME NEW s \in Kept, NEW t, t = StopPoly(s)
    PROVE  \E p \in Sequencers :
                /\ p.selected = s.poly.selected /\ p.running = FALSE /\ p.active = {}
                /\ SequencerEnds(s, p, s.poly.active, t)
<1> DEFINE p == [s.poly EXCEPT !.running = FALSE, !.active = {}, !.half = {}]
           ls == s.poly.active
<1>0. s \in Layers /\ s.poly \in Sequencers
  BY LayerFields
<1>1. /\ p \in Sequencers /\ p.selected = s.poly.selected /\ p.running = FALSE /\ p.active = {}
      /\ ls \in SUBSET Lanes
  BY <1>0 DEF Sequencers
<1>2. [s EXCEPT !.poly.running = FALSE, !.poly.active = {}, !.poly.half = {}] = [s EXCEPT !.poly = p]
  BY <1>0 DEF Layers
<1>3. t = SequenceNoteOff([s EXCEPT !.poly = p], ls)
  BY <1>2 DEF StopPoly
<1> HIDE DEF p, ls
<1>4. SequencerEnds(s, p, ls, t)
  BY <1>1, <1>3, LanesEnd
<1> QED
  BY <1>1, <1>4 DEF ls

LEMMA EndSequenceNotesIs ==
    ASSUME NEW s \in Kept, NEW t, t = EndSequenceNotes(s)
    PROVE  /\ \E p \in Sequencers :
                /\ p.selected = s.poly.selected /\ p.running = s.poly.running /\ p.active = {}
                /\ SequencerEnds(s, p, s.poly.active, t)
           /\ Goes(s, t) /\ \A d : Owned(s, d) => Owned(t, d)
<1> DEFINE p == [s.poly EXCEPT !.active = {}, !.half = {}]
           ls == s.poly.active
<1>0. s \in Layers /\ s.poly \in Sequencers
  BY LayerFields
<1>1. /\ p \in Sequencers /\ p.selected = s.poly.selected /\ p.running = s.poly.running
      /\ p.active = {} /\ ls \in SUBSET Lanes
  BY <1>0 DEF Sequencers
<1>2. [s EXCEPT !.poly.active = {}, !.poly.half = {}] = [s EXCEPT !.poly = p]
  BY <1>0 DEF Layers
<1>3. t = SequenceNoteOff([s EXCEPT !.poly = p], ls)
  BY <1>2 DEF EndSequenceNotes
<1> HIDE DEF p, ls
<1>4. SequencerEnds(s, p, ls, t)
  BY <1>1, <1>3, LanesEnd
<1>5. Goes(s, t)
  BY <1>4 DEF SequencerEnds, Goes
<1>6. Claims(t) = Claims(s) /\ (PolyActive(t) <=> PolyActive(s)) /\ t.poly.active = {}
  BY <1>1, <1>4 DEF SequencerEnds, Claims, ToArp, PolyActive
<1>7. ASSUME NEW d, Owned(s, d) PROVE Owned(t, d)
  <2>1. CASE s.unison = 0
    <3> DEFINE A == s.poly.active \cup d
               B == t.poly.active \cup d
    <3>1. OwnedBy(s, Claims(s), A)
      BY <1>7, <2>1 DEF Owned
    <3>2. OwnedBy(t, Claims(s), A \ ls)
      <4> HIDE DEF A
      <4> QED
        BY <1>4, <3>1 DEF SequencerEnds
    <3>3. A \ ls \subseteq B
      BY DEF ls
    <3>4. OwnedBy(t, Claims(s), B)
      <4> HIDE DEF A, B
      <4> QED
        BY <3>2, <3>3 DEF OwnedBy
    <3> QED
      BY <1>4, <1>6, <1>7, <2>1, <3>4 DEF Owned, SequencerEnds
  <2>2. CASE s.unison # 0
    BY <1>4, <1>6, <2>2 DEF Owned, SequencerEnds
  <2> QED
    BY <2>1, <2>2
<1> QED
  BY <1>1, <1>4, <1>5, <1>7 DEF ls

\* The keys on their way to the sequencer, with the lanes that were active ended.
LEMMA EntersOwned ==
    ASSUME NEW s \in Kept, NEW d, PolyActive(s), s.poly.active = {},
           s.unison = 0 =>
                /\ OwnedBy(s, IF s.arp.enabled THEN ToSet(s.pressed) \cup {s.arp.current}
                              ELSE ToSet(s.pressed), d)
                /\ s.sustained # {} => s.sustain,
           NEW t, t = EnterPolyRouting(s)
    PROVE  Owned(t, d)
<1>1. /\ Reroutes(s, t)
      /\ \A A : OwnedBy(s, IF s.arp.enabled THEN ToSet(s.pressed) \cup {s.arp.current}
                           ELSE ToSet(s.pressed), A)
                   => OwnedBy(t, ToSet(s.pressed), A)
  BY EnterPolyRoutingIs
<1>2. Claims(t) = ToSet(s.pressed) /\ PolyActive(t) /\ t.poly.active = {}
  BY <1>1 DEF Reroutes, Claims, ToArp, PolyActive
<1>3. {} \cup d = d
  OBVIOUS
<1> QED
  BY <1>1, <1>2, <1>3 DEF Reroutes, Owned

LEMMA ClaimsWithin ==
    ASSUME NEW s
    PROVE  Claims(s) \subseteq IF s.arp.enabled THEN ToSet(s.pressed) \cup {s.arp.current}
                               ELSE ToSet(s.pressed)
BY DEF Claims, ToArp

LEMMA StartIs ==
    ASSUME NEW s \in Kept, NEW t, t = Transport(s, "Start")
    PROVE  Goes(s, t) /\ \A d : Owned(s, d) => Owned(t, d)
<1> DEFINE u == IF PolyActive(s) THEN StopPoly(s) ELSE s
           p == [u.poly EXCEPT !.running = TRUE, !.active = {}, !.half = {}]
           w == [u EXCEPT !.poly = p]
           E == IF s.arp.enabled THEN ToSet(s.pressed) \cup {s.arp.current} ELSE ToSet(s.pressed)
<1>1. /\ u \in Kept /\ u.sustain = s.sustain /\ u.pressed = s.pressed /\ u.unison = s.unison
      /\ u.arp = s.arp /\ u.poly.selected = s.poly.selected
      /\ s.sustain \/ u.sustained \subseteq s.sustained
      /\ \A P, A : OwnedBy(s, P, A) =>
                        OwnedBy(u, P, IF PolyActive(s) THEN A \ s.poly.active ELSE A)
  <2>1. CASE PolyActive(s)
    <3>1. \E r \in Sequencers :
            /\ r.selected = s.poly.selected /\ r.running = FALSE /\ r.active = {}
            /\ SequencerEnds(s, r, s.poly.active, u)
      BY <2>1, StopPolyIs
    <3> QED
      BY <2>1, <3>1 DEF SequencerEnds
  <2>2. CASE ~PolyActive(s)
    <3>1. u = s
      BY <2>2
    <3> QED
      BY <2>2, <3>1
  <2> QED
    BY <2>1, <2>2
<1>2. t = IF s.poly.selected THEN EnterPolyRouting(w) ELSE u
  <2>1. u \in Layers
    BY <1>1 DEF Kept
  <2>2. [u EXCEPT !.poly.running = TRUE, !.poly.active = {}, !.poly.half = {}] = w
    <3> HIDE DEF u
    <3> QED
      BY <2>1 DEF Layers
  <2>3. t = IF s.poly.selected
            THEN EnterPolyRouting([u EXCEPT !.poly.running = TRUE, !.poly.active = {},
                                            !.poly.half = {}])
            ELSE u
    BY DEF Transport
  <2> QED
    BY <2>2, <2>3
<1>3. u.poly \in Sequencers
  BY <1>1, LayerFields
<1> HIDE DEF u
<1>4. /\ p \in Sequencers /\ p.running = TRUE /\ p.active = {} /\ p.selected = s.poly.selected
  BY <1>1, <1>3 DEF Sequencers
<1> HIDE DEF p
<1>5. /\ w \in Kept /\ w.sustained = u.sustained /\ w.pressed = u.pressed
      /\ w.sustain = u.sustain /\ w.unison = u.unison /\ w.keyMode = u.keyMode
      /\ w.arp = u.arp /\ w.poly = p /\ w.gate = u.gate
      /\ \A P, A : OwnedBy(u, P, A) => OwnedBy(w, P, A)
  BY <1>1, <1>4, SequencerReplaced
<1> HIDE DEF w
<1>6. CASE s.poly.selected
  <2>1. t = EnterPolyRouting(w) /\ Reroutes(w, t)
    BY <1>2, <1>5, <1>6, EnterPolyRoutingIs
  <2>2. Goes(s, t)
    BY <1>1, <1>5, <2>1 DEF Reroutes, Goes
  <2>3. PolyActive(w) /\ w.poly.active = {}
    BY <1>4, <1>5, <1>6 DEF PolyActive
  <2>4. ASSUME NEW d, Owned(s, d) PROVE Owned(t, d)
    <3> DEFINE A == s.poly.active \cup d
               B == IF PolyActive(s) THEN A \ s.poly.active ELSE A
    <3>1. s.unison = 0 => OwnedBy(s, Claims(s), A) /\ (s.sustained # {} => s.sustain)
      BY <2>4 DEF Owned
    <3>2. B \subseteq d
      BY <2>4 DEF Owned
    <3>3. Claims(s) \subseteq E
      BY ClaimsWithin
    <3>4. s.unison = 0 => OwnedBy(w, Claims(s), B)
      <4> HIDE DEF A
      <4> QED
        BY <1>1, <1>5, <3>1
    <3> HIDE DEF A, B
    <3>5. s.unison = 0 => OwnedBy(w, E, d)
      <4> HIDE DEF E
      <4> QED
        BY <3>2, <3>3, <3>4, OwnedByMore
    <3>6. E = IF w.arp.enabled THEN ToSet(w.pressed) \cup {w.arp.current} ELSE ToSet(w.pressed)
      BY <1>1, <1>5
    <3>7. w.unison = 0 =>
            /\ OwnedBy(w, IF w.arp.enabled THEN ToSet(w.pressed) \cup {w.arp.current}
                          ELSE ToSet(w.pressed), d)
            /\ w.sustained # {} => w.sustain
      <4> HIDE DEF E
      <4> QED
        BY <1>1, <1>5, <3>1, <3>5, <3>6
    <3> QED
      BY <1>5, <2>1, <2>3, <3>7, EntersOwned
  <2> QED
    BY <2>2, <2>4
<1>7. CASE ~s.poly.selected
  <2>1. u = s /\ t = s
    BY <1>2, <1>7 DEF u, PolyActive
  <2> QED
    BY <2>1 DEF Goes
<1> QED
  BY <1>6, <1>7

LEMMA ContinueIs ==
    ASSUME NEW s \in Kept, NEW t, t = Transport(s, "Continue")
    PROVE  Goes(s, t) /\ \A d : Owned(s, d) => Owned(t, d)
<1> DEFINE p == [s.poly EXCEPT !.running = TRUE]
           w == [s EXCEPT !.poly = p]
           E == IF s.arp.enabled THEN ToSet(s.pressed) \cup {s.arp.current} ELSE ToSet(s.pressed)
<1>0. s \in Layers /\ s.poly \in Sequencers
  BY LayerFields
<1>1. t = IF ~s.poly.selected THEN s ELSE IF PolyActive(s) THEN w ELSE EnterPolyRouting(w)
  <2>1. [s EXCEPT !.poly.running = TRUE] = w
    BY <1>0 DEF Layers
  <2> QED
    BY <2>1 DEF Transport
<1>2. /\ p \in Sequencers /\ p.running = TRUE /\ p.active = s.poly.active
      /\ p.selected = s.poly.selected
  BY <1>0 DEF Sequencers
<1> HIDE DEF p
<1>3. /\ w \in Kept /\ w.sustained = s.sustained /\ w.pressed = s.pressed
      /\ w.sustain = s.sustain /\ w.unison = s.unison /\ w.keyMode = s.keyMode
      /\ w.arp = s.arp /\ w.poly = p /\ w.gate = s.gate
      /\ \A P, A : OwnedBy(s, P, A) => OwnedBy(w, P, A)
  BY <1>2, SequencerReplaced
<1> HIDE DEF w
<1>4. CASE ~s.poly.selected
  BY <1>1, <1>4 DEF Goes
<1>5. CASE PolyActive(s)
  <2>1. t = w
    BY <1>1, <1>5 DEF PolyActive
  <2>2. Claims(w) = Claims(s) /\ PolyActive(w) /\ w.poly.active = s.poly.active
    BY <1>2, <1>3, <1>5 DEF PolyActive, Claims, ToArp
  <2>3. ASSUME NEW d, Owned(s, d) PROVE Owned(w, d)
    BY <1>3, <2>2, <2>3 DEF Owned
  <2> QED
    BY <1>3, <2>1, <2>3 DEF Goes
<1>6. CASE s.poly.selected /\ ~PolyActive(s)
  <2>1. t = EnterPolyRouting(w) /\ Reroutes(w, t)
    BY <1>1, <1>3, <1>6, EnterPolyRoutingIs
  <2>2. Goes(s, t)
    BY <1>3, <2>1 DEF Reroutes, Goes
  <2>3. ASSUME NEW d, Owned(s, d) PROVE Owned(t, d)
    <3>1. s.poly.active = {}
      BY <1>6, <2>3 DEF Owned
    <3>2. PolyActive(w) /\ w.poly.active = {}
      BY <1>2, <1>3, <1>6, <3>1 DEF PolyActive
    <3>3. s.unison = 0 => OwnedBy(s, Claims(s), d) /\ (s.sustained # {} => s.sustain)
      <4>1. {} \cup d = d
        OBVIOUS
      <4> QED
        BY <2>3, <3>1, <4>1 DEF Owned
    <3>4. Claims(s) \subseteq E
      BY ClaimsWithin
    <3>5. s.unison = 0 => OwnedBy(w, E, d)
      <4> HIDE DEF E
      <4>1. s.unison = 0 => OwnedBy(w, Claims(s), d)
        BY <1>3, <3>3
      <4>2. d \subseteq d
        OBVIOUS
      <4> QED
        BY <3>4, <4>1, <4>2, OwnedByMore
    <3>6. E = IF w.arp.enabled THEN ToSet(w.pressed) \cup {w.arp.current} ELSE ToSet(w.pressed)
      BY <1>3
    <3>7. w.unison = 0 =>
            /\ OwnedBy(w, IF w.arp.enabled THEN ToSet(w.pressed) \cup {w.arp.current}
                          ELSE ToSet(w.pressed), d)
            /\ w.sustained # {} => w.sustain
      <4> HIDE DEF E
      <4> QED
        BY <1>3, <3>3, <3>5, <3>6
    <3> QED
      BY <1>3, <2>1, <3>2, <3>7, EntersOwned
  <2> QED
    BY <2>2, <2>3
<1> QED
  BY <1>4, <1>5, <1>6

LEMMA StopIs ==
    ASSUME NEW s \in Kept, NEW t, t = Transport(s, "Stop")
    PROVE  Goes(s, t) /\ \A d : Owned(s, d) => Owned(t, d)
<1> DEFINE u == StopPoly(s)
<1>1. t = IF PolyActive(s) THEN RestoreArpRouting(u) ELSE u
  BY DEF Transport
<1>2. PICK p \in Sequencers :
        /\ p.selected = s.poly.selected /\ p.running = FALSE /\ p.active = {}
        /\ SequencerEnds(s, p, s.poly.active, u)
  BY StopPolyIs
<1> HIDE DEF u
<1>3. /\ u \in Kept /\ u.sustain = s.sustain /\ u.pressed = s.pressed /\ u.unison = s.unison
      /\ u.arp = s.arp /\ u.poly.active = {} /\ ~PolyActive(u)
      /\ s.sustain \/ u.sustained \subseteq s.sustained
      /\ \A P, A : OwnedBy(s, P, A) => OwnedBy(u, P, A \ s.poly.active)
  BY <1>2 DEF SequencerEnds, PolyActive
<1>4. ASSUME NEW d, Owned(s, d), s.unison = 0 PROVE OwnedBy(u, Claims(s), d)
  <2> DEFINE A == s.poly.active \cup d
             B == A \ s.poly.active
  <2>1. OwnedBy(s, Claims(s), A)
    BY <1>4 DEF Owned
  <2>2. OwnedBy(u, Claims(s), B)
    <3> HIDE DEF A
    <3> QED
      BY <1>3, <2>1
  <2>3. B \subseteq d /\ Claims(s) \subseteq Claims(s)
    OBVIOUS
  <2> HIDE DEF B
  <2> QED
    BY <2>2, <2>3, OwnedByMore
<1>5. CASE PolyActive(s)
  <2>1. /\ t = RestoreArpRouting(u) /\ Reroutes(u, t)
        /\ \A A : OwnedBy(u, ToSet(u.pressed), A)
                     => OwnedBy(t, IF u.arp.enabled THEN {} ELSE ToSet(u.pressed), A)
    BY <1>1, <1>3, <1>5, RestoreArpRoutingIs
  <2>2. Goes(s, t)
    BY <1>3, <2>1 DEF Reroutes, Goes
  <2>3. Claims(s) = ToSet(u.pressed)
    BY <1>3, <1>5 DEF Claims, ToArp
  <2>4. /\ t.poly.active = {} /\ ~PolyActive(t)
        /\ (IF u.arp.enabled THEN {} ELSE ToSet(u.pressed)) \subseteq Claims(t)
    BY <1>3, <2>1 DEF Reroutes, PolyActive, Claims, ToArp
  <2>5. ASSUME NEW d, Owned(s, d) PROVE Owned(t, d)
    <3>1. s.unison = 0 => OwnedBy(t, IF u.arp.enabled THEN {} ELSE ToSet(u.pressed), d)
      BY <1>4, <2>1, <2>3, <2>5
    <3>2. d \subseteq t.poly.active \cup d
      OBVIOUS
    <3>3. s.unison = 0 => OwnedBy(t, Claims(t), t.poly.active \cup d)
      BY <2>4, <3>1, <3>2, OwnedByMore
    <3> QED
      BY <1>3, <2>1, <2>4, <2>5, <3>3 DEF Owned, Reroutes
  <2> QED
    BY <2>2, <2>5
<1>6. CASE ~PolyActive(s)
  <2>1. t = u
    BY <1>1, <1>6
  <2>2. Goes(s, t) /\ Claims(u) = Claims(s)
    BY <1>3, <1>6, <2>1 DEF Goes, Claims, ToArp
  <2>3. ASSUME NEW d, Owned(s, d) PROVE Owned(u, d)
    <3>1. u.poly.active \cup d = d
      BY <1>3
    <3> QED
      BY <1>3, <1>4, <2>2, <2>3, <3>1 DEF Owned
  <2> QED
    BY <2>1, <2>2, <2>3
<1> QED
  BY <1>5, <1>6

LEMMA TransportIs ==
    ASSUME NEW s \in Kept, NEW command \in {"Start", "Continue", "Stop"},
           NEW t, t = Transport(s, command)
    PROVE  Goes(s, t) /\ \A d : Owned(s, d) => Owned(t, d)
BY StartIs, ContinueIs, StopIs
-----------------------------------------------------------------------------
(* A step of the sequence.                                                 *)

StepPlays(row, S, E) == [c \in S |-> [x \in E |-> Play(row, x, c)]]
StepStays(row, S, E) == \A x \in E, c \in S : Play(row, x, c) \in E

LEMMA PlayFolds ==
    ASSUME NEW row, NEW S, NEW E, NEW e \in E, NEW q \in Seq(S),
           q = [i \in 1 .. LaneCount |-> i - 1],
           StepStays(row, S, E)
    PROVE  /\ StepPlays(row, S, E) \in [S -> [E -> E]]
           /\ Played(e, row) = Folded(StepPlays(row, S, E), E, e, q)
<1> DEFINE n == Len(q)
           step == StepsOf(StepPlays(row, S, E), q)
           Folds(g) == g = [s \in SUBSET DOMAIN q |->
                               IF s = {} THEN e ELSE Play(row, g[s \ {Max(s)}], q[Max(s)])]
           fold == CHOOSE g : Folds(g)
<1>1. n \in Nat /\ DOMAIN q = 1 .. n /\ \A i \in 1 .. n : q[i] \in S
  OBVIOUS
<1>2. StepPlays(row, S, E) \in [S -> [E -> E]]
  BY DEF StepPlays, StepStays
<1>3. step \in [1 .. n -> [E -> E]] /\ \A i \in 1 .. n, x \in E : step[i][x] = Play(row, x, q[i])
  BY <1>1, <1>2 DEF StepsOf, StepPlays
<1> HIDE DEF n, step
<1>4. PICK g : FoldTable(g, E, e, n, step)
  BY <1>1, <1>3, FoldExists
<1>5. Folds(g)
  <2>1. ASSUME NEW s \in SUBSET (1 .. n), s # {}
        PROVE  g[s] = Play(row, g[s \ {Max(s)}], q[Max(s)])
    BY <1>3, <1>4, <2>1 DEF FoldTable
  <2> QED
    BY <1>1, <1>4, <2>1 DEF FoldTable
<1>6. Folds(fold)
  <2> HIDE DEF Folds
  <2> QED
    BY <1>5
<1>7. Played(e, row) = fold[1 .. n]
  BY <1>1 DEF FoldLeft, MapThenFoldSet, Played
<1> HIDE DEF fold
<1>8. ASSUME NEW s \in SUBSET (1 .. n), s # {}, fold[s \ {Max(s)}] \in E
      PROVE  fold[s] = step[Max(s)][fold[s \ {Max(s)}]]
  <2>1. Max(s) \in 1 .. n
    BY <1>4, <1>8 DEF FoldTable
  <2>2. fold[s] = Play(row, fold[s \ {Max(s)}], q[Max(s)])
    BY <1>1, <1>6, <1>8
  <2> QED
    BY <1>3, <1>8, <2>1, <2>2
<1>9. FoldsBy(fold, E, e, n, step)
  BY <1>6, <1>8 DEF FoldsBy
<1>10. PICK at : Through(at, E, e, n, step) /\ at[n] = fold[1 .. n]
  <2>1. n \in Nat /\ step \in [1 .. n -> [E -> E]]
    BY <1>1, <1>3
  <2> HIDE DEF Folds
  <2> QED
    BY <2>1, <1>9, FoldReaches
<1>11. Folded(StepPlays(row, S, E), E, e, q) = at[n]
  BY <1>2, <1>10, FoldedIs DEF n, step
<1> QED
  BY <1>2, <1>7, <1>10, <1>11

LEMMA PlayIs ==
    ASSUME NEW s \in Kept, NEW step \in Steps, NEW l \in Lanes
    PROVE  /\ Plays(s, Play(step, s, l))
           /\ \A P, A : OwnedBy(s, P, A) => OwnedBy(Play(step, s, l), P, A \cup PlayedIn(step))
<1>1. CASE l \in PlayedIn(step)
  <2> DEFINE n == step[l]
  <2>1. n \in Notes /\ Play(step, s, l) = SequenceNoteOn(s, l, n)
    BY <1>1 DEF Play, PlayedIn
  <2> HIDE DEF n
  <2>2. /\ Plays(s, Play(step, s, l))
        /\ \A P, A : OwnedBy(s, P, A) => OwnedBy(Play(step, s, l), P, A \cup {l})
    BY <2>1, SequenceNoteOnIs
  <2>3. ASSUME NEW P, NEW A, OwnedBy(s, P, A)
        PROVE  OwnedBy(Play(step, s, l), P, A \cup PlayedIn(step))
    BY <1>1, <2>2, <2>3, OwnedByMore
  <2> QED
    BY <2>2, <2>3
<1>2. CASE l \notin PlayedIn(step)
  <2>1. Play(step, s, l) = s
    BY <1>2 DEF Play
  <2>2. ASSUME NEW P, NEW A, OwnedBy(s, P, A) PROVE OwnedBy(s, P, A \cup PlayedIn(step))
    BY <2>2, OwnedByMore
  <2> QED
    BY <2>1, <2>2, PlaysStill
<1> QED
  BY <1>1, <1>2

LEMMA PlayedOwned ==
    ASSUME NEW s \in Kept, NEW step \in Steps, NEW P, NEW A, OwnedBy(s, P, A)
    PROVE  Plays(s, Played(s, step)) /\ OwnedBy(Played(s, step), P, A \cup PlayedIn(step))
<1> DEFINE B == A \cup PlayedIn(step)
           E == {x \in Kept : Plays(s, x) /\ OwnedBy(x, P, B)}
           q == [i \in 1 .. LaneCount |-> i - 1]
<1>1. q \in Seq(Lanes)
  <2>1. LaneCount \in Nat
    BY LayerEngineAssumption
  <2>2. q \in [1 .. LaneCount -> Lanes]
    BY <2>1 DEF Lanes
  <2> QED
    BY <2>1, <2>2
<1>2. s \in E
  <2>1. OwnedBy(s, P, B)
    BY OwnedByMore
  <2> QED
    BY <2>1, PlaysStill
<1>3. ASSUME NEW x \in E, NEW c \in Lanes PROVE Play(step, x, c) \in E
  <2> DEFINE t == Play(step, x, c)
  <2>1. x \in Kept /\ Plays(s, x) /\ OwnedBy(x, P, B)
    OBVIOUS
  <2>2. Plays(x, t) /\ OwnedBy(t, P, B \cup PlayedIn(step))
    <3> HIDE DEF B
    <3> QED
      BY <2>1, PlayIs
  <2>3. B \cup PlayedIn(step) = B
    OBVIOUS
  <2>4. Plays(s, t) /\ t \in Kept
    BY <2>1, <2>2, PlaysOn DEF Plays
  <2>5. OwnedBy(t, P, B)
    <3> HIDE DEF t, B
    <3> QED
      BY <2>2, <2>3
  <2> HIDE DEF B
  <2> QED
    BY <2>4, <2>5
<1>4. StepStays(step, Lanes, E)
  BY <1>3 DEF StepStays
<1> HIDE DEF E, q
<1>5. /\ StepPlays(step, Lanes, E) \in [Lanes -> [E -> E]]
      /\ Played(s, step) = Folded(StepPlays(step, Lanes, E), E, s, q)
  <2>1. q = [i \in 1 .. LaneCount |-> i - 1]
    BY DEF q
  <2> QED
    BY <1>1, <1>2, <1>4, <2>1, PlayFolds
<1>6. Folded(StepPlays(step, Lanes, E), E, s, q) \in E
  BY <1>1, <1>2, <1>5, FoldedTyped
<1> QED
  BY <1>5, <1>6 DEF E

LEMMA OwnedSomehow ==
    ASSUME NEW s \in Kept
    PROVE  \E P, A : OwnedBy(s, P, A)
<1> DEFINE P == {ActiveNote(s.lane[v]) : v \in Voices}
           A == {s.owner[v] : v \in Voices}
<1>1. Held(s) \subseteq Voices
  BY LayerFields
<1>2. OwnedBy(s, P, A)
  BY <1>1 DEF OwnedBy
<1> QED
  BY <1>2

\* The lanes a reset step leaves sounding without counting them.
Lost(s, step, reset) == IF reset THEN s.poly.active \ ResetReleases(s, step) ELSE {}

LEMMA StepIs ==
    ASSUME NEW s \in Kept, PolyActive(s), NEW step \in Steps, NEW reset \in BOOLEAN,
           NEW ties \in SUBSET PlayedIn(step)
    PROVE  /\ Goes(s, Step(s, step, reset, ties))
           /\ \A d : Owned(s, d) => Owned(Step(s, step, reset, ties), d \cup Lost(s, step, reset))
<1> DEFINE on == PlayedIn(step)
           goes == IF reset THEN {} ELSE {l \in s.poly.active : step[l] = Tie}
           R == StepReleases(s, step, reset)
           t == SequenceNoteOff(s, R)
           u == Played(t, step)
           p == [u.poly EXCEPT !.active = goes \cup on, !.half = on \ ties]
           w == [u EXCEPT !.poly = p]
<1>0. s.poly \in Sequencers /\ s.poly.active \subseteq Lanes
  BY LayerFields DEF Sequencers
<1>1. on \subseteq Lanes /\ goes \subseteq Lanes /\ R \in SUBSET Lanes
  BY <1>0 DEF PlayedIn, StepReleases, ResetReleases
<1>2. s.poly.active \ R \subseteq goes \cup Lost(s, step, reset)
  BY DEF StepReleases, Lost
<1>3. Step(s, step, reset, ties) = [u EXCEPT !.poly.active = goes \cup on, !.poly.half = on \ ties]
  BY DEF Step
<1> HIDE DEF R, goes, on
<1>4. /\ Plays(s, t)
      /\ \A P, A : OwnedBy(s, P, A) => OwnedBy(t, P, A \ R)
  BY <1>1, SequenceNoteOffIs
<1> HIDE DEF t
<1>5. /\ Plays(t, u)
      /\ \A P, A : OwnedBy(t, P, A) => OwnedBy(u, P, A \cup on)
  <2>1. t \in Kept
    BY <1>4 DEF Plays
  <2>2. ASSUME NEW P, NEW A, OwnedBy(t, P, A) PROVE Plays(t, u) /\ OwnedBy(u, P, A \cup on)
    BY <2>1, <2>2, PlayedOwned DEF on
  <2> HIDE DEF u
  <2> QED
    BY <2>1, <2>2, OwnedSomehow
<1>6. u \in Kept /\ Plays(s, u)
  BY <1>4, <1>5, PlaysOn DEF Plays
<1> HIDE DEF u
<1>7. u.poly = s.poly
  BY <1>6 DEF Plays, SameControls
<1>8. /\ p \in Sequencers /\ p.active = goes \cup on /\ p.running = s.poly.running
      /\ p.selected = s.poly.selected
  BY <1>0, <1>1, <1>7 DEF Sequencers
<1>9. Step(s, step, reset, ties) = w
  <2>1. u \in Layers
    BY <1>6 DEF Kept
  <2> QED
    BY <1>3, <2>1 DEF Layers
<1> HIDE DEF p
<1>10. /\ w \in Kept /\ w.sustained = u.sustained /\ w.pressed = u.pressed
       /\ w.sustain = u.sustain /\ w.unison = u.unison /\ w.keyMode = u.keyMode
       /\ w.arp = u.arp /\ w.poly = p /\ w.gate = u.gate
       /\ \A P, A : OwnedBy(u, P, A) => OwnedBy(w, P, A)
  BY <1>6, <1>8, SequencerReplaced
<1> HIDE DEF w
<1>11. /\ w.sustain = s.sustain /\ w.pressed = s.pressed /\ w.unison = s.unison
       /\ w.arp = s.arp /\ (s.sustain \/ w.sustained \subseteq s.sustained)
  BY <1>6, <1>10 DEF Plays, SameControls
<1>12. Goes(s, w)
  BY <1>10, <1>11 DEF Goes
<1>13. Claims(w) = Claims(s) /\ PolyActive(w) /\ w.poly.active = goes \cup on
  BY <1>8, <1>10, <1>11 DEF Claims, ToArp, PolyActive
<1>14. ASSUME NEW d, Owned(s, d) PROVE Owned(w, d \cup Lost(s, step, reset))
  <2> DEFINE A == s.poly.active \cup d
             B == (A \ R) \cup on
             C == w.poly.active \cup (d \cup Lost(s, step, reset))
  <2>1. s.unison = 0 => OwnedBy(s, Claims(s), A) /\ (s.sustained # {} => s.sustain)
    BY <1>14 DEF Owned
  <2>2. B \subseteq C
    BY <1>2, <1>13
  <2>3. s.unison = 0 => OwnedBy(w, Claims(s), B)
    <3> HIDE DEF A
    <3> QED
      BY <1>4, <1>5, <1>10, <2>1
  <2> HIDE DEF A, B
  <2>4. s.unison = 0 => OwnedBy(w, Claims(w), C)
    <3> HIDE DEF C
    <3> QED
      BY <1>13, <2>2, <2>3, OwnedByMore
  <2> QED
    BY <1>11, <1>13, <2>1, <2>4 DEF Owned
<1> QED
  BY <1>9, <1>12, <1>14
-----------------------------------------------------------------------------
(* Patches.                                                                *)

\* A layer that sounds anew, routed: it does not matter who had the keys before.
LEMMA AnewRouted ==
    ASSUME NEW s \in Kept, Anew(s), s.poly.active = {}, NEW was \in BOOLEAN,
           NEW t, t = RoutingTransition(s, was)
    PROVE  Reroutes(s, t) /\ \A d : Owned(t, d)
<1>1. /\ Reroutes(s, t)
      /\ \A A : OwnedBy(s, ClaimsBefore(s, was), A) => OwnedBy(t, Claims(t), A)
  BY RoutingTransitionIs
<1>2. /\ t.unison = s.unison /\ t.poly.active = {} /\ t.sustain = s.sustain
      /\ s.sustain \/ t.sustained \subseteq s.sustained
  BY <1>1 DEF Reroutes
<1>3. ASSUME NEW d PROVE Owned(t, d)
  <2> DEFINE P == IF s.arp.enabled THEN {} ELSE ToSet(s.pressed)
             A == t.poly.active \cup d
  <2>1. s.unison = 0 => OwnedBy(s, P, {}) /\ (s.sustained # {} => s.sustain)
    BY DEF Anew
  <2>2. P \subseteq ClaimsBefore(s, was) /\ {} \subseteq A
    BY DEF ClaimsBefore
  <2> HIDE DEF P, A
  <2>3. s.unison = 0 => OwnedBy(s, ClaimsBefore(s, was), A)
    BY <2>1, <2>2, OwnedByMore
  <2>4. s.unison = 0 => OwnedBy(t, Claims(t), A)
    BY <1>1, <2>3
  <2> QED
    BY <1>2, <2>1, <2>4 DEF Owned, A
<1> QED
  BY <1>1, <1>3

\* What a patch makes of the arpeggiator and of the gate.
LoadedArp(a, p) ==
    ArpRebuilt([a EXCEPT !.enabled = p.arp, !.hold = p.hold, !.mode = p.mode,
                         !.relatch = p.relatch, !.beatSync = p.beatSync])

LEMMA LoadedArpIs ==
    ASSUME NEW a \in Arps, NEW p \in LayerPatch, NEW b, b = LoadedArp(a, p)
    PROVE  /\ b \in Arps /\ b.enabled = p.arp /\ b.mode = p.mode
           /\ b.held = a.held /\ b.pending = a.pending
BY DEF Arps, LayerPatch, ArpRebuilt, LoadedArp

LEMMA LoadedGateIs ==
    ASSUME NEW g \in GateStates, NEW p \in LayerPatch
    PROVE  [(IF p.poly THEN Ungated(g) ELSE g) EXCEPT !.gates = p.gates, !.keyStep = p.keyStep]
                \in GateStates
BY UngatedIs DEF GateStates, LayerPatch

LEMMA LoadedIs ==
    ASSUME NEW s \in Kept, NEW p \in LayerPatch, NEW t, t = Loaded(s, p)
    PROVE  /\ t \in Kept /\ t.sustain = s.sustain /\ t.pressed = s.pressed
           /\ t.arp.enabled = p.arp /\ t.arp.mode = p.mode
           /\ t.arp.held \cup t.arp.pending
                    \subseteq (s.arp.held \cup s.arp.pending) \cup ToSet(s.pressed)
           /\ \A d : Owned(t, d)
<1> DEFINE e == EndSequenceNotes(s)
           a == ArpRebuilt([e.arp EXCEPT !.enabled = p.arp, !.hold = p.hold, !.mode = p.mode,
                                         !.relatch = p.relatch, !.beatSync = p.beatSync])
           g == [(IF p.poly THEN Ungated(e.gate) ELSE e.gate) EXCEPT
                    !.gates = p.gates, !.keyStep = p.keyStep]
           q == [e.poly EXCEPT !.selected = p.poly, !.running = @ /\ p.poly]
           u == [e EXCEPT !.poly = q, !.keyMode = p.keyMode, !.unison = p.unison, !.arp = a,
                          !.gate = g]
           r == RebuildSoundingNotes(u)
<1>1. PICK z \in Sequencers :
        z.active = {} /\ SequencerEnds(s, z, s.poly.active, e)
  BY EndSequenceNotesIs
<1>2. t = RoutingTransition(RebuildSoundingNotes(
            [e EXCEPT !.poly.selected = p.poly, !.poly.running = @ /\ p.poly,
                !.keyMode = p.keyMode, !.unison = p.unison,
                !.arp = ArpRebuilt([@ EXCEPT !.enabled = p.arp, !.hold = p.hold,
                            !.mode = p.mode, !.relatch = p.relatch, !.beatSync = p.beatSync]),
                !.gate = [(IF p.poly THEN Ungated(@) ELSE @) EXCEPT
                            !.gates = p.gates, !.keyStep = p.keyStep]]), PolyActive(s))
  BY DEF Loaded
<1> HIDE DEF e
<1>3. /\ e \in Kept /\ e \in Layers /\ e.sustain = s.sustain /\ e.pressed = s.pressed
      /\ e.arp = s.arp /\ e.poly \in Sequencers /\ e.poly.active = {}
      /\ e.arp \in Arps /\ e.gate \in GateStates
  <2>1. e \in Kept
    BY <1>1 DEF SequencerEnds
  <2> QED
    BY <1>1, <2>1, LayerFields DEF SequencerEnds
<1>4. [e EXCEPT !.poly.selected = p.poly, !.poly.running = @ /\ p.poly,
                !.keyMode = p.keyMode, !.unison = p.unison,
                !.arp = ArpRebuilt([@ EXCEPT !.enabled = p.arp, !.hold = p.hold,
                            !.mode = p.mode, !.relatch = p.relatch, !.beatSync = p.beatSync]),
                !.gate = [(IF p.poly THEN Ungated(@) ELSE @) EXCEPT
                            !.gates = p.gates, !.keyStep = p.keyStep]] = u
  BY <1>3 DEF Layers
<1>5. t = RoutingTransition(r, PolyActive(s))
  BY <1>2, <1>4
<1>6. /\ a \in Arps /\ a.enabled = p.arp /\ a.mode = p.mode
      /\ a.held = s.arp.held /\ a.pending = s.arp.pending
  <2>1. a = LoadedArp(s.arp, p)
    BY <1>3 DEF LoadedArp
  <2>2. s.arp \in Arps
    BY <1>3
  <2> HIDE DEF a
  <2> QED
    BY <2>1, <2>2, LoadedArpIs
<1>7. g \in GateStates
  BY <1>3, LoadedGateIs
<1>8. q \in Sequencers /\ q.active = {}
  BY <1>3 DEF Sequencers, LayerPatch
<1> HIDE DEF a, g, q
<1>9. /\ u \in Layers /\ SameVoices(e, u) /\ u.sustain = s.sustain /\ u.pressed = s.pressed
      /\ u.arp = a /\ u.poly = q
  BY <1>3, <1>6, <1>7, <1>8 DEF Layers, LayerPatch, SameVoices
<1> HIDE DEF u
<1>10. u \in Kept
  BY <1>3, <1>9, VoicesStay
<1>11. Plays(u, r) /\ Anew(r)
  BY <1>10, RebuildIs
<1> HIDE DEF r
<1>12. /\ r \in Kept /\ r.sustain = s.sustain /\ r.pressed = s.pressed /\ r.arp = a
       /\ r.poly.active = {}
  BY <1>8, <1>9, <1>11 DEF Plays, SameControls
<1>13. PolyActive(s) \in BOOLEAN
  <2>1. s.poly \in Sequencers
    BY LayerFields
  <2> QED
    BY <2>1 DEF Sequencers, PolyActive
<1>14. Reroutes(r, t) /\ \A d : Owned(t, d)
  <2> DEFINE was == PolyActive(s)
  <2> HIDE DEF was
  <2>1. was \in BOOLEAN /\ t = RoutingTransition(r, was)
    BY <1>5, <1>13 DEF was
  <2> QED
    BY <1>11, <1>12, <2>1, AnewRouted
<1> QED
  BY <1>6, <1>12, <1>14 DEF Reroutes
-----------------------------------------------------------------------------
(* The topology of another program.                                        *)

KeyDowns(gate, S, E) == [c \in S |-> [x \in E |-> KeyDown(x, c, gate)]]
KeyDownStays(gate, S, E) == \A x \in E, c \in S : KeyDown(x, c, gate) \in E

LEMMA KeyDownFolds ==
    ASSUME NEW gate, NEW S, NEW E, NEW e \in E, NEW q \in Seq(S),
           KeyDownStays(gate, S, E)
    PROVE  /\ KeyDowns(gate, S, E) \in [S -> [E -> E]]
           /\ AllDown(e, q, gate) = Folded(KeyDowns(gate, S, E), E, e, q)
<1> DEFINE n == Len(q)
           step == StepsOf(KeyDowns(gate, S, E), q)
           Folds(g) == g = [s \in SUBSET DOMAIN q |->
                               IF s = {} THEN e ELSE KeyDown(g[s \ {Max(s)}], q[Max(s)], gate)]
           fold == CHOOSE g : Folds(g)
<1>1. n \in Nat /\ DOMAIN q = 1 .. n /\ \A i \in 1 .. n : q[i] \in S
  OBVIOUS
<1>2. KeyDowns(gate, S, E) \in [S -> [E -> E]]
  BY DEF KeyDowns, KeyDownStays
<1>3. step \in [1 .. n -> [E -> E]] /\ \A i \in 1 .. n, x \in E : step[i][x] = KeyDown(x, q[i], gate)
  BY <1>1, <1>2 DEF StepsOf, KeyDowns
<1> HIDE DEF n, step
<1>4. PICK g : FoldTable(g, E, e, n, step)
  BY <1>1, <1>3, FoldExists
<1>5. Folds(g)
  <2>1. ASSUME NEW s \in SUBSET (1 .. n), s # {}
        PROVE  g[s] = KeyDown(g[s \ {Max(s)}], q[Max(s)], gate)
    BY <1>3, <1>4, <2>1 DEF FoldTable
  <2> QED
    BY <1>1, <1>4, <2>1 DEF FoldTable
<1>6. Folds(fold)
  <2> HIDE DEF Folds
  <2> QED
    BY <1>5
<1>7. AllDown(e, q, gate) = fold[1 .. n]
  BY <1>1 DEF FoldLeft, MapThenFoldSet, AllDown
<1> HIDE DEF fold
<1>8. ASSUME NEW s \in SUBSET (1 .. n), s # {}, fold[s \ {Max(s)}] \in E
      PROVE  fold[s] = step[Max(s)][fold[s \ {Max(s)}]]
  <2>1. Max(s) \in 1 .. n
    BY <1>4, <1>8 DEF FoldTable
  <2>2. fold[s] = KeyDown(fold[s \ {Max(s)}], q[Max(s)], gate)
    BY <1>1, <1>6, <1>8
  <2> QED
    BY <1>3, <1>8, <2>1, <2>2
<1>9. FoldsBy(fold, E, e, n, step)
  BY <1>6, <1>8 DEF FoldsBy
<1>10. PICK at : Through(at, E, e, n, step) /\ at[n] = fold[1 .. n]
  <2>1. n \in Nat /\ step \in [1 .. n -> [E -> E]]
    BY <1>1, <1>3
  <2> HIDE DEF Folds
  <2> QED
    BY <2>1, <1>9, FoldReaches
<1>11. Folded(KeyDowns(gate, S, E), E, e, q) = at[n]
  BY <1>2, <1>10, FoldedIs DEF n, step
<1> QED
  BY <1>2, <1>7, <1>10, <1>11

LEMMA AllDownIs ==
    ASSUME NEW s \in Kept, NEW q \in Seq(Notes), NEW gate \in BOOLEAN,
           Owned(s, {}), ArpWithin(s, ToSet(s.pressed))
    PROVE  /\ AllDown(s, q, gate) \in Kept /\ AllDown(s, q, gate).sustain = s.sustain
           /\ AllDown(s, q, gate).arp.enabled = s.arp.enabled
           /\ AllDown(s, q, gate).arp.mode = s.arp.mode
           /\ Owned(AllDown(s, q, gate), {})
           /\ ArpWithin(AllDown(s, q, gate), ToSet(AllDown(s, q, gate).pressed))
<1> DEFINE E == {x \in Kept :
                    /\ x.sustain = s.sustain
                    /\ x.arp.enabled = s.arp.enabled /\ x.arp.mode = s.arp.mode
                    /\ Owned(x, {}) /\ ArpWithin(x, ToSet(x.pressed))}
<1>1. s \in E
  OBVIOUS
<1>2. ASSUME NEW x \in E, NEW c \in Notes PROVE KeyDown(x, c, gate) \in E
  <2> DEFINE t == KeyDown(x, c, gate)
  <2>1. /\ x \in Kept /\ x.sustain = s.sustain
        /\ x.arp.enabled = s.arp.enabled /\ x.arp.mode = s.arp.mode
        /\ Owned(x, {}) /\ ArpWithin(x, ToSet(x.pressed))
    OBVIOUS
  <2>2. /\ t \in Kept /\ t.sustain = x.sustain
        /\ ToSet(t.pressed) = ToSet(x.pressed) \cup {c}
        /\ ArpKeeps(x.arp, t.arp, {c})
        /\ \A d : Owned(x, d) => Owned(t, d)
    <3> HIDE DEF E
    <3> QED
      BY <2>1, KeyDownIs
  <2> HIDE DEF t
  <2>3. ArpWithin(t, ToSet(t.pressed))
    BY <2>1, <2>2 DEF ArpWithin, ArpKeeps
  <2>4. t \in E
    BY <2>1, <2>2, <2>3 DEF ArpKeeps
  <2> QED
    BY <2>4 DEF t
<1>3. KeyDownStays(gate, Notes, E)
  BY <1>2 DEF KeyDownStays
<1> HIDE DEF E
<1>4. /\ KeyDowns(gate, Notes, E) \in [Notes -> [E -> E]]
      /\ AllDown(s, q, gate) = Folded(KeyDowns(gate, Notes, E), E, s, q)
  BY <1>1, <1>3, KeyDownFolds
<1>5. Folded(KeyDowns(gate, Notes, E), E, s, q) \in E
  BY <1>1, <1>4, FoldedTyped
<1> QED
  BY <1>4, <1>5 DEF E

\* A layer whose voices all fell silent.
LEMMA SilencedIs ==
    ASSUME NEW s \in Kept, Held(s) = {}, s.sustained = {},
           NEW t, t = [s EXCEPT !.lane = [v \in Voices |-> Quiet]]
    PROVE  /\ t \in Kept /\ t.sustain = s.sustain /\ t.pressed = s.pressed /\ t.arp = s.arp
<1> DEFINE f == [v \in Voices |-> Quiet]
<1>1. f \in [Voices -> Lane] /\ \A v \in Voices : ActiveNote(f[v]) = None
  BY QuietFacts
<1>2. t = [s EXCEPT !.lane = f]
  OBVIOUS
<1> HIDE DEF f
<1>3. s \in Layers
  BY DEF Kept
<1>4. /\ t \in Layers /\ t.lane = f /\ t.held = s.held /\ t.sustained = s.sustained
      /\ t.sustain = s.sustain /\ t.pressed = s.pressed /\ t.arp = s.arp
  BY <1>1, <1>2, <1>3 DEF Layers
<1>5. Held(t) = {} /\ Sounding(t) = {}
  BY <1>1, <1>4 DEF Held, Sounding
<1> QED
  BY <1>4, <1>5 DEF Kept, Books

LEMMA RestoredIs ==
    ASSUME NEW s \in Kept, NEW p \in LayerPatch, NEW gate \in BOOLEAN, foot \in BOOLEAN,
           NEW t, t = Restored(s, p, gate)
    PROVE  /\ t \in Kept /\ Owned(t, {}) /\ ArpWithin(t, ToSet(t.pressed))
           /\ t.sustain = (foot /\ ~(p.arp /\ p.mode # "Sustain"))
<1> DEFINE c == Cleared(s)
           q == [c EXCEPT !.lane = [v \in Voices |-> Quiet]]
           r == Loaded(q, p)
           u == AllDown(r, s.pressed, gate)
<1>0. s.pressed \in Seq(Notes)
  BY LayerFields
<1>1. t = IF foot THEN PressPedal(u, TRUE) ELSE u
  BY DEF Restored
<1>2. /\ c \in Kept /\ c.sustain = FALSE /\ c.pressed = <<>> /\ c.sustained = {}
      /\ c.arp.held \cup c.arp.pending = {} /\ Held(c) = {}
  BY ClearedIs
<1> HIDE DEF c
<1>3. q \in Kept /\ q.sustain = FALSE /\ q.pressed = <<>> /\ q.arp = c.arp
  BY <1>2, SilencedIs
<1> HIDE DEF q
<1>4. /\ r \in Kept /\ r.sustain = FALSE /\ r.pressed = <<>>
      /\ r.arp.enabled = p.arp /\ r.arp.mode = p.mode
      /\ r.arp.held \cup r.arp.pending
                \subseteq (q.arp.held \cup q.arp.pending) \cup ToSet(q.pressed)
      /\ \A d : Owned(r, d)
  BY <1>3, LoadedIs
<1> HIDE DEF r
<1>5. ArpWithin(r, ToSet(r.pressed)) /\ Owned(r, {})
  BY <1>2, <1>3, <1>4, ElementsEmpty DEF ArpWithin
<1>6. /\ u \in Kept /\ u.sustain = FALSE
      /\ u.arp.enabled = p.arp /\ u.arp.mode = p.mode
      /\ Owned(u, {}) /\ ArpWithin(u, ToSet(u.pressed))
  BY <1>0, <1>4, <1>5, AllDownIs
<1> HIDE DEF u
<1>7. TakesPedal(u) = (p.arp /\ p.mode # "Sustain")
  BY <1>6 DEF TakesPedal
<1>8. CASE foot
  <2>1. /\ t \in Kept /\ t.pressed = u.pressed
        /\ ArpKeeps(u.arp, t.arp, {})
        /\ t.sustain = IF TakesPedal(u) THEN u.sustain ELSE TRUE
        /\ \A d : Owned(u, d) => Owned(t, d)
    <3>1. t = PressPedal(u, TRUE)
      BY <1>1, <1>8
    <3> QED
      BY <1>6, <3>1, PressPedalIs
  <2>2. ArpWithin(t, ToSet(t.pressed))
    BY <1>6, <2>1 DEF ArpWithin, ArpKeeps
  <2>3. t.sustain = (foot /\ ~(p.arp /\ p.mode # "Sustain"))
    BY <1>6, <1>7, <1>8, <2>1
  <2> QED
    BY <1>6, <2>1, <2>2, <2>3
<1>9. CASE ~foot
  BY <1>1, <1>6, <1>9
<1> QED
  BY <1>8, <1>9
-----------------------------------------------------------------------------
(* The actions.                                                            *)

\* Of the lanes that lost their release, those that still own a voice are kept in mind.
LEMMA StillOwned ==
    ASSUME NEW lost \in SUBSET Lanes, dropped \subseteq Lanes, dropped' = StillDropped(lost),
           layer' \in Kept, Owned(layer', dropped \cup lost)
    PROVE  dropped' \subseteq Lanes /\ Owned(layer', dropped')
<1> DEFINE t == layer'
           D == dropped \cup lost
<1>1. dropped' = {l \in D \ t.poly.active : \E v \in Voices : t.owner[v] = l}
  BY DEF StillDropped
<1>2. t \in Kept /\ Owned(t, D) /\ D \subseteq Lanes
  OBVIOUS
<1> HIDE DEF t, D
<1>3. Held(t) \subseteq Voices
  BY <1>2, LayerFields
<1>4. ASSUME t.unison = 0 PROVE OwnedBy(t, Claims(t), t.poly.active \cup dropped')
  <2>1. OwnedBy(t, Claims(t), t.poly.active \cup D)
    BY <1>2, <1>4 DEF Owned
  <2>2. ASSUME NEW v \in Held(t), t.owner[v] # Live
        PROVE  t.owner[v] \in t.poly.active \cup dropped'
    BY <1>1, <1>3, <2>1, <2>2 DEF OwnedBy
  <2>3. ASSUME NEW v \in Held(t), t.owner[v] = Live
        PROVE  ActiveNote(t.lane[v]) \in Claims(t)
    BY <2>1, <2>3 DEF OwnedBy
  <2> QED
    BY <2>2, <2>3 DEF OwnedBy
<1>5. Owned(t, dropped')
  BY <1>2, <1>4 DEF Owned
<1> QED
  BY <1>1, <1>2, <1>5 DEF t

LEMMA NothingLost ==
    ASSUME dropped \subseteq Lanes, dropped' = StillDropped({}),
           layer' \in Kept, Owned(layer', dropped)
    PROVE  dropped' \subseteq Lanes /\ Owned(layer', dropped')
<1>1. dropped \cup {} = dropped /\ {} \in SUBSET Lanes
  OBVIOUS
<1> DEFINE lost == {}
<1>2. lost \in SUBSET Lanes /\ dropped' = StillDropped(lost) /\ Owned(layer', dropped \cup lost)
  BY <1>1
<1> HIDE DEF lost
<1> QED
  BY <1>2, StillOwned

LEMMA InvFacts ==
    ASSUME Inv
    PROVE  /\ layer \in Kept /\ Owned(layer, dropped)
           /\ layer \in Layers /\ layer.arp \in Arps /\ layer.poly \in Sequencers
           /\ layer.gate \in GateStates /\ layer.pressed \in Seq(Notes)
           /\ layer.unison \in Nat /\ PolyActive(layer) \in BOOLEAN
           /\ PolyActive(layer) \/ layer.poly.active = {}
<1>1. layer \in Kept /\ Owned(layer, dropped)
  BY DEF Inv
<1>2. /\ layer \in Layers /\ layer.arp \in Arps /\ layer.poly \in Sequencers
      /\ layer.gate \in GateStates /\ layer.pressed \in Seq(Notes)
      /\ layer.unison \in 0 .. VoiceCount
  BY <1>1, LayerFields
<1> QED
  BY <1>1, <1>2, LayerEngineAssumption DEF Owned, PolyActive, Sequencers

\* What has nothing to do with keys and pedal, and leaves every voice owned.
LEMMA BecomesKeeps ==
    ASSUME Inv, NEW t, Becomes(t), Goes(layer, t), Owned(t, dropped)
    PROVE  Inv'
<1>1. /\ layer' = t /\ dropped' = StillDropped({})
      /\ foot' = foot /\ latched' = latched /\ missed' = missed /\ swallowed' = swallowed
  BY DEF Becomes
<1>2. /\ t \in Kept /\ t.sustain = layer.sustain /\ ToSet(t.pressed) = ToSet(layer.pressed)
      /\ t.arp.held \cup t.arp.pending
            \subseteq (layer.arp.held \cup layer.arp.pending) \cup ToSet(layer.pressed)
  BY DEF Goes
<1>3. dropped' \subseteq Lanes /\ Owned(layer', dropped')
  BY <1>1, <1>2, NothingLost DEF Inv
<1>4. SustainFollowsPedal'
  BY <1>1, <1>2 DEF Inv, SustainFollowsPedal
<1>5. ArpWithin(layer', ToSet(layer'.pressed) \cup latched' \cup missed')
  BY <1>1, <1>2 DEF Inv, ArpWithin
<1> QED
  BY <1>1, <1>2, <1>3, <1>4, <1>5 DEF Inv

LEMMA GatesIs == ASSUME Inv, NEW gate \in Gates(layer) PROVE gate \in BOOLEAN
BY DEF Gates

LEMMA NoteOnKeeps ==
    ASSUME Inv, NEW n \in Notes, NEW gate \in BOOLEAN, NoteOn(n, gate)
    PROVE  Inv'
<1> DEFINE t == KeyDown(layer, n, gate)
<1>1. /\ layer' = t /\ dropped' = StillDropped({})
      /\ latched' = latched \ {n} /\ missed' = missed \ {n}
      /\ foot' = foot /\ swallowed' = swallowed
  BY DEF NoteOn
<1>2. /\ t \in Kept /\ t.sustain = layer.sustain
      /\ ToSet(t.pressed) = ToSet(layer.pressed) \cup {n}
      /\ ArpKeeps(layer.arp, t.arp, {n})
      /\ \A d : Owned(layer, d) => Owned(t, d)
  BY KeyDownIs, InvFacts
<1> HIDE DEF t
<1>3. dropped' \subseteq Lanes /\ Owned(layer', dropped')
  BY <1>1, <1>2, InvFacts, NothingLost DEF Inv
<1>4. SustainFollowsPedal'
  BY <1>1, <1>2 DEF Inv, SustainFollowsPedal
<1>5. ArpWithin(layer', ToSet(layer'.pressed) \cup latched' \cup missed')
  BY <1>1, <1>2 DEF Inv, ArpWithin, ArpKeeps
<1> QED
  BY <1>1, <1>2, <1>3, <1>4, <1>5 DEF Inv

LEMMA NoteOffKeeps ==
    ASSUME Inv, NEW n \in Notes, NoteOff(n)
    PROVE  Inv'
<1> DEFINE t == KeyUp(layer, n)
<1>1. /\ layer' = t /\ dropped' = StillDropped({})
      /\ foot' = foot /\ swallowed' = swallowed
      /\ latched' = IF ToArp(layer) /\ ArpHolds(layer.arp) THEN latched \cup {n} ELSE latched
      /\ missed' = IF ToArp(layer) THEN missed
                   ELSE missed \cup ({n} \cap (layer.arp.held \cup layer.arp.pending))
  BY DEF NoteOff
<1>2. /\ t \in Kept /\ t.sustain = layer.sustain
      /\ ToSet(t.pressed) = ToSet(layer.pressed) \ {n}
      /\ ArpKeeps(layer.arp, t.arp, {})
      /\ ToArp(layer) => ArpHolds(layer.arp) \/ n \notin t.arp.held \cup t.arp.pending
      /\ ~ToArp(layer) => t.arp = layer.arp
      /\ \A d : Owned(layer, d) => Owned(t, d)
  BY KeyUpIs, InvFacts
<1> HIDE DEF t
<1>3. dropped' \subseteq Lanes /\ Owned(layer', dropped')
  BY <1>1, <1>2, InvFacts, NothingLost DEF Inv
<1>4. SustainFollowsPedal'
  BY <1>1, <1>2 DEF Inv, SustainFollowsPedal
<1>5. ArpWithin(layer', ToSet(layer'.pressed) \cup latched' \cup missed')
  <2> DEFINE K == layer.arp.held \cup layer.arp.pending
             L == t.arp.held \cup t.arp.pending
  <2>1. K \subseteq ToSet(layer.pressed) \cup latched \cup missed /\ L \subseteq K
    BY <1>2 DEF Inv, ArpWithin, ArpKeeps
  <2>2. n \in L => n \in latched' \cup missed'
    BY <1>1, <1>2, <2>1
  <2>3. latched \subseteq latched' /\ missed \subseteq missed'
    BY <1>1
  <2>4. L \subseteq ToSet(t.pressed) \cup latched' \cup missed'
    <3> HIDE DEF K, L
    <3> QED
      BY <1>2, <2>1, <2>2, <2>3
  <2> QED
    BY <1>1, <2>4 DEF ArpWithin
<1>6. latched' \subseteq Notes /\ missed' \subseteq Notes
  BY <1>1 DEF Inv
<1> QED
  BY <1>1, <1>2, <1>3, <1>4, <1>5, <1>6 DEF Inv

LEMMA AllNotesOffKeeps ==
    ASSUME Inv, AllNotesOff
    PROVE  Inv'
<1> DEFINE t == Cleared(layer)
<1>1. /\ layer' = t /\ foot' = FALSE /\ swallowed' = FALSE
      /\ latched' = {} /\ missed' = {} /\ dropped' = {}
  BY DEF AllNotesOff
<1>2. /\ t \in Kept /\ t.sustain = FALSE /\ t.arp.held \cup t.arp.pending = {}
      /\ \A d : Owned(t, d)
  BY ClearedIs, InvFacts
<1> HIDE DEF t
<1>3. SustainFollowsPedal'
  BY <1>1, <1>2 DEF SustainFollowsPedal
<1> QED
  BY <1>1, <1>2, <1>3 DEF Inv, ArpWithin

LEMMA SustainPedalKeeps ==
    ASSUME Inv, NEW down \in BOOLEAN, SustainPedal(down)
    PROVE  Inv'
<1> DEFINE t == PressPedal(layer, down)
<1>1. /\ layer' = t /\ foot' = down /\ swallowed' = TakesPedal(layer)
      /\ dropped' = StillDropped({}) /\ latched' = latched /\ missed' = missed
  BY DEF SustainPedal
<1>2. /\ t \in Kept /\ t.pressed = layer.pressed /\ ArpKeeps(layer.arp, t.arp, {})
      /\ t.sustain = IF TakesPedal(layer) THEN layer.sustain ELSE down
      /\ \A d : Owned(layer, d) => Owned(t, d)
  BY PressPedalIs, InvFacts
<1> HIDE DEF t
<1>3. dropped' \subseteq Lanes /\ Owned(layer', dropped')
  BY <1>1, <1>2, InvFacts, NothingLost DEF Inv
<1>4. SustainFollowsPedal' /\ swallowed' \in BOOLEAN
  <2>1. TakesPedal(layer) \in BOOLEAN
    BY InvFacts DEF TakesPedal, Arps
  <2> QED
    BY <1>1, <1>2, <2>1 DEF SustainFollowsPedal
<1>5. ArpWithin(layer', ToSet(layer'.pressed) \cup latched' \cup missed')
  BY <1>1, <1>2 DEF Inv, ArpWithin, ArpKeeps
<1> QED
  BY <1>1, <1>2, <1>3, <1>4, <1>5 DEF Inv

(* Edits.                                                                  *)

\* The same layer with another size of the unison group.
LEMMA UnisonReplaced ==
    ASSUME NEW s \in Kept, NEW k \in 0 .. VoiceCount, NEW t, t = [s EXCEPT !.unison = k]
    PROVE  /\ t \in Kept /\ t.sustain = s.sustain /\ t.pressed = s.pressed
           /\ t.arp = s.arp /\ t.poly = s.poly
<1>1. /\ t \in Layers /\ SameVoices(s, t) /\ t.sustain = s.sustain /\ t.pressed = s.pressed
      /\ t.arp = s.arp /\ t.poly = s.poly
  BY DEF Kept, Layers, SameVoices
<1> QED
  BY <1>1, VoicesStay

LEMMA SetUnisonKeeps ==
    ASSUME Inv, NEW k \in 0 .. VoiceCount, SetUnison(k)
    PROVE  Inv'
<1> DEFINE s == [layer EXCEPT !.unison = k]
           t == RebuildSoundingNotes(s)
<1>1. Becomes(t)
  BY DEF SetUnison
<1>2. /\ s \in Kept /\ s.sustain = layer.sustain /\ s.pressed = layer.pressed
      /\ s.arp = layer.arp /\ s.poly = layer.poly
  BY InvFacts, UnisonReplaced
<1> HIDE DEF s
<1>3. PolyActive(s) \/ s.poly.active = {}
  BY <1>2, InvFacts DEF PolyActive
<1>4. Plays(s, t) /\ Owned(t, dropped)
  BY <1>2, <1>3, RebuildIs, RebuildOwned
<1> HIDE DEF t
<1>5. Goes(layer, t)
  BY <1>2, <1>4 DEF Plays, SameControls, Goes
<1> QED
  BY <1>1, <1>4, <1>5, BecomesKeeps

\* The same layer with another key mode.
LEMMA KeyModeReplaced ==
    ASSUME NEW s \in Kept, NEW mode \in KeyModes, NEW t, t = [s EXCEPT !.keyMode = mode]
    PROVE  /\ t \in Kept /\ t.sustain = s.sustain /\ t.pressed = s.pressed
           /\ t.unison = s.unison /\ t.arp = s.arp /\ t.poly = s.poly
           /\ \A d : Owned(s, d) => Owned(t, d)
<1>1. /\ t \in Layers /\ SameVoices(s, t) /\ t.sustain = s.sustain /\ t.pressed = s.pressed
      /\ t.unison = s.unison /\ t.arp = s.arp /\ t.poly = s.poly
  BY DEF Kept, Layers, SameVoices
<1>2. /\ t \in Kept /\ t.sustained = s.sustained
      /\ \A P, A : OwnedBy(s, P, A) => OwnedBy(t, P, A)
  BY <1>1, VoicesStay
<1>3. Claims(t) = Claims(s) /\ (PolyActive(t) <=> PolyActive(s))
  BY <1>1 DEF Claims, ToArp, PolyActive
<1>4. ASSUME NEW d, Owned(s, d) PROVE Owned(t, d)
  BY <1>1, <1>2, <1>3, <1>4 DEF Owned
<1> QED
  BY <1>1, <1>2, <1>4

LEMMA SetKeyModeKeeps ==
    ASSUME Inv, NEW mode \in KeyModes, SetKeyMode(mode)
    PROVE  Inv'
<1> DEFINE s == [layer EXCEPT !.keyMode = mode]
           n == Selected(s)
           u == UpdateUnisonGroup(s, n, FALSE)
           t == IF s.unison > 0 /\ s.pressed # <<>> THEN u ELSE s
<1>1. Becomes(t)
  BY DEF SetKeyMode
<1>2. /\ s \in Kept /\ s.sustain = layer.sustain /\ s.pressed = layer.pressed
      /\ s.unison = layer.unison /\ s.arp = layer.arp /\ s.poly = layer.poly
      /\ \A d : Owned(layer, d) => Owned(s, d)
  BY InvFacts, KeyModeReplaced
<1> HIDE DEF s
<1>3. CASE s.unison > 0 /\ s.pressed # <<>>
  <2>1. n \in Notes
    BY <1>2, <1>3, SelectedIs
  <2> HIDE DEF n
  <2>2. t = u
    BY <1>3
  <2>3. Plays(s, t)
    BY <1>2, <2>1, <2>2, UpdateUnisonGroupIs
  <2> HIDE DEF t
  <2>4. Goes(layer, t)
    BY <1>2, <2>3 DEF Plays, SameControls, Goes
  <2>5. t.unison # 0 /\ (PolyActive(t) \/ t.poly.active = {})
    BY <1>2, <1>3, <2>3, InvFacts DEF Plays, SameControls, PolyActive
  <2>6. Owned(t, dropped)
    BY <2>5 DEF Owned
  <2> QED
    BY <1>1, <2>4, <2>6, BecomesKeeps
<1>4. CASE ~(s.unison > 0 /\ s.pressed # <<>>)
  <2>1. t = s
    BY <1>4
  <2>2. Goes(layer, s) /\ Owned(s, dropped)
    BY <1>2, InvFacts DEF Goes
  <2> HIDE DEF t
  <2> QED
    BY <1>1, <2>1, <2>2, BecomesKeeps
<1> QED
  BY <1>3, <1>4

LEMMA SetArpEnabledKeeps ==
    ASSUME Inv, NEW on \in BOOLEAN, SetArpEnabled(on)
    PROVE  Inv'
<1> DEFINE a == SetEnabled(layer.arp, on)
           c == FoldLeft(ArpNoteOn, a, layer.pressed)
           b == IF on /\ ~layer.arp.enabled THEN c ELSE a
           s == [layer EXCEPT !.arp = b]
           t == RebuildSoundingNotes(s)
<1>1. Becomes(t)
  BY DEF SetArpEnabled
<1>2. /\ a \in Arps
      /\ a.held \cup a.pending \subseteq layer.arp.held \cup layer.arp.pending
  BY InvFacts, SetEnabledIs
<1> HIDE DEF a
<1>3. ArpKeeps(a, c, ToSet(layer.pressed))
  BY <1>2, InvFacts, AllArpNoteOn
<1> HIDE DEF c
<1>4. /\ b \in Arps
      /\ b.held \cup b.pending
            \subseteq (layer.arp.held \cup layer.arp.pending) \cup ToSet(layer.pressed)
  BY <1>2, <1>3 DEF ArpKeeps
<1> HIDE DEF b
<1>5. /\ s \in Kept /\ s.arp = b /\ s.sustain = layer.sustain /\ s.pressed = layer.pressed
      /\ s.poly = layer.poly
  BY <1>4, InvFacts, ArpReplaced
<1> HIDE DEF s
<1>6. PolyActive(s) \/ s.poly.active = {}
  BY <1>5, InvFacts DEF PolyActive
<1>7. Plays(s, t) /\ Owned(t, dropped)
  BY <1>5, <1>6, RebuildIs, RebuildOwned
<1> HIDE DEF t
<1>8. Goes(layer, t)
  BY <1>4, <1>5, <1>7 DEF Plays, SameControls, Goes
<1> QED
  BY <1>1, <1>7, <1>8, BecomesKeeps

LEMMA SetArpKeeps ==
    ASSUME Inv, NEW p \in LayerPatch, SetArp(p)
    PROVE  Inv'
<1>1. PICK a \in {[layer.arp EXCEPT !.hold = p.hold], [layer.arp EXCEPT !.mode = p.mode],
                  [layer.arp EXCEPT !.relatch = p.relatch],
                  [layer.arp EXCEPT !.beatSync = p.beatSync]} :
        Becomes([layer EXCEPT !.arp = ArpRebuilt(a)])
  BY DEF SetArp
<1>2. /\ a \in Arps /\ a.enabled = layer.arp.enabled /\ a.current = layer.arp.current
      /\ a.held = layer.arp.held /\ a.pending = layer.arp.pending
  BY <1>1, InvFacts DEF Arps, LayerPatch
<1> DEFINE b == ArpRebuilt(a)
           t == [layer EXCEPT !.arp = b]
<1>3. /\ b \in Arps /\ b.enabled = layer.arp.enabled /\ b.current = layer.arp.current
      /\ b.held = layer.arp.held /\ b.pending = layer.arp.pending
  BY <1>2, ArpRebuiltIs DEF ArpKeeps
<1>4. Becomes(t)
  BY <1>1
<1> HIDE DEF b
<1>5. /\ t \in Kept /\ t.sustained = layer.sustained /\ t.arp = b
      /\ t.sustain = layer.sustain /\ t.pressed = layer.pressed /\ t.unison = layer.unison
      /\ t.keyMode = layer.keyMode /\ t.poly = layer.poly /\ t.gate = layer.gate
      /\ \A P, A : OwnedBy(layer, P, A) => OwnedBy(t, P, A)
  BY <1>3, InvFacts, ArpReplaced
<1> HIDE DEF t
<1>6. Goes(layer, t)
  BY <1>3, <1>5 DEF Goes
<1>7. Claims(t) = Claims(layer) /\ (PolyActive(t) <=> PolyActive(layer))
  BY <1>3, <1>5 DEF Claims, ToArp, PolyActive
<1>8. Owned(t, dropped)
  BY <1>5, <1>7, InvFacts DEF Owned
<1> QED
  BY <1>4, <1>6, <1>8, BecomesKeeps

\* Keys routed anew, and every voice owned afterwards if it was before.
LEMMA RoutedOwned ==
    ASSUME NEW s \in Kept, NEW was \in BOOLEAN, NEW d,
           s.unison = 0 =>
                /\ OwnedBy(s, ClaimsBefore(s, was), s.poly.active \cup d)
                /\ s.sustained # {} => s.sustain,
           PolyActive(s) \/ s.poly.active = {},
           NEW t, t = RoutingTransition(s, was)
    PROVE  Reroutes(s, t) /\ Owned(t, d)
<1>1. /\ Reroutes(s, t)
      /\ \A A : OwnedBy(s, ClaimsBefore(s, was), A) => OwnedBy(t, Claims(t), A)
  BY RoutingTransitionIs
<1>2. /\ t.unison = s.unison /\ t.poly = s.poly /\ t.sustain = s.sustain
      /\ s.sustain \/ t.sustained \subseteq s.sustained
  BY <1>1 DEF Reroutes
<1>3. PolyActive(t) \/ t.poly.active = {}
  BY <1>2 DEF PolyActive
<1>4. s.unison = 0 => OwnedBy(t, Claims(t), t.poly.active \cup d)
  BY <1>1, <1>2
<1> QED
  BY <1>1, <1>2, <1>3, <1>4 DEF Owned

\* The same layer with another sequencer and gate.
Sequenced(s, p, g) == [s EXCEPT !.poly = p, !.gate = g]

LEMMA SequencersReplaced ==
    ASSUME NEW s \in Kept, NEW p \in Sequencers, NEW g \in GateStates,
           NEW t, t = Sequenced(s, p, g)
    PROVE  /\ t \in Kept /\ t.sustained = s.sustained /\ t.pressed = s.pressed
           /\ t.sustain = s.sustain /\ t.unison = s.unison
           /\ t.arp = s.arp /\ t.poly = p /\ t.gate = g
           /\ \A P, A : OwnedBy(s, P, A) => OwnedBy(t, P, A)
<1>1. /\ t \in Layers /\ SameVoices(s, t) /\ t.sustain = s.sustain /\ t.pressed = s.pressed
      /\ t.unison = s.unison /\ t.arp = s.arp /\ t.poly = p /\ t.gate = g
  BY DEF Kept, Layers, SameVoices, Sequenced
<1> QED
  BY <1>1, VoicesStay

LEMMA RefreshesIs ==
    ASSUME NEW s \in Kept, NEW half \in Refreshes(s)
    PROVE  half \subseteq Lanes
<1>1. s.poly \in Sequencers
  BY LayerFields
<1> QED
  BY <1>1 DEF Refreshes, Sequencers

\* What set_sequencer_type does before the keys are routed, for the lanes of half.
Retyped(s, poly) ==
    [s EXCEPT !.poly.selected = poly, !.poly.running = @ /\ poly,
              !.gate = IF poly THEN Ungated(@) ELSE @]

\* The sequencer of another type: the lanes that were active are ended with it.
LEMMA RetypedIs ==
    ASSUME NEW s \in Kept, NEW d, Owned(s, d), NEW poly \in BOOLEAN,
           NEW t, t = IF PolyActive(s) /\ ~poly THEN EndSequenceNotes(Retyped(s, poly))
                      ELSE Retyped(s, poly)
    PROVE  /\ t \in Kept /\ t.sustain = s.sustain /\ t.pressed = s.pressed
           /\ t.arp = s.arp
           /\ t.unison = 0 =>
                /\ OwnedBy(t, ClaimsBefore(t, PolyActive(s)), t.poly.active \cup d)
                /\ t.sustained # {} => t.sustain
           /\ PolyActive(t) \/ t.poly.active = {}
<1> DEFINE p == [s.poly EXCEPT !.selected = poly, !.running = @ /\ poly]
           g == IF poly THEN Ungated(s.gate) ELSE s.gate
           u == Sequenced(s, p, g)
<1>0. s \in Layers /\ s.poly \in Sequencers /\ s.gate \in GateStates
  BY LayerFields
<1>1. Retyped(s, poly) = u
  BY <1>0 DEF Retyped, Layers, Sequenced
<1>2. /\ p \in Sequencers /\ p.active = s.poly.active /\ p.selected = poly
      /\ p.running = (s.poly.running /\ poly)
  BY <1>0 DEF Sequencers
<1>3. g \in GateStates
  BY <1>0, UngatedIs
<1> HIDE DEF p, g
<1>4. /\ u \in Kept /\ u.sustained = s.sustained /\ u.pressed = s.pressed
      /\ u.sustain = s.sustain /\ u.unison = s.unison
      /\ u.arp = s.arp /\ u.poly = p
      /\ \A P, A : OwnedBy(s, P, A) => OwnedBy(u, P, A)
  BY <1>2, <1>3, SequencersReplaced
<1> HIDE DEF u
<1>5. /\ s.unison = 0 => OwnedBy(s, Claims(s), s.poly.active \cup d) /\ (s.sustained # {} => s.sustain)
      /\ PolyActive(s) \/ s.poly.active = {}
  BY DEF Owned
<1>6. Claims(s) = ClaimsBefore(s, PolyActive(s))
  BY DEF Claims, ClaimsBefore, ToArp
<1>7. CASE PolyActive(s) /\ ~poly
  <2>1. t = EndSequenceNotes(u)
    BY <1>1, <1>7
  <2>2. PICK z \in Sequencers : z.active = {} /\ SequencerEnds(u, z, u.poly.active, t)
    BY <1>4, <2>1, EndSequenceNotesIs
  <2>3. /\ t \in Kept /\ t.sustain = s.sustain /\ t.pressed = s.pressed /\ t.unison = s.unison
        /\ t.arp = s.arp /\ t.poly.active = {}
        /\ s.sustain \/ t.sustained \subseteq s.sustained
        /\ \A P, A : OwnedBy(s, P, A) => OwnedBy(t, P, A \ s.poly.active)
    BY <1>2, <1>4, <2>2 DEF SequencerEnds
  <2>4. ClaimsBefore(t, PolyActive(s)) = ClaimsBefore(s, PolyActive(s))
    BY <2>3 DEF ClaimsBefore
  <2>5. s.unison = 0 => OwnedBy(t, Claims(s), t.poly.active \cup d)
    <3> DEFINE A == s.poly.active \cup d
               B == A \ s.poly.active
               C == t.poly.active \cup d
    <3>1. B \subseteq C /\ Claims(s) \subseteq Claims(s)
      OBVIOUS
    <3>2. s.unison = 0 => OwnedBy(t, Claims(s), B)
      <4> HIDE DEF A
      <4>1. s.unison = 0 => OwnedBy(s, Claims(s), A)
        BY <1>5 DEF A
      <4> QED
        BY <2>3, <4>1
    <3> HIDE DEF B, C
    <3>3. s.unison = 0 => OwnedBy(t, Claims(s), C)
      BY <3>1, <3>2, OwnedByMore
    <3> QED
      BY <3>3 DEF C
  <2> QED
    BY <1>5, <1>6, <2>3, <2>4, <2>5
<1>8. CASE ~(PolyActive(s) /\ ~poly)
  <2>1. t = u
    BY <1>1, <1>8
  <2>2. ClaimsBefore(u, PolyActive(s)) = Claims(s)
    BY <1>4, <1>6 DEF ClaimsBefore
  <2>3. PolyActive(u) \/ u.poly.active = {}
    BY <1>2, <1>4, <1>5, <1>8 DEF PolyActive
  <2> QED
    BY <1>2, <1>4, <1>5, <2>1, <2>2, <2>3
<1> QED
  BY <1>7, <1>8

LEMMA SetSequencerTypeKeeps ==
    ASSUME Inv, NEW poly \in BOOLEAN, SetSequencerType(poly)
    PROVE  Inv'
<1> DEFINE s == Retyped(layer, poly)
           t == IF PolyActive(layer) /\ ~poly THEN EndSequenceNotes(s) ELSE s
           was == PolyActive(layer)
<1>1. PICK half \in Refreshes(t) :
        LET u == RoutingTransition([t EXCEPT !.poly.half = half], was)
        IN  Becomes(IF poly /\ EnvelopeGating(layer) THEN RebuildSoundingNotes(u) ELSE u)
  BY DEF SetSequencerType, Retyped
<1>2. /\ t \in Kept /\ t.sustain = layer.sustain /\ t.pressed = layer.pressed
      /\ t.arp = layer.arp
      /\ t.unison = 0 =>
            /\ OwnedBy(t, ClaimsBefore(t, was), t.poly.active \cup dropped)
            /\ t.sustained # {} => t.sustain
      /\ PolyActive(t) \/ t.poly.active = {}
  BY InvFacts, RetypedIs
<1> HIDE DEF t
<1> DEFINE p == [t.poly EXCEPT !.half = half]
           w == [t EXCEPT !.poly = p]
           u == RoutingTransition(w, was)
           r == IF poly /\ EnvelopeGating(layer) THEN RebuildSoundingNotes(u) ELSE u
<1>3. t \in Layers /\ t.poly \in Sequencers
  BY <1>2, LayerFields
<1>4. [t EXCEPT !.poly.half = half] = w
  BY <1>3 DEF Layers
<1>5. Becomes(r)
  BY <1>1, <1>4
<1>6. half \subseteq Lanes
  BY <1>1, <1>2, RefreshesIs
<1>7. /\ p \in Sequencers /\ p.active = t.poly.active /\ p.running = t.poly.running
      /\ p.selected = t.poly.selected
  BY <1>3, <1>6 DEF Sequencers
<1> HIDE DEF p
<1>8. /\ w \in Kept /\ w.sustained = t.sustained /\ w.pressed = t.pressed
      /\ w.sustain = t.sustain /\ w.unison = t.unison /\ w.arp = t.arp /\ w.poly = p
      /\ \A P, A : OwnedBy(t, P, A) => OwnedBy(w, P, A)
  BY <1>2, <1>7, SequencerReplaced
<1> HIDE DEF w
<1>9. was \in BOOLEAN
  BY InvFacts
<1> HIDE DEF was
<1>10. ClaimsBefore(w, was) = ClaimsBefore(t, was) /\ (PolyActive(w) <=> PolyActive(t))
  BY <1>7, <1>8 DEF ClaimsBefore, PolyActive
<1>11. /\ w.unison = 0 =>
            /\ OwnedBy(w, ClaimsBefore(w, was), w.poly.active \cup dropped)
            /\ w.sustained # {} => w.sustain
       /\ PolyActive(w) \/ w.poly.active = {}
  BY <1>2, <1>7, <1>8, <1>10
<1>12. Reroutes(w, u) /\ Owned(u, dropped)
  BY <1>8, <1>9, <1>11, RoutedOwned
<1> HIDE DEF u
<1>13. u \in Kept /\ (PolyActive(u) \/ u.poly.active = {})
  BY <1>12 DEF Reroutes, Owned
<1>14. Goes(w, u) /\ Goes(layer, w)
  BY <1>2, <1>8, <1>12, ReroutesGoes DEF Goes
<1>15. Goes(layer, u)
  BY <1>14, GoesOn
<1>16. Goes(u, RebuildSoundingNotes(u)) /\ Owned(RebuildSoundingNotes(u), dropped)
  <2>1. Plays(u, RebuildSoundingNotes(u))
    BY <1>13, RebuildIs
  <2> QED
    BY <1>13, <2>1, RebuildOwned DEF Goes, Plays, SameControls
<1>17. Goes(layer, r) /\ Owned(r, dropped)
  BY <1>12, <1>15, <1>16, GoesOn
<1> HIDE DEF r
<1> QED
  BY <1>5, <1>17, BecomesKeeps

LEMMA EditSequenceKeeps ==
    ASSUME Inv, NEW gates \in BOOLEAN, NEW keyStep \in BOOLEAN, EditSequence(gates, keyStep)
    PROVE  Inv'
<1>1. PICK half \in Refreshes(layer) :
        Becomes([layer EXCEPT !.poly.half = half, !.gate.gates = gates, !.gate.keyStep = keyStep])
  BY DEF EditSequence
<1> DEFINE p == [layer.poly EXCEPT !.half = half]
           g == [layer.gate EXCEPT !.gates = gates, !.keyStep = keyStep]
           t == Sequenced(layer, p, g)
<1>2. Becomes(t)
  <2>1. [layer EXCEPT !.poly.half = half, !.gate.gates = gates, !.gate.keyStep = keyStep] = t
    BY InvFacts DEF Layers, Sequenced
  <2> QED
    BY <1>1, <2>1
<1>3. half \subseteq Lanes
  BY <1>1, InvFacts, RefreshesIs
<1>4. /\ p \in Sequencers /\ p.active = layer.poly.active /\ p.running = layer.poly.running
      /\ p.selected = layer.poly.selected
  BY <1>3, InvFacts DEF Sequencers
<1>5. g \in GateStates
  BY InvFacts DEF GateStates
<1> HIDE DEF p, g
<1>6. /\ t \in Kept /\ t.sustained = layer.sustained /\ t.pressed = layer.pressed
      /\ t.sustain = layer.sustain /\ t.unison = layer.unison
      /\ t.arp = layer.arp /\ t.poly = p
      /\ \A P, A : OwnedBy(layer, P, A) => OwnedBy(t, P, A)
  BY <1>4, <1>5, InvFacts, SequencersReplaced
<1> HIDE DEF t
<1>7. Claims(t) = Claims(layer) /\ (PolyActive(t) <=> PolyActive(layer))
  BY <1>4, <1>6 DEF Claims, ToArp, PolyActive
<1>8. Goes(layer, t) /\ Owned(t, dropped)
  BY <1>4, <1>6, <1>7, InvFacts DEF Goes, Owned
<1> QED
  BY <1>2, <1>8, BecomesKeeps

LEMMA ClearSequenceKeeps ==
    ASSUME Inv, NEW gates \in BOOLEAN, ClearSequence(gates)
    PROVE  Inv'
<1> DEFINE g == [layer.gate EXCEPT !.gates = gates]
           s == [layer EXCEPT !.gate = g]
           t == EndSequenceNotes(s)
<1>1. Becomes(t)
  <2>1. [layer EXCEPT !.gate.gates = gates] = s
    BY InvFacts DEF Layers
  <2> QED
    BY <2>1 DEF ClearSequence
<1>2. g \in GateStates
  BY InvFacts DEF GateStates
<1> HIDE DEF g
<1>3. /\ s \in Kept /\ s.pressed = layer.pressed /\ s.sustain = layer.sustain
      /\ s.arp = layer.arp /\ \A d : Owned(layer, d) => Owned(s, d)
  BY <1>2, InvFacts, GateReplaced
<1> HIDE DEF s
<1>4. Goes(s, t) /\ Owned(t, dropped)
  BY <1>3, InvFacts, EndSequenceNotesIs
<1> HIDE DEF t
<1>5. Goes(layer, t)
  BY <1>3, <1>4 DEF Goes
<1> QED
  BY <1>1, <1>4, <1>5, BecomesKeeps

LEMMA SetTransportKeeps ==
    ASSUME Inv, NEW command \in {"Start", "Continue", "Stop"}, SetTransport(command)
    PROVE  Inv'
<1> DEFINE t == Transport(layer, command)
<1>1. Becomes(t)
  BY DEF SetTransport
<1>2. Goes(layer, t) /\ \A d : Owned(layer, d) => Owned(t, d)
  BY InvFacts, TransportIs
<1> HIDE DEF t
<1> QED
  BY <1>1, <1>2, InvFacts, BecomesKeeps

LEMMA ApplyPatchKeeps ==
    ASSUME Inv, NEW p \in LayerPatch, ApplyPatch(p)
    PROVE  Inv'
<1> DEFINE t == Loaded(layer, p)
<1>1. Becomes(t)
  BY DEF ApplyPatch
<1>2. /\ t \in Kept /\ t.sustain = layer.sustain /\ t.pressed = layer.pressed
      /\ t.arp.held \cup t.arp.pending
            \subseteq (layer.arp.held \cup layer.arp.pending) \cup ToSet(layer.pressed)
      /\ \A d : Owned(t, d)
  BY InvFacts, LoadedIs
<1> HIDE DEF t
<1>3. Goes(layer, t)
  BY <1>2 DEF Goes
<1> QED
  BY <1>1, <1>2, <1>3, BecomesKeeps

LEMMA CommitTopologyKeeps ==
    ASSUME Inv, NEW p \in LayerPatch, NEW gate \in BOOLEAN, CommitTopology(p, gate)
    PROVE  Inv'
<1> DEFINE t == Restored(layer, p, gate)
<1>1. /\ layer' = t /\ swallowed' = (foot /\ p.arp /\ p.mode # "Sustain")
      /\ latched' = {} /\ missed' = {} /\ dropped' = {} /\ foot' = foot
  BY DEF CommitTopology
<1>2. foot \in BOOLEAN /\ p.arp \in BOOLEAN
  BY DEF Inv, LayerPatch
<1>3. /\ t \in Kept /\ Owned(t, {}) /\ ArpWithin(t, ToSet(t.pressed))
      /\ t.sustain = (foot /\ ~(p.arp /\ p.mode # "Sustain"))
  BY <1>2, InvFacts, RestoredIs
<1> HIDE DEF t
<1>4. SustainFollowsPedal' /\ swallowed' \in BOOLEAN
  BY <1>1, <1>2, <1>3 DEF SustainFollowsPedal
<1>5. ArpWithin(layer', ToSet(layer'.pressed) \cup latched' \cup missed')
  BY <1>1, <1>3 DEF ArpWithin
<1> QED
  BY <1>1, <1>2, <1>3, <1>4, <1>5 DEF Inv

(* Samples.                                                                *)

LEMMA PolyStepKeeps ==
    ASSUME Inv, PolyStep
    PROVE  Inv'
<1>1. PICK step \in Steps, reset \in BOOLEAN :
        /\ \E ties \in SUBSET PlayedIn(step) : layer' = Step(layer, step, reset, ties)
        /\ dropped' = StillDropped(
                IF reset THEN layer.poly.active \ ResetReleases(layer, step) ELSE {})
  BY DEF PolyStep
<1>2. PICK ties \in SUBSET PlayedIn(step) : layer' = Step(layer, step, reset, ties)
  BY <1>1
<1> DEFINE t == Step(layer, step, reset, ties)
           lost == Lost(layer, step, reset)
<1>3. /\ PolyActive(layer) /\ foot' = foot /\ latched' = latched /\ missed' = missed
      /\ swallowed' = swallowed
  BY DEF PolyStep
<1>4. dropped' = StillDropped(lost) /\ lost \in SUBSET Lanes
  BY <1>1, InvFacts DEF Lost, Sequencers
<1>5. Goes(layer, t) /\ \A d : Owned(layer, d) => Owned(t, d \cup lost)
  BY <1>1, <1>2, <1>3, InvFacts, StepIs
<1>6. layer' = t
  BY <1>2
<1> HIDE DEF t, lost
<1>7. /\ t \in Kept /\ t.sustain = layer.sustain /\ ToSet(t.pressed) = ToSet(layer.pressed)
      /\ t.arp.held \cup t.arp.pending
            \subseteq (layer.arp.held \cup layer.arp.pending) \cup ToSet(layer.pressed)
  BY <1>5 DEF Goes
<1>8. dropped' \subseteq Lanes /\ Owned(layer', dropped')
  BY <1>4, <1>5, <1>6, <1>7, InvFacts, StillOwned DEF Inv
<1>9. SustainFollowsPedal'
  BY <1>3, <1>6, <1>7 DEF Inv, SustainFollowsPedal
<1>10. ArpWithin(layer', ToSet(layer'.pressed) \cup latched' \cup missed')
  BY <1>3, <1>6, <1>7 DEF Inv, ArpWithin
<1> QED
  BY <1>3, <1>6, <1>7, <1>8, <1>9, <1>10 DEF Inv

LEMMA PolyResetKeeps ==
    ASSUME Inv, PolyReset
    PROVE  Inv'
<1> DEFINE t == EndSequenceNotes(layer)
<1>1. Becomes(t)
  BY DEF PolyReset
<1>2. Goes(layer, t) /\ \A d : Owned(layer, d) => Owned(t, d)
  BY InvFacts, EndSequenceNotesIs
<1> HIDE DEF t
<1> QED
  BY <1>1, <1>2, InvFacts, BecomesKeeps

LEMMA PolyHalfKeeps ==
    ASSUME Inv, PolyHalf
    PROVE  Inv'
<1> DEFINE half == layer.poly.half
           p == [layer.poly EXCEPT !.active = @ \ half, !.half = {}]
           t == SequenceNoteOff([layer EXCEPT !.poly = p], half)
<1>1. Becomes(t) /\ PolyActive(layer)
  <2>1. [layer EXCEPT !.poly.active = @ \ layer.poly.half, !.poly.half = {}]
            = [layer EXCEPT !.poly = p]
    BY InvFacts DEF Layers
  <2> QED
    BY <2>1 DEF PolyHalf
<1>2. /\ p \in Sequencers /\ p.active = layer.poly.active \ half
      /\ p.running = layer.poly.running /\ p.selected = layer.poly.selected
      /\ half \in SUBSET Lanes
  BY InvFacts DEF Sequencers
<1> HIDE DEF p, half
<1>3. SequencerEnds(layer, p, half, t)
  BY <1>2, InvFacts, LanesEnd
<1> HIDE DEF t
<1>4. /\ t \in Kept /\ t.sustain = layer.sustain /\ t.pressed = layer.pressed
      /\ t.unison = layer.unison /\ t.arp = layer.arp /\ t.poly = p
      /\ layer.sustain \/ t.sustained \subseteq layer.sustained
      /\ \A P, A : OwnedBy(layer, P, A) => OwnedBy(t, P, A \ half)
  BY <1>3 DEF SequencerEnds
<1>5. Claims(t) = Claims(layer) /\ PolyActive(t)
  BY <1>1, <1>2, <1>4 DEF Claims, ToArp, PolyActive
<1>6. layer.unison = 0 => OwnedBy(t, Claims(t), t.poly.active \cup dropped)
  <2> DEFINE A == layer.poly.active \cup dropped
             B == A \ half
             C == t.poly.active \cup dropped
  <2>1. B \subseteq C /\ Claims(layer) \subseteq Claims(t)
    BY <1>2, <1>4, <1>5
  <2>2. layer.unison = 0 => OwnedBy(layer, Claims(layer), A)
    BY InvFacts DEF Owned
  <2>3. layer.unison = 0 => OwnedBy(t, Claims(layer), B)
    <3> HIDE DEF A
    <3> QED
      BY <1>4, <2>2
  <2> HIDE DEF B, C
  <2>4. layer.unison = 0 => OwnedBy(t, Claims(t), C)
    BY <2>1, <2>3, OwnedByMore
  <2> QED
    BY <2>4 DEF C
<1>7. Owned(t, dropped)
  BY <1>4, <1>5, <1>6, InvFacts DEF Owned
<1>8. Goes(layer, t)
  BY <1>4 DEF Goes
<1> QED
  BY <1>1, <1>7, <1>8, BecomesKeeps

LEMMA GatedStepKeeps ==
    ASSUME Inv, NEW high \in BOOLEAN, NEW open \in BOOLEAN, NEW r,
           Becomes(GatedEvent([layer EXCEPT !.gate.high = high], open, r))
    PROVE  Inv'
<1> DEFINE g == [layer.gate EXCEPT !.high = high]
           s == [layer EXCEPT !.gate = g]
           t == GatedEvent(s, open, r)
<1>1. Becomes(t)
  <2>1. [layer EXCEPT !.gate.high = high] = s
    BY InvFacts DEF Layers
  <2> QED
    BY <2>1
<1>2. g \in GateStates
  BY InvFacts DEF GateStates
<1> HIDE DEF g
<1>3. /\ s \in Kept /\ s.pressed = layer.pressed /\ s.sustain = layer.sustain
      /\ s.arp = layer.arp /\ \A d : Owned(layer, d) => Owned(s, d)
  BY <1>2, InvFacts, GateReplaced
<1> HIDE DEF s
<1>4. Plays(s, t) /\ Owned(t, dropped)
  BY <1>3, InvFacts, GatedEventIs
<1> HIDE DEF t
<1>5. Goes(layer, t)
  BY <1>3, <1>4 DEF Plays, SameControls, Goes
<1> QED
  BY <1>1, <1>4, <1>5, BecomesKeeps

LEMMA GatedBoundaryKeeps ==
    ASSUME Inv, NEW gate \in BOOLEAN, GatedBoundary(gate)
    PROVE  Inv'
<1> DEFINE open == gate /\ layer.gate.gates
<1>1. open \in BOOLEAN
  BY InvFacts DEF GateStates
<1>2. Becomes(GatedEvent([layer EXCEPT !.gate.high = open], open, TRUE))
  BY DEF GatedBoundary
<1> HIDE DEF open
<1> QED
  BY <1>1, <1>2, GatedStepKeeps

LEMMA GatedHalfKeeps ==
    ASSUME Inv, GatedHalf
    PROVE  Inv'
<1>1. Becomes(GatedEvent([layer EXCEPT !.gate.high = FALSE], FALSE, FALSE))
  BY DEF GatedHalf
<1> QED
  BY <1>1, GatedStepKeeps

LEMMA ArpReleaseKeeps ==
    ASSUME Inv, ArpRelease
    PROVE  Inv'
<1> DEFINE n == layer.arp.current
           a == [layer.arp EXCEPT !.current = None]
           s == [layer EXCEPT !.arp = a]
           t == PolyNoteOff(s, n)
<1>1. ToArp(layer) /\ Becomes(t)
  <2>1. [layer EXCEPT !.arp.current = None] = s
    BY InvFacts DEF Layers
  <2> QED
    BY <2>1 DEF ArpRelease
<1>2. /\ a \in Arps /\ a.enabled = layer.arp.enabled
      /\ a.held = layer.arp.held /\ a.pending = layer.arp.pending
  BY InvFacts DEF Arps
<1> HIDE DEF a
<1>3. /\ s \in Kept /\ s.sustained = layer.sustained /\ s.arp = a
      /\ s.sustain = layer.sustain /\ s.pressed = layer.pressed /\ s.unison = layer.unison
      /\ s.keyMode = layer.keyMode /\ s.poly = layer.poly /\ s.gate = layer.gate
      /\ \A P, A : OwnedBy(layer, P, A) => OwnedBy(s, P, A)
  BY <1>2, InvFacts, ArpReplaced
<1> HIDE DEF s
<1>4. Claims(layer) = {n}
  BY <1>1 DEF Claims
<1> HIDE DEF n
<1>5. Plays(s, t)
  BY <1>3, PolyNoteOffIs
<1>6. layer.unison = 0 => OwnedBy(t, Claims(t), t.poly.active \cup dropped)
  <2> DEFINE A == layer.poly.active \cup dropped
  <2>1. layer.unison = 0 => OwnedBy(layer, Claims(layer), A)
    BY InvFacts DEF Owned
  <2>2. A = t.poly.active \cup dropped
    BY <1>3, <1>5 DEF Plays, SameControls
  <2> HIDE DEF A
  <2>3. layer.unison = 0 => OwnedBy(s, {n}, A)
    BY <1>3, <1>4, <2>1
  <2>4. layer.unison = 0 => OwnedBy(t, {n} \ {n}, A)
    BY <1>3, <2>3, PolyNoteOffOwned
  <2>5. {n} \ {n} \subseteq Claims(t) /\ A \subseteq A
    OBVIOUS
  <2> HIDE DEF t
  <2>6. layer.unison = 0 => OwnedBy(t, Claims(t), A)
    BY <2>4, <2>5, OwnedByMore
  <2> QED
    BY <2>2, <2>6
<1> HIDE DEF t
<1>7. /\ t \in Kept /\ t.sustain = layer.sustain /\ t.pressed = layer.pressed
      /\ t.unison = layer.unison /\ t.arp = a /\ t.poly = layer.poly
      /\ layer.sustain \/ t.sustained \subseteq layer.sustained
  BY <1>3, <1>5 DEF Plays, SameControls
<1>8. Owned(t, dropped)
  <2>1. PolyActive(t) <=> PolyActive(layer)
    BY <1>7 DEF PolyActive
  <2>2. layer.unison = 0 => (t.sustained # {} => t.sustain)
    BY <1>7, InvFacts DEF Owned
  <2> QED
    BY <1>6, <1>7, <2>1, <2>2, InvFacts DEF Owned
<1>9. Goes(layer, t)
  BY <1>2, <1>7 DEF Goes
<1> QED
  BY <1>1, <1>8, <1>9, BecomesKeeps

\* No held voice plays no note.
LEMMA NoneIsNobodys ==
    ASSUME NEW s \in Kept, NEW A, OwnedBy(s, {None}, A)
    PROVE  OwnedBy(s, {}, A)
<1>1. \A v \in Held(s) : ActiveNote(s.lane[v]) # None
  BY LayerFields DEF Sounding
<1> QED
  BY <1>1 DEF OwnedBy

LEMMA ArpStepKeeps ==
    ASSUME Inv, ArpStep
    PROVE  Inv'
<1> DEFINE a == layer.arp
           Joined(cycleEnds) ==
                IF cycleEnds /\ a.beatSync /\ a.pending # {}
                THEN ArpRebuilt([a EXCEPT !.held = @ \cup a.pending, !.pending = {}]) ELSE a
           s == IF a.current = None THEN layer ELSE PolyNoteOff(layer, a.current)
<1>1. ToArp(layer)
  BY DEF ArpStep
<1>2. PICK cycleEnds \in BOOLEAN :
        \E n \in Joined(cycleEnds).playing :
            Becomes(PolyNoteOn([s EXCEPT !.arp = [Joined(cycleEnds) EXCEPT !.current = n]], n))
  BY DEF ArpStep
<1> DEFINE b == Joined(cycleEnds)
<1>3. /\ b \in Arps /\ b.enabled = a.enabled
      /\ b.held \cup b.pending = a.held \cup a.pending
  <2>1. a \in Arps
    BY InvFacts
  <2>2. CASE cycleEnds /\ a.beatSync /\ a.pending # {}
    <3> DEFINE c == [a EXCEPT !.held = @ \cup a.pending, !.pending = {}]
    <3>1. /\ c \in Arps /\ c.enabled = a.enabled
          /\ c.held = a.held \cup a.pending /\ c.pending = {}
      BY <2>1 DEF Arps
    <3>2. b = ArpRebuilt(c)
      BY <2>2
    <3> HIDE DEF c, b
    <3>3. b \in Arps /\ b.enabled = c.enabled /\ b.held = c.held /\ b.pending = c.pending
      BY <3>1, <3>2, ArpRebuiltIs DEF ArpKeeps
    <3> QED
      BY <3>1, <3>3
  <2>3. CASE ~(cycleEnds /\ a.beatSync /\ a.pending # {})
    BY <2>1, <2>3
  <2> QED
    BY <2>2, <2>3
<1> HIDE DEF Joined
<1>4. PICK n \in b.playing : Becomes(PolyNoteOn([s EXCEPT !.arp = [b EXCEPT !.current = n]], n))
  BY <1>2
<1> HIDE DEF b
<1> DEFINE c == [b EXCEPT !.current = n]
           u == [s EXCEPT !.arp = c]
           t == PolyNoteOn(u, n)
<1>5. n \in Notes
  BY <1>3, <1>4 DEF Arps
<1>6. /\ c \in Arps /\ c.enabled = a.enabled /\ c.current = n
      /\ c.held \cup c.pending = a.held \cup a.pending
  BY <1>3, <1>5 DEF Arps
<1>7. Claims(layer) = {a.current}
  BY <1>1 DEF Claims
<1> DEFINE A == layer.poly.active \cup dropped
<1>8. /\ Plays(layer, s)
      /\ layer.unison = 0 => OwnedBy(s, {}, A)
  <2> HIDE DEF A
  <2>1. layer.unison = 0 => OwnedBy(layer, {a.current}, A)
    BY <1>7, InvFacts DEF Owned, A
  <2>2. CASE a.current = None
    <3>1. s = layer
      BY <2>2
    <3>2. layer.unison = 0 => OwnedBy(layer, {None}, A)
      BY <2>1, <2>2
    <3> HIDE DEF s
    <3> QED
      BY <3>1, <3>2, InvFacts, NoneIsNobodys, PlaysStill
  <2>3. CASE a.current # None
    <3> DEFINE m == a.current
    <3>1. s = PolyNoteOff(layer, m)
      BY <2>3
    <3>2. layer.unison = 0 => OwnedBy(layer, {m}, A)
      BY <2>1
    <3> HIDE DEF s, m
    <3>3. Plays(layer, s)
      BY <3>1, InvFacts, PolyNoteOffIs
    <3>4. layer.unison = 0 => OwnedBy(s, {m} \ {m}, A)
      BY <3>1, <3>2, InvFacts, PolyNoteOffOwned
    <3>5. {m} \ {m} = {}
      OBVIOUS
    <3> QED
      BY <3>3, <3>4, <3>5
  <2> QED
    BY <2>2, <2>3
<1> HIDE DEF s, c, A
<1>9. s \in Kept
  BY <1>8 DEF Plays
<1>10. /\ u \in Kept /\ u.sustained = s.sustained /\ u.arp = c
       /\ u.sustain = s.sustain /\ u.pressed = s.pressed /\ u.unison = s.unison
       /\ u.keyMode = s.keyMode /\ u.poly = s.poly /\ u.gate = s.gate
       /\ \A P, B : OwnedBy(s, P, B) => OwnedBy(u, P, B)
  BY <1>6, <1>9, ArpReplaced
<1>11. Becomes(t)
  BY <1>4 DEF c
<1> HIDE DEF u
<1>12. Plays(u, t)
  BY <1>5, <1>10, PolyNoteOnIs
<1>13. layer.unison = 0 => OwnedBy(t, {n}, A)
  <2>1. layer.unison = 0 => OwnedBy(u, {}, A)
    BY <1>8, <1>10
  <2>2. {} \subseteq {n} /\ A \subseteq A /\ n \in {n}
    OBVIOUS
  <2>3. layer.unison = 0 => OwnedBy(u, {n}, A)
    BY <2>1, <2>2, OwnedByMore
  <2> QED
    BY <1>5, <1>10, <2>2, <2>3, PolyNoteOnOwned
<1> HIDE DEF t
<1>14. /\ t \in Kept /\ t.sustain = layer.sustain /\ t.pressed = layer.pressed
       /\ t.unison = layer.unison /\ t.arp = c /\ t.poly = layer.poly
       /\ layer.sustain \/ t.sustained \subseteq layer.sustained
  BY <1>8, <1>10, <1>12 DEF Plays, SameControls
<1>15. Claims(t) = {n} /\ (PolyActive(t) <=> PolyActive(layer))
  BY <1>1, <1>6, <1>14 DEF Claims, ToArp, PolyActive
<1>16. Owned(t, dropped)
  <2>1. layer.unison = 0 => OwnedBy(t, Claims(t), t.poly.active \cup dropped)
    BY <1>13, <1>14, <1>15 DEF A
  <2>2. layer.unison = 0 => (t.sustained # {} => t.sustain)
    BY <1>14, InvFacts DEF Owned
  <2> QED
    BY <1>14, <1>15, <2>1, <2>2, InvFacts DEF Owned
<1>17. Goes(layer, t)
  BY <1>6, <1>14 DEF Goes
<1> QED
  BY <1>11, <1>16, <1>17, BecomesKeeps

LEMMA FadeKeeps ==
    ASSUME Inv, NEW v \in Voices, Fade(v)
    PROVE  Inv'
<1> DEFINE l == layer.lane[v]
           k == IF l.pending = None THEN Quiet ELSE Started(l.pending)
           t == [layer EXCEPT !.lane[v] = k]
<1>1. l.note = None /\ Becomes(t)
  BY DEF Fade
<1>2. l \in Lane
  BY InvFacts DEF Layers
<1>3. k \in Lane /\ ActiveNote(k) = ActiveNote(l)
  <2>1. CASE l.pending = None
    BY <1>1, <2>1, QuietFacts DEF ActiveNote
  <2>2. CASE l.pending # None
    <3>1. l.pending \in Notes
      BY <1>2, <2>2 DEF Lane
    <3> QED
      BY <1>2, <2>2, <3>1, LaneFacts DEF ActiveNote
  <2> QED
    BY <2>1, <2>2
<1> HIDE DEF k
<1>4. /\ t \in Layers /\ t.held = layer.held /\ t.sustained = layer.sustained
      /\ t.owner = layer.owner /\ SameControls(layer, t)
      /\ \A w \in Voices : t.lane[w] = IF w = v THEN k ELSE layer.lane[w]
  BY <1>3, InvFacts DEF Layers, SameControls
<1> HIDE DEF t
<1>5. \A w \in Voices : ActiveNote(t.lane[w]) = ActiveNote(layer.lane[w])
  BY <1>3, <1>4
<1>6. Held(t) = Held(layer) /\ Sounding(t) = Sounding(layer)
  BY <1>4, <1>5 DEF Held, Sounding
<1>7. t \in Kept
  BY <1>4, <1>6, InvFacts DEF Kept, Books
<1>8. Plays(layer, t)
  BY <1>4, <1>7 DEF Plays
<1>9. Held(layer) \subseteq Voices
  BY InvFacts, LayerFields
<1>10. \A P, A : OwnedBy(layer, P, A) => OwnedBy(t, P, A)
  BY <1>4, <1>5, <1>6, <1>9 DEF OwnedBy
<1>11. Owned(t, dropped) /\ Goes(layer, t)
  BY <1>8, <1>10, InvFacts, PlaysOwned DEF Plays, SameControls, Goes
<1> QED
  BY <1>1, <1>11, BecomesKeeps
-----------------------------------------------------------------------------
(* The invariant holds.                                                    *)

LEMMA FreshIs ==
    ASSUME NEW p \in LayerPatch, NEW s, s = Fresh(p)
    PROVE  /\ s \in Kept /\ Owned(s, {}) /\ s.sustain = FALSE
           /\ s.arp.held \cup s.arp.pending = {}
<1>1. /\ VoiceCount \in Nat \ {0} /\ 0 \in Voices
      /\ [v \in Voices |-> Quiet] \in [Voices -> Lane]
      /\ <<>> \in Seq(Voices) /\ <<>> \in Seq(Notes)
  BY LayerEngineAssumption, QuietFacts DEF Voices
<1>2. /\ s.lane = [v \in Voices |-> Quiet] /\ s.held = <<>> /\ s.sustained = {}
      /\ s.sustain = FALSE /\ s.poly.active = {} /\ s.arp.held = {} /\ s.arp.pending = {}
  BY DEF Fresh
<1>3. s \in Layers
  BY <1>1 DEF Fresh, Layers, LayerPatch, Arps, Sequencers, GateStates, Nobody, Live
<1>4. Held(s) = {} /\ Sounding(s) = {}
  BY <1>2, ElementsEmpty, QuietFacts DEF Held, Sounding
<1>5. s \in Kept
  BY <1>2, <1>3, <1>4 DEF Kept, Books
<1>6. Owned(s, {})
  BY <1>2, <1>4 DEF Owned, OwnedBy
<1> QED
  BY <1>2, <1>5, <1>6

LEMMA InitInv == Init => Inv
<1> SUFFICES ASSUME Init PROVE Inv
  OBVIOUS
<1>1. PICK p \in Patches : layer = Fresh(p)
  BY DEF Init
<1>2. /\ foot = FALSE /\ latched = {} /\ missed = {} /\ swallowed = FALSE /\ dropped = {}
  BY DEF Init
<1>3. p \in LayerPatch
  BY PatchesAssumption
<1>4. /\ layer \in Kept /\ Owned(layer, {}) /\ layer.sustain = FALSE
      /\ layer.arp.held \cup layer.arp.pending = {}
  BY <1>1, <1>3, FreshIs
<1> QED
  BY <1>2, <1>4 DEF Inv, SustainFollowsPedal, ArpWithin

\* What the patches are made of.
LEMMA PatchFields ==
    ASSUME NEW p \in Patches
    PROVE  /\ p \in LayerPatch /\ p.unison \in 0 .. VoiceCount /\ p.keyMode \in KeyModes
           /\ p.arp \in BOOLEAN /\ p.poly \in BOOLEAN /\ p.gates \in BOOLEAN
           /\ p.keyStep \in BOOLEAN
BY PatchesAssumption DEF LayerPatch

LEMMA EditsKeep ==
    ASSUME Inv, Edits(Patches)
    PROVE  Inv'
<1>1. CASE \E p \in Patches : SetUnison(p.unison)
  BY <1>1, PatchFields, SetUnisonKeeps
<1>2. CASE \E p \in Patches : SetKeyMode(p.keyMode)
  BY <1>2, PatchFields, SetKeyModeKeeps
<1>3. CASE \E p \in Patches : SetArpEnabled(p.arp)
  BY <1>3, PatchFields, SetArpEnabledKeeps
<1>4. CASE \E p \in Patches : SetSequencerType(p.poly)
  BY <1>4, PatchFields, SetSequencerTypeKeeps
<1>5. CASE \E p \in Patches, q \in Patches : EditSequence(p.gates, q.keyStep)
  BY <1>5, PatchFields, EditSequenceKeeps
<1>6. CASE \E p \in Patches : ClearSequence(p.gates)
  BY <1>6, PatchFields, ClearSequenceKeeps
<1>7. CASE \E p \in Patches : SetArp(p)
  BY <1>7, PatchFields, SetArpKeeps
<1>8. CASE \E p \in Patches : ApplyPatch(p)
  BY <1>8, PatchFields, ApplyPatchKeeps
<1>9. CASE \E p \in Patches, gate \in BOOLEAN : CommitTopology(p, gate)
  BY <1>9, PatchFields, CommitTopologyKeeps
<1> QED
  BY <1>1, <1>2, <1>3, <1>4, <1>5, <1>6, <1>7, <1>8, <1>9 DEF Edits

LEMMA PerformKeeps ==
    ASSUME Inv, Perform
    PROVE  Inv'
<1>1. ASSUME NEW n \in Notes, NEW gate \in Gates(layer), NoteOn(n, gate) PROVE Inv'
  BY <1>1, GatesIs, NoteOnKeeps
<1>2. ASSUME NEW n \in Notes, NoteOff(n) PROVE Inv'
  BY <1>2, NoteOffKeeps
<1>3. ASSUME NEW down \in BOOLEAN, SustainPedal(down) PROVE Inv'
  BY <1>3, SustainPedalKeeps
<1>4. ASSUME AllNotesOff PROVE Inv'
  BY <1>4, AllNotesOffKeeps
<1>5. ASSUME NEW command \in {"Start", "Continue", "Stop"}, SetTransport(command) PROVE Inv'
  BY <1>5, SetTransportKeeps
<1> QED
  BY <1>1, <1>2, <1>3, <1>4, <1>5 DEF Perform

LEMMA SampleKeeps ==
    ASSUME Inv, Sample
    PROVE  Inv'
<1>1. ASSUME NEW gate \in Gates(layer), GatedBoundary(gate) PROVE Inv'
  BY <1>1, GatesIs, GatedBoundaryKeeps
<1>2. ASSUME NEW v \in Voices, Fade(v) PROVE Inv'
  BY <1>2, FadeKeeps
<1> QED
  BY <1>1, <1>2, PolyStepKeeps, PolyResetKeeps, PolyHalfKeeps, GatedHalfKeeps, ArpReleaseKeeps,
     ArpStepKeeps DEF Sample

LEMMA NextInv == Inv /\ [Next]_vars => Inv'
<1> SUFFICES ASSUME Inv, [Next]_vars PROVE Inv'
  OBVIOUS
<1>1. CASE Next
  BY <1>1, EditsKeep, PerformKeeps, SampleKeeps DEF Next
<1>2. CASE UNCHANGED vars
  <2>1. /\ layer' = layer /\ foot' = foot /\ latched' = latched /\ missed' = missed
        /\ swallowed' = swallowed /\ dropped' = dropped
    BY <1>2 DEF vars
  <2> QED
    BY <2>1 DEF Inv, SustainFollowsPedal
<1> QED
  BY <1>1, <1>2

LEMMA Invariance == Spec => []Inv
BY InitInv, NextInv, PTL DEF Spec
-----------------------------------------------------------------------------
(* What it says of the layer.                                              *)

LEMMA InvTypes == Inv => TypeOK
<1> SUFFICES ASSUME Inv PROVE TypeOK
  OBVIOUS
<1>1. layer \in Kept
  BY DEF Inv
<1>2. /\ layer.lane \in [Voices -> Lane] /\ layer.held \in Seq(Voices)
      /\ layer.sustained \subseteq Voices
      /\ layer.owner \in [Voices -> Lanes \cup {Live, Nobody}]
      /\ layer.next \in Voices /\ layer.sustain \in BOOLEAN /\ layer.pressed \in Seq(Notes)
      /\ layer.unison \in 0 .. VoiceCount /\ layer.keyMode \in KeyModes
      /\ layer.arp \in Arps /\ layer.poly \in Sequencers /\ layer.gate \in GateStates
  BY <1>1, LayerFields
<1> QED
  BY <1>2 DEF Inv, TypeOK, Arps, Sequencers, GateStates

\* Whatever keys, pedal, edits, transport commands and samples do to a layer, its lanes,
\* its allocator, its arpeggiator and its sequencers keep their types: no voice number,
\* lane or note leaves its range, for any number of voices, notes and lanes.
THEOREM TypeCorrect == Spec => []TypeOK
BY Invariance, InvTypes, PTL

\* The allocator (voice_allocator of layer_engine.rs) counts each voice that sounds, once,
\* as held or as sustained, and no other.
THEOREM NoOrphans == Spec => []NoOrphanVoices
<1>1. Inv => NoOrphanVoices
  BY LayerFields DEF Inv, NoOrphanVoices
<1> QED
  BY <1>1, Invariance, PTL

\* Without unison there is always somebody who will let a held voice go: its key, the note
\* the arpeggiator is at, the lane of the sequencer it plays for, or, for a sustained
\* voice, the pedal.  The invariant says which of them it is: keys that are down while
\* notes go to the voices, the current note alone while they go to the arpeggiator, and
\* each handler that changes the routing releases what the other side had sounding.
THEOREM VoicesAlwaysOwned == Spec => []VoicesAreOwned
<1>1. Inv => VoicesAreOwned
  <2> SUFFICES ASSUME Inv, layer.unison = 0
               PROVE  /\ \A v \in Held(layer) :
                            IF layer.owner[v] = Live
                            THEN ActiveNote(layer.lane[v])
                                    \in ToSet(layer.pressed) \cup {layer.arp.current}
                            ELSE layer.owner[v] \in layer.poly.active \cup dropped
                      /\ layer.sustained # {} => layer.sustain
    BY DEF VoicesAreOwned
  <2>1. /\ OwnedBy(layer, Claims(layer), layer.poly.active \cup dropped)
        /\ layer.sustained # {} => layer.sustain
    BY DEF Inv, Owned
  <2>2. Claims(layer) \subseteq ToSet(layer.pressed) \cup {layer.arp.current}
    BY DEF Claims
  <2> QED
    BY <2>1, <2>2 DEF OwnedBy
<1> QED
  BY <1>1, Invariance, PTL

\* The pedal of the voices is down while the player's foot is, and only then, unless the
\* arpeggiator took the last change for a pedal of its own (set_sustain_pedal): also after
\* all notes off, and after a patch of another topology, for which the engine presses the
\* pedal anew.
THEOREM SustainAlwaysFollows == Spec => []SustainFollowsPedal
<1>1. Inv => SustainFollowsPedal
  BY DEF Inv
<1> QED
  BY <1>1, Invariance, PTL

\* The arpeggiator never plays a key that is up, except those it was told to hold on to
\* and those whose release went past it while the sequencer had the keys.
THEOREM ArpAlwaysPlaysHeld == Spec => []ArpPlaysHeldKeys
<1>1. Inv => ArpPlaysHeldKeys
  BY DEF Inv, ArpWithin, ArpPlaysHeldKeys
<1> QED
  BY <1>1, Invariance, PTL
=============================================================================
