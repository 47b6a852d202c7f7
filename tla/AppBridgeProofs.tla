-------------------------- MODULE AppBridgeProofs --------------------------
(***************************************************************************)
(* Theorems about AppBridge for every set of programs and every capacity   *)
(* of the two rings.                                                       *)
(***************************************************************************)
EXTENDS AppBridge, FoldLemmas

USE AppBridgeAssumption DEF AppBridgeAssumption
-----------------------------------------------------------------------------
(* The invariant.                                                          *)

\* What a program plays and edits, of the engine and of the UI.
Programs == [patch : Patches \cup {DefaultPatch}, edit : Layers]
UiStates == [patch : Patches, edit : Layers, seen : Nat]
View(x) == [patch |-> x.patch, edit |-> x.edit]

\* The steps of calls; only the MIDI thread tells the UI.
UiSteps == {Store(l) : l \in Layers} \cup {Push(c) : c \in Commands}
CallSteps == UiSteps \cup {Tell(c) : c \in Commands}

\* Where everything would be, were nothing sent or done any more: what is in the rings
\* arrives, then the UI's call ends, and then the MIDI thread's.
World == [engine : Programs, layer : Layers, ui : Programs]
Done(w, s) ==
    CASE s.do = "store" -> [w EXCEPT !.layer = s.layer]
      [] s.do = "push"  -> [w EXCEPT !.engine = Taken(@, s.command)]
      [] s.do = "tell"  -> [w EXCEPT !.ui = Taken(@, s.command)]
Arrived ==
    [engine |-> FoldLeft(Taken, engine, ring), layer |-> editLayer,
     ui |-> FoldLeft(Taken, View(ui), updates)]
AfterUi == FoldLeft(Done, Arrived, todo["ui"])
AfterAll == FoldLeft(Done, AfterUi, todo["midi"])

\* The frames in which the UI has sent nothing yet.
Starting == {"new", "restore"}

\* Whether a call of the MIDI thread is under way, or the UI has yet to hear of it, and
\* whether a call of the UI has met one.
MidiBusy == ~Idle("midi") \/ updates # <<>>
Crossed == raced \/ overtaken

\* A session plays, and the UI has reloaded its program into it, or has begun to.
InForce ==
    /\ session = "playing" /\ manager \in {"idle", "clear"} /\ ~reverted
    /\ ui.seen = applied.generation /\ frame \notin Starting

Managers ==
    {"start", "idle", "rebind", "build", "recover", "reconnect", "retry",
     "publish", "publish reverted", "publish reconnected", "clear", "blocked"}
Flags ==
    /\ disconnected \in BOOLEAN /\ asked \in BOOLEAN
    /\ raced \in BOOLEAN /\ reverted \in BOOLEAN
    /\ overtaken \in BOOLEAN
Typed ==
    /\ manager \in Managers /\ session \in {"none", "playing", "dead"} /\ Flags
    /\ applied \in [generation : Nat, error : BOOLEAN]
    /\ ring \in Seq(Commands) /\ Len(ring) <= RingCapacity
    /\ updates \in Seq(Commands) /\ Len(updates) <= UiCapacity
    /\ engine \in Programs /\ ui \in UiStates /\ editLayer \in Layers
    /\ frame \in Starting \cup {"sync", "drain", "user"}
    /\ todo \in [Threads -> Seq(CallSteps)] /\ todo["ui"] \in Seq(UiSteps)
\* Calls that do not overlap; a frame that takes input has ended its calls, and the
\* application starts without one.
Alone ==
    /\ Crossed \/ Idle("ui") \/ ~MidiBusy
    /\ frame \in Starting \cup {"user"} => Idle("ui")
    /\ frame \in Starting => ui.edit = "A"
\* A session that plays is about to be published, or is the one applied.
Published ==
    /\ session = "playing" =>
            manager \in {"publish", "publish reverted", "publish reconnected", "clear", "idle"}
    /\ session = "playing" /\ manager \in {"idle", "clear"} /\ applied.error => reverted
    /\ ui.seen <= applied.generation
\* Without overlap, the layer edits go to is always about to be the UI's, and a session
\* the UI has reloaded is always about to play the UI's program.
Ahead ==
    ~Crossed => /\ AfterAll.ui.edit = AfterAll.layer
                /\ InForce => AfterAll.engine = AfterAll.ui
Inv == Typed /\ Alone /\ Published /\ Ahead
-----------------------------------------------------------------------------
(* Commands and what they change.                                          *)

LEMMA CommandsDiffer ==
    ASSUME NEW p, NEW l
    PROVE  /\ Program(p) # Edit(l) /\ Program(p) # NotesOff /\ Edit(l) # NotesOff
           /\ Program(p).program = p /\ Edit(l).edit = l
<1>1. DOMAIN Program(p) = {"program"} /\ DOMAIN Edit(l) = {"edit"} /\ DOMAIN NotesOff = {"notes"}
  BY DEF Program, Edit, NotesOff
<1>2. "program" # "edit" /\ "program" # "notes" /\ "edit" # "notes"
  OBVIOUS
<1>3. Program(p).program = p /\ Edit(l).edit = l
  BY DEF Program, Edit
<1> HIDE DEF Program, Edit, NotesOff
<1>4. {"program"} # {"edit"} /\ {"program"} # {"notes"} /\ {"edit"} # {"notes"}
  BY <1>2
<1> QED
  BY <1>1, <1>3, <1>4

LEMMA TakenProgram ==
    ASSUME NEW x, NEW p \in Patches
    PROVE  /\ Program(p) \in Commands
           /\ Taken(x, Program(p)) = [x EXCEPT !.patch = p, !.edit = "A"]
<1> DEFINE c == Program(p)
<1>1. c \in {Program(o) : o \in Patches} /\ c.program = p
  BY CommandsDiffer
<1>2. c \notin {Edit(l) : l \in Layers}
  BY CommandsDiffer
<1> HIDE DEF c
<1>3. Taken(x, c) = [x EXCEPT !.patch = c.program, !.edit = "A"]
  BY <1>1, <1>2 DEF Taken
<1> QED
  BY <1>1, <1>3 DEF Commands, c

LEMMA TakenEdit ==
    ASSUME NEW x, NEW l \in Layers
    PROVE  Edit(l) \in Commands /\ Taken(x, Edit(l)) = [x EXCEPT !.edit = l]
<1>1. /\ Edit(l) \notin {Program(p) : p \in Patches}
      /\ Edit(l) \in {Edit(k) : k \in Layers} /\ Edit(l).edit = l
  BY CommandsDiffer
<1> HIDE DEF Edit
<1> QED
  BY <1>1 DEF Taken, Commands

LEMMA TakenNotesOff ==
    ASSUME NEW x
    PROVE  NotesOff \in Commands /\ Taken(x, NotesOff) = x
<1>1. NotesOff \notin {Program(p) : p \in Patches} /\ NotesOff \notin {Edit(l) : l \in Layers}
  BY CommandsDiffer
<1> QED
  BY <1>1 DEF Taken, Commands

LEMMA CommandKinds ==
    ASSUME NEW c \in Commands
    PROVE  \/ \E p \in Patches : c = Program(p)
           \/ \E l \in Layers : c = Edit(l)
           \/ c = NotesOff
BY DEF Commands

LEMMA TakenPlays ==
    ASSUME NEW x \in Programs, NEW c \in Commands
    PROVE  Taken(x, c) \in Programs
<1>1. ASSUME NEW p \in Patches, c = Program(p) PROVE Taken(x, c) \in Programs
  <2>1. Taken(x, c) = [x EXCEPT !.patch = p, !.edit = "A"]
    BY <1>1, TakenProgram
  <2> QED
    BY <2>1 DEF Programs, Layers
<1>2. ASSUME NEW l \in Layers, c = Edit(l) PROVE Taken(x, c) \in Programs
  <2>1. Taken(x, c) = [x EXCEPT !.edit = l]
    BY <1>2, TakenEdit
  <2> QED
    BY <2>1 DEF Programs
<1>3. c = NotesOff => Taken(x, c) \in Programs
  BY TakenNotesOff
<1> QED
  BY <1>1, <1>2, <1>3, CommandKinds

\* The UI takes a command as an engine does, and keeps the generation it has seen.
TakenAlike(x, c) ==
    /\ Taken(x, c) \in UiStates /\ Taken(x, c).seen = x.seen
    /\ View(x) \in Programs /\ View(Taken(x, c)) = Taken(View(x), c)

LEMMA TakenShows ==
    ASSUME NEW x \in UiStates, NEW c \in Commands
    PROVE  TakenAlike(x, c)
<1>0. View(x) \in Programs /\ View(x).patch = x.patch /\ View(x).edit = x.edit
  BY DEF View, UiStates, Programs
<1>1. ASSUME NEW p \in Patches, c = Program(p) PROVE TakenAlike(x, c)
  <2>1. Taken(x, c) = [x EXCEPT !.patch = p, !.edit = "A"]
    BY <1>1, TakenProgram
  <2>2. Taken(View(x), c) = [View(x) EXCEPT !.patch = p, !.edit = "A"]
    BY <1>1, TakenProgram
  <2>3. /\ Taken(x, c) \in UiStates /\ Taken(x, c).seen = x.seen
        /\ Taken(x, c).patch = p /\ Taken(x, c).edit = "A"
    BY <2>1 DEF UiStates, Layers
  <2>4. Taken(View(x), c) = [patch |-> p, edit |-> "A"]
    BY <1>0, <2>2 DEF Programs
  <2> QED
    BY <1>0, <2>3, <2>4 DEF TakenAlike, View
<1>2. ASSUME NEW l \in Layers, c = Edit(l) PROVE TakenAlike(x, c)
  <2>1. Taken(x, c) = [x EXCEPT !.edit = l]
    BY <1>2, TakenEdit
  <2>2. Taken(View(x), c) = [View(x) EXCEPT !.edit = l]
    BY <1>2, TakenEdit
  <2> QED
    BY <1>0, <2>1, <2>2 DEF TakenAlike, UiStates, View
<1>3. c = NotesOff => TakenAlike(x, c)
  BY <1>0, TakenNotesOff DEF TakenAlike
<1> QED
  BY <1>1, <1>2, <1>3, CommandKinds

\* What follows of a step's kind.
LEMMA StepKinds ==
    ASSUME NEW s \in CallSteps
    PROVE  \/ s.do = "store" /\ s.layer \in Layers
           \/ s.do = "push" /\ s.command \in Commands
           \/ s.do = "tell" /\ s.command \in Commands /\ s \notin UiSteps
<1>1. ASSUME NEW r \in UiSteps PROVE r.do # "tell"
  BY DEF UiSteps, Store, Push
<1>2. CASE s \in UiSteps
  BY <1>2 DEF UiSteps, Store, Push
<1>3. CASE s \notin UiSteps
  <2>1. PICK c \in Commands : s = Tell(c)
    BY <1>3 DEF CallSteps
  <2> QED
    BY <1>3, <2>1 DEF Tell
<1> QED
  BY <1>2, <1>3

\* What a step does to the world; to the layer and the UI, whatever the engine is.
LEMMA DoneTyped ==
    ASSUME NEW w \in World, NEW s \in CallSteps
    PROVE  /\ Done(w, s) \in World
           /\ Done(w, s).layer = IF s.do = "store" THEN s.layer ELSE w.layer
           /\ Done(w, s).engine = IF s.do = "push" THEN Taken(w.engine, s.command) ELSE w.engine
           /\ Done(w, s).ui = IF s.do = "tell" THEN Taken(w.ui, s.command) ELSE w.ui
<1>0. w.engine \in Programs /\ w.ui \in Programs /\ w.layer \in Layers
  BY DEF World
<1>1. CASE s.do = "store" /\ s.layer \in Layers
  BY <1>1 DEF Done, World
<1>2. CASE s.do = "push" /\ s.command \in Commands
  <2>1. Taken(w.engine, s.command) \in Programs
    BY <1>0, <1>2, TakenPlays
  <2> QED
    BY <1>2, <2>1 DEF Done, World
<1>3. CASE s.do = "tell" /\ s.command \in Commands
  <2>1. Taken(w.ui, s.command) \in Programs
    BY <1>0, <1>3, TakenPlays
  <2> QED
    BY <1>3, <2>1 DEF Done, World
<1> QED
  BY <1>1, <1>2, <1>3, StepKinds
-----------------------------------------------------------------------------
(* Folds of commands and of steps.                                         *)

\* Taken as a function, for folds over states in E.
Taking(E) == [c \in Commands |-> [x \in E |-> Taken(x, c)]]

LEMMA TakenFold ==
    ASSUME NEW E, NEW e \in E, NEW q \in Seq(Commands),
           \A x \in E, c \in Commands : Taken(x, c) \in E
    PROVE  /\ Taking(E) \in [Commands -> [E -> E]]
           /\ FoldLeft(Taken, e, q) = Folded(Taking(E), E, e, q)
<1> DEFINE n == Len(q)
           step == StepsOf(Taking(E), q)
           Folds(g) == g = [s \in SUBSET DOMAIN q |->
                               IF s = {} THEN e ELSE Taken(g[s \ {Max(s)}], q[Max(s)])]
           fold == CHOOSE g : Folds(g)
<1>1. n \in Nat /\ DOMAIN q = 1 .. n /\ \A i \in 1 .. n : q[i] \in Commands
  OBVIOUS
<1>2. Taking(E) \in [Commands -> [E -> E]]
  BY DEF Taking
<1>3. step \in [1 .. n -> [E -> E]] /\ \A i \in 1 .. n, x \in E : step[i][x] = Taken(x, q[i])
  BY <1>1, <1>2 DEF StepsOf, Taking
<1> HIDE DEF n, step
<1>4. PICK g : FoldTable(g, E, e, n, step)
  BY <1>1, <1>3, FoldExists
<1>5. Folds(g)
  <2>1. ASSUME NEW s \in SUBSET (1 .. n), s # {}
        PROVE  g[s] = Taken(g[s \ {Max(s)}], q[Max(s)])
    BY <1>3, <1>4, <2>1 DEF FoldTable
  <2> QED
    BY <1>1, <1>4, <2>1 DEF FoldTable
<1>6. Folds(fold)
  <2> HIDE DEF Folds
  <2> QED
    BY <1>5
<1>7. FoldLeft(Taken, e, q) = fold[1 .. n]
  BY <1>1 DEF FoldLeft, MapThenFoldSet
<1> HIDE DEF fold
<1>8. ASSUME NEW s \in SUBSET (1 .. n), s # {}, fold[s \ {Max(s)}] \in E
      PROVE  fold[s] = step[Max(s)][fold[s \ {Max(s)}]]
  <2>1. Max(s) \in 1 .. n
    BY <1>4, <1>8 DEF FoldTable
  <2>2. fold[s] = Taken(fold[s \ {Max(s)}], q[Max(s)])
    BY <1>1, <1>6, <1>8
  <2> QED
    BY <1>3, <1>8, <2>1, <2>2
<1>9. FoldsBy(fold, E, e, n, step)
  BY <1>6, <1>8 DEF FoldsBy
<1>10. PICK at : Through(at, E, e, n, step) /\ at[n] = fold[1 .. n]
  <2> HIDE DEF Folds
  <2> QED
    BY <1>1, <1>3, <1>9, FoldReaches
<1>11. Folded(Taking(E), E, e, q) = at[n]
  BY <1>2, <1>10, FoldedIs DEF n, step
<1> QED
  BY <1>2, <1>7, <1>10, <1>11
\* Done as a function, for folds over states in E.
Doing(E) == [c \in CallSteps |-> [x \in E |-> Done(x, c)]]

LEMMA DoneFold ==
    ASSUME NEW E, NEW e \in E, NEW q \in Seq(CallSteps),
           \A x \in E, c \in CallSteps : Done(x, c) \in E
    PROVE  /\ Doing(E) \in [CallSteps -> [E -> E]]
           /\ FoldLeft(Done, e, q) = Folded(Doing(E), E, e, q)
<1> DEFINE n == Len(q)
           step == StepsOf(Doing(E), q)
           Folds(g) == g = [s \in SUBSET DOMAIN q |->
                               IF s = {} THEN e ELSE Done(g[s \ {Max(s)}], q[Max(s)])]
           fold == CHOOSE g : Folds(g)
<1>1. n \in Nat /\ DOMAIN q = 1 .. n /\ \A i \in 1 .. n : q[i] \in CallSteps
  OBVIOUS
<1>2. Doing(E) \in [CallSteps -> [E -> E]]
  BY DEF Doing
<1>3. step \in [1 .. n -> [E -> E]] /\ \A i \in 1 .. n, x \in E : step[i][x] = Done(x, q[i])
  BY <1>1, <1>2 DEF StepsOf, Doing
<1> HIDE DEF n, step
<1>4. PICK g : FoldTable(g, E, e, n, step)
  BY <1>1, <1>3, FoldExists
<1>5. Folds(g)
  <2>1. ASSUME NEW s \in SUBSET (1 .. n), s # {}
        PROVE  g[s] = Done(g[s \ {Max(s)}], q[Max(s)])
    BY <1>3, <1>4, <2>1 DEF FoldTable
  <2> QED
    BY <1>1, <1>4, <2>1 DEF FoldTable
<1>6. Folds(fold)
  <2> HIDE DEF Folds
  <2> QED
    BY <1>5
<1>7. FoldLeft(Done, e, q) = fold[1 .. n]
  BY <1>1 DEF FoldLeft, MapThenFoldSet
<1> HIDE DEF fold
<1>8. ASSUME NEW s \in SUBSET (1 .. n), s # {}, fold[s \ {Max(s)}] \in E
      PROVE  fold[s] = step[Max(s)][fold[s \ {Max(s)}]]
  <2>1. Max(s) \in 1 .. n
    BY <1>4, <1>8 DEF FoldTable
  <2>2. fold[s] = Done(fold[s \ {Max(s)}], q[Max(s)])
    BY <1>1, <1>6, <1>8
  <2> QED
    BY <1>3, <1>8, <2>1, <2>2
<1>9. FoldsBy(fold, E, e, n, step)
  BY <1>6, <1>8 DEF FoldsBy
<1>10. PICK at : Through(at, E, e, n, step) /\ at[n] = fold[1 .. n]
  <2> HIDE DEF Folds
  <2> QED
    BY <1>1, <1>3, <1>9, FoldReaches
<1>11. Folded(Doing(E), E, e, q) = at[n]
  BY <1>2, <1>10, FoldedIs DEF n, step
<1> QED
  BY <1>2, <1>7, <1>10, <1>11

\* A command at the end is taken last, and one at the head may be taken before.
LEMMA TakenInto ==
    ASSUME NEW e \in Programs, NEW q \in Seq(Commands)
    PROVE  /\ FoldLeft(Taken, e, q) \in Programs
           /\ q = <<>> => FoldLeft(Taken, e, q) = e
           /\ \A c \in Commands : FoldLeft(Taken, e, Append(q, c)) = Taken(FoldLeft(Taken, e, q), c)
           /\ q # <<>> => FoldLeft(Taken, Taken(e, Head(q)), Tail(q)) = FoldLeft(Taken, e, q)
<1> DEFINE h == Taking(Programs)
           fold(d, r) == Folded(h, Programs, d, r)
<1>1. \A x \in Programs, c \in Commands : Taken(x, c) \in Programs
  BY TakenPlays
<1>2. ASSUME NEW d \in Programs, NEW r \in Seq(Commands)
      PROVE  h \in [Commands -> [Programs -> Programs]] /\ FoldLeft(Taken, d, r) = fold(d, r)
  BY <1>1, TakenFold
<1>3. fold(e, q) \in Programs
  BY <1>2, FoldedTyped
<1>4. q = <<>> => fold(e, q) = e
  BY <1>2, FoldedEmpty
<1>5. ASSUME NEW c \in Commands
      PROVE  FoldLeft(Taken, e, Append(q, c)) = Taken(FoldLeft(Taken, e, q), c)
  <2>1. Append(q, c) \in Seq(Commands)
    OBVIOUS
  <2>2. fold(e, Append(q, c)) = h[c][fold(e, q)]
    BY <1>2, FoldedAppend
  <2>3. h[c][fold(e, q)] = Taken(fold(e, q), c)
    BY <1>3 DEF Taking
  <2> HIDE DEF fold, h
  <2> QED
    BY <1>2, <2>1, <2>2, <2>3
<1>6. ASSUME q # <<>> PROVE FoldLeft(Taken, Taken(e, Head(q)), Tail(q)) = FoldLeft(Taken, e, q)
  <2>1. Head(q) \in Commands /\ Tail(q) \in Seq(Commands)
    BY <1>6
  <2>2. Taken(e, Head(q)) \in Programs /\ h[Head(q)][e] = Taken(e, Head(q))
    BY <1>1, <2>1 DEF Taking
  <2>3. fold(e, q) = fold(h[Head(q)][e], Tail(q))
    BY <1>2, <1>6, FoldedTail
  <2> HIDE DEF fold, h
  <2> QED
    BY <1>2, <2>1, <2>2, <2>3
<1> HIDE DEF fold, h
<1> QED
  BY <1>2, <1>3, <1>4, <1>5, <1>6

LEMMA DoneInto ==
    ASSUME NEW w \in World, NEW q \in Seq(CallSteps)
    PROVE  /\ FoldLeft(Done, w, q) \in World
           /\ q = <<>> => FoldLeft(Done, w, q) = w
           /\ \A s \in CallSteps : FoldLeft(Done, w, Append(q, s)) = Done(FoldLeft(Done, w, q), s)
           /\ q # <<>> => FoldLeft(Done, Done(w, Head(q)), Tail(q)) = FoldLeft(Done, w, q)
<1> DEFINE h == Doing(World)
           fold(d, r) == Folded(h, World, d, r)
<1>1. \A x \in World, c \in CallSteps : Done(x, c) \in World
  BY DoneTyped
<1>2. ASSUME NEW d \in World, NEW r \in Seq(CallSteps)
      PROVE  h \in [CallSteps -> [World -> World]] /\ FoldLeft(Done, d, r) = fold(d, r)
  BY <1>1, DoneFold
<1>3. fold(w, q) \in World
  BY <1>2, FoldedTyped
<1>4. q = <<>> => fold(w, q) = w
  BY <1>2, FoldedEmpty
<1>5. ASSUME NEW s \in CallSteps
      PROVE  FoldLeft(Done, w, Append(q, s)) = Done(FoldLeft(Done, w, q), s)
  <2>1. Append(q, s) \in Seq(CallSteps)
    OBVIOUS
  <2>2. fold(w, Append(q, s)) = h[s][fold(w, q)]
    BY <1>2, FoldedAppend
  <2>3. h[s][fold(w, q)] = Done(fold(w, q), s)
    BY <1>3 DEF Doing
  <2> HIDE DEF fold, h
  <2> QED
    BY <1>2, <2>1, <2>2, <2>3
<1>6. ASSUME q # <<>> PROVE FoldLeft(Done, Done(w, Head(q)), Tail(q)) = FoldLeft(Done, w, q)
  <2>1. Head(q) \in CallSteps /\ Tail(q) \in Seq(CallSteps)
    BY <1>6
  <2>2. Done(w, Head(q)) \in World /\ h[Head(q)][w] = Done(w, Head(q))
    BY <1>1, <2>1 DEF Doing
  <2>3. fold(w, q) = fold(h[Head(q)][w], Tail(q))
    BY <1>2, <1>6, FoldedTail
  <2> HIDE DEF fold, h
  <2> QED
    BY <1>2, <2>1, <2>2, <2>3
<1> HIDE DEF fold, h
<1> QED
  BY <1>2, <1>3, <1>4, <1>5, <1>6

\* What the UI takes from the ring, its view takes.
LEMMA ViewTaken ==
    ASSUME NEW x \in UiStates, NEW q \in Seq(Commands)
    PROVE  /\ View(x) \in Programs
           /\ FoldLeft(Taken, x, q) \in UiStates
           /\ View(FoldLeft(Taken, x, q)) = FoldLeft(Taken, View(x), q)
           /\ FoldLeft(Taken, x, q).seen = x.seen
<1> DEFINE h == Taking(UiStates)
           k == Taking(Programs)
           v == [y \in UiStates |-> View(y)]
           Same == {y \in UiStates : y.seen = x.seen}
           hs == Taking(Same)
<1>1. /\ h \in [Commands -> [UiStates -> UiStates]]
      /\ FoldLeft(Taken, x, q) = Folded(h, UiStates, x, q)
  BY TakenShows, TakenFold DEF TakenAlike
<1>2. View(x) \in Programs /\ v \in [UiStates -> Programs]
  <2> SUFFICES ASSUME NEW y \in UiStates PROVE View(y) \in Programs
    OBVIOUS
  <2> QED
    BY DEF View, UiStates, Programs
<1>3. /\ k \in [Commands -> [Programs -> Programs]]
      /\ FoldLeft(Taken, View(x), q) = Folded(k, Programs, View(x), q)
  BY <1>2, TakenPlays, TakenFold
<1>4. ASSUME NEW y \in UiStates, NEW c \in Commands PROVE v[h[c][y]] = k[c][v[y]]
  <2>1. h[c][y] = Taken(y, c) /\ Taken(y, c) \in UiStates
    BY TakenShows DEF Taking, TakenAlike
  <2>2. v[y] \in Programs /\ k[c][v[y]] = Taken(v[y], c)
    BY <1>2 DEF Taking
  <2> QED
    BY <2>1, <2>2, TakenShows DEF TakenAlike
<1>5. Folded(h, UiStates, x, q) \in UiStates
  BY <1>1, FoldedTyped
<1>6. v[Folded(h, UiStates, x, q)] = Folded(k, Programs, v[x], q)
  <2>1. Carries(v, h, k, UiStates, Programs, Commands)
    BY <1>1, <1>2, <1>3, <1>4 DEF Carries
  <2> HIDE DEF h, k, v
  <2> QED
    BY <2>1, FoldedAlong
<1>7. FoldLeft(Taken, x, q) \in Same
  <2>1. x \in Same /\ \A y \in Same, c \in Commands : Taken(y, c) \in Same
    BY TakenShows DEF TakenAlike
  <2> HIDE DEF Same
  <2>2. hs \in [Commands -> [Same -> Same]] /\ FoldLeft(Taken, x, q) = Folded(hs, Same, x, q)
    BY <2>1, TakenFold
  <2> QED
    BY <2>1, <2>2, FoldedTyped
<1> HIDE DEF h, k
<1> QED
  BY <1>1, <1>2, <1>3, <1>5, <1>6, <1>7
-----------------------------------------------------------------------------
(* Where everything would be.                                              *)

LEMMA Arrives ==
    ASSUME NEW e \in Programs, NEW r \in Seq(Commands), NEW l \in Layers,
           NEW u \in Programs, NEW q \in Seq(Commands)
    PROVE  [engine |-> FoldLeft(Taken, e, r), layer |-> l, ui |-> FoldLeft(Taken, u, q)]
              \in World
<1>1. FoldLeft(Taken, e, r) \in Programs /\ FoldLeft(Taken, u, q) \in Programs
  BY TakenInto
<1> QED
  BY <1>1 DEF World

LEMMA ViewTyped == ASSUME NEW x \in UiStates PROVE View(x) \in Programs
BY DEF View, UiStates, Programs

LEMMA WorldTyped ==
    ASSUME Typed
    PROVE  /\ Arrived \in World /\ AfterUi \in World /\ AfterAll \in World
           /\ Arrived.engine = FoldLeft(Taken, engine, ring) /\ Arrived.layer = editLayer
           /\ Arrived.ui = FoldLeft(Taken, View(ui), updates)
           /\ ring = <<>> => Arrived.engine = engine
           /\ updates = <<>> => Arrived.ui = View(ui)
           /\ todo["ui"] = <<>> => AfterUi = Arrived
           /\ todo["midi"] = <<>> => AfterAll = AfterUi
<1>1. Arrived \in World
  BY Arrives, ViewTyped DEF Typed, Arrived
<1>2. todo["ui"] \in Seq(CallSteps) /\ todo["midi"] \in Seq(CallSteps)
  BY DEF Typed, Threads
<1>3. AfterUi \in World /\ (todo["ui"] = <<>> => AfterUi = Arrived)
  BY <1>1, <1>2, DoneInto DEF AfterUi
<1>4. AfterAll \in World /\ (todo["midi"] = <<>> => AfterAll = AfterUi)
  BY <1>2, <1>3, DoneInto DEF AfterAll
<1>5. /\ Arrived.engine = FoldLeft(Taken, engine, ring) /\ Arrived.layer = editLayer
      /\ Arrived.ui = FoldLeft(Taken, View(ui), updates)
  BY DEF Arrived
<1>6. /\ ring = <<>> => FoldLeft(Taken, engine, ring) = engine
      /\ updates = <<>> => FoldLeft(Taken, View(ui), updates) = View(ui)
  BY TakenInto, ViewTyped DEF Typed
<1> QED
  BY <1>1, <1>3, <1>4, <1>5, <1>6

LEMMA WorldTypedNext ==
    ASSUME Typed'
    PROVE  /\ Arrived' \in World /\ AfterUi' \in World /\ AfterAll' \in World
           /\ Arrived'.engine = FoldLeft(Taken, engine', ring') /\ Arrived'.layer = editLayer'
           /\ Arrived'.ui = FoldLeft(Taken, View(ui'), updates')
           /\ ring' = <<>> => Arrived'.engine = engine'
           /\ updates' = <<>> => Arrived'.ui = View(ui')
           /\ todo'["ui"] = <<>> => AfterUi' = Arrived'
           /\ todo'["midi"] = <<>> => AfterAll' = AfterUi'
<1>1. Arrived' \in World
  BY Arrives, ViewTyped DEF Typed, Arrived
<1>2. todo'["ui"] \in Seq(CallSteps) /\ todo'["midi"] \in Seq(CallSteps)
  BY DEF Typed, Threads
<1>3. AfterUi' \in World /\ (todo'["ui"] = <<>> => AfterUi' = Arrived')
  BY <1>1, <1>2, DoneInto DEF AfterUi
<1>4. AfterAll' \in World /\ (todo'["midi"] = <<>> => AfterAll' = AfterUi')
  BY <1>2, <1>3, DoneInto DEF AfterAll
<1>5. /\ Arrived'.engine = FoldLeft(Taken, engine', ring') /\ Arrived'.layer = editLayer'
      /\ Arrived'.ui = FoldLeft(Taken, View(ui'), updates')
  BY DEF Arrived
<1>6. /\ ring' = <<>> => FoldLeft(Taken, engine', ring') = engine'
      /\ updates' = <<>> => FoldLeft(Taken, View(ui'), updates') = View(ui')
  BY TakenInto, ViewTyped DEF Typed
<1> QED
  BY <1>1, <1>3, <1>4, <1>5, <1>6

LEMMA SameWorld ==
    ASSUME NEW w \in World, NEW x \in World,
           w.engine = x.engine, w.layer = x.layer, w.ui = x.ui
    PROVE  w = x
BY DEF World

\* Steps do to the layer and to the UI what they do, whatever plays.
LEMMA EngineAside ==
    ASSUME NEW w \in World, NEW x \in World, w.layer = x.layer, w.ui = x.ui,
           NEW q \in Seq(CallSteps)
    PROVE  /\ FoldLeft(Done, w, q) \in World /\ FoldLeft(Done, x, q) \in World
           /\ FoldLeft(Done, w, q).layer = FoldLeft(Done, x, q).layer
           /\ FoldLeft(Done, w, q).ui = FoldLeft(Done, x, q).ui
<1> DEFINE Shown == [layer : Layers, ui : Programs]
           Show(y) == [layer |-> y.layer, ui |-> y.ui]
           h == Doing(World)
           k == [s \in CallSteps |-> [y \in Shown |->
                   [layer |-> IF s.do = "store" THEN s.layer ELSE y.layer,
                    ui |-> IF s.do = "tell" THEN Taken(y.ui, s.command) ELSE y.ui]]]
           v == [y \in World |-> Show(y)]
<1>1. ASSUME NEW y \in World
      PROVE  /\ h \in [CallSteps -> [World -> World]]
             /\ FoldLeft(Done, y, q) = Folded(h, World, y, q)
             /\ FoldLeft(Done, y, q) \in World
  <2>1. \A z \in World, s \in CallSteps : Done(z, s) \in World
    BY DoneTyped
  <2>2. /\ h \in [CallSteps -> [World -> World]]
        /\ FoldLeft(Done, y, q) = Folded(h, World, y, q)
    BY <2>1, DoneFold
  <2> QED
    BY <2>2, DoneInto
<1>2. ASSUME NEW y \in World PROVE Show(y) \in Shown
  BY DEF World
<1>3. ASSUME NEW s \in CallSteps, NEW y \in Shown
      PROVE  [layer |-> IF s.do = "store" THEN s.layer ELSE y.layer,
              ui |-> IF s.do = "tell" THEN Taken(y.ui, s.command) ELSE y.ui] \in Shown
  <2>1. (IF s.do = "store" THEN s.layer ELSE y.layer) \in Layers
    BY StepKinds
  <2>2. (IF s.do = "tell" THEN Taken(y.ui, s.command) ELSE y.ui) \in Programs
    <3>1. CASE s.do = "tell"
      <4>1. s.command \in Commands /\ y.ui \in Programs
        BY <3>1, StepKinds
      <4> QED
        BY <3>1, <4>1, TakenPlays
    <3> QED
      BY <3>1
  <2> QED
    BY <2>1, <2>2
<1>4. k \in [CallSteps -> [Shown -> Shown]]
  <2> HIDE DEF Shown
  <2> QED
    BY <1>3
<1>5. ASSUME NEW y \in World, NEW s \in CallSteps PROVE v[h[s][y]] = k[s][v[y]]
  <2>1. h[s][y] = Done(y, s) /\ Done(y, s) \in World
    BY DoneTyped DEF Doing
  <2>2. v[h[s][y]] = Show(Done(y, s)) /\ v[y] = Show(y) /\ Show(y) \in Shown
    BY <1>2, <2>1
  <2>3. k[s][Show(y)] =
          [layer |-> IF s.do = "store" THEN s.layer ELSE y.layer,
           ui |-> IF s.do = "tell" THEN Taken(y.ui, s.command) ELSE y.ui]
    BY <2>2
  <2> QED
    BY <2>2, <2>3, DoneTyped
<1>6. v \in [World -> Shown]
  <2> HIDE DEF Shown, Show
  <2> QED
    BY <1>2
<1>7. Carries(v, h, k, World, Shown, CallSteps)
  <2> HIDE DEF v, h, k, Shown
  <2> QED
    BY <1>1, <1>4, <1>5, <1>6 DEF Carries
<1>8. ASSUME NEW y \in World
      PROVE  v[FoldLeft(Done, y, q)] = Folded(k, Shown, v[y], q)
  <2> HIDE DEF v, h, k, Shown
  <2> QED
    BY <1>1, <1>7, FoldedAlong
<1>9. v[w] = v[x]
  OBVIOUS
<1>10. v[FoldLeft(Done, w, q)] = v[FoldLeft(Done, x, q)]
  <2> HIDE DEF v, h, k, Shown
  <2> QED
    BY <1>8, <1>9
<1>11. FoldLeft(Done, w, q) \in World /\ FoldLeft(Done, x, q) \in World
  BY <1>1
<1> HIDE DEF k, h
<1> QED
  BY <1>10, <1>11

\* The calls, step by step.
LEMMA DoneFirst ==
    ASSUME NEW w \in World, NEW q \in Seq(CallSteps), NEW r, q # <<>>, Tail(q) = r
    PROVE  FoldLeft(Done, w, q) = FoldLeft(Done, Done(w, Head(q)), r)
BY DoneInto

LEMMA DoneOne ==
    ASSUME NEW w \in World, NEW a \in CallSteps
    PROVE  FoldLeft(Done, w, <<a>>) = Done(w, a)
<1> DEFINE q == <<a>>
           r == <<>>
<1>1. q \in Seq(CallSteps) /\ q # <<>> /\ Head(q) = a /\ Tail(q) = r /\ r \in Seq(CallSteps)
  OBVIOUS
<1>2. Done(w, a) \in World
  BY DoneTyped
<1>3. FoldLeft(Done, Done(w, a), r) = Done(w, a)
  <2>1. r = <<>>
    OBVIOUS
  <2> HIDE DEF r
  <2> QED
    BY <1>1, <1>2, <2>1, DoneInto
<1> HIDE DEF q, r
<1>4. FoldLeft(Done, w, q) = FoldLeft(Done, Done(w, a), r)
  BY <1>1, DoneFirst
<1> QED
  BY <1>3, <1>4 DEF q

LEMMA DoneTwo ==
    ASSUME NEW w \in World, NEW a \in CallSteps, NEW b \in CallSteps
    PROVE  FoldLeft(Done, w, <<a, b>>) = Done(Done(w, a), b)
<1> DEFINE q == <<a, b>>
           r == <<b>>
<1>1. q \in Seq(CallSteps) /\ q # <<>> /\ Head(q) = a /\ Tail(q) = r
  OBVIOUS
<1>2. Done(w, a) \in World
  BY DoneTyped
<1>3. FoldLeft(Done, Done(w, a), r) = Done(Done(w, a), b)
  BY <1>2, DoneOne
<1> HIDE DEF q, r
<1>4. FoldLeft(Done, w, q) = FoldLeft(Done, Done(w, a), r)
  BY <1>1, DoneFirst
<1> QED
  BY <1>3, <1>4 DEF q

LEMMA DoneMore ==
    ASSUME NEW w \in World, NEW q \in Seq(CallSteps), NEW s \in CallSteps
    PROVE  /\ Append(q, s) \in Seq(CallSteps)
           /\ FoldLeft(Done, w, Append(q, s)) = Done(FoldLeft(Done, w, q), s)
<1>1. Append(q, s) \in Seq(CallSteps)
  OBVIOUS
<1>2. \A r \in CallSteps : FoldLeft(Done, w, Append(q, r)) = Done(FoldLeft(Done, w, q), r)
  BY DoneInto, Zenon
<1> QED
  BY <1>1, <1>2

LEMMA StepsMade ==
    ASSUME NEW l \in Layers, NEW c \in Commands
    PROVE  /\ Store(l) \in UiSteps /\ Store(l).do = "store" /\ Store(l).layer = l
           /\ Push(c) \in UiSteps /\ Push(c).do = "push" /\ Push(c).command = c
           /\ Tell(c) \in CallSteps /\ Tell(c).do = "tell" /\ Tell(c).command = c
           /\ UiSteps \subseteq CallSteps
BY DEF Store, Push, Tell, UiSteps, CallSteps

LEMMA StoreDone ==
    ASSUME NEW w \in World, NEW l \in Layers
    PROVE  /\ Done(w, Store(l)) \in World /\ Done(w, Store(l)).layer = l
           /\ Done(w, Store(l)).engine = w.engine /\ Done(w, Store(l)).ui = w.ui
<1>1. Store(l) \in CallSteps /\ Store(l).do = "store" /\ Store(l).layer = l
  BY DEF Store, UiSteps, CallSteps
<1> QED
  BY <1>1, DoneTyped

LEMMA PushDone ==
    ASSUME NEW w \in World, NEW c \in Commands
    PROVE  /\ Done(w, Push(c)) \in World /\ Done(w, Push(c)).engine = Taken(w.engine, c)
           /\ Done(w, Push(c)).layer = w.layer /\ Done(w, Push(c)).ui = w.ui
<1>1. Push(c) \in CallSteps /\ Push(c).do = "push" /\ Push(c).command = c
  BY DEF Push, UiSteps, CallSteps
<1> QED
  BY <1>1, DoneTyped

LEMMA TellDone ==
    ASSUME NEW w \in World, NEW c \in Commands
    PROVE  /\ Done(w, Tell(c)) \in World /\ Done(w, Tell(c)).ui = Taken(w.ui, c)
           /\ Done(w, Tell(c)).layer = w.layer /\ Done(w, Tell(c)).engine = w.engine
<1>1. Tell(c) \in CallSteps /\ Tell(c).do = "tell" /\ Tell(c).command = c
  BY DEF Tell, UiSteps, CallSteps
<1> QED
  BY <1>1, DoneTyped

LEMMA TakenLoads ==
    ASSUME NEW x \in Programs, NEW p \in Patches
    PROVE  /\ Program(p) \in Commands
           /\ Taken(x, Program(p)) = [patch |-> p, edit |-> "A"]
<1>1. Taken(x, Program(p)) = [x EXCEPT !.patch = p, !.edit = "A"]
  BY TakenProgram
<1> QED
  BY <1>1, TakenProgram DEF Programs

LEMMA LayerSelected ==
    ASSUME NEW w \in World, NEW l \in Layers
    PROVE  /\ SetEditLayer(l) \in Seq(UiSteps) /\ SetEditLayer(l) \in Seq(CallSteps)
           /\ FoldLeft(Done, w, SetEditLayer(l)) \in World
           /\ FoldLeft(Done, w, SetEditLayer(l)).layer = l
           /\ FoldLeft(Done, w, SetEditLayer(l)).engine = [w.engine EXCEPT !.edit = l]
           /\ FoldLeft(Done, w, SetEditLayer(l)).ui = w.ui
<1>1. Edit(l) \in Commands /\ Taken(w.engine, Edit(l)) = [w.engine EXCEPT !.edit = l]
  BY TakenEdit
<1>2. Store(l) \in UiSteps /\ Push(Edit(l)) \in UiSteps /\ UiSteps \subseteq CallSteps
  BY <1>1, StepsMade
<1>3. SetEditLayer(l) = <<Store(l), Push(Edit(l))>>
  BY DEF SetEditLayer
<1>4. FoldLeft(Done, w, SetEditLayer(l)) = Done(Done(w, Store(l)), Push(Edit(l)))
  BY <1>2, <1>3, DoneTwo
<1>5. SetEditLayer(l) \in Seq(UiSteps) /\ SetEditLayer(l) \in Seq(CallSteps)
  BY <1>2, <1>3
<1> QED
  BY <1>1, <1>4, <1>5, StoreDone, PushDone

LEMMA LayerSelectedMidi ==
    ASSUME NEW w \in World, NEW l \in Layers
    PROVE  /\ SetMidiEditLayer(l) \in Seq(CallSteps)
           /\ FoldLeft(Done, w, SetMidiEditLayer(l)) \in World
           /\ FoldLeft(Done, w, SetMidiEditLayer(l)).layer = l
           /\ FoldLeft(Done, w, SetMidiEditLayer(l)).engine = [w.engine EXCEPT !.edit = l]
           /\ FoldLeft(Done, w, SetMidiEditLayer(l)).ui = [w.ui EXCEPT !.edit = l]
<1>1. w.ui \in Programs
  BY DEF World
<1>2. Edit(l) \in Commands /\ Taken(w.ui, Edit(l)) = [w.ui EXCEPT !.edit = l]
  BY <1>1, TakenEdit
<1>3. Tell(Edit(l)) \in CallSteps
  BY <1>2 DEF CallSteps
<1>4. SetMidiEditLayer(l) = Append(SetEditLayer(l), Tell(Edit(l)))
  BY DEF SetMidiEditLayer
<1> DEFINE x == FoldLeft(Done, w, SetEditLayer(l))
<1>5. SetEditLayer(l) \in Seq(CallSteps) /\ x \in World
  BY LayerSelected
<1>6. /\ SetMidiEditLayer(l) \in Seq(CallSteps)
      /\ FoldLeft(Done, w, SetMidiEditLayer(l)) = Done(x, Tell(Edit(l)))
  BY <1>3, <1>4, <1>5, DoneMore
<1>7. x.layer = l /\ x.engine = [w.engine EXCEPT !.edit = l] /\ x.ui = w.ui
  BY LayerSelected
<1> HIDE DEF x
<1> QED
  BY <1>2, <1>5, <1>6, <1>7, TellDone

LEMMA ProgramLoaded ==
    ASSUME NEW w \in World, NEW p \in Patches
    PROVE  /\ LoadProgram(p) \in Seq(UiSteps) /\ LoadProgram(p) \in Seq(CallSteps)
           /\ FoldLeft(Done, w, LoadProgram(p)) \in World
           /\ FoldLeft(Done, w, LoadProgram(p)).layer = "A"
           /\ FoldLeft(Done, w, LoadProgram(p)).engine = [patch |-> p, edit |-> "A"]
           /\ FoldLeft(Done, w, LoadProgram(p)).ui = w.ui
<1>0. "A" \in Layers /\ w.engine \in Programs
  BY DEF Layers, World
<1>1. Program(p) \in Commands /\ Taken(w.engine, Program(p)) = [patch |-> p, edit |-> "A"]
  BY <1>0, TakenLoads
<1>2. Store("A") \in UiSteps /\ Push(Program(p)) \in UiSteps /\ UiSteps \subseteq CallSteps
  BY <1>0, <1>1, StepsMade
<1>3. LoadProgram(p) = <<Store("A"), Push(Program(p))>>
  BY DEF LoadProgram
<1>4. FoldLeft(Done, w, LoadProgram(p)) = Done(Done(w, Store("A")), Push(Program(p)))
  BY <1>2, <1>3, DoneTwo
<1>5. LoadProgram(p) \in Seq(UiSteps) /\ LoadProgram(p) \in Seq(CallSteps)
  BY <1>2, <1>3
<1> QED
  BY <1>0, <1>1, <1>4, <1>5, StoreDone, PushDone

LEMMA ProgramLoadedMidi ==
    ASSUME NEW w \in World, NEW p \in Patches
    PROVE  /\ LoadMidiEditBuffer(p) \in Seq(CallSteps)
           /\ FoldLeft(Done, w, LoadMidiEditBuffer(p)) \in World
           /\ FoldLeft(Done, w, LoadMidiEditBuffer(p)).layer = "A"
           /\ FoldLeft(Done, w, LoadMidiEditBuffer(p)).engine = [patch |-> p, edit |-> "A"]
           /\ FoldLeft(Done, w, LoadMidiEditBuffer(p)).ui = [patch |-> p, edit |-> "A"]
<1>1. w.ui \in Programs
  BY DEF World
<1>2. Program(p) \in Commands /\ Taken(w.ui, Program(p)) = [patch |-> p, edit |-> "A"]
  BY <1>1, TakenLoads
<1>3. Tell(Program(p)) \in CallSteps
  BY <1>2 DEF CallSteps
<1>4. LoadMidiEditBuffer(p) = Append(LoadProgram(p), Tell(Program(p)))
  BY DEF LoadMidiEditBuffer
<1> DEFINE x == FoldLeft(Done, w, LoadProgram(p))
<1>5. LoadProgram(p) \in Seq(CallSteps) /\ x \in World
  BY ProgramLoaded
<1>6. /\ LoadMidiEditBuffer(p) \in Seq(CallSteps)
      /\ FoldLeft(Done, w, LoadMidiEditBuffer(p)) = Done(x, Tell(Program(p)))
  BY <1>3, <1>4, <1>5, DoneMore
<1>7. x.layer = "A" /\ x.engine = [patch |-> p, edit |-> "A"] /\ x.ui = w.ui
  BY ProgramLoaded
<1> HIDE DEF x
<1> QED
  BY <1>2, <1>5, <1>6, <1>7, TellDone

LEMMA ProgramReloaded ==
    ASSUME NEW w \in World, NEW p \in Patches, NEW l \in Layers
    PROVE  /\ ReloadProgram(p, l) \in Seq(UiSteps) /\ ReloadProgram(p, l) \in Seq(CallSteps)
           /\ FoldLeft(Done, w, ReloadProgram(p, l)) \in World
           /\ FoldLeft(Done, w, ReloadProgram(p, l)).layer = l
           /\ FoldLeft(Done, w, ReloadProgram(p, l)).engine = [patch |-> p, edit |-> l]
           /\ FoldLeft(Done, w, ReloadProgram(p, l)).ui = w.ui
<1>0. w.engine \in Programs
  BY DEF World
<1>1. /\ Program(p) \in Commands /\ Taken(w.engine, Program(p)) = [patch |-> p, edit |-> "A"]
      /\ Edit(l) \in Commands /\ NotesOff \in Commands /\ Taken(w.engine, NotesOff) = w.engine
  BY <1>0, TakenLoads, TakenEdit, TakenNotesOff
<1>2. /\ Push(NotesOff) \in UiSteps /\ Store(l) \in UiSteps /\ Push(Program(p)) \in UiSteps
      /\ Push(Edit(l)) \in UiSteps /\ UiSteps \subseteq CallSteps
  BY <1>1, StepsMade
<1>3. ReloadProgram(p, l) = <<Push(NotesOff), Store(l), Push(Program(p)), Push(Edit(l))>>
  BY DEF ReloadProgram
<1> DEFINE w1 == Done(w, Push(NotesOff))
           w2 == Done(w1, Store(l))
           w3 == Done(w2, Push(Program(p)))
           w4 == Done(w3, Push(Edit(l)))
           program == [patch |-> p, edit |-> "A"]
<1>4. FoldLeft(Done, w, ReloadProgram(p, l)) = w4
  <2> DEFINE a == Push(NotesOff)
             b == Store(l)
             c == Push(Program(p))
             d == Push(Edit(l))
  <2>1. a \in CallSteps /\ b \in CallSteps /\ c \in CallSteps /\ d \in CallSteps
    BY <1>2
  <2> HIDE DEF a, b, c, d
  <2> DEFINE q == <<a, b>>
             r == Append(q, c)
  <2>2. q \in Seq(CallSteps) /\ r \in Seq(CallSteps)
    BY <2>1
  <2>3. FoldLeft(Done, w, q) = Done(Done(w, a), b)
    BY <2>1, DoneTwo
  <2>4. <<a, b, c, d>> = Append(r, d)
    BY <2>1
  <2> HIDE DEF q
  <2>5. FoldLeft(Done, w, r) = Done(FoldLeft(Done, w, q), c)
    BY <2>1, <2>2, DoneMore
  <2> HIDE DEF r
  <2>6. FoldLeft(Done, w, Append(r, d)) = Done(FoldLeft(Done, w, r), d)
    BY <2>1, <2>2, DoneMore
  <2> QED
    BY <1>3, <2>3, <2>4, <2>5, <2>6 DEF a, b, c, d
<1>5. ReloadProgram(p, l) \in Seq(UiSteps) /\ ReloadProgram(p, l) \in Seq(CallSteps)
  BY <1>2, <1>3
<1>6. w1 \in World /\ w1.engine = w.engine /\ w1.ui = w.ui
  BY <1>1, StoreDone, PushDone
<1> HIDE DEF w1
<1>7. w2 \in World /\ w2.engine = w.engine /\ w2.ui = w.ui /\ w2.layer = l
  BY <1>1, <1>6, StoreDone, PushDone
<1> HIDE DEF w2, program
<1>8. w3 \in World /\ w3.engine = program /\ w3.ui = w.ui /\ w3.layer = l
  <2>1. Program(p) \in Commands /\ Taken(w.engine, Program(p)) = program
    BY <1>1 DEF program
  <2> HIDE DEF w3
  <2>2. /\ w3 \in World /\ w3.engine = Taken(w2.engine, Program(p))
        /\ w3.ui = w2.ui /\ w3.layer = w2.layer
    BY <1>7, <2>1, StoreDone, PushDone DEF w3
  <2> QED
    BY <1>7, <2>1, <2>2
<1> HIDE DEF w3
<1>9. /\ w4 \in World /\ w4.engine = [program EXCEPT !.edit = l]
      /\ w4.ui = w.ui /\ w4.layer = l
  <2>1. Edit(l) \in Commands /\ Taken(program, Edit(l)) = [program EXCEPT !.edit = l]
    BY TakenEdit
  <2> HIDE DEF w4
  <2>2. /\ w4 \in World /\ w4.engine = Taken(w3.engine, Edit(l))
        /\ w4.ui = w3.ui /\ w4.layer = w3.layer
    BY <1>8, <2>1, StoreDone, PushDone DEF w4
  <2> QED
    BY <1>8, <2>1, <2>2
<1>10. [program EXCEPT !.edit = l] = [patch |-> p, edit |-> l]
  BY DEF program
<1> HIDE DEF w4
<1> QED
  BY <1>4, <1>5, <1>9, <1>10
-----------------------------------------------------------------------------
(* Types.                                                                  *)

LEMMA TypedInit == Init => Typed
<1> SUFFICES ASSUME Init PROVE Typed
  OBVIOUS
<1>1. todo = [t \in Threads |-> <<>>]
  BY DEF Init
<1>2. todo \in [Threads -> Seq(CallSteps)] /\ todo["ui"] \in Seq(UiSteps)
  <2>1. <<>> \in Seq(CallSteps) /\ <<>> \in Seq(UiSteps)
    OBVIOUS
  <2> QED
    BY <1>1, <2>1 DEF Threads
<1>3. engine \in Programs /\ ui \in UiStates /\ editLayer \in Layers
  BY DEF Init, Fresh, Programs, UiStates, Layers
<1>4. /\ ring \in Seq(Commands) /\ Len(ring) <= RingCapacity
      /\ updates \in Seq(Commands) /\ Len(updates) <= UiCapacity
  BY DEF Init
<1> QED
  BY <1>2, <1>3, <1>4 DEF Init, Typed, Managers, Flags, Starting

\* What the manager does keeps the types, and what the others do not touch.
LEMMA TypedManage ==
    ASSUME Typed, Manage
    PROVE  Typed' /\ UNCHANGED <<senderVars, uiVars>>
<1>0. applied.generation + 1 \in Nat
  <2>1. applied \in [generation : Nat, error : BOOLEAN]
    BY DEF Typed
  <2>2. applied.generation \in Nat
    BY <2>1
  <2> QED
    BY <2>2
<1>1. ASSUME NEW r, r = <<>> PROVE r \in Seq(Commands) /\ Len(r) <= RingCapacity
  <2>1. <<>> \in Seq(Commands) /\ Len(<<>>) = 0
    OBVIOUS
  <2> QED
    BY <1>1, <2>1
<1> USE DEF Typed, Managers, Flags
<1>2. Fresh \in Programs
  BY DEF Fresh, Programs, Layers
<1>3. CASE Started
  BY <1>2, <1>3 DEF Started, StartSession, aside, senderVars, uiVars, historyVars
<1>4. CASE Built
  BY <1>2, <1>4 DEF Built, StartSession, aside, senderVars, uiVars, historyVars
<1>5. CASE Recovered
  BY <1>2, <1>5 DEF Recovered, StartSession, aside, senderVars, uiVars, historyVars
<1>6. CASE Reconnected
  BY <1>2, <1>6 DEF Reconnected, StartSession, aside, senderVars, uiVars, historyVars
<1>7. CASE StartFailed
  BY <1>7 DEF StartFailed, aside, senderVars, uiVars, historyVars
<1>8. CASE BuildFailed
  BY <1>1, <1>8 DEF BuildFailed, NewRing, aside, senderVars, uiVars, historyVars
<1>9. CASE RecoveryFailed
  BY <1>9 DEF RecoveryFailed, aside, senderVars, uiVars, historyVars
<1>10. CASE RetryFailed
  BY <1>10 DEF RetryFailed, aside, senderVars, uiVars, historyVars
<1>11. CASE TakeRequest
  BY <1>11 DEF TakeRequest, senderVars, uiVars, historyVars
<1>12. CASE Rebind
  BY <1>1, <1>12 DEF Rebind, NewRing, aside, senderVars, uiVars, historyVars
<1>13. CASE NoticeDisconnect
  BY <1>13 DEF NoticeDisconnect, aside, senderVars, uiVars, historyVars
<1>14. CASE Retry
  BY <1>1, <1>14 DEF Retry, NewRing, aside, senderVars, uiVars, historyVars
<1>15. CASE Publish
  <2>2. (manager = "publish reverted") \in BOOLEAN
    OBVIOUS
  <2>3. applied' \in [generation : Nat, error : BOOLEAN]
    BY <1>0, <1>15, <2>2 DEF Publish
  <2>4. reverted' \in BOOLEAN
    BY <1>15, <2>2 DEF Publish
  <2> QED
    BY <1>15, <2>3, <2>4 DEF Publish, aside, senderVars, uiVars, historyVars
<1>16. CASE ClearFlag
  BY <1>16 DEF ClearFlag, aside, senderVars, uiVars, historyVars
<1> QED
  BY <1>3, <1>4, <1>5, <1>6, <1>7, <1>8, <1>9, <1>10, <1>11, <1>12, <1>13, <1>14, <1>15, <1>16
     DEF Manage

LEMMA TypedRun ==
    ASSUME Typed, NEW t \in Threads, Run(t)
    PROVE  /\ Typed' /\ Head(todo[t]) \in CallSteps
           /\ t = "ui" => Head(todo[t]) \in UiSteps
           /\ todo'[t] = Tail(todo[t]) /\ \A o \in Threads : o # t => todo'[o] = todo[o]
<1> DEFINE s == Head(todo[t])
<1>1. todo \in [Threads -> Seq(CallSteps)] /\ todo[t] # <<>> /\ todo[t] \in Seq(CallSteps)
  BY DEF Typed, Run
<1>2. s \in CallSteps /\ Tail(todo[t]) \in Seq(CallSteps)
  BY <1>1
<1>3. ASSUME t = "ui" PROVE s \in UiSteps /\ Tail(todo[t]) \in Seq(UiSteps)
  <2>1. todo[t] \in Seq(UiSteps)
    BY <1>3 DEF Typed
  <2> QED
    BY <1>1, <2>1
<1>4. todo' = [todo EXCEPT ![t] = Tail(todo[t])]
  BY DEF Run
<1>5. /\ todo' \in [Threads -> Seq(CallSteps)] /\ todo'["ui"] \in Seq(UiSteps)
      /\ todo'[t] = Tail(todo[t]) /\ \A o \in Threads : o # t => todo'[o] = todo[o]
  BY <1>1, <1>2, <1>3, <1>4 DEF Typed, Threads
<1>6. /\ ring' \in Seq(Commands) /\ Len(ring') <= RingCapacity
      /\ updates' \in Seq(Commands) /\ Len(updates') <= UiCapacity
      /\ editLayer' \in Layers
  <2> HIDE DEF s
  <2>1. CASE s.do = "store" /\ editLayer' = s.layer /\ UNCHANGED <<ring, updates>>
    BY <1>2, <2>1, StepKinds DEF Typed
  <2>2. CASE /\ s.do = "push" /\ Room(ring, RingCapacity) /\ ring' = Append(ring, s.command)
             /\ UNCHANGED <<editLayer, updates>>
    <3>1. s.command \in Commands
      BY <1>2, <2>2, StepKinds
    <3> QED
      BY <2>2, <3>1 DEF Typed, Room
  <2>3. CASE /\ s.do = "tell" /\ Room(updates, UiCapacity) /\ updates' = Append(updates, s.command)
             /\ UNCHANGED <<editLayer, ring>>
    <3>1. s.command \in Commands
      BY <1>2, <2>3, StepKinds
    <3> QED
      BY <2>3, <3>1 DEF Typed, Room
  <2> QED
    BY <2>1, <2>2, <2>3 DEF Run, s
<1>7. UNCHANGED <<managerVars, asked, uiVars>>
  BY DEF Run
<1>8. Typed'
  <2>1. Flags'
    BY <1>5, <1>6, <1>7 DEF Typed, Flags, managerVars, uiVars, historyVars
  <2> QED
    BY <1>5, <1>6, <1>7, <2>1 DEF Typed, Managers, managerVars, uiVars, historyVars
<1> QED
  BY <1>2, <1>3, <1>5, <1>8
-----------------------------------------------------------------------------
(* Every action keeps the invariant.                                       *)

\* Nothing new is sent, and no session comes into force.
LEMMA AheadStays ==
    ASSUME Ahead, AfterAll' = AfterAll, Crossed' = Crossed, InForce' => InForce
    PROVE  Ahead'
BY DEF Ahead

\* Whatever happens to the session and its ring, the layer and the UI come out the same.
LEMMA AheadAside ==
    ASSUME Typed, Typed', Ahead, ~InForce', UNCHANGED <<senderVars, uiVars>>
    PROVE  Ahead'
<1>1. /\ editLayer' = editLayer /\ todo' = todo /\ updates' = updates
      /\ ui' = ui /\ Crossed' = Crossed
  BY DEF senderVars, uiVars, historyVars, Crossed
<1>2. /\ Arrived \in World /\ Arrived' \in World
      /\ Arrived'.layer = Arrived.layer /\ Arrived'.ui = Arrived.ui
  BY <1>1, WorldTyped, WorldTypedNext
<1>3. todo["ui"] \in Seq(CallSteps) /\ todo["midi"] \in Seq(CallSteps)
  BY DEF Typed, Threads
<1> DEFINE x == Arrived
           y == Arrived'
<1>4. /\ FoldLeft(Done, x, todo["ui"]) \in World /\ FoldLeft(Done, y, todo["ui"]) \in World
      /\ FoldLeft(Done, x, todo["ui"]).layer = FoldLeft(Done, y, todo["ui"]).layer
      /\ FoldLeft(Done, x, todo["ui"]).ui = FoldLeft(Done, y, todo["ui"]).ui
  <2> HIDE DEF x, y
  <2>1. x \in World /\ y \in World /\ x.layer = y.layer /\ x.ui = y.ui
    BY <1>2 DEF x, y
  <2> QED
    BY <1>3, <2>1, EngineAside
<1>5. /\ AfterUi \in World /\ AfterUi' \in World
      /\ AfterUi.layer = AfterUi'.layer /\ AfterUi.ui = AfterUi'.ui
  BY <1>1, <1>4 DEF AfterUi
<1> HIDE DEF x, y
<1> DEFINE xx == AfterUi
           yy == AfterUi'
<1>6. /\ FoldLeft(Done, xx, todo["midi"]).layer = FoldLeft(Done, yy, todo["midi"]).layer
      /\ FoldLeft(Done, xx, todo["midi"]).ui = FoldLeft(Done, yy, todo["midi"]).ui
  <2> HIDE DEF xx, yy
  <2>1. xx \in World /\ yy \in World /\ xx.layer = yy.layer /\ xx.ui = yy.ui
    BY <1>5 DEF xx, yy
  <2> QED
    BY <1>3, <2>1, EngineAside
<1>7. AfterAll.layer = AfterAll'.layer /\ AfterAll.ui = AfterAll'.ui
  BY <1>1, <1>6 DEF AfterAll
<1> HIDE DEF xx, yy
<1> QED
  BY <1>1, <1>7 DEF Ahead

LEMMA ManageAside ==
    ASSUME Inv, Manage
    PROVE  /\ Published'
           /\ \/ ~InForce'
              \/ manager = "clear" /\ UNCHANGED <<session, applied, ring, engine, reverted>>
                 /\ manager' = "idle"
<1>seen. ui.seen # applied.generation + 1 /\ ui.seen <= applied.generation + 1
  <2> DEFINE m == ui.seen
             n == applied.generation
  <2>1. m \in Nat /\ n \in Nat /\ m <= n
    BY DEF Inv, Typed, UiStates, Published
  <2> HIDE DEF m, n
  <2>2. m # n + 1 /\ m <= n + 1
    BY <2>1
  <2> QED
    BY <2>2 DEF m, n
<1> USE DEF Inv, Published, InForce
<1>0. /\ applied.generation \in Nat /\ ui.seen \in Nat
      /\ ui.seen <= applied.generation
  BY DEF Typed, UiStates
<1>1. Typed' /\ ui' = ui
  BY TypedManage DEF uiVars, historyVars
<1>2. CASE Started
  BY <1>0, <1>1, <1>2 DEF Started, StartSession
<1>3. CASE Built
  BY <1>0, <1>1, <1>3 DEF Built, StartSession
<1>4. CASE Recovered
  BY <1>0, <1>1, <1>4 DEF Recovered, StartSession
<1>5. CASE Reconnected
  BY <1>0, <1>1, <1>5 DEF Reconnected, StartSession
<1>6. CASE StartFailed
  <2>1. session # "playing" /\ session' = session
    BY <1>6 DEF StartFailed
  <2>2. applied'.generation = applied.generation
    BY <1>6 DEF StartFailed, Typed
  <2> QED
    BY <1>0, <1>1, <2>1, <2>2
<1>7. CASE BuildFailed
  BY <1>0, <1>1, <1>7 DEF BuildFailed
<1>8. CASE RecoveryFailed
  <2>1. session # "playing" /\ session' = session
    BY <1>8 DEF RecoveryFailed
  <2>2. applied'.generation = applied.generation
    BY <1>8 DEF RecoveryFailed, Typed
  <2> QED
    BY <1>0, <1>1, <2>1, <2>2
<1>9. CASE RetryFailed
  BY <1>0, <1>1, <1>9 DEF RetryFailed
<1>10. CASE TakeRequest
  BY <1>0, <1>1, <1>10 DEF TakeRequest
<1>11. CASE Rebind
  BY <1>0, <1>1, <1>11 DEF Rebind
<1>12. CASE NoticeDisconnect
  BY <1>0, <1>1, <1>12 DEF NoticeDisconnect
<1>13. CASE Retry
  BY <1>0, <1>1, <1>13 DEF Retry
<1>14. CASE Publish
  <2>1. applied'.generation = applied.generation + 1
    BY <1>14 DEF Publish
  <2>2. ui'.seen # applied'.generation /\ ui'.seen <= applied'.generation
    BY <1>1, <2>1, <1>seen
  <2>3. applied'.error => reverted'
    BY <1>14 DEF Publish
  <2>4. manager' \in {"clear", "idle"}
    BY <1>14 DEF Publish
  <2> QED
    BY <1>0, <1>1, <2>1, <2>2, <2>3, <2>4
<1>15. CASE ClearFlag
  BY <1>0, <1>1, <1>15 DEF ClearFlag
<1> QED
  BY <1>2, <1>3, <1>4, <1>5, <1>6, <1>7, <1>8, <1>9, <1>10, <1>11, <1>12, <1>13, <1>14, <1>15
     DEF Manage

LEMMA InvManage == ASSUME Inv, Manage PROVE Inv'
<1>1. Typed /\ Typed' /\ UNCHANGED <<senderVars, uiVars>>
  BY TypedManage DEF Inv
<1>2. Published'
  BY ManageAside
<1>3. Alone'
  BY <1>1 DEF Inv, Alone, Idle, MidiBusy, Crossed, senderVars, uiVars, historyVars
<1>4. Ahead'
  <2>1. CASE ~InForce'
    BY <1>1, <2>1, AheadAside DEF Inv
  <2>2. CASE manager = "clear" /\ UNCHANGED <<session, applied, ring, engine, reverted>>
             /\ manager' = "idle"
    <3>1. AfterAll' = AfterAll
      BY <1>1, <2>2 DEF AfterAll, AfterUi, Arrived, senderVars, uiVars, historyVars
    <3>2. InForce' => InForce
      BY <1>1, <2>2 DEF InForce, uiVars, historyVars
    <3> QED
      BY <1>1, <3>1, <3>2, AheadStays DEF Inv, uiVars, historyVars, Crossed
  <2> QED
    BY <2>1, <2>2, ManageAside
<1> QED
  BY <1>1, <1>2, <1>3, <1>4 DEF Inv

\* A step of a call brings nothing nearer than it was about to be.
LEMMA InvRun == ASSUME Inv, NEW t \in Threads, Run(t) PROVE Inv'
<1> DEFINE s == Head(todo[t])
<1>0. Typed /\ Alone /\ Published /\ Ahead
  BY DEF Inv
<1>1. /\ Typed' /\ s \in CallSteps /\ (t = "ui" => s \in UiSteps)
      /\ todo'[t] = Tail(todo[t]) /\ \A o \in Threads : o # t => todo'[o] = todo[o]
  BY <1>0, TypedRun
<1>2. UNCHANGED <<managerVars, asked, uiVars>> /\ todo[t] # <<>>
  BY DEF Run
<1>3. Published'
  BY <1>0, <1>2 DEF Published, managerVars, uiVars, historyVars
<1>4. Alone'
  <2>1. todo[t] # <<>> /\ Tail(<<>>) = Tail(<<>>)
    BY <1>2
  <2>2. CASE Crossed
    BY <1>0, <1>1, <1>2, <2>2 DEF Alone, Idle, uiVars, historyVars, Threads, Typed, Crossed, Starting
  <2>3. CASE ~Crossed /\ t = "ui"
    <3>1. ~Idle("ui") /\ ~MidiBusy /\ frame # "user"
      BY <1>0, <1>2, <2>3 DEF Alone, Idle
    <3>2. updates' = updates
      <4>1. s.do # "tell"
        BY <1>1, <2>3, StepKinds
      <4> QED
        BY <4>1 DEF Run
    <3>3. todo'["midi"] = todo["midi"]
      BY <1>1, <2>3 DEF Threads
    <3> QED
      BY <1>0, <1>2, <3>1, <3>2, <3>3 DEF Alone, Idle, MidiBusy, Crossed, uiVars, historyVars, Starting
  <2>4. CASE ~Crossed /\ t = "midi"
    <3>1. Idle("ui")
      BY <1>0, <1>2, <2>4 DEF Alone, Idle, MidiBusy, Crossed
    <3>2. todo'["ui"] = todo["ui"]
      BY <1>1, <2>4 DEF Threads
    <3> QED
      BY <1>0, <1>2, <3>1, <3>2 DEF Alone, Starting, Idle, MidiBusy, Crossed, uiVars, historyVars
  <2> QED
    BY <2>2, <2>3, <2>4 DEF Threads
<1>5. CASE Crossed
  BY <1>0, <1>1, <1>2, <1>3, <1>4, <1>5 DEF Inv, Ahead, uiVars, historyVars, Crossed
<1>6. CASE ~Crossed
  <2>1. Arrived' = Done(Arrived, s)
    <3> DEFINE b == Arrived
               c == Arrived'
               d == Done(b, s)
    <3>1. b \in World /\ c \in World /\ d \in World
      BY <1>0, <1>1, WorldTyped, WorldTypedNext, DoneTyped
    <3>2. /\ b.engine = FoldLeft(Taken, engine, ring)
          /\ b.ui = FoldLeft(Taken, View(ui), updates) /\ b.layer = editLayer
          /\ c.engine = FoldLeft(Taken, engine, ring')
          /\ c.ui = FoldLeft(Taken, View(ui), updates') /\ c.layer = editLayer'
      BY <1>0, <1>1, <1>2, WorldTyped, WorldTypedNext DEF managerVars, uiVars, historyVars
    <3>3. /\ engine \in Programs /\ ring \in Seq(Commands)
          /\ View(ui) \in Programs /\ updates \in Seq(Commands)
      BY <1>0, ViewTyped DEF Typed
    <3>4. /\ d.layer = IF s.do = "store" THEN s.layer ELSE b.layer
          /\ d.engine = IF s.do = "push" THEN Taken(b.engine, s.command) ELSE b.engine
          /\ d.ui = IF s.do = "tell" THEN Taken(b.ui, s.command) ELSE b.ui
      BY <1>1, <3>1, DoneTyped
    <3> HIDE DEF b, c, d, s
    <3>5. CASE s.do = "store" /\ editLayer' = s.layer /\ UNCHANGED <<ring, updates>>
      <4>1. c.engine = d.engine /\ c.layer = d.layer /\ c.ui = d.ui
        BY <3>2, <3>4, <3>5
      <4> QED
        BY <3>1, <4>1, SameWorld DEF b, c, d
    <3>6. CASE s.do = "push" /\ ring' = Append(ring, s.command)
               /\ UNCHANGED <<editLayer, updates>>
      <4>1. s.command \in Commands
        BY <1>1, <3>6, StepKinds DEF s
      <4>2. FoldLeft(Taken, engine, ring') = Taken(FoldLeft(Taken, engine, ring), s.command)
        BY <3>3, <3>6, <4>1, TakenInto
      <4>3. c.engine = d.engine /\ c.layer = d.layer /\ c.ui = d.ui
        BY <3>2, <3>4, <3>6, <4>2
      <4> QED
        BY <3>1, <4>3, SameWorld DEF b, c, d
    <3>7. CASE s.do = "tell" /\ updates' = Append(updates, s.command)
               /\ UNCHANGED <<editLayer, ring>>
      <4>1. s.command \in Commands
        BY <1>1, <3>7, StepKinds DEF s
      <4>2. FoldLeft(Taken, View(ui), updates')
               = Taken(FoldLeft(Taken, View(ui), updates), s.command)
        BY <3>3, <3>7, <4>1, TakenInto
      <4>3. c.engine = d.engine /\ c.layer = d.layer /\ c.ui = d.ui
        BY <3>2, <3>4, <3>7, <4>2
      <4> QED
        BY <3>1, <4>3, SameWorld DEF b, c, d
    <3> QED
      BY <3>5, <3>6, <3>7 DEF Run, s
  <2>2. todo["ui"] \in Seq(CallSteps) /\ todo["midi"] \in Seq(CallSteps) /\ Arrived \in World
    BY <1>0, WorldTyped DEF Typed, Threads
  <2>3. AfterAll' = AfterAll
    <3>1. CASE t = "ui"
      <4>1. todo'["midi"] = todo["midi"] /\ todo'["ui"] = Tail(todo["ui"])
        BY <1>1, <3>1 DEF Threads
      <4>2. AfterUi' = FoldLeft(Done, Done(Arrived, s), Tail(todo["ui"]))
        BY <2>1, <4>1 DEF AfterUi
      <4>3. AfterUi' = AfterUi
        BY <1>2, <2>2, <3>1, <4>2, DoneInto DEF AfterUi
      <4> QED
        BY <4>1, <4>3 DEF AfterAll
    <3>2. CASE t = "midi"
      <4>1. todo'["ui"] = todo["ui"] /\ todo'["midi"] = Tail(todo["midi"])
        BY <1>1, <3>2 DEF Threads
      <4>2. todo["ui"] = <<>>
        BY <1>0, <1>2, <1>6, <3>2 DEF Alone, Idle, MidiBusy, Crossed
      <4>3. AfterUi = Arrived /\ AfterUi' = Arrived'
        BY <1>0, <1>1, <4>1, <4>2, WorldTyped, WorldTypedNext
      <4>4. AfterAll' = FoldLeft(Done, Done(Arrived, s), Tail(todo["midi"]))
        BY <2>1, <4>1, <4>3 DEF AfterAll
      <4> QED
        BY <1>2, <2>2, <3>2, <4>3, <4>4, DoneInto DEF AfterAll
    <3> QED
      BY <3>1, <3>2 DEF Threads
  <2>4. InForce' => InForce
    BY <1>2 DEF InForce, managerVars, uiVars, historyVars
  <2>5. Ahead'
    BY <1>0, <1>2, <2>3, <2>4, AheadStays DEF uiVars, historyVars, Crossed
  <2> QED
    BY <1>1, <1>3, <1>4, <2>5 DEF Inv
<1> QED
  BY <1>5, <1>6

LEMMA InvSync == ASSUME Inv, SyncAppliedAudio PROVE Inv'
<1>0. Typed /\ Alone /\ Published /\ Ahead
  BY DEF Inv
<1>1. /\ frame = "sync" /\ Idle("ui") /\ frame' = "drain"
      /\ ui' = [ui EXCEPT !.seen = applied.generation]
      /\ UNCHANGED <<managerVars, asked, ring, editLayer, updates>>
  BY DEF SyncAppliedAudio
<1>2. /\ ui \in UiStates /\ applied.generation \in Nat /\ ui'.seen = applied.generation
      /\ ui' \in UiStates /\ View(ui') = View(ui)
  BY <1>0, <1>1 DEF Typed, UiStates, View
<1>3. Published'
  <2>1. ui'.seen <= applied.generation
    BY <1>2
  <2>2. UNCHANGED <<manager, session, applied, reverted>>
    BY <1>1 DEF managerVars
  <2> QED
    BY <1>0, <2>1, <2>2 DEF Published
<1>4. CASE ui.seen # applied.generation /\ ~applied.error
  <2>1. /\ todo' = [todo EXCEPT !["ui"] = ReloadProgram(ui.patch, ui.edit)]
        /\ raced' = ~Idle("midi") /\ overtaken' = Overtakes
    BY <1>4 DEF SyncAppliedAudio, SendsProgram
  <2>2. ui.patch \in Patches /\ ui.edit \in Layers
    BY <1>2 DEF UiStates
  <2>3. /\ todo'["ui"] = ReloadProgram(ui.patch, ui.edit) /\ todo'["midi"] = todo["midi"]
        /\ todo' \in [Threads -> Seq(CallSteps)] /\ todo'["ui"] \in Seq(UiSteps)
    <3>1. \A w \in World : /\ ReloadProgram(ui.patch, ui.edit) \in Seq(UiSteps)
                           /\ ReloadProgram(ui.patch, ui.edit) \in Seq(CallSteps)
      BY <2>2, ProgramReloaded
    <3>2. /\ ReloadProgram(ui.patch, ui.edit) \in Seq(UiSteps)
          /\ ReloadProgram(ui.patch, ui.edit) \in Seq(CallSteps)
      BY <1>0, <3>1, WorldTyped
    <3> QED
      BY <1>0, <2>1, <3>2 DEF Typed, Threads
  <2>4. /\ raced' \in BOOLEAN /\ overtaken' \in BOOLEAN
        /\ Crossed' <=> MidiBusy
    BY <2>1 DEF MidiBusy, Crossed, Overtakes
  <2>5. Typed'
    <3>1. Flags'
      BY <1>0, <1>1, <1>2, <2>3, <2>4 DEF Typed, Flags, Starting, managerVars
    <3> QED
      BY <1>0, <1>1, <1>2, <2>3, <2>4, <3>1 DEF Typed, Managers, Starting, managerVars
  <2>6. Alone'
    BY <1>1, <2>3, <2>4 DEF Alone, Starting, Idle, MidiBusy
  <2>7. ASSUME ~Crossed' PROVE AfterAll'.ui.edit = AfterAll'.layer /\ AfterAll'.engine = AfterAll'.ui
    <3>1. todo'["midi"] = <<>> /\ updates' = <<>>
      BY <1>1, <2>3, <2>4, <2>7 DEF MidiBusy, Idle
    <3>2. Arrived' \in World /\ Arrived'.ui = View(ui) /\ AfterAll' = AfterUi'
      BY <1>2, <2>5, <3>1, WorldTypedNext
    <3>3. AfterUi' = FoldLeft(Done, Arrived', ReloadProgram(ui.patch, ui.edit))
      BY <2>3 DEF AfterUi
    <3> DEFINE w == Arrived'
               x == AfterUi'
               p == ui.patch
               l == ui.edit
    <3>4. x.layer = l /\ x.engine = [patch |-> p, edit |-> l] /\ x.ui = View(ui)
      <4>1. w \in World /\ p \in Patches /\ l \in Layers
        BY <2>2, <3>2
      <4>2. x = FoldLeft(Done, w, ReloadProgram(p, l)) /\ w.ui = View(ui)
        BY <3>2, <3>3
      <4> HIDE DEF w, x, p, l
      <4> QED
        BY <4>1, <4>2, ProgramReloaded
    <3>5. View(ui) = [patch |-> p, edit |-> l]
      BY DEF View
    <3> QED
      BY <3>2, <3>4, <3>5
  <2> QED
    BY <1>3, <2>5, <2>6, <2>7 DEF Inv, Ahead
<1>5. CASE ~(ui.seen # applied.generation /\ ~applied.error)
  <2>1. UNCHANGED <<todo, historyVars>> /\ Crossed' = Crossed
    BY <1>5 DEF SyncAppliedAudio, Crossed, historyVars
  <2>2. Typed'
    <3>1. Flags'
      BY <1>0, <1>1, <1>2, <2>1 DEF Typed, Flags, Starting, managerVars, historyVars
    <3> QED
      BY <1>0, <1>1, <1>2, <2>1, <3>1 DEF Typed, Managers, Starting, managerVars, historyVars
  <2>3. Alone'
    BY <1>0, <1>1, <2>1 DEF Alone, Starting, Idle, MidiBusy
  <2>4. AfterAll' = AfterAll
    BY <1>1, <1>2, <2>1 DEF AfterAll, AfterUi, Arrived, managerVars
  <2>5. InForce' => InForce
    BY <1>0, <1>1, <1>2, <1>5 DEF InForce, Starting, Published, managerVars
  <2> QED
    BY <1>0, <1>3, <2>1, <2>2, <2>3, <2>4, <2>5, AheadStays DEF Inv
<1> QED
  BY <1>4, <1>5

\* What the UI takes from the MIDI thread, it was about to have taken.
LEMMA InvDrain == ASSUME Inv, DrainMidiUpdates PROVE Inv'
<1>0. Typed /\ Alone /\ Published /\ Ahead
  BY DEF Inv
<1>1. /\ Idle("ui") /\ frame' = "user" /\ updates' = <<>> /\ ui' = FoldLeft(Taken, ui, updates)
      /\ UNCHANGED <<managerVars, asked, ring, editLayer, todo, historyVars>> /\ frame = "drain"
  BY DEF DrainMidiUpdates
<1>2. /\ ui' \in UiStates /\ ui'.seen = ui.seen
      /\ View(ui') = FoldLeft(Taken, View(ui), updates)
  BY <1>0, <1>1, ViewTaken DEF Typed
<1>3. Typed'
  <2>1. updates' \in Seq(Commands) /\ Len(updates') <= UiCapacity
    BY <1>1
  <2>2. Flags'
    BY <1>0, <1>1 DEF Typed, Flags, managerVars, historyVars
  <2> QED
    BY <1>0, <1>1, <1>2, <2>1, <2>2 DEF Typed, Managers, managerVars, Starting
<1>4. Alone'
  BY <1>1 DEF Alone, Idle, Starting, Crossed, historyVars
<1>5. Published'
  BY <1>0, <1>1, <1>2 DEF Published, managerVars
<1>6. Arrived' = Arrived
  BY <1>0, <1>1, <1>2, <1>3, WorldTyped, WorldTypedNext, SameWorld DEF managerVars
<1>7. AfterAll' = AfterAll
  BY <1>1, <1>6 DEF AfterAll, AfterUi
<1>8. InForce' => InForce
  BY <1>1, <1>2 DEF InForce, managerVars, Starting
<1> QED
  BY <1>0, <1>1, <1>3, <1>4, <1>5, <1>7, <1>8, AheadStays DEF Inv, Crossed, historyVars

LEMMA InvNoInput == ASSUME Inv, NoInput PROVE Inv'
<1> USE DEF NoInput, managerVars, senderVars
<1>1. Typed'
  <2>1. Flags'
    BY DEF Inv, Typed, Flags, historyVars
  <2> QED
    BY <2>1 DEF Inv, Typed, Managers, Starting, historyVars
<1>2. Alone' /\ Published'
  BY DEF Inv, Alone, Published, Idle, MidiBusy, Crossed, Starting, historyVars
<1>3. AfterAll' = AfterAll /\ (InForce' => InForce) /\ Crossed' = Crossed
  BY DEF AfterAll, AfterUi, Arrived, InForce, Starting, Crossed, historyVars
<1> QED
  BY <1>1, <1>2, <1>3, AheadStays DEF Inv

\* The engine takes the head of the ring, as it was about to.
LEMMA InvRender == ASSUME Inv, Render PROVE Inv'
<1>0. Typed /\ Alone /\ Published /\ Ahead
  BY DEF Inv
<1>1. /\ ring # <<>> /\ engine' = Taken(engine, Head(ring)) /\ ring' = Tail(ring)
      /\ UNCHANGED <<manager, session, disconnected, asked, applied, reverted, senderVars, uiVars>>
  BY DEF Render
<1>2. engine \in Programs /\ ring \in Seq(Commands) /\ Len(ring) <= RingCapacity
  BY <1>0 DEF Typed
<1>3. Head(ring) \in Commands /\ ring' \in Seq(Commands) /\ Len(ring') <= RingCapacity
  <2>1. Len(ring') = Len(ring) - 1 /\ Len(ring) \in Nat
    BY <1>1, <1>2
  <2> QED
    BY <1>1, <1>2, <2>1
<1>4. engine' \in Programs
  BY <1>1, <1>2, <1>3, TakenPlays
<1>5. Typed'
  <2>1. Flags'
    BY <1>0, <1>1, <1>3, <1>4 DEF Typed, Flags, senderVars, uiVars, historyVars
  <2> QED
    BY <1>0, <1>1, <1>3, <1>4, <2>1 DEF Typed, Managers, senderVars, uiVars, historyVars
<1>6. Alone' /\ Published'
  BY <1>0, <1>1 DEF Alone, Published, Idle, MidiBusy, Crossed, senderVars, uiVars, historyVars
<1>7. Arrived' = Arrived
  <2>1. FoldLeft(Taken, engine', ring') = FoldLeft(Taken, engine, ring)
    BY <1>1, <1>2, TakenInto
  <2> QED
    BY <1>1, <2>1 DEF Arrived, senderVars, uiVars, historyVars
<1>8. AfterAll' = AfterAll /\ (InForce' => InForce) /\ Crossed' = Crossed
  BY <1>1, <1>7 DEF AfterAll, AfterUi, InForce, senderVars, uiVars, historyVars, Crossed
<1> QED
  BY <1>0, <1>5, <1>6, <1>8, AheadStays DEF Inv

LEMMA InvStreamError == ASSUME Inv, StreamError PROVE Inv'
<1>0. Typed /\ Alone /\ Published /\ Ahead
  BY DEF Inv
<1>1. /\ session' = "dead" /\ disconnected' = TRUE
      /\ UNCHANGED <<manager, asked, applied, ring, engine, reverted, senderVars, uiVars>>
  BY DEF StreamError
<1>2. Typed'
  <2>1. Flags'
    BY <1>0, <1>1 DEF Typed, Flags, senderVars, uiVars, historyVars
  <2> QED
    BY <1>0, <1>1, <2>1 DEF Typed, Managers, senderVars, uiVars, historyVars
<1>3. Alone' /\ Published' /\ ~InForce'
  BY <1>0, <1>1 DEF Alone, Published, InForce, Idle, MidiBusy, Crossed, senderVars, uiVars, historyVars
<1> QED
  BY <1>0, <1>1, <1>2, <1>3, AheadAside DEF Inv

\* The UI sends a program when nothing of its last call is left to do.
LEMMA InvLoads ==
    ASSUME Inv, NEW p \in Patches, Idle("ui"),
           SendsProgram(LoadProgram(p)), frame' = "sync",
           ui' \in UiStates, ui'.seen = ui.seen, View(ui') = [patch |-> p, edit |-> "A"],
           UNCHANGED <<managerVars, asked, ring, editLayer, updates>>
    PROVE  Inv'
<1>0. /\ Typed /\ Alone /\ Published /\ Ahead
      /\ todo \in [Threads -> Seq(CallSteps)] /\ Arrived \in World
  BY WorldTyped DEF Inv, Typed
<1>1. /\ todo' = [todo EXCEPT !["ui"] = LoadProgram(p)]
      /\ raced' = ~Idle("midi") /\ overtaken' = Overtakes
  BY DEF SendsProgram
<1>3. LoadProgram(p) \in Seq(UiSteps) /\ LoadProgram(p) \in Seq(CallSteps)
  BY <1>0, ProgramLoaded
<1>4. /\ todo'["ui"] = LoadProgram(p) /\ todo'["midi"] = todo["midi"]
      /\ todo' \in [Threads -> Seq(CallSteps)]
  BY <1>0, <1>1, <1>3 DEF Threads
<1>5. /\ raced' \in BOOLEAN /\ overtaken' \in BOOLEAN
      /\ Crossed' <=> MidiBusy
  BY <1>1 DEF MidiBusy, Crossed, Overtakes
<1>6. Typed'
  <2>1. Flags'
    BY <1>0, <1>3, <1>4, <1>5 DEF Typed, Flags, managerVars
  <2> QED
    BY <1>0, <1>3, <1>4, <1>5, <2>1 DEF Typed, Managers, managerVars
<1>7. Alone'
  BY <1>4, <1>5 DEF Alone, Starting, Idle, MidiBusy
<1>8. Published'
  BY <1>0 DEF Published, managerVars
<1>9. ASSUME ~Crossed'
      PROVE AfterAll'.ui.edit = AfterAll'.layer /\ AfterAll'.engine = AfterAll'.ui
  <2>1. todo["midi"] = <<>> /\ updates = <<>>
    BY <1>5, <1>9 DEF MidiBusy, Idle
  <2>2. /\ Arrived' \in World /\ Arrived'.ui = View(ui') /\ AfterAll' = AfterUi'
    BY <1>4, <1>6, <2>1, WorldTypedNext
  <2> DEFINE w == Arrived'
             x == AfterUi'
  <2>3. x.layer = "A" /\ x.engine = [patch |-> p, edit |-> "A"] /\ x.ui = w.ui
    <3>1. x = FoldLeft(Done, w, LoadProgram(p)) /\ w \in World
      BY <1>4, <2>2 DEF AfterUi
    <3> HIDE DEF w, x
    <3> QED
      BY <3>1, ProgramLoaded
  <2> QED
    BY <2>2, <2>3
<1> QED
  BY <1>6, <1>7, <1>8, <1>9 DEF Inv, Ahead

\* The application starts: the generation it has seen, then its program.
LEMMA InvOpen == ASSUME Inv, OpenInputs PROVE Inv'
<1>0. Typed /\ Alone /\ Published /\ Ahead
  BY DEF Inv
<1>1. /\ frame = "new" /\ frame' = "restore" /\ ui' = [ui EXCEPT !.seen = applied.generation]
      /\ UNCHANGED <<managerVars, asked, ring, senderVars, historyVars>>
  BY DEF OpenInputs
<1>2. /\ ui' \in UiStates /\ ui'.seen = applied.generation /\ applied.generation \in Nat
      /\ View(ui') = View(ui) /\ ui'.edit = ui.edit
  BY <1>0, <1>1 DEF Typed, UiStates, View
<1>3. Typed'
  <2>1. Flags'
    BY <1>0, <1>1, <1>2 DEF Typed, Flags, Starting, managerVars, senderVars, historyVars
  <2> QED
    BY <1>0, <1>1, <1>2, <2>1 DEF Typed, Managers, Starting, managerVars, senderVars, historyVars
<1>4. Alone'
  BY <1>0, <1>1, <1>2 DEF Alone, Starting, Idle, MidiBusy, Crossed, senderVars, historyVars
<1>5. Published'
  <2>1. ui'.seen <= applied.generation
    BY <1>2
  <2> QED
    BY <1>0, <1>1, <2>1 DEF Published, managerVars
<1>6. ~InForce'
  BY <1>1 DEF InForce, Starting
<1>7. AfterAll' = AfterAll /\ Crossed' = Crossed
  BY <1>1, <1>2 DEF AfterAll, AfterUi, Arrived, Crossed, managerVars, senderVars, historyVars
<1> QED
  BY <1>0, <1>3, <1>4, <1>5, <1>6, <1>7, AheadStays DEF Inv

LEMMA InvRestore == ASSUME Inv, RestoreProgram PROVE Inv'
<1>1. /\ frame = "restore" /\ frame' = "sync" /\ SendsProgram(LoadProgram(ui.patch))
      /\ UNCHANGED <<managerVars, asked, ring, editLayer, updates, ui>>
  BY DEF RestoreProgram
<1>2. ui \in UiStates /\ Idle("ui") /\ ui.edit = "A"
  BY <1>1 DEF Inv, Typed, Alone, Starting
<1>3. ui.patch \in Patches /\ View(ui') = [patch |-> ui.patch, edit |-> "A"]
  BY <1>1, <1>2 DEF UiStates, View
<1> QED
  BY <1>1, <1>2, <1>3, InvLoads

\* A call of the UI when nothing of it is left to do: what it does to the world.
LEMMA InvUser == ASSUME Inv, User PROVE Inv'
<1>0. Typed /\ Alone /\ Published /\ Ahead
  BY DEF Inv
<1>1. /\ frame = "user" /\ frame' = "sync" /\ Idle("ui")
      /\ UNCHANGED <<manager, session, disconnected, engine, reverted, ring, editLayer, updates>>
  BY <1>0 DEF User, Alone, Starting
<1>2. /\ ui \in UiStates /\ todo \in [Threads -> Seq(CallSteps)]
      /\ todo["ui"] = <<>> /\ Arrived \in World
  BY <1>0, <1>1, WorldTyped DEF Typed, Idle
<1>3. ASSUME NEW l \in Layers, SelectUiEditLayer(l) PROVE Inv'
  <2>1. /\ ui' = [ui EXCEPT !.edit = l]
        /\ todo' = [todo EXCEPT !["ui"] = SetEditLayer(l)]
        /\ raced' = (raced \/ ~Idle("midi")) /\ overtaken' = (overtaken \/ Overtakes)
        /\ UNCHANGED <<asked, applied>>
    BY <1>3 DEF SelectUiEditLayer
  <2>2. /\ ui' \in UiStates /\ ui'.seen = ui.seen
        /\ View(ui') = [View(ui) EXCEPT !.edit = l]
    BY <1>2, <2>1 DEF UiStates, View
  <2>3. SetEditLayer(l) \in Seq(UiSteps) /\ SetEditLayer(l) \in Seq(CallSteps)
    BY <1>2, LayerSelected
  <2>4. /\ todo'["ui"] = SetEditLayer(l) /\ todo'["midi"] = todo["midi"]
        /\ todo' \in [Threads -> Seq(CallSteps)]
    BY <1>2, <2>1, <2>3 DEF Threads
  <2>5. /\ raced' \in BOOLEAN /\ overtaken' \in BOOLEAN
        /\ Crossed' <=> Crossed \/ MidiBusy
    BY <1>0, <2>1 DEF Typed, Flags, MidiBusy, Crossed, Overtakes
  <2>6. Typed'
    <3>1. Flags'
      BY <1>0, <1>1, <2>1, <2>2, <2>3, <2>4, <2>5 DEF Typed, Flags, Starting
    <3> QED
      BY <1>0, <1>1, <2>1, <2>2, <2>3, <2>4, <2>5, <3>1 DEF Typed, Managers, Starting
  <2>7. Alone'
    BY <1>1, <2>4, <2>5 DEF Alone, Starting, Idle, MidiBusy
  <2>8. Published'
    BY <1>0, <1>1, <2>1, <2>2 DEF Published
  <2>9. ASSUME ~Crossed'
        PROVE  /\ AfterAll'.ui.edit = AfterAll'.layer
               /\ InForce' => AfterAll'.engine = AfterAll'.ui
    <3>1. ~Crossed /\ todo["midi"] = <<>> /\ updates = <<>>
      BY <2>5, <2>9 DEF MidiBusy, Idle
    <3>2. /\ AfterAll = Arrived /\ Arrived.ui = View(ui)
          /\ Arrived.engine = FoldLeft(Taken, engine, ring)
      BY <1>0, <1>2, <3>1, WorldTyped
    <3>3. /\ Arrived' \in World /\ Arrived'.ui = View(ui')
          /\ Arrived'.engine = Arrived.engine /\ AfterAll' = AfterUi'
      BY <1>1, <2>4, <2>6, <3>1, <3>2, WorldTypedNext
    <3> DEFINE w == Arrived'
               x == AfterUi'
    <3>4. x.layer = l /\ x.engine = [w.engine EXCEPT !.edit = l] /\ x.ui = w.ui
      <4>1. x = FoldLeft(Done, w, SetEditLayer(l)) /\ w \in World
        BY <2>4, <3>3 DEF AfterUi
      <4> HIDE DEF w, x
      <4> QED
        BY <4>1, LayerSelected
    <3>5. View(ui').edit = l
      BY <1>2, <2>2 DEF View
    <3>6. InForce' => View(ui) = Arrived.engine
      <4>1. InForce' => InForce
        BY <1>1, <2>1, <2>2 DEF InForce, Starting
      <4> QED
        BY <1>0, <3>1, <3>2, <4>1 DEF Ahead
    <3> QED
      BY <2>2, <3>3, <3>4, <3>5, <3>6
  <2> QED
    BY <2>6, <2>7, <2>8, <2>9 DEF Inv, Ahead
<1>4. ASSUME NEW p \in Patches, LoadPatch(p) PROVE Inv'
  <2>1. /\ ui' = [ui EXCEPT !.patch = p, !.edit = "A"] /\ SendsProgram(LoadProgram(p))
        /\ UNCHANGED <<asked, applied>>
    BY <1>4 DEF LoadPatch
  <2>2. /\ ui' \in UiStates /\ ui'.seen = ui.seen
        /\ View(ui') = [patch |-> p, edit |-> "A"]
    BY <1>2, <2>1 DEF UiStates, View, Layers
  <2> QED
    BY <1>1, <2>1, <2>2, InvLoads DEF managerVars
<1>5. ASSUME ApplyAudio PROVE Inv'
  <2>1. /\ asked' = TRUE /\ applied' = [applied EXCEPT !.error = FALSE]
        /\ UNCHANGED <<ui, todo, historyVars>> /\ Crossed' = Crossed
    BY <1>5 DEF ApplyAudio, Crossed, historyVars
  <2>2. /\ applied' \in [generation : Nat, error : BOOLEAN] /\ ~applied'.error
        /\ applied'.generation = applied.generation
    BY <1>0, <2>1 DEF Typed
  <2>3. Typed'
    <3>1. Flags'
      BY <1>0, <1>1, <2>1, <2>2 DEF Typed, Flags, Starting, historyVars
    <3> QED
      BY <1>0, <1>1, <2>1, <2>2, <3>1 DEF Typed, Managers, Starting, historyVars
  <2>4. Alone'
    BY <1>0, <1>1, <2>1 DEF Alone, Starting, Idle, MidiBusy
  <2>5. Published'
    BY <1>0, <1>1, <2>1, <2>2 DEF Published
  <2>6. AfterAll' = AfterAll /\ (InForce' => InForce)
    BY <1>1, <2>1, <2>2 DEF AfterAll, AfterUi, Arrived, InForce, Starting
  <2> QED
    BY <1>0, <2>1, <2>3, <2>4, <2>5, <2>6, AheadStays DEF Inv
<1> QED
  BY <1>3, <1>4, <1>5 DEF User

LEMMA InvMidi == ASSUME Inv, Midi PROVE Inv'
<1>0. Typed /\ Alone /\ Published /\ Ahead
  BY DEF Inv
<1>1. /\ todo["midi"] = <<>>
      /\ UNCHANGED <<managerVars, asked, ring, editLayer, updates, ui, frame>>
  BY DEF Midi, Idle
<1>2. /\ todo \in [Threads -> Seq(CallSteps)] /\ todo["ui"] \in Seq(UiSteps)
      /\ Arrived \in World /\ raced \in BOOLEAN
      /\ overtaken \in BOOLEAN
  BY <1>0, WorldTyped DEF Typed, Flags
<1>3. Arrived' = Arrived /\ Published'
  BY <1>0, <1>1 DEF Arrived, Published, managerVars
<1>4. InForce' => InForce
  BY <1>1 DEF InForce, managerVars
<1>5. ASSUME NEW l \in Layers,
             todo' = [todo EXCEPT !["midi"] = SetMidiEditLayer(l)],
             raced' = (raced \/ ~Idle("ui")), UNCHANGED overtaken
      PROVE  Inv'
  <2>1. SetMidiEditLayer(l) \in Seq(CallSteps)
    BY <1>2, LayerSelectedMidi
  <2>2. /\ todo'["midi"] = SetMidiEditLayer(l) /\ todo'["ui"] = todo["ui"]
        /\ todo' \in [Threads -> Seq(CallSteps)]
    BY <1>2, <1>5, <2>1 DEF Threads
  <2>3. /\ raced' \in BOOLEAN /\ overtaken' \in BOOLEAN
        /\ Crossed' <=> Crossed \/ ~Idle("ui")
    BY <1>2, <1>5 DEF Crossed
  <2>4. Typed'
    <3>1. Flags'
      BY <1>0, <1>1, <1>2, <2>2, <2>3 DEF Typed, Flags, managerVars
    <3> QED
      BY <1>0, <1>1, <1>2, <2>2, <2>3, <3>1 DEF Typed, Managers, managerVars
  <2>5. Alone'
    BY <1>0, <1>1, <2>2, <2>3 DEF Alone, Starting, Idle
  <2>6. ASSUME ~Crossed'
        PROVE  /\ AfterAll'.ui.edit = AfterAll'.layer
               /\ InForce' => AfterAll'.engine = AfterAll'.ui
    <3>1. ~Crossed /\ todo["ui"] = <<>>
      BY <2>3, <2>6 DEF Idle
    <3>2. AfterAll = Arrived
      BY <1>0, <1>1, <3>1, WorldTyped
    <3>3. AfterUi' = Arrived
      BY <1>3, <2>2, <2>4, <3>1, WorldTypedNext
    <3> DEFINE w == Arrived
               x == AfterAll'
    <3>4. /\ x.layer = l /\ x.engine = [w.engine EXCEPT !.edit = l]
          /\ x.ui = [w.ui EXCEPT !.edit = l]
      <4>1. x = FoldLeft(Done, w, SetMidiEditLayer(l)) /\ w \in World
        BY <1>2, <2>2, <3>3 DEF AfterAll
      <4> HIDE DEF w, x
      <4> QED
        BY <4>1, LayerSelectedMidi
    <3>5. x.ui.edit = l
      <4>1. w.ui \in Programs
        BY <1>2 DEF World
      <4> HIDE DEF w, x
      <4> QED
        BY <3>4, <4>1 DEF Programs
    <3>6. InForce' => w.engine = w.ui
      BY <1>0, <1>4, <3>1, <3>2 DEF Ahead
    <3> QED
      BY <3>4, <3>5, <3>6
  <2> QED
    BY <1>3, <2>4, <2>5, <2>6 DEF Inv, Ahead
<1>6. ASSUME NEW p \in Patches,
             todo' = [todo EXCEPT !["midi"] = LoadMidiEditBuffer(p)],
             raced' = ~Idle("ui"), overtaken' = FALSE
      PROVE  Inv'
  <2>1. LoadMidiEditBuffer(p) \in Seq(CallSteps)
    BY <1>2, ProgramLoadedMidi
  <2>2. /\ todo'["midi"] = LoadMidiEditBuffer(p) /\ todo'["ui"] = todo["ui"]
        /\ todo' \in [Threads -> Seq(CallSteps)]
    BY <1>2, <1>6, <2>1 DEF Threads
  <2>3. /\ raced' \in BOOLEAN /\ overtaken' \in BOOLEAN
        /\ Crossed' <=> ~Idle("ui")
    BY <1>6 DEF Crossed
  <2>4. Typed'
    <3>1. Flags'
      BY <1>0, <1>1, <1>2, <2>2, <2>3 DEF Typed, Flags, managerVars
    <3> QED
      BY <1>0, <1>1, <1>2, <2>2, <2>3, <3>1 DEF Typed, Managers, managerVars
  <2>5. Alone'
    BY <1>0, <1>1, <2>2, <2>3 DEF Alone, Starting, Idle
  <2>6. ASSUME ~Crossed'
        PROVE AfterAll'.ui.edit = AfterAll'.layer /\ AfterAll'.engine = AfterAll'.ui
    <3>1. todo["ui"] = <<>>
      BY <2>3, <2>6 DEF Idle
    <3>2. AfterUi' = Arrived
      BY <1>3, <2>2, <2>4, <3>1, WorldTypedNext
    <3> DEFINE w == Arrived
               x == AfterAll'
    <3>3. /\ x.layer = "A" /\ x.engine = [patch |-> p, edit |-> "A"]
          /\ x.ui = [patch |-> p, edit |-> "A"]
      <4>1. x = FoldLeft(Done, w, LoadMidiEditBuffer(p)) /\ w \in World
        BY <1>2, <2>2, <3>2 DEF AfterAll
      <4> HIDE DEF w, x
      <4> QED
        BY <4>1, ProgramLoadedMidi
    <3> QED
      BY <3>3
  <2> QED
    BY <1>3, <2>4, <2>5, <2>6 DEF Inv, Ahead
<1> QED
  BY <1>5, <1>6 DEF Midi
-----------------------------------------------------------------------------
(* The theorems.                                                           *)

LEMMA InvInit == Init => Inv
<1> SUFFICES ASSUME Init PROVE Inv
  OBVIOUS
<1>1. Typed
  BY TypedInit
<1>2. /\ session = "none" /\ applied.generation = 0 /\ ui.seen = 0 /\ ui.edit = "A"
      /\ frame = "new" /\ updates = <<>> /\ editLayer = "A"
      /\ todo["ui"] = <<>> /\ todo["midi"] = <<>>
  BY DEF Init, Threads
<1>3. Alone /\ Published /\ ~InForce
  BY <1>2 DEF Alone, Published, InForce, Starting, Idle, MidiBusy
<1>4. AfterAll = Arrived /\ Arrived.ui = View(ui) /\ Arrived.layer = editLayer
  BY <1>1, <1>2, WorldTyped
<1>5. Ahead
  BY <1>2, <1>3, <1>4 DEF Ahead, View
<1> QED
  BY <1>1, <1>3, <1>5 DEF Inv

LEMMA InvNext == Inv /\ [Next]_vars => Inv'
<1> SUFFICES ASSUME Inv, [Next]_vars PROVE Inv'
  OBVIOUS
<1>1. CASE UNCHANGED vars
  <2> USE <1>1 DEF vars, managerVars, senderVars, uiVars, historyVars
  <2>0. Flags' = Flags
    BY DEF Flags
  <2>1. Typed'
    BY <2>0 DEF Inv, Typed, Managers
  <2>2. Alone' /\ Published'
    BY DEF Inv, Alone, Published, Idle, MidiBusy, Crossed
  <2>3. AfterAll' = AfterAll /\ (InForce' => InForce) /\ Crossed' = Crossed
    BY DEF AfterAll, AfterUi, Arrived, InForce, Crossed
  <2> QED
    BY <2>1, <2>2, <2>3, AheadStays DEF Inv
<1>2. CASE \E t \in Threads : Run(t)
  BY <1>2, InvRun
<1>3. CASE Frame
  BY <1>3, InvOpen, InvRestore, InvSync, InvDrain, InvNoInput DEF Frame
<1>4. CASE User
  BY <1>4, InvUser
<1>5. CASE Midi
  BY <1>5, InvMidi
<1>6. CASE Render
  BY <1>6, InvRender
<1>7. CASE StreamError
  BY <1>7, InvStreamError
<1>8. CASE Manage
  BY <1>8, InvManage
<1> QED
  BY <1>1, <1>2, <1>3, <1>4, <1>5, <1>6, <1>7, <1>8 DEF Next

LEMMA InvAlways == Spec => []Inv
BY InvInit, InvNext, PTL DEF Spec

LEMMA TypedTypes == Typed => TypeOK
<1> SUFFICES ASSUME Typed PROVE TypeOK
  OBVIOUS
<1> USE DEF Typed, Managers, Flags
<1>1. Range(ring) \subseteq Commands /\ Range(updates) \subseteq Commands
  <2>1. ring \in Seq(Commands) /\ updates \in Seq(Commands)
    OBVIOUS
  <2> HIDE DEF Typed
  <2> QED
    BY <2>1 DEF Range
<1>2. {disconnected, asked, raced, overtaken, reverted} \subseteq BOOLEAN
  <2>1. /\ disconnected \in BOOLEAN /\ asked \in BOOLEAN
        /\ raced \in BOOLEAN /\ overtaken \in BOOLEAN /\ reverted \in BOOLEAN
    OBVIOUS
  <2> HIDE DEF Typed, Flags
  <2> QED
    BY <2>1, Zenon
<1> QED
  BY <1>1, <1>2 DEF TypeOK, Programs, UiStates, Starting

\* The variables keep their types, and the command ring and the UI's ring never hold more
\* than their capacity: push_command and the MIDI thread wait or drop (engine.rs).
THEOREM TypeCorrect == Spec => []TypeOK
BY InvAlways, TypedTypes, PTL DEF Inv

LEMMA InvInStep == Inv => InStep
<1> SUFFICES ASSUME Inv, Settled, ~raced, ~overtaken, ~reverted
             PROVE  engine = [patch |-> ui.patch, edit |-> ui.edit] /\ editLayer = ui.edit
  BY DEF InStep, Agreement
<1>1. /\ Typed /\ Ahead /\ ring = <<>> /\ updates = <<>>
      /\ todo["ui"] = <<>> /\ todo["midi"] = <<>>
  BY DEF Inv, Settled, Idle, Threads
<1>2. AfterAll = Arrived
  BY <1>1, WorldTyped
<1>3. Arrived.engine = engine /\ Arrived.ui = View(ui) /\ Arrived.layer = editLayer
  BY <1>1, WorldTyped
<1>4. InForce
  BY DEF InForce, Settled, Starting
<1>5. View(ui).edit = editLayer /\ engine = View(ui)
  BY <1>1, <1>2, <1>3, <1>4 DEF Ahead, Crossed
<1> QED
  BY <1>5 DEF View

\* Once everything has settled, the session that plays has the UI's program and layer,
\* whatever sessions and rings came and went: the UI's reload (ui/app.rs) restores what a
\* rebind of the channels (audio.rs) threw away.
THEOREM SettledInStep == Spec => []InStep
BY InvAlways, InvInStep, PTL
=============================================================================
