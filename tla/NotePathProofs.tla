--------------------------- MODULE NotePathProofs ---------------------------
(***************************************************************************)
(* Theorems about NotePath for every set of notes and FIFO capacity.       *)
(***************************************************************************)
EXTENDS NotePath, TLAPS

USE NotePathAssumption DEF NotePathAssumption

-----------------------------------------------------------------------------
(* The FIFO, element by element.                                           *)

LEMMA AppendElements ==
    ASSUME NEW q \in Seq(Commands), NEW c \in Commands
    PROVE  /\ Append(q, c) \in Seq(Commands)
           /\ Len(Append(q, c)) = Len(q) + 1
           /\ DOMAIN Append(q, c) = 1 .. Len(q) + 1
           /\ \A i \in DOMAIN q : Append(q, c)[i] = q[i]
           /\ Append(q, c)[Len(q) + 1] = c
OBVIOUS

LEMMA TailElements ==
    ASSUME NEW q \in Seq(Commands), q # <<>>
    PROVE  /\ Head(q) \in Commands /\ Head(q) = q[1]
           /\ Tail(q) \in Seq(Commands)
           /\ Len(Tail(q)) = Len(q) - 1
           /\ Len(q) > 0
           /\ DOMAIN q = 1 .. Len(q)
           /\ DOMAIN Tail(q) = 1 .. Len(q) - 1
           /\ \A i \in 1 .. Len(q) - 1 : Tail(q)[i] = q[i + 1]
OBVIOUS

\* Commands are told apart by their kind, and notes by their number.
LEMMA CommandKinds ==
    /\ \A c \in Commands :
          /\ c.cmd \in {"on", "off", "allOff", "pedal", "other"}
          /\ c.cmd = "on" => c.note \in Notes /\ c = On(c.note)
          /\ c.cmd = "off" => c.note \in Notes /\ c = Off(c.note)
          /\ c.cmd = "allOff" => c = AllOff
          /\ c.cmd = "pedal" => c.down \in BOOLEAN /\ c = Pedal(c.down)
    /\ \A n \in Notes : /\ On(n) \in Commands /\ On(n).cmd = "on" /\ On(n).note = n
                        /\ Off(n) \in Commands /\ Off(n).cmd = "off" /\ Off(n).note = n
    /\ AllOff \in Commands /\ AllOff.cmd = "allOff"
    /\ \A d \in BOOLEAN : Pedal(d) \in Commands /\ Pedal(d).cmd = "pedal" /\ Pedal(d).down = d
    /\ None.cmd = "none"
<1>1. ASSUME NEW c \in Commands
      PROVE  \/ \E n \in Notes : c = On(n) \/ c = Off(n)
             \/ \E d \in BOOLEAN : c = Pedal(d)
             \/ c = AllOff \/ c = Other
  BY DEF Commands, Releases
<1>2. \A n \in Notes : On(n).cmd = "on" /\ On(n).note = n /\ Off(n).cmd = "off" /\ Off(n).note = n
  BY DEF On, Off
<1>3. \A d \in BOOLEAN : Pedal(d).cmd = "pedal" /\ Pedal(d).down = d
  BY DEF Pedal
<1>4. AllOff.cmd = "allOff" /\ Other.cmd = "other" /\ None.cmd = "none"
  BY DEF AllOff, Other, None
<1>5. /\ \A n \in Notes : On(n) \in Commands /\ Off(n) \in Commands
      /\ AllOff \in Commands
      /\ \A d \in BOOLEAN : Pedal(d) \in Commands
  BY DEF Commands, Releases
<1>6. ASSUME NEW c \in Commands
      PROVE  /\ c.cmd \in {"on", "off", "allOff", "pedal", "other"}
             /\ c.cmd = "on" => c.note \in Notes /\ c = On(c.note)
             /\ c.cmd = "off" => c.note \in Notes /\ c = Off(c.note)
             /\ c.cmd = "allOff" => c = AllOff
             /\ c.cmd = "pedal" => c.down \in BOOLEAN /\ c = Pedal(c.down)
  <2>1. CASE \E n \in Notes : c = On(n)
    BY <1>2, <2>1
  <2>2. CASE \E n \in Notes : c = Off(n)
    BY <1>2, <2>2
  <2>3. CASE \E d \in BOOLEAN : c = Pedal(d)
    BY <1>3, <2>3
  <2>4. CASE c = AllOff
    BY <1>4, <2>4
  <2>5. CASE c = Other
    BY <1>4, <2>5
  <2> QED
    BY <1>1, <2>1, <2>2, <2>3, <2>4, <2>5
<1> QED
  BY <1>2, <1>3, <1>4, <1>5, <1>6

LEMMA ReleasesAreCommands ==
    /\ Releases \subseteq Commands
    /\ \A c \in Releases : c = AllOff \/ (c.note \in Notes /\ c = Off(c.note))
    /\ \A c \in Releases : c # None
BY CommandKinds DEF Releases, Commands
-----------------------------------------------------------------------------
(* Type correctness.                                                       *)

EngineStates == [held : SUBSET Notes, sustained : SUBSET Notes, pedal : BOOLEAN]

LEMMA EngineTypes ==
    ASSUME NEW e \in EngineStates
    PROVE  /\ Silent \in EngineStates
           /\ \A S \in SUBSET Notes : Lifted(e, S) \in EngineStates
           /\ \A c \in Commands : After(e, c) \in EngineStates
<1>1. Silent \in EngineStates
  BY DEF Silent, EngineStates
<1>2. \A S \in SUBSET Notes : Lifted(e, S) \in EngineStates
  BY DEF Lifted, EngineStates
<1>3. ASSUME NEW c \in Commands PROVE After(e, c) \in EngineStates
  <2>1. CASE c.cmd = "on"
    BY <2>1, CommandKinds DEF After, EngineStates
  <2>2. CASE c.cmd = "off"
    BY <1>2, <2>2, CommandKinds DEF After
  <2>3. CASE c.cmd = "allOff"
    BY <1>1, <2>3 DEF After
  <2>4. CASE c.cmd = "pedal"
    BY <2>4, CommandKinds DEF After, EngineStates
  <2>5. CASE c.cmd = "other"
    BY <2>5 DEF After
  <2> QED
    BY <2>1, <2>2, <2>3, <2>4, <2>5, CommandKinds
<1> QED
  BY <1>1, <1>2, <1>3

LEMMA ReleasesTypes ==
    ASSUME TypeOK
    PROVE  AfterReleases(engine) \in EngineStates
BY EngineTypes DEF TypeOK, AfterReleases, EngineStates

LEMMA TypeInit == Init => TypeOK
<1> SUFFICES ASSUME Init PROVE TypeOK
  OBVIOUS
<1>1. engine \in [held : SUBSET Notes, sustained : SUBSET Notes, pedal : BOOLEAN]
  BY DEF Init, Silent
<1>2. queue \in Seq(Commands) /\ Len(queue) <= Capacity
  BY DEF Init
<1> QED
  BY <1>1, <1>2 DEF Init, TypeOK

LEMMA TypeStep == TypeOK /\ [Next]_vars => TypeOK'
<1> SUFFICES ASSUME TypeOK, [Next]_vars PROVE TypeOK'
  OBVIOUS
<1>1. ASSUME NEW c \in Commands, Receive(c) PROVE TypeOK'
  <2>1. keys' \in SUBSET Notes /\ foot' \in BOOLEAN
    BY <1>1, CommandKinds DEF Receive, Played, TypeOK
  <2>2. UNCHANGED <<pendingNotes, pendingAll, engine, draining>>
    BY <1>1 DEF Receive, pending
  <2>3. CASE Merge(c)
    BY <2>1, <2>2, <2>3 DEF Merge, TypeOK, OnBehindAllOff
  <2>4. CASE Accept(c)
    <3>1. queue' \in Seq(Commands) /\ Len(queue') <= Capacity
      <4>1. queue \in Seq(Commands) /\ Len(queue) < Capacity /\ queue' = Append(queue, c)
        BY <2>4 DEF Accept, TypeOK, Full
      <4> QED
        BY <4>1, AppendElements
    <3>2. exposed' \in SUBSET Notes /\ pedalDropped' \in BOOLEAN /\ rejected' = rejected
      BY <2>4 DEF Accept, TypeOK
    <3> QED
      BY <2>1, <2>2, <3>1, <3>2 DEF TypeOK
  <2>5. CASE Reject(c)
    BY <2>1, <2>2, <2>5 DEF Reject, TypeOK
  <2> QED
    BY <1>1, <2>3, <2>4, <2>5 DEF Receive
<1>2. CASE StoreRelease
  <2>1. rejected \in Releases
    BY <1>2 DEF StoreRelease, TypeOK
  <2>2. rejected # AllOff => rejected.note \in Notes
    BY <2>1, ReleasesAreCommands
  <2> QED
    BY <1>2, <2>2 DEF StoreRelease, TypeOK, player, OnQueued
<1>3. CASE BlockStart
  <2>1. engine' \in EngineStates
    BY <1>3, ReleasesTypes, EngineTypes, TailElements DEF BlockStart, TypeOK
  <2>2. queue' \in Seq(Commands) /\ Len(queue') <= Capacity
    <3>1. CASE queue = <<>>
      BY <1>3, <3>1 DEF BlockStart, TypeOK
    <3>2. CASE queue # <<>>
      <4>1. queue' = Tail(queue) /\ queue \in Seq(Commands) /\ Len(queue) <= Capacity
        BY <1>3, <3>2 DEF BlockStart, TypeOK
      <4> QED
        BY <3>2, <4>1, TailElements
    <3> QED
      BY <3>1, <3>2
  <2> QED
    BY <1>3, <2>1, <2>2 DEF BlockStart, TypeOK, EngineStates, player
<1>4. CASE BlockExtra
  <2>1. engine' \in EngineStates
    BY <1>4, EngineTypes, TailElements DEF BlockExtra, TypeOK, EngineStates
  <2>2. queue' \in Seq(Commands) /\ Len(queue') <= Capacity
    <3>1. queue' = Tail(queue) /\ queue \in Seq(Commands) /\ Len(queue) <= Capacity
      BY <1>4 DEF BlockExtra, TypeOK
    <3> QED
      BY <1>4, <3>1, TailElements DEF BlockExtra
  <2> QED
    BY <1>4, <2>1, <2>2 DEF BlockExtra, TypeOK, EngineStates, player, pending
<1>5. CASE BlockEnd
  BY <1>5 DEF BlockEnd, TypeOK, player, pending
<1>6. CASE UNCHANGED vars
  BY <1>6 DEF vars, TypeOK
<1> QED
  BY <1>1, <1>2, <1>3, <1>4, <1>5, <1>6 DEF Next

\* The variables of the note path keep their types, and the FIFO never holds more
\* than its capacity.
THEOREM TypeCorrect == Spec => []TypeOK
BY TypeInit, TypeStep, PTL DEF Spec
-----------------------------------------------------------------------------
(* Releases behind the notes they stop.                                    *)

\* Queue q stops note n, or does not start it.
StoppedBy(q, n) ==
    \E i \in DOMAIN q : Stops(q[i], n) /\ \A j \in DOMAIN q : q[j] = On(n) => j < i
NotStartedBy(q, n) == \A i \in DOMAIN q : q[i] # On(n)

LEMMA WillStopParts ==
    ASSUME NEW n \in Notes
    PROVE  WillStop(n) <=>
             \/ StoppedBy(queue, n)
             \/ NotStartedBy(queue, n)
                  /\ (n \notin engine.held \/ n \in pendingNotes \/ pendingAll)
BY DEF WillStop, StoppedBy, NotStartedBy, Queued

LEMMA StopsKinds ==
    ASSUME NEW n \in Notes
    PROVE  /\ Stops(Off(n), n) /\ Stops(AllOff, n)
           /\ ~Stops(On(n), n) /\ ~Stops(None, n)
           /\ \A m \in Notes : Stops(Off(m), n) => m = n
BY CommandKinds DEF Stops

LEMMA AppendStops ==
    ASSUME NEW q \in Seq(Commands), NEW c \in Commands, NEW n \in Notes
    PROVE  /\ Stops(c, n) => StoppedBy(Append(q, c), n)
           /\ c # On(n) /\ StoppedBy(q, n) => StoppedBy(Append(q, c), n)
           /\ c # On(n) /\ NotStartedBy(q, n) => NotStartedBy(Append(q, c), n)
<1> DEFINE r == Append(q, c)
<1>1. /\ DOMAIN r = 1 .. Len(q) + 1 /\ DOMAIN q = 1 .. Len(q) /\ Len(q) \in Nat
      /\ \A i \in DOMAIN q : r[i] = q[i]
      /\ r[Len(q) + 1] = c
  BY AppendElements
<1> HIDE DEF r
<1>2. ASSUME Stops(c, n) PROVE StoppedBy(r, n)
  <2>1. c # On(n)
    BY <1>2, StopsKinds
  <2>2. \A j \in DOMAIN r : r[j] = On(n) => j < Len(q) + 1
    BY <1>1, <2>1
  <2> QED
    BY <1>1, <1>2, <2>2 DEF StoppedBy
<1>3. ASSUME c # On(n), StoppedBy(q, n) PROVE StoppedBy(r, n)
  <2>1. PICK i \in DOMAIN q : Stops(q[i], n) /\ \A j \in DOMAIN q : q[j] = On(n) => j < i
    BY <1>3 DEF StoppedBy
  <2>2. \A j \in DOMAIN r : r[j] = On(n) => j < i
    BY <1>1, <1>3, <2>1
  <2> QED
    BY <1>1, <2>1, <2>2 DEF StoppedBy
<1>4. ASSUME c # On(n), NotStartedBy(q, n) PROVE NotStartedBy(r, n)
  BY <1>1, <1>4 DEF NotStartedBy
<1> QED
  BY <1>2, <1>3, <1>4 DEF r

LEMMA TailStops ==
    ASSUME NEW q \in Seq(Commands), q # <<>>, NEW n \in Notes
    PROVE  /\ StoppedBy(q, n) =>
                 \/ StoppedBy(Tail(q), n)
                 \/ NotStartedBy(Tail(q), n) /\ Stops(Head(q), n)
           /\ NotStartedBy(q, n) => NotStartedBy(Tail(q), n) /\ Head(q) # On(n)
<1> DEFINE r == Tail(q)
<1>1. /\ DOMAIN r = 1 .. Len(q) - 1 /\ DOMAIN q = 1 .. Len(q) /\ Len(q) \in Nat /\ Len(q) > 0
      /\ \A i \in 1 .. Len(q) - 1 : r[i] = q[i + 1]
      /\ Head(q) = q[1]
  BY TailElements
<1> HIDE DEF r
<1>2. ASSUME StoppedBy(q, n)
      PROVE  StoppedBy(r, n) \/ (NotStartedBy(r, n) /\ Stops(Head(q), n))
  <2>1. PICK i \in DOMAIN q : Stops(q[i], n) /\ \A j \in DOMAIN q : q[j] = On(n) => j < i
    BY <1>2 DEF StoppedBy
  <2>2. CASE i = 1
    <3>1. \A j \in DOMAIN r : r[j] # On(n)
      BY <1>1, <2>1, <2>2
    <3> QED
      BY <1>1, <2>1, <2>2, <3>1 DEF NotStartedBy
  <2>3. CASE i # 1
    <3>1. i - 1 \in DOMAIN r /\ r[i - 1] = q[i]
      BY <1>1, <2>3
    <3>2. \A j \in DOMAIN r : r[j] = On(n) => j < i - 1
      BY <1>1, <2>1
    <3> QED
      BY <2>1, <3>1, <3>2 DEF StoppedBy
  <2> QED
    BY <2>2, <2>3
<1>3. ASSUME NotStartedBy(q, n) PROVE NotStartedBy(r, n) /\ Head(q) # On(n)
  BY <1>1, <1>3 DEF NotStartedBy
<1> QED
  BY <1>2, <1>3 DEF r

LEMMA AfterStops ==
    ASSUME NEW e \in EngineStates, NEW c \in Commands, NEW n \in Notes
    PROVE  /\ Stops(c, n) => n \notin After(e, c).held
           /\ n \notin e.held /\ c # On(n) => n \notin After(e, c).held
<1>1. CASE c.cmd = "on"
  <2>1. After(e, c).held = e.held \cup {c.note}
    BY <1>1 DEF After, EngineStates
  <2>2. c = On(c.note) /\ c.note \in Notes /\ ~Stops(c, n)
    BY <1>1, CommandKinds DEF Stops
  <2> QED
    BY <2>1, <2>2
<1>2. CASE c.cmd = "off"
  <2>1. After(e, c).held = e.held \ {c.note}
    BY <1>2 DEF After, Lifted, EngineStates
  <2>2. Stops(c, n) => c.note = n
    BY <1>2, CommandKinds DEF Stops
  <2> QED
    BY <2>1, <2>2
<1>3. CASE c.cmd = "allOff"
  BY <1>3 DEF After, Silent
<1>4. CASE c.cmd \in {"pedal", "other"}
  <2>1. After(e, c).held = e.held
    BY <1>4 DEF After, EngineStates
  <2>2. ~Stops(c, n)
    BY <1>4, CommandKinds DEF Stops
  <2> QED
    BY <2>1, <2>2
<1> QED
  BY <1>1, <1>2, <1>3, <1>4, CommandKinds

LEMMA PendingStops ==
    ASSUME TypeOK, NEW n \in Notes,
           n \notin engine.held \/ n \in pendingNotes \/ pendingAll
    PROVE  n \notin AfterReleases(engine).held
<1> DEFINE e == IF pendingAll THEN Silent ELSE engine
<1>1. e \in EngineStates
  BY EngineTypes DEF TypeOK, EngineStates
<1>2. n \notin e.held \/ n \in pendingNotes
  BY DEF Silent
<1>3. AfterReleases(engine).held = e.held \ pendingNotes
  <2> HIDE DEF e
  <2>1. Lifted(e, pendingNotes).held = e.held \ pendingNotes
    BY <1>1 DEF Lifted, EngineStates
  <2> QED
    BY <2>1 DEF AfterReleases, e
<1> QED
  BY <1>2, <1>3
-----------------------------------------------------------------------------
(* Only exposed notes hang.                                                *)

\* A command taken from the FIFO keeps the promise for note n.
LEMMA TakenKeepsPromise ==
    ASSUME NEW e \in EngineStates, NEW q \in Seq(Commands), q # <<>>, NEW n \in Notes,
           StoppedBy(q, n) \/ (NotStartedBy(q, n) /\ n \notin e.held)
    PROVE  \/ StoppedBy(Tail(q), n)
           \/ NotStartedBy(Tail(q), n) /\ n \notin After(e, Head(q)).held
BY TailStops, TailElements, AfterStops

LEMMA OnlyExposedStep ==
    TypeOK /\ OnlyExposedNotesHang /\ [Next]_vars => OnlyExposedNotesHang'
<1> SUFFICES ASSUME TypeOK, OnlyExposedNotesHang, [Next]_vars,
                    NEW n \in Notes, n \notin keys'
             PROVE  n \in exposed' \/ Stops(rejected', n) \/ WillStop(n)'
  BY DEF OnlyExposedNotesHang
<1>0. queue \in Seq(Commands)
  BY DEF TypeOK
<1>n. WillStop(n)' <=>
             \/ StoppedBy(queue', n)
             \/ NotStartedBy(queue', n)
                  /\ (n \notin engine'.held \/ n \in pendingNotes' \/ pendingAll')
  BY DEF WillStop, StoppedBy, NotStartedBy, Queued
<1>1. ASSUME NEW c \in Commands, Receive(c)
      PROVE  n \in exposed' \/ Stops(rejected', n) \/ WillStop(n)'
  <2>1. UNCHANGED <<pendingNotes, pendingAll, engine>> /\ rejected = None
    BY <1>1 DEF Receive, pending
  <2>2. c # On(n)
    BY <1>1, CommandKinds DEF Receive, Played
  <2>3. CASE Stops(c, n) /\ Merge(c)
    <3>1. PICK i \in DOMAIN queue : queue[i] = AllOff
      BY <2>3 DEF Merge, Merges, Queued
    <3>2. CASE \E j \in DOMAIN queue : i < j /\ queue[j] = On(n)
      BY <2>3, <3>1, <3>2 DEF Merge, OnBehindAllOff
    <3>3. CASE \A j \in DOMAIN queue : queue[j] = On(n) => ~(i < j)
      <4>1. \A j \in DOMAIN queue : queue[j] = On(n) => j < i
        BY <1>0, <3>1, <3>3, CommandKinds
      <4>2. StoppedBy(queue, n)
        BY <3>1, <4>1, StopsKinds DEF StoppedBy
      <4> QED
        BY <1>n, <2>3, <4>2 DEF Merge
    <3> QED
      BY <3>2, <3>3
  <2>4. CASE Stops(c, n) /\ Accept(c)
    BY <1>0, <1>n, <2>4, AppendStops DEF Accept
  <2>5. CASE Stops(c, n) /\ Reject(c)
    BY <2>5 DEF Reject, Releases, Stops
  <2>6. CASE ~Stops(c, n)
    <3>1. n \notin keys /\ ~Stops(rejected, n)
      <4>1. c # AllOff /\ c # Off(n)
        BY <2>6 DEF Stops
      <4> QED
        BY <1>1, <2>1, <4>1, CommandKinds, StopsKinds DEF Receive, Played
    <3>2. n \in exposed \/ WillStop(n)
      BY <3>1 DEF OnlyExposedNotesHang
    <3>3. c # AllOff
      BY <2>6 DEF Stops
    <3>4. n \in exposed => n \in exposed'
      <4>1. c.cmd # "allOff" /\ (c.cmd = "off" => c.note # n)
        BY <2>6, <3>3, CommandKinds DEF Stops
      <4> QED
        BY <1>1, <3>3, <4>1 DEF Receive, Merge, Merges, Accept, Reject
    <3>5. WillStop(n) => WillStop(n)'
      <4>1. queue' = queue \/ queue' = Append(queue, c)
        BY <1>1 DEF Receive, Merge, Accept, Reject
      <4> QED
        BY <1>0, <1>n, <2>1, <2>2, <4>1, AppendStops, WillStopParts
    <3> QED
      BY <3>2, <3>4, <3>5
  <2> QED
    BY <1>1, <2>3, <2>4, <2>5, <2>6 DEF Receive
<1>2. CASE StoreRelease
  <2>1. /\ queue' = queue /\ engine' = engine /\ keys' = keys /\ rejected' = None
        /\ rejected \in Releases
    BY <1>2 DEF StoreRelease, TypeOK, player
  <2>2. CASE rejected = AllOff
    BY <1>2, <1>n, <2>1, <2>2 DEF StoreRelease, OnQueued, Queued, NotStartedBy
  <2>3. CASE rejected # AllOff /\ rejected.note = n
    BY <1>2, <1>n, <2>1, <2>3 DEF StoreRelease, OnQueued, Queued, NotStartedBy
  <2>4. CASE rejected # AllOff /\ rejected.note # n
    <3>1. ~Stops(rejected, n)
      BY <2>4, CommandKinds DEF Stops
    <3>2. n \in exposed \/ WillStop(n)
      BY <2>1, <3>1 DEF OnlyExposedNotesHang
    <3>3. n \in exposed => n \in exposed'
      BY <1>2, <2>4 DEF StoreRelease
    <3>4. pendingNotes \subseteq pendingNotes' /\ pendingAll' = pendingAll
      BY <1>2, <2>4 DEF StoreRelease
    <3>5. WillStop(n) => WillStop(n)'
      BY <1>n, <2>1, <3>4, WillStopParts
    <3> QED
      BY <3>2, <3>3, <3>5
  <2> QED
    BY <2>2, <2>3, <2>4
<1>3. CASE BlockStart
  <2>1. /\ keys' = keys /\ rejected' = rejected /\ exposed' = exposed
        /\ pendingNotes' = {} /\ ~pendingAll'
    BY <1>3 DEF BlockStart, player
  <2>2. SUFFICES ASSUME WillStop(n) PROVE WillStop(n)'
    BY <2>1 DEF OnlyExposedNotesHang
  <2>3. \/ StoppedBy(queue, n)
        \/ NotStartedBy(queue, n) /\ n \notin AfterReleases(engine).held
    BY <2>2, WillStopParts, PendingStops
  <2>4. CASE queue = <<>>
    <3>1. ~StoppedBy(queue, n)
      BY <2>4 DEF StoppedBy
    <3>2. queue' = queue /\ engine' = AfterReleases(engine)
      BY <1>3, <2>4 DEF BlockStart
    <3> QED
      BY <1>n, <2>3, <3>1, <3>2
  <2>5. CASE queue # <<>>
    <3>1. queue' = Tail(queue) /\ engine' = After(AfterReleases(engine), Head(queue))
      BY <1>3, <2>5 DEF BlockStart
    <3> QED
      BY <1>0, <1>n, <2>3, <2>5, <3>1, ReleasesTypes, TakenKeepsPromise
  <2> QED
    BY <2>4, <2>5
<1>4. CASE BlockExtra
  <2>1. /\ keys' = keys /\ rejected' = rejected /\ exposed' = exposed
        /\ pendingNotes' = pendingNotes /\ pendingAll' = pendingAll
        /\ queue # <<>> /\ queue' = Tail(queue) /\ engine' = After(engine, Head(queue))
    BY <1>4 DEF BlockExtra, player, pending
  <2>2. SUFFICES ASSUME WillStop(n) PROVE WillStop(n)'
    BY <2>1 DEF OnlyExposedNotesHang
  <2>3. engine \in EngineStates
    BY DEF TypeOK, EngineStates
  <2>4. CASE StoppedBy(queue, n) \/ (NotStartedBy(queue, n) /\ n \notin engine.held)
    BY <1>0, <1>n, <2>1, <2>3, <2>4, TakenKeepsPromise
  <2>5. CASE NotStartedBy(queue, n) /\ (n \in pendingNotes \/ pendingAll)
    BY <1>0, <1>n, <2>1, <2>5, TailStops
  <2> QED
    BY <2>2, <2>4, <2>5, WillStopParts
<1>5. CASE BlockEnd
  BY <1>5, <1>n, WillStopParts DEF BlockEnd, player, pending, OnlyExposedNotesHang
<1>6. CASE UNCHANGED vars
  BY <1>6, <1>n, WillStopParts DEF vars, OnlyExposedNotesHang
<1> QED
  BY <1>1, <1>2, <1>3, <1>4, <1>5, <1>6 DEF Next

\* Whatever arrives and however blocks fall between the handler's accesses, a note
\* whose key is up stops unless its release went by a NoteOn still in the FIFO.
THEOREM ReleasesAreKept == Spec => []OnlyExposedNotesHang
<1>1. Init => OnlyExposedNotesHang
  BY DEF Init, OnlyExposedNotesHang, WillStop, Queued, Silent
<1> QED
  BY <1>1, TypeInit, TypeStep, OnlyExposedStep, PTL DEF Spec
-----------------------------------------------------------------------------
(* Sustain ends with the pedal.                                            *)

\* Queue q puts the pedal down for good, or never lifts it.
LowersPedal(q) ==
    \E i \in DOMAIN q :
        /\ q[i] = Pedal(TRUE)
        /\ \A j \in DOMAIN q : q[j] \in {Pedal(FALSE), AllOff} => j < i
LeavesPedal(q) == \A i \in DOMAIN q : q[i] \notin {Pedal(FALSE), AllOff}

\* Where queue q brings a pedal that stands at down.
BringsPedal(q, down) == LowersPedal(q) \/ (down /\ LeavesPedal(q))

\* Only the pedal keeps a voice.
SustainedByPedal(e) == e.sustained # {} => e.pedal

LEMMA PedalToComeParts == PedalToCome <=> BringsPedal(queue, engine.pedal)
BY DEF PedalToCome, BringsPedal, LowersPedal, LeavesPedal, Queued

LEMMA PedalKinds ==
    /\ Pedal(TRUE) # Pedal(FALSE) /\ Pedal(TRUE) # AllOff
    /\ \A n \in Notes : Off(n) \notin {Pedal(FALSE), AllOff}
    /\ \A c \in Commands : c \in {Pedal(FALSE), AllOff} =>
          c.cmd = "allOff" \/ (c.cmd = "pedal" /\ ~c.down)
BY CommandKinds DEF Pedal

LEMMA AppendPedal ==
    ASSUME NEW q \in Seq(Commands), NEW c \in Commands, NEW d \in BOOLEAN,
           BringsPedal(Append(q, c), d)
    PROVE  /\ c.cmd = "pedal" => c.down
           /\ c.cmd # "pedal" => BringsPedal(q, d)
<1> SUFFICES /\ c \notin {Pedal(FALSE), AllOff}
             /\ c # Pedal(TRUE) => BringsPedal(q, d)
  <2>1. c.cmd = "pedal" => c.down \in BOOLEAN /\ c = Pedal(c.down)
    BY CommandKinds
  <2>2. c.cmd # "pedal" => c # Pedal(TRUE)
    BY CommandKinds
  <2> QED
    BY <2>1, <2>2
<1> DEFINE r == Append(q, c)
<1>1. /\ DOMAIN r = 1 .. Len(q) + 1 /\ DOMAIN q = 1 .. Len(q) /\ Len(q) \in Nat
      /\ \A i \in DOMAIN q : r[i] = q[i]
      /\ r[Len(q) + 1] = c
  BY AppendElements
<1>2. LowersPedal(r) \/ (d /\ LeavesPedal(r))
  BY DEF BringsPedal
<1> HIDE DEF r
<1>3. CASE LowersPedal(r)
  <2>1. PICK i \in DOMAIN r :
           r[i] = Pedal(TRUE) /\ \A j \in DOMAIN r : r[j] \in {Pedal(FALSE), AllOff} => j < i
    BY <1>3 DEF LowersPedal
  <2>2. c \notin {Pedal(FALSE), AllOff}
    <3>1. Len(q) + 1 \in DOMAIN r /\ ~(Len(q) + 1 < i)
      BY <1>1, <2>1
    <3> QED
      BY <1>1, <2>1, <3>1
  <2>3. ASSUME c # Pedal(TRUE) PROVE LowersPedal(q)
    <3>1. i # Len(q) + 1
      BY <1>1, <2>1, <2>3
    <3>2. i \in DOMAIN q /\ DOMAIN q \subseteq DOMAIN r
      BY <1>1, <3>1
    <3>3. q[i] = Pedal(TRUE) /\ \A j \in DOMAIN q : q[j] \in {Pedal(FALSE), AllOff} => j < i
      BY <1>1, <2>1, <3>2
    <3> QED
      BY <3>2, <3>3 DEF LowersPedal
  <2> QED
    BY <2>2, <2>3 DEF BringsPedal
<1>4. CASE d /\ LeavesPedal(r)
  <2>1. \A i \in DOMAIN r : r[i] \notin {Pedal(FALSE), AllOff}
    BY <1>4 DEF LeavesPedal
  <2>2. Len(q) + 1 \in DOMAIN r /\ DOMAIN q \subseteq DOMAIN r
    BY <1>1
  <2>3. c \notin {Pedal(FALSE), AllOff} /\ LeavesPedal(q)
    BY <1>1, <2>1, <2>2 DEF LeavesPedal
  <2> QED
    BY <1>4, <2>3 DEF BringsPedal
<1> QED
  BY <1>2, <1>3, <1>4

\* Taking a command leaves the pedal on its way to where it was.
LEMMA TailPedal ==
    ASSUME NEW q \in Seq(Commands), q # <<>>, NEW e \in EngineStates,
           BringsPedal(Tail(q), After(e, Head(q)).pedal)
    PROVE  BringsPedal(q, e.pedal)
<1> DEFINE r == Tail(q)
           c == Head(q)
<1>1. /\ DOMAIN r = 1 .. Len(q) - 1 /\ DOMAIN q = 1 .. Len(q) /\ Len(q) \in Nat /\ Len(q) > 0
      /\ \A i \in 1 .. Len(q) - 1 : r[i] = q[i + 1]
      /\ c = q[1] /\ c \in Commands
  BY TailElements
<1>2. LowersPedal(r) \/ (After(e, c).pedal /\ LeavesPedal(r))
  BY DEF BringsPedal
<1> HIDE DEF r, c
<1>3. CASE LowersPedal(r)
  <2>1. PICK i \in DOMAIN r :
           r[i] = Pedal(TRUE) /\ \A j \in DOMAIN r : r[j] \in {Pedal(FALSE), AllOff} => j < i
    BY <1>3 DEF LowersPedal
  <2>2. i + 1 \in DOMAIN q /\ q[i + 1] = Pedal(TRUE)
    <3>1. i \in 1 .. Len(q) - 1
      BY <1>1
    <3>2. r[i] = q[i + 1] /\ i + 1 \in 1 .. Len(q)
      BY <1>1, <3>1
    <3> QED
      BY <1>1, <2>1, <3>2
  <2>3. ASSUME NEW j \in DOMAIN q, q[j] \in {Pedal(FALSE), AllOff} PROVE j < i + 1
    <3>1. CASE j = 1
      BY <1>1, <2>1, <3>1
    <3>2. CASE j # 1
      <4>1. j - 1 \in DOMAIN r /\ r[j - 1] = q[j]
        BY <1>1, <3>2
      <4>2. j - 1 < i
        BY <2>1, <2>3, <4>1
      <4> QED
        BY <1>1, <2>1, <4>2
    <3> QED
      BY <3>1, <3>2
  <2> QED
    BY <2>2, <2>3 DEF BringsPedal, LowersPedal
<1>4. CASE After(e, c).pedal /\ LeavesPedal(r)
  <2>1. \A i \in DOMAIN q : i # 1 => q[i] \notin {Pedal(FALSE), AllOff}
    <3>1. \A i \in DOMAIN q : i # 1 => i - 1 \in DOMAIN r /\ r[i - 1] = q[i]
      BY <1>1
    <3> QED
      BY <1>4, <3>1 DEF LeavesPedal
  <2>2. CASE c.cmd = "pedal"
    <3>1. After(e, c).pedal = c.down
      BY <2>2 DEF After, EngineStates
    <3>2. c = Pedal(TRUE)
      BY <1>1, <1>4, <2>2, <3>1, CommandKinds
    <3>3. 1 \in DOMAIN q /\ q[1] = Pedal(TRUE)
      BY <1>1, <3>2
    <3>4. \A j \in DOMAIN q : q[j] \in {Pedal(FALSE), AllOff} => j < 1
      BY <2>1, <3>3, PedalKinds
    <3> QED
      BY <3>3, <3>4 DEF BringsPedal, LowersPedal
  <2>3. CASE c.cmd # "pedal"
    <3>1. c.cmd # "allOff"
      BY <1>4 DEF After, Silent
    <3>2. c \notin {Pedal(FALSE), AllOff}
      BY <1>1, <2>3, <3>1, PedalKinds
    <3>3. e.pedal
      <4>1. CASE c.cmd = "on"
        BY <1>4, <4>1 DEF After, EngineStates
      <4>2. CASE c.cmd = "off"
        BY <1>4, <4>2 DEF After, Lifted, EngineStates
      <4>3. CASE c.cmd = "other"
        BY <1>4, <4>3 DEF After
      <4> QED
        BY <1>1, <2>3, <3>1, <4>1, <4>2, <4>3, CommandKinds
    <3>4. LeavesPedal(q)
      BY <1>1, <2>1, <3>2 DEF LeavesPedal
    <3> QED
      BY <3>3, <3>4 DEF BringsPedal
  <2> QED
    BY <2>2, <2>3
<1> QED
  BY <1>2, <1>3, <1>4

LEMMA AfterSustains ==
    ASSUME NEW e \in EngineStates, SustainedByPedal(e)
    PROVE  /\ \A c \in Commands : SustainedByPedal(After(e, c))
           /\ \A S \in SUBSET Notes : /\ SustainedByPedal(Lifted(e, S))
                                      /\ Lifted(e, S).pedal = e.pedal
<1>1. ASSUME NEW S \in SUBSET Notes
      PROVE  SustainedByPedal(Lifted(e, S)) /\ Lifted(e, S).pedal = e.pedal
  BY DEF Lifted, EngineStates, SustainedByPedal
<1>2. ASSUME NEW c \in Commands PROVE SustainedByPedal(After(e, c))
  <2>1. CASE c.cmd = "on"
    BY <2>1 DEF After, EngineStates, SustainedByPedal
  <2>2. CASE c.cmd = "off"
    <3>1. {c.note} \in SUBSET Notes
      BY <2>2, CommandKinds
    <3> QED
      BY <1>1, <2>2, <3>1 DEF After
  <2>3. CASE c.cmd = "allOff"
    BY <2>3 DEF After, Silent, SustainedByPedal
  <2>4. CASE c.cmd = "pedal"
    <3>1. c.down \in BOOLEAN
      BY <2>4, CommandKinds
    <3>2. After(e, c).pedal = c.down
      BY <2>4 DEF After, EngineStates
    <3>3. ~c.down => After(e, c).sustained = {}
      BY <2>4 DEF After, EngineStates, SustainedByPedal
    <3> QED
      BY <3>1, <3>2, <3>3 DEF SustainedByPedal
  <2>5. CASE c.cmd = "other"
    BY <2>5 DEF After
  <2> QED
    BY <2>1, <2>2, <2>3, <2>4, <2>5, CommandKinds
<1> QED
  BY <1>1, <1>2

\* What a block finds in the fallback lifts keys and leaves the pedal, or silences
\* the engine and lifts it too.
LEMMA ReleasesSustain ==
    ASSUME TypeOK, SustainedByPedal(engine)
    PROVE  /\ SustainedByPedal(AfterReleases(engine))
           /\ AfterReleases(engine).pedal => engine.pedal
<1> DEFINE e == IF pendingAll THEN Silent ELSE engine
<1>1. e \in EngineStates
  BY EngineTypes DEF TypeOK, EngineStates
<1>2. SustainedByPedal(e) /\ (e.pedal => engine.pedal)
  BY DEF Silent, SustainedByPedal
<1> HIDE DEF e
<1>3. SustainedByPedal(Lifted(e, pendingNotes)) /\ Lifted(e, pendingNotes).pedal = e.pedal
  BY <1>1, <1>2, AfterSustains DEF TypeOK
<1> QED
  BY <1>2, <1>3 DEF AfterReleases, e

LEMMA SustainStep ==
    TypeOK /\ SustainEndsWithPedal /\ [Next]_vars => SustainEndsWithPedal'
<1> SUFFICES ASSUME TypeOK, SustainEndsWithPedal, [Next]_vars
             PROVE  SustainEndsWithPedal'
  OBVIOUS
<1> DEFINE Goal == /\ SustainedByPedal(engine')
                   /\ ~foot' /\ ~pedalDropped' => ~BringsPedal(queue', engine'.pedal)
<1>g. SUFFICES Goal
  BY DEF SustainEndsWithPedal, SustainedByPedal, PedalToCome, BringsPedal, LowersPedal,
         LeavesPedal, Queued
<1>0. /\ queue \in Seq(Commands) /\ engine \in EngineStates
      /\ SustainedByPedal(engine)
      /\ ~foot /\ ~pedalDropped => ~BringsPedal(queue, engine.pedal)
  BY PedalToComeParts DEF TypeOK, EngineStates, SustainEndsWithPedal, SustainedByPedal
<1>1. ASSUME NEW c \in Commands, Receive(c) PROVE Goal
  <2>1. engine' = engine
    BY <1>1 DEF Receive
  <2>2. foot' = IF c.cmd = "pedal" THEN c.down ELSE foot
    BY <1>1 DEF Receive, Played
  <2>3. CASE Merge(c)
    <3>1. queue' = queue /\ pedalDropped' = pedalDropped /\ c.cmd # "pedal"
      BY <2>3, CommandKinds DEF Merge, Merges
    <3> QED
      BY <1>0, <2>1, <2>2, <3>1
  <2>4. CASE Accept(c)
    <3>1. queue' = Append(queue, c) /\ pedalDropped' = (pedalDropped /\ c.cmd # "pedal")
      BY <2>4 DEF Accept
    <3>2. SUFFICES ASSUME ~foot', ~pedalDropped', BringsPedal(Append(queue, c), engine.pedal)
                   PROVE  FALSE
      BY <1>0, <2>1, <3>1
    <3>3. engine.pedal \in BOOLEAN
      BY <1>0 DEF EngineStates
    <3>4. PICK d \in BOOLEAN : d = engine.pedal
      BY <3>3
    <3>5. queue \in Seq(Commands) /\ BringsPedal(Append(queue, c), d)
      BY <1>0, <3>2, <3>4
    <3>6. /\ c.cmd = "pedal" => c.down
          /\ c.cmd # "pedal" => BringsPedal(queue, d)
      BY <3>5, AppendPedal, Zenon
    <3>7. CASE c.cmd = "pedal"
      BY <2>2, <3>2, <3>6, <3>7, Zenon
    <3>8. CASE c.cmd # "pedal"
      <4>1. ~foot /\ ~pedalDropped /\ BringsPedal(queue, engine.pedal)
        BY <2>2, <3>1, <3>2, <3>4, <3>6, <3>8, Zenon
      <4> QED
        BY <1>0, <4>1, Zenon
    <3> QED
      BY <3>7, <3>8, Zenon
  <2>5. CASE Reject(c)
    <3>1. queue' = queue /\ pedalDropped' = (pedalDropped \/ c.cmd = "pedal")
      BY <2>5 DEF Reject
    <3> QED
      BY <1>0, <2>1, <2>2, <3>1
  <2> QED
    BY <1>1, <2>3, <2>4, <2>5 DEF Receive
<1>2. CASE StoreRelease
  BY <1>0, <1>2 DEF StoreRelease, player
<1>3. CASE BlockStart
  <2>1. foot' = foot /\ pedalDropped' = pedalDropped
    BY <1>3 DEF BlockStart, player
  <2>2. /\ SustainedByPedal(AfterReleases(engine))
        /\ AfterReleases(engine).pedal => engine.pedal
        /\ AfterReleases(engine) \in EngineStates
    BY <1>0, ReleasesSustain, ReleasesTypes
  <2>3. BringsPedal(queue, AfterReleases(engine).pedal) => BringsPedal(queue, engine.pedal)
    BY <2>2 DEF BringsPedal
  <2>4. CASE queue = <<>>
    <3>1. queue' = queue /\ engine' = AfterReleases(engine)
      BY <1>3, <2>4 DEF BlockStart
    <3> QED
      BY <1>0, <2>1, <2>2, <2>3, <3>1
  <2>5. CASE queue # <<>>
    <3>1. queue' = Tail(queue) /\ engine' = After(AfterReleases(engine), Head(queue))
      BY <1>3, <2>5 DEF BlockStart
    <3>2. SustainedByPedal(engine')
      BY <1>0, <2>2, <2>5, <3>1, AfterSustains, TailElements
    <3>3. BringsPedal(queue', engine'.pedal) => BringsPedal(queue, AfterReleases(engine).pedal)
      BY <1>0, <2>2, <2>5, <3>1, TailPedal
    <3> QED
      BY <1>0, <2>1, <2>3, <3>2, <3>3
  <2> QED
    BY <2>4, <2>5
<1>4. CASE BlockExtra
  <2>1. /\ foot' = foot /\ pedalDropped' = pedalDropped /\ queue # <<>>
        /\ queue' = Tail(queue) /\ engine' = After(engine, Head(queue))
    BY <1>4 DEF BlockExtra, player
  <2>2. SustainedByPedal(engine')
    BY <1>0, <2>1, AfterSustains, TailElements
  <2>3. BringsPedal(queue', engine'.pedal) => BringsPedal(queue, engine.pedal)
    BY <1>0, <2>1, TailPedal
  <2> QED
    BY <1>0, <2>1, <2>2, <2>3
<1>5. CASE BlockEnd
  BY <1>0, <1>5 DEF BlockEnd, player
<1>6. CASE UNCHANGED vars
  BY <1>0, <1>6 DEF vars
<1> QED
  BY <1>1, <1>2, <1>3, <1>4, <1>5, <1>6 DEF Next

\* However controls and blocks interleave, voices outlive their key only under the
\* pedal, and the pedal goes up with the foot unless the FIFO had no room for it.
THEOREM SustainEnds == Spec => []SustainEndsWithPedal
<1>1. Init => SustainEndsWithPedal
  BY DEF Init, SustainEndsWithPedal, PedalToCome, Queued, Silent
<1> QED
  BY <1>1, TypeInit, TypeStep, SustainStep, PTL DEF Spec
=============================================================================
