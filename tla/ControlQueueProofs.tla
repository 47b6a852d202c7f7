------------------------- MODULE ControlQueueProofs -------------------------
(***************************************************************************)
(* Theorems about ControlQueue for every capacity and every set of layers, *)
(* parameters and values.                                                  *)
(***************************************************************************)
EXTENDS ControlQueue, FoldLemmas

USE ControlQueueAssumption DEF ControlQueueAssumption
-----------------------------------------------------------------------------
(* Sequences of controls.                                                  *)

LEMMA AppendElements ==
    ASSUME NEW q \in Seq(Controls), NEW c \in Controls
    PROVE  /\ Append(q, c) \in Seq(Controls)
           /\ Len(Append(q, c)) = Len(q) + 1
           /\ DOMAIN q = 1 .. Len(q) /\ DOMAIN Append(q, c) = 1 .. Len(q) + 1
           /\ \A i \in DOMAIN q : Append(q, c)[i] = q[i]
           /\ Append(q, c)[Len(q) + 1] = c
OBVIOUS

LEMMA TailElements ==
    ASSUME NEW q \in Seq(Controls), q # <<>>
    PROVE  /\ Head(q) \in Controls /\ Head(q) = q[1]
           /\ Tail(q) \in Seq(Controls)
           /\ Len(Tail(q)) = Len(q) - 1 /\ Len(q) > 0
           /\ DOMAIN q = 1 .. Len(q) /\ DOMAIN Tail(q) = 1 .. Len(q) - 1
           /\ \A i \in 1 .. Len(q) - 1 : Tail(q)[i] = q[i + 1]
OBVIOUS

LEMMA ReplaceElements ==
    ASSUME NEW q \in Seq(Controls), NEW i \in DOMAIN q, NEW c \in Controls
    PROVE  /\ ReplaceAt(q, i, c) \in Seq(Controls)
           /\ Len(ReplaceAt(q, i, c)) = Len(q)
           /\ DOMAIN ReplaceAt(q, i, c) = DOMAIN q
           /\ ReplaceAt(q, i, c)[i] = c
           /\ \A j \in DOMAIN q : j # i => ReplaceAt(q, i, c)[j] = q[j]
BY DEF ReplaceAt

LEMMA RemoveElements ==
    ASSUME NEW q \in Seq(Controls), NEW i \in DOMAIN q
    PROVE  /\ RemoveAt(q, i) \in Seq(Controls)
           /\ Len(RemoveAt(q, i)) = Len(q) - 1
           /\ DOMAIN q = 1 .. Len(q) /\ DOMAIN RemoveAt(q, i) = 1 .. Len(q) - 1
           /\ \A j \in 1 .. Len(q) - 1 :
                 RemoveAt(q, i)[j] = IF j < i THEN q[j] ELSE q[j + 1]
<1> DEFINE front == SubSeq(q, 1, i - 1)
           rest == SubSeq(q, i + 1, Len(q))
<1>1. Len(q) \in Nat /\ i \in 1 .. Len(q) /\ DOMAIN q = 1 .. Len(q)
  OBVIOUS
<1>2. /\ front \in Seq(Controls) /\ Len(front) = i - 1
      /\ \A j \in 1 .. i - 1 : front[j] = q[j]
  BY <1>1
<1>3. /\ rest \in Seq(Controls) /\ Len(rest) = Len(q) - i
      /\ \A j \in 1 .. Len(q) - i : rest[j] = q[i + j]
  BY <1>1
<1> HIDE DEF front, rest
<1>4. /\ front \o rest \in Seq(Controls) /\ Len(front \o rest) = Len(q) - 1
      /\ DOMAIN (front \o rest) = 1 .. Len(q) - 1
      /\ \A j \in 1 .. Len(q) - 1 :
            (front \o rest)[j] = IF j < i THEN front[j] ELSE rest[j - i + 1]
  <2>1. /\ front \o rest \in Seq(Controls)
        /\ Len(front \o rest) = Len(front) + Len(rest)
        /\ \A j \in 1 .. Len(front) + Len(rest) :
              (front \o rest)[j] = IF j <= Len(front) THEN front[j] ELSE rest[j - Len(front)]
    BY <1>2, <1>3
  <2>2. Len(front) + Len(rest) = Len(q) - 1
    BY <1>1, <1>2, <1>3
  <2>3. \A j \in 1 .. Len(q) - 1 : (j <= i - 1 <=> j < i) /\ j - (i - 1) = j - i + 1
    BY <1>1
  <2> QED
    BY <1>2, <2>1, <2>2, <2>3
<1>5. RemoveAt(q, i) = front \o rest
  BY DEF RemoveAt, front, rest
<1>6. ASSUME NEW j \in 1 .. Len(q) - 1
      PROVE  (front \o rest)[j] = IF j < i THEN q[j] ELSE q[j + 1]
  <2>1. CASE j < i
    <3>1. j \in 1 .. i - 1
      BY <1>1, <2>1
    <3> QED
      BY <1>2, <1>4, <2>1, <3>1
  <2>2. CASE ~(j < i)
    <3>1. j - i + 1 \in 1 .. Len(q) - i /\ i + (j - i + 1) = j + 1
      BY <1>1, <2>2
    <3> QED
      BY <1>3, <1>4, <2>2, <3>1
  <2> QED
    BY <2>1, <2>2
<1> QED
  BY <1>1, <1>4, <1>5, <1>6
-----------------------------------------------------------------------------
(* Type correctness.                                                       *)

LEMMA ControlKinds ==
    ASSUME NEW c \in Controls
    PROVE  \/ c.set = "edit" /\ c.to \in Layers
           \/ c.set = "mode" /\ c.to \in Modes
           \/ c.set = "split" /\ c.to \in Splits
           \/ /\ c.set = "param" /\ c.param \in Params /\ c.to \in Values
              /\ c.target = Edit \/ c.target.names \in Layers
BY DEF Controls, TopologyControls, Updates, Targets, SetEditLayer, SetLayerMode,
       SetSplitPoint, SetParam, Edit, Explicit

LEMMA ApplyTypes ==
    ASSUME NEW e \in Engines, NEW c \in Controls
    PROVE  /\ Apply(e, c) \in Engines
           /\ Apply(e, c).mode = IF c.set = "mode" THEN c.to ELSE e.mode
           /\ Apply(e, c).split = IF c.set = "split" THEN c.to ELSE e.split
<1>1. CASE c.set = "edit"
  BY <1>1, ControlKinds DEF Apply, Engines
<1>2. CASE c.set = "mode"
  BY <1>2, ControlKinds DEF Apply, Engines
<1>3. CASE c.set = "split"
  BY <1>3, ControlKinds DEF Apply, Engines
<1>4. CASE c.set = "param"
  <2> DEFINE layer == IF c.target = Edit THEN e.edit ELSE c.target.names
  <2>1. layer \in Layers /\ c.param \in Params /\ c.to \in Values
    BY <1>4, ControlKinds DEF Engines
  <2>2. Apply(e, c) = [e EXCEPT !.value[layer][c.param] = c.to]
    BY <1>4 DEF Apply
  <2> HIDE DEF layer
  <2>3. [e.value EXCEPT ![layer][c.param] = c.to] \in [Layers -> [Params -> Values]]
    BY <2>1 DEF Engines
  <2>4. [e EXCEPT !.value[layer][c.param] = c.to]
           = [e EXCEPT !.value = [e.value EXCEPT ![layer][c.param] = c.to]]
    BY DEF Engines
  <2> QED
    BY <1>4, <2>2, <2>3, <2>4 DEF Engines
<1> QED
  BY <1>1, <1>2, <1>3, <1>4, ControlKinds

LEMMA TypeInit == Init => TypeOK
<1> SUFFICES ASSUME Init PROVE TypeOK
  OBVIOUS
<1>1. /\ (CHOOSE l \in Layers : TRUE) \in Layers /\ (CHOOSE m \in Modes : TRUE) \in Modes
      /\ (CHOOSE s \in Splits : TRUE) \in Splits /\ (CHOOSE v \in Values : TRUE) \in Values
  OBVIOUS
<1>2. engine \in Engines
  BY <1>1 DEF Init, Engines
<1>3. promised \in Engines
  BY <1>2 DEF Init
<1>4. queue \in Seq(Controls) /\ Len(queue) <= Capacity
  BY DEF Init
<1> QED
  BY <1>2, <1>3, <1>4 DEF Init, TypeOK

\* A control that finds a place finds it in the queue, held by one of its kind.
LEMMA PlaceFound ==
    ASSUME TypeOK, NEW c \in Controls, Places(c) # {}
    PROVE  /\ Min(Places(c)) \in DOMAIN queue
           /\ queue[Min(Places(c))].set = c.set
<1>1. Places(c) \in SUBSET Nat
  BY DEF Places, TypeOK
<1>2. Min(Places(c)) \in Places(c)
  BY <1>1, MinExists
<1> QED
  BY <1>2 DEF Places, ReplaceableSameField

\* What a layer control pushes out is a param.
LEMMA EvictableFound ==
    ASSUME TypeOK, Evictable # {}
    PROVE  /\ Min(Evictable) \in DOMAIN queue
           /\ queue[Min(Evictable)].set = "param"
           /\ queue[Min(Evictable)].param \in Params
<1>1. Evictable \in SUBSET Nat
  BY DEF Evictable, TypeOK
<1>2. Min(Evictable) \in Evictable
  BY <1>1, MinExists
<1>3. queue[Min(Evictable)] \in Controls
  BY <1>2 DEF Evictable, TypeOK
<1> QED
  BY <1>2, <1>3, ControlKinds DEF Evictable, IsTopologyControl

LEMMA TypeStep == TypeOK /\ [Next]_vars => TypeOK'
<1> SUFFICES ASSUME TypeOK, [Next]_vars PROVE TypeOK'
  OBVIOUS
<1>0. queue \in Seq(Controls) /\ Len(queue) <= Capacity
  BY DEF TypeOK
<1>1. CASE TryReceive
  <2>1. queue' \in Seq(Controls) /\ Len(queue') <= Capacity
    BY <1>0, <1>1, TailElements DEF TryReceive
  <2>2. engine' \in Engines
    BY <1>0, <1>1, TailElements, ApplyTypes DEF TryReceive, TypeOK
  <2> QED
    BY <1>1, <2>1, <2>2 DEF TryReceive, TypeOK
<1>2. ASSUME NEW c \in Controls, TrySend(c) PROVE TypeOK'
  <2>0. Apply(promised, c) \in Engines
    BY ApplyTypes DEF TypeOK
  <2>1. CASE Replace(c)
    <3>1. Min(Places(c)) \in DOMAIN queue
      BY <2>1, PlaceFound DEF Replace
    <3>2. queue' \in Seq(Controls) /\ Len(queue') <= Capacity
      BY <1>0, <2>1, <3>1, ReplaceElements DEF Replace
    <3>3. overtaken' \subseteq Params
      <4>1. overtaken' = overtaken \/ (c.set = "param" /\ overtaken' = overtaken \cup {c.param})
        BY <2>1 DEF Replace, Aliases
      <4> QED
        BY <4>1, ControlKinds DEF TypeOK
    <3>4. editSwapped' \in BOOLEAN
      BY <2>1 DEF Replace
    <3> QED
      BY <2>0, <2>1, <3>2, <3>3, <3>4 DEF Replace, TypeOK
  <2>2. CASE Enqueue(c)
    <3>1. queue' \in Seq(Controls) /\ Len(queue') <= Capacity
      <4>1. Len(queue) < Capacity /\ queue' = Append(queue, c)
        BY <1>0, <2>2 DEF Enqueue, Full
      <4> QED
        BY <1>0, <4>1, AppendElements
    <3> QED
      BY <2>0, <2>2, <3>1 DEF Enqueue, TypeOK
  <2>3. CASE Evict(c)
    <3>1. /\ Min(Evictable) \in DOMAIN queue
          /\ queue[Min(Evictable)].param \in Params
      BY <2>3, EvictableFound DEF Evict
    <3>2. queue' \in Seq(Controls) /\ Len(queue') <= Capacity
      <4>1. queue' = Append(RemoveAt(queue, Min(Evictable)), c)
        BY <2>3 DEF Evict
      <4>2. /\ RemoveAt(queue, Min(Evictable)) \in Seq(Controls)
            /\ Len(RemoveAt(queue, Min(Evictable))) = Len(queue) - 1
        BY <1>0, <3>1, RemoveElements
      <4> QED
        BY <1>0, <4>1, <4>2, AppendElements
    <3> QED
      BY <2>0, <2>3, <3>1, <3>2 DEF Evict, TypeOK
  <2>4. CASE Refuse(c)
    BY <2>4 DEF Refuse, vars, TypeOK
  <2> QED
    BY <1>2, <2>1, <2>2, <2>3, <2>4 DEF TrySend
<1>3. CASE UNCHANGED vars
  BY <1>3 DEF vars, TypeOK
<1> QED
  BY <1>1, <1>2, <1>3 DEF Next

\* The queue never grows past its capacity and never holds anything but controls, and
\* the engines stay engines.
THEOREM TypeCorrect == Spec => []TypeOK
BY TypeInit, TypeStep, PTL DEF Spec
-----------------------------------------------------------------------------
(* The mode and the split point.                                           *)

\* Stands, of any queue: no control that sets f waits, or one does and sets last.
NoneWaits(q, f) == \A i \in DOMAIN q : q[i].set # f
OneWaits(q, f, last) ==
    \E i \in DOMAIN q :
        /\ q[i].set = f /\ q[i].to = last
        /\ \A j \in DOMAIN q : q[j].set = f => j = i
StandsIn(q, f, now, last) == (NoneWaits(q, f) /\ now = last) \/ OneWaits(q, f, last)

LEMMA StandsParts ==
    ASSUME NEW f, NEW now, NEW last
    PROVE  Stands(f, now, last) <=> StandsIn(queue, f, now, last)
BY DEF Stands, StandsIn, NoneWaits, OneWaits

\* A control for f that takes the place of one keeps it alone; another disturbs nothing.
LEMMA ReplaceStands ==
    ASSUME NEW q \in Seq(Controls), NEW i \in DOMAIN q, NEW c \in Controls, q[i].set = c.set,
           NEW f, NEW now, NEW last, StandsIn(q, f, now, last)
    PROVE  StandsIn(ReplaceAt(q, i, c), f, now, IF c.set = f THEN c.to ELSE last)
<1> DEFINE r == ReplaceAt(q, i, c)
<1>1. /\ DOMAIN r = DOMAIN q /\ r[i] = c
      /\ \A j \in DOMAIN q : j # i => r[j] = q[j]
  BY ReplaceElements
<1> HIDE DEF r
<1>2. \A j \in DOMAIN q : r[j].set = q[j].set
  BY <1>1
<1>3. CASE c.set = f
  <2>1. \A j \in DOMAIN q : q[j].set = f => j = i
    BY <1>3 DEF StandsIn, NoneWaits, OneWaits
  <2> QED
    BY <1>1, <1>2, <1>3, <2>1 DEF r, StandsIn, OneWaits
<1>4. CASE c.set # f
  <2>1. CASE NoneWaits(q, f) /\ now = last
    BY <1>1, <1>2, <1>4, <2>1 DEF r, StandsIn, NoneWaits
  <2>2. CASE OneWaits(q, f, last)
    <3>1. PICK k \in DOMAIN q : /\ q[k].set = f /\ q[k].to = last
                                /\ \A j \in DOMAIN q : q[j].set = f => j = k
      BY <2>2 DEF OneWaits
    <3>2. k # i /\ r[k] = q[k]
      BY <1>1, <1>4, <3>1
    <3>3. OneWaits(r, f, last)
      BY <1>1, <1>2, <3>1, <3>2 DEF OneWaits
    <3> QED
      BY <1>4, <3>3 DEF r, StandsIn
  <2> QED
    BY <2>1, <2>2 DEF StandsIn
<1> QED
  BY <1>3, <1>4

\* A control for f that queues up where none waits is alone; another disturbs nothing.
LEMMA AppendStands ==
    ASSUME NEW q \in Seq(Controls), NEW c \in Controls,
           NEW f, NEW now, NEW last, StandsIn(q, f, now, last),
           c.set = f => NoneWaits(q, f)
    PROVE  StandsIn(Append(q, c), f, now, IF c.set = f THEN c.to ELSE last)
<1> DEFINE r == Append(q, c)
<1>1. /\ DOMAIN r = 1 .. Len(q) + 1 /\ DOMAIN q = 1 .. Len(q) /\ Len(q) \in Nat
      /\ \A i \in DOMAIN q : r[i] = q[i]
      /\ r[Len(q) + 1] = c
  BY AppendElements
<1> HIDE DEF r
<1>2. \A j \in DOMAIN r : j \in DOMAIN q \/ j = Len(q) + 1
  BY <1>1
<1>3. Len(q) + 1 \in DOMAIN r /\ DOMAIN q \subseteq DOMAIN r
  BY <1>1
<1>4. CASE c.set = f
  <2>1. \A j \in DOMAIN r : r[j].set = f => j = Len(q) + 1
    BY <1>1, <1>2, <1>4 DEF NoneWaits
  <2> QED
    BY <1>1, <1>3, <1>4, <2>1 DEF r, StandsIn, OneWaits
<1>5. CASE c.set # f
  <2>1. CASE NoneWaits(q, f) /\ now = last
    BY <1>1, <1>2, <1>5, <2>1 DEF r, StandsIn, NoneWaits
  <2>2. CASE OneWaits(q, f, last)
    <3>1. PICK k \in DOMAIN q : /\ q[k].set = f /\ q[k].to = last
                                /\ \A j \in DOMAIN q : q[j].set = f => j = k
      BY <2>2 DEF OneWaits
    <3>2. \A j \in DOMAIN r : r[j].set = f => j = k
      BY <1>1, <1>2, <1>5, <3>1
    <3>3. OneWaits(r, f, last)
      BY <1>1, <1>3, <3>1, <3>2 DEF OneWaits
    <3> QED
      BY <1>5, <3>3 DEF r, StandsIn
  <2> QED
    BY <2>1, <2>2 DEF StandsIn
<1> QED
  BY <1>4, <1>5

\* Pushing out a control that does not set f leaves those that do.
LEMMA RemoveStands ==
    ASSUME NEW q \in Seq(Controls), NEW i \in DOMAIN q,
           NEW f, NEW now, NEW last, StandsIn(q, f, now, last), q[i].set # f
    PROVE  /\ StandsIn(RemoveAt(q, i), f, now, last)
           /\ NoneWaits(q, f) => NoneWaits(RemoveAt(q, i), f)
<1> DEFINE r == RemoveAt(q, i)
           Old(j) == IF j < i THEN j ELSE j + 1
           New(k) == IF k < i THEN k ELSE k - 1
<1>0. DOMAIN q = 1 .. Len(q) /\ Len(q) \in Nat /\ i \in 1 .. Len(q)
  OBVIOUS
<1>1. /\ DOMAIN q = 1 .. Len(q) /\ Len(q) \in Nat /\ i \in 1 .. Len(q)
      /\ DOMAIN r = 1 .. Len(q) - 1
      /\ \A j \in 1 .. Len(q) - 1 : r[j] = IF j < i THEN q[j] ELSE q[j + 1]
  <2> HIDE DEF r
  <2>1. r = RemoveAt(q, i)
    BY DEF r
  <2> QED
    BY <1>0, <2>1, RemoveElements
<1> HIDE DEF r
<1>2. \A j \in DOMAIN r : Old(j) \in DOMAIN q /\ r[j] = q[Old(j)]
  BY <1>1
<1>3. \A k \in DOMAIN q : k # i => New(k) \in DOMAIN r /\ Old(New(k)) = k
  BY <1>1
<1>4. \A j \in DOMAIN r, k \in DOMAIN q : Old(j) = k => j = New(k)
  BY <1>1
<1> HIDE DEF Old, New
<1>5. NoneWaits(q, f) => NoneWaits(r, f)
  BY <1>2 DEF NoneWaits
<1>6. ASSUME OneWaits(q, f, last) PROVE OneWaits(r, f, last)
  <2>1. PICK k \in DOMAIN q : /\ q[k].set = f /\ q[k].to = last
                              /\ \A j \in DOMAIN q : q[j].set = f => j = k
    BY <1>6 DEF OneWaits
  <2>2. k # i
    BY <2>1
  <2>3. New(k) \in DOMAIN r /\ r[New(k)] = q[k]
    BY <1>2, <1>3, <2>2
  <2>4. \A j \in DOMAIN r : r[j].set = f => j = New(k)
    BY <1>2, <1>4, <2>1
  <2> QED
    BY <2>1, <2>3, <2>4 DEF OneWaits
<1> QED
  BY <1>5, <1>6 DEF r, StandsIn

\* What is taken from the queue is applied.
LEMMA TailStands ==
    ASSUME NEW q \in Seq(Controls), q # <<>>,
           NEW f, NEW now, NEW last, StandsIn(q, f, now, last)
    PROVE  StandsIn(Tail(q), f, IF Head(q).set = f THEN Head(q).to ELSE now, last)
<1> DEFINE r == Tail(q)
           c == Head(q)
<1>1. /\ DOMAIN r = 1 .. Len(q) - 1 /\ DOMAIN q = 1 .. Len(q) /\ Len(q) \in Nat /\ Len(q) > 0
      /\ \A i \in 1 .. Len(q) - 1 : r[i] = q[i + 1]
      /\ c = q[1]
  BY TailElements
<1> HIDE DEF r, c
<1>2. \A j \in DOMAIN r : j + 1 \in DOMAIN q /\ j + 1 # 1 /\ r[j] = q[j + 1]
  BY <1>1
<1>3. \A k \in DOMAIN q : k # 1 => k - 1 \in DOMAIN r /\ r[k - 1] = q[k]
  BY <1>1
<1>4. \A j \in DOMAIN r : j \in Nat
  BY <1>1
<1>5. 1 \in DOMAIN q /\ DOMAIN q \subseteq Nat
  BY <1>1
<1>6. CASE NoneWaits(q, f) /\ now = last
  <2>1. c.set # f /\ NoneWaits(r, f)
    BY <1>1, <1>2, <1>5, <1>6 DEF NoneWaits
  <2> QED
    BY <1>6, <2>1 DEF r, c, StandsIn
<1>7. CASE OneWaits(q, f, last)
  <2>1. PICK k \in DOMAIN q : /\ q[k].set = f /\ q[k].to = last
                              /\ \A j \in DOMAIN q : q[j].set = f => j = k
    BY <1>7 DEF OneWaits
  <2>2. CASE k = 1
    <3>1. c.set = f /\ c.to = last
      BY <1>1, <2>1, <2>2
    <3>2. NoneWaits(r, f)
      BY <1>2, <2>1, <2>2 DEF NoneWaits
    <3> QED
      BY <3>1, <3>2 DEF r, c, StandsIn
  <2>3. CASE k # 1
    <3>1. c.set # f
      BY <1>1, <1>5, <2>1, <2>3
    <3>2. \A j \in DOMAIN r : r[j].set = f => j = k - 1
      BY <1>2, <1>4, <1>5, <2>1
    <3>3. OneWaits(r, f, last)
      BY <1>3, <2>1, <2>3, <3>2 DEF OneWaits
    <3> QED
      BY <3>1, <3>3 DEF r, c, StandsIn
  <2> QED
    BY <2>2, <2>3
<1> QED
  BY <1>6, <1>7 DEF StandsIn

\* Nothing keeps a mode or a split point from the place of an older one.
LEMMA NoPlaceNoneWaits ==
    ASSUME TypeOK, NEW c \in Controls, Places(c) = {}, c.set \in {"mode", "split"}
    PROVE  NoneWaits(queue, c.set)
BY DEF Places, NoneWaits, ReplaceableSameField, ReplacementPreservesEditOrder, UsesEditTarget

\* One field of the engine, through one step: f is "mode" or "split", of the engine
\* and of what was promised before and after.
LEMMA SendStands ==
    ASSUME TypeOK, NEW c \in Controls, Replace(c) \/ Enqueue(c) \/ Evict(c),
           NEW f \in {"mode", "split"}, NEW now, NEW last, StandsIn(queue, f, now, last)
    PROVE  StandsIn(queue', f, now, IF c.set = f THEN c.to ELSE last)
<1>0. queue \in Seq(Controls)
  BY DEF TypeOK
<1>1. CASE Replace(c)
  <2>1. /\ Min(Places(c)) \in DOMAIN queue
        /\ queue[Min(Places(c))].set = c.set
    BY <1>1, PlaceFound DEF Replace
  <2>2. queue' = ReplaceAt(queue, Min(Places(c)), c)
    BY <1>1 DEF Replace
  <2> QED
    BY <1>0, <2>1, <2>2, ReplaceStands
<1>2. CASE Enqueue(c)
  <2>1. c.set = f => NoneWaits(queue, f)
    BY <1>2, NoPlaceNoneWaits DEF Enqueue
  <2>2. queue' = Append(queue, c)
    BY <1>2 DEF Enqueue
  <2> QED
    BY <1>0, <2>1, <2>2, AppendStands
<1>3. CASE Evict(c)
  <2> DEFINE i == Min(Evictable)
             r == RemoveAt(queue, i)
  <2>1. i \in DOMAIN queue /\ queue[i].set # f
    BY <1>3, EvictableFound DEF Evict
  <2>2. c.set = f => NoneWaits(queue, f)
    BY <1>3, NoPlaceNoneWaits DEF Evict
  <2>3. queue' = Append(r, c)
    BY <1>3 DEF Evict
  <2> HIDE DEF i
  <2>4. r \in Seq(Controls)
    BY <1>0, <2>1, RemoveElements
  <2>5. StandsIn(r, f, now, last) /\ (c.set = f => NoneWaits(r, f))
    BY <1>0, <2>1, <2>2, RemoveStands
  <2> HIDE DEF r
  <2> QED
    BY <2>3, <2>4, <2>5, AppendStands
<1> QED
  BY <1>1, <1>2, <1>3

LEMMA ModeAndSplitStep ==
    TypeOK /\ ModeAndSplitStand /\ [Next]_vars => ModeAndSplitStand'
<1> SUFFICES ASSUME TypeOK, ModeAndSplitStand, [Next]_vars
             PROVE  /\ StandsIn(queue', "mode", engine'.mode, promised'.mode)
                    /\ StandsIn(queue', "split", engine'.split, promised'.split)
  BY DEF ModeAndSplitStand, Stands, StandsIn, NoneWaits, OneWaits
<1>0. /\ queue \in Seq(Controls) /\ engine \in Engines /\ promised \in Engines
      /\ StandsIn(queue, "mode", engine.mode, promised.mode)
      /\ StandsIn(queue, "split", engine.split, promised.split)
  BY StandsParts DEF TypeOK, ModeAndSplitStand
<1>1. CASE TryReceive
  <2>1. /\ queue # <<>> /\ queue' = Tail(queue) /\ promised' = promised
        /\ engine' = Apply(engine, Head(queue)) /\ Head(queue) \in Controls
    BY <1>0, <1>1, TailElements DEF TryReceive
  <2>2. /\ engine'.mode = IF Head(queue).set = "mode" THEN Head(queue).to ELSE engine.mode
        /\ engine'.split = IF Head(queue).set = "split" THEN Head(queue).to ELSE engine.split
    BY <1>0, <2>1, ApplyTypes
  <2> QED
    BY <1>0, <2>1, <2>2, TailStands
<1>2. ASSUME NEW c \in Controls, Replace(c) \/ Enqueue(c) \/ Evict(c)
      PROVE  /\ StandsIn(queue', "mode", engine'.mode, promised'.mode)
             /\ StandsIn(queue', "split", engine'.split, promised'.split)
  <2>1. engine' = engine /\ promised' = Apply(promised, c)
    BY <1>2 DEF Replace, Enqueue, Evict
  <2>2. /\ promised'.mode = IF c.set = "mode" THEN c.to ELSE promised.mode
        /\ promised'.split = IF c.set = "split" THEN c.to ELSE promised.split
    BY <1>0, <2>1, ApplyTypes
  <2>3. StandsIn(queue', "mode", engine.mode, IF c.set = "mode" THEN c.to ELSE promised.mode)
    BY <1>0, <1>2, SendStands
  <2>4. StandsIn(queue', "split", engine.split,
                 IF c.set = "split" THEN c.to ELSE promised.split)
    BY <1>0, <1>2, SendStands
  <2> QED
    BY <2>1, <2>2, <2>3, <2>4
<1>3. CASE UNCHANGED vars
  BY <1>0, <1>3 DEF vars
<1>4. ASSUME NEW c \in Controls, Refuse(c) PROVE UNCHANGED vars
  BY <1>4 DEF Refuse
<1> QED
  BY <1>1, <1>2, <1>3, <1>4 DEF Next, TrySend

\* However controls replace and evict each other, the mode and the split point accepted
\* last wait in the queue, once each, or are in force.
THEOREM ModeAndSplitAlwaysStand == Spec => []ModeAndSplitStand
<1>1. Init => ModeAndSplitStand
  BY DEF Init, ModeAndSplitStand, Stands
<1> QED
  BY <1>1, TypeInit, TypeStep, ModeAndSplitStep, PTL DEF Spec
-----------------------------------------------------------------------------
(* What applying a queue of controls does.                                 *)

\* at goes through the engine states of applying q to e, one control at a time.
AppliesThrough(at, e, q) ==
    /\ at \in [0 .. Len(q) -> Engines] /\ at[0] = e
    /\ \A i \in 1 .. Len(q) : at[i] = Apply(at[i - 1], q[i])

\* Applied, a fold, goes through the states one by one.
LEMMA AppliedThrough ==
    ASSUME NEW q \in Seq(Controls), NEW e \in Engines
    PROVE  \E at : AppliesThrough(at, e, q) /\ Applied(e, q) = at[Len(q)]
<1> DEFINE n == Len(q)
           step == [i \in 1 .. n |-> [x \in Engines |-> Apply(x, q[i])]]
           Folds(g) == g = [s \in SUBSET DOMAIN q |->
                               IF s = {} THEN e ELSE Apply(g[s \ {Max(s)}], q[Max(s)])]
           fold == CHOOSE g : Folds(g)
<1>1. n \in Nat /\ DOMAIN q = 1 .. n /\ \A i \in 1 .. n : q[i] \in Controls
  OBVIOUS
<1>2. step \in [1 .. n -> [Engines -> Engines]]
  BY <1>1, ApplyTypes
<1> HIDE DEF n
<1>3. PICK g : FoldTable(g, Engines, e, n, step)
  <2> HIDE DEF step, Folds
  <2> QED
    BY <1>1, <1>2, FoldExists
<1>4. Folds(g)
  <2>1. ASSUME NEW s \in SUBSET (1 .. n), s # {}
        PROVE  g[s] = Apply(g[s \ {Max(s)}], q[Max(s)])
    BY <1>3, <2>1 DEF FoldTable
  <2> HIDE DEF step
  <2> QED
    BY <1>1, <1>3, <2>1 DEF FoldTable
<1>5. Folds(fold)
  <2> HIDE DEF Folds
  <2> QED
    BY <1>4
<1>6. Applied(e, q) = fold[1 .. n]
  BY <1>1 DEF Applied, FoldLeft, MapThenFoldSet
<1>7. ASSUME NEW s \in SUBSET (1 .. n), s # {}, fold[s \ {Max(s)}] \in Engines
      PROVE  fold[s] = step[Max(s)][fold[s \ {Max(s)}]]
  <2>1. Max(s) \in 1 .. n
    BY <1>3, <1>7 DEF FoldTable
  <2>2. fold[s] = Apply(fold[s \ {Max(s)}], q[Max(s)])
    <3> HIDE DEF fold
    <3> QED
      BY <1>1, <1>5, <1>7
  <2> HIDE DEF fold
  <2> QED
    BY <1>7, <2>1, <2>2
<1>8. FoldsBy(fold, Engines, e, n, step)
  <2> HIDE DEF fold, step
  <2> QED
    BY <1>5, <1>7 DEF FoldsBy
<1>9. PICK at : Through(at, Engines, e, n, step) /\ at[n] = fold[1 .. n]
  <2> HIDE DEF step, fold, Folds
  <2> QED
    BY <1>1, <1>2, <1>8, FoldReaches
<1>10. ASSUME NEW i \in 1 .. n PROVE at[i] = Apply(at[i - 1], q[i])
  <2>1. i - 1 \in 0 .. n
    BY <1>1
  <2> QED
    BY <1>1, <1>9, <2>1 DEF Through
<1> HIDE DEF fold
<1>11. AppliesThrough(at, e, q)
  BY <1>9, <1>10 DEF AppliesThrough, Through, n
<1> QED
  BY <1>6, <1>9, <1>11 DEF n

\* Two ways through the first controls that are alike go through the same states.
LEMMA AppliesAlike ==
    ASSUME NEW q \in Seq(Controls), NEW r \in Seq(Controls), NEW e,
           NEW at, NEW bt, AppliesThrough(at, e, q), AppliesThrough(bt, e, r),
           NEW m \in Nat, m <= Len(q), m <= Len(r), \A i \in 1 .. m : q[i] = r[i]
    PROVE  \A i \in 0 .. m : at[i] = bt[i]
<1> DEFINE S == {i \in Nat : i <= m => at[i] = bt[i]}
<1>1. 0 \in S
  BY DEF AppliesThrough
<1>2. ASSUME NEW i \in Nat, i \in S PROVE i + 1 \in S
  <2> SUFFICES ASSUME i + 1 <= m PROVE at[i + 1] = bt[i + 1]
    OBVIOUS
  <2>1. /\ i + 1 \in 1 .. Len(q) /\ i + 1 \in 1 .. Len(r)
        /\ i + 1 \in 1 .. m /\ (i + 1) - 1 = i /\ at[i] = bt[i]
    BY <1>2
  <2> QED
    BY <2>1 DEF AppliesThrough
<1> HIDE DEF S
<1>3. Nat \subseteq S
  BY <1>1, <1>2, Naturals
<1> QED
  BY <1>3 DEF S

LEMMA AppliedIs ==
    ASSUME NEW q \in Seq(Controls), NEW e \in Engines, NEW at, AppliesThrough(at, e, q)
    PROVE  Applied(e, q) = at[Len(q)] /\ Applied(e, q) \in Engines
<1>1. PICK bt : AppliesThrough(bt, e, q) /\ Applied(e, q) = bt[Len(q)]
  BY AppliedThrough
<1>2. Len(q) \in Nat /\ Len(q) \in 0 .. Len(q)
  OBVIOUS
<1>3. at[Len(q)] = bt[Len(q)]
  BY <1>1, <1>2, AppliesAlike
<1> QED
  BY <1>1, <1>2, <1>3 DEF AppliesThrough

LEMMA AppliedAppend ==
    ASSUME NEW q \in Seq(Controls), NEW e \in Engines, NEW c \in Controls
    PROVE  Applied(e, Append(q, c)) = Apply(Applied(e, q), c)
<1> DEFINE r == Append(q, c)
           n == Len(q)
<1>1. /\ r \in Seq(Controls) /\ Len(r) = n + 1 /\ n \in Nat /\ r[n + 1] = c
      /\ \A i \in 1 .. n : r[i] = q[i]
  BY AppendElements
<1>2. PICK at : AppliesThrough(at, e, q) /\ Applied(e, q) = at[n]
  BY AppliedThrough
<1>3. PICK bt : AppliesThrough(bt, e, r) /\ Applied(e, r) = bt[n + 1]
  BY <1>1, AppliedThrough
<1> HIDE DEF r, n
<1>4. at[n] = bt[n]
  BY <1>1, <1>2, <1>3, AppliesAlike, n <= Len(q), n \in 0 .. n DEF n
<1>5. bt[n + 1] = Apply(bt[n], c)
  BY <1>1, <1>3, n + 1 \in 1 .. n + 1, (n + 1) - 1 = n DEF AppliesThrough
<1> QED
  BY <1>2, <1>3, <1>4, <1>5 DEF r

LEMMA AppliedTail ==
    ASSUME NEW q \in Seq(Controls), q # <<>>, NEW e \in Engines
    PROVE  Applied(Apply(e, Head(q)), Tail(q)) = Applied(e, q)
<1> DEFINE r == Tail(q)
           n == Len(q)
<1>1. /\ r \in Seq(Controls) /\ Len(r) = n - 1 /\ n \in Nat /\ n > 0 /\ Head(q) = q[1]
      /\ \A i \in 1 .. n - 1 : r[i] = q[i + 1]
      /\ Head(q) \in Controls
  BY TailElements
<1>2. PICK at : AppliesThrough(at, e, q) /\ Applied(e, q) = at[n]
  BY AppliedThrough
<1> HIDE DEF r, n
<1> DEFINE bt == [i \in 0 .. n - 1 |-> at[i + 1]]
<1>3. at[1] = Apply(e, Head(q))
  BY <1>1, <1>2, 1 \in 1 .. n, 1 - 1 = 0 DEF AppliesThrough, n
<1>4. bt \in [0 .. Len(r) -> Engines] /\ bt[0] = Apply(e, Head(q))
  BY <1>1, <1>2, <1>3 DEF AppliesThrough, n
<1>5. ASSUME NEW i \in 1 .. Len(r) PROVE bt[i] = Apply(bt[i - 1], r[i])
  <2>1. /\ i \in 0 .. n - 1 /\ i - 1 \in 0 .. n - 1 /\ i + 1 \in 1 .. n
        /\ (i + 1) - 1 = i /\ (i - 1) + 1 = i /\ r[i] = q[i + 1]
    BY <1>1
  <2>2. at[i + 1] = Apply(at[i], q[i + 1])
    BY <1>2, <2>1 DEF AppliesThrough, n
  <2> QED
    BY <2>1, <2>2
<1>6. bt[Len(r)] = at[n]
  BY <1>1
<1> HIDE DEF bt
<1>7. AppliesThrough(bt, Apply(e, Head(q)), r)
  BY <1>4, <1>5 DEF AppliesThrough
<1> QED
  BY <1>1, <1>2, <1>6, <1>7, AppliedIs, ApplyTypes DEF r
-----------------------------------------------------------------------------
(* Order.                                                                  *)

\* Two engines agree, but for the params of S, and with swapped for all but mode and split.
Agree(x, y, S, swapped) ==
    /\ x.mode = y.mode /\ x.split = y.split
    /\ ~swapped =>
        /\ x.edit = y.edit
        /\ \A l \in Layers, p \in Params \ S : x.value[l][p] = y.value[l][p]

LEMMA AgreeOrder ==
    ASSUME NEW x, NEW y, NEW S, NEW swapped \in BOOLEAN
    PROVE  /\ Agree(x, x, S, swapped)
           /\ Agree(x, y, S, swapped) => Agree(y, x, S, swapped)
           /\ \A z : Agree(x, y, S, swapped) /\ Agree(y, z, S, swapped) => Agree(x, z, S, swapped)
BY DEF Agree

LEMMA AgreeLess ==
    ASSUME NEW x, NEW y, NEW S, NEW swapped \in BOOLEAN, NEW T, NEW later \in BOOLEAN,
           S \subseteq T, swapped => later, Agree(x, y, S, swapped)
    PROVE  Agree(x, y, T, later)
BY DEF Agree

\* The layer whose value a param control changes.
Names(e, c) == IF c.target = Edit THEN e.edit ELSE c.target.names

LEMMA ApplyFields ==
    ASSUME NEW e \in Engines, NEW c \in Controls
    PROVE  /\ Apply(e, c).mode = IF c.set = "mode" THEN c.to ELSE e.mode
           /\ Apply(e, c).split = IF c.set = "split" THEN c.to ELSE e.split
           /\ Apply(e, c).edit = IF c.set = "edit" THEN c.to ELSE e.edit
           /\ \A l \in Layers, p \in Params :
                 Apply(e, c).value[l][p] =
                    IF c.set = "param" /\ l = Names(e, c) /\ p = c.param
                    THEN c.to ELSE e.value[l][p]
<1>1. CASE c.set = "edit"
  BY <1>1 DEF Apply, Engines
<1>2. CASE c.set = "mode"
  BY <1>2 DEF Apply, Engines
<1>3. CASE c.set = "split"
  BY <1>3 DEF Apply, Engines
<1>4. CASE c.set = "param"
  <2> DEFINE layer == IF c.target = Edit THEN e.edit ELSE c.target.names
             value == [e.value EXCEPT ![layer][c.param] = c.to]
  <2>1. layer \in Layers /\ c.param \in Params /\ c.to \in Values
    BY <1>4, ControlKinds DEF Engines
  <2>2. Apply(e, c) = [e EXCEPT !.value[layer][c.param] = c.to]
    BY <1>4 DEF Apply
  <2>3. layer = Names(e, c)
    BY DEF Names
  <2> HIDE DEF layer
  <2>4. Apply(e, c) = [e EXCEPT !.value = value]
    BY <2>2 DEF Engines
  <2>5. \A l \in Layers, p \in Params :
           value[l][p] = IF l = layer /\ p = c.param THEN c.to ELSE e.value[l][p]
    BY <2>1 DEF Engines
  <2> HIDE DEF value
  <2>6. /\ Apply(e, c).mode = e.mode /\ Apply(e, c).split = e.split
        /\ Apply(e, c).edit = e.edit /\ Apply(e, c).value = value
    BY <2>4 DEF Engines
  <2> QED
    BY <1>4, <2>3, <2>5, <2>6
<1> QED
  BY <1>1, <1>2, <1>3, <1>4, ControlKinds

LEMMA AgreeApply ==
    ASSUME NEW x \in Engines, NEW y \in Engines, NEW c \in Controls,
           NEW S, NEW swapped \in BOOLEAN, Agree(x, y, S, swapped)
    PROVE  Agree(Apply(x, c), Apply(y, c), S, swapped)
<1>1. ~swapped => Names(x, c) = Names(y, c)
  BY DEF Agree, Names
<1> QED
  BY <1>1, ApplyFields DEF Agree

\* What d may do behind a place that c takes.
Yields(d, c, S, swapped) ==
    /\ ReplaceableSameField(d, c) => c.set = "edit" /\ swapped
    /\ Aliases(c, d) => c.param \in S
    /\ UsesEditTarget(c) => d.set # "edit"
    /\ c.set = "edit" => ~UsesEditTarget(d)

\* A control behind the place comes to the same before and after the one that takes it.
LEMMA Commute ==
    ASSUME NEW x \in Engines, NEW c \in Controls, NEW d \in Controls,
           NEW S, NEW swapped \in BOOLEAN, Yields(d, c, S, swapped)
    PROVE  Agree(Apply(Apply(x, c), d), Apply(Apply(x, d), c), S, swapped)
<1> DEFINE a == Apply(x, c)
           b == Apply(x, d)
<1>1. a \in Engines /\ b \in Engines
  BY ApplyTypes
<1>2. /\ Apply(a, d).mode = Apply(b, c).mode
      /\ Apply(a, d).split = Apply(b, c).split
  <2>1. c.set \in {"mode", "split"} => d.set # c.set
    BY DEF Yields, ReplaceableSameField
  <2> QED
    BY <1>1, <2>1, ApplyFields
<1>3. ASSUME ~swapped PROVE Apply(a, d).edit = Apply(b, c).edit
  <2>1. c.set = "edit" => d.set # "edit"
    BY <1>3 DEF Yields, ReplaceableSameField
  <2> QED
    BY <1>1, <2>1, ApplyFields
<1>4. ASSUME ~swapped, NEW l \in Layers, NEW p \in Params \ S
      PROVE  Apply(a, d).value[l][p] = Apply(b, c).value[l][p]
  <2>1. CASE c.set # "param"
    <3>1. d.set = "param" => Names(a, d) = Names(x, d)
      BY <2>1, ApplyFields DEF Names, Yields, UsesEditTarget
    <3> QED
      BY <1>1, <2>1, <3>1, ApplyFields
  <2>2. CASE d.set # "param"
    <3>1. c.set = "param" => Names(b, c) = Names(x, c)
      BY <2>2, ApplyFields DEF Names, Yields, UsesEditTarget
    <3> QED
      BY <1>1, <2>2, <3>1, ApplyFields
  <2>3. CASE c.set = "param" /\ d.set = "param"
    <3>1. Names(a, d) = Names(x, d) /\ Names(b, c) = Names(x, c)
      BY <2>3, ApplyFields DEF Names
    <3>2. CASE c.param # d.param \/ p # c.param
      BY <1>1, <2>3, <3>1, <3>2, ApplyFields
    <3>3. CASE c.param = d.param /\ p = c.param
      <4>1. c.target # d.target /\ c.target # Edit /\ d.target # Edit
        BY <2>3, <3>3 DEF Yields, ReplaceableSameField, Aliases
      <4>2. c.target \in Targets /\ d.target \in Targets
        BY <2>3 DEF Controls, TopologyControls, Updates, SetEditLayer, SetLayerMode,
                    SetSplitPoint, SetParam
      <4>3. c.target.names # d.target.names
        BY <4>1, <4>2 DEF Targets, Explicit
      <4>4. Names(x, c) # Names(x, d)
        BY <4>1, <4>3 DEF Names
      <4> QED
        BY <1>1, <2>3, <3>1, <4>4, ApplyFields
    <3> QED
      BY <3>2, <3>3
  <2> QED
    BY <2>1, <2>2, <2>3
<1> QED
  BY <1>2, <1>3, <1>4 DEF Agree

\* A control that takes the place of one for its field overwrites it.
LEMMA Overwrites ==
    ASSUME NEW x \in Engines, NEW c \in Controls, NEW d \in Controls,
           ReplaceableSameField(d, c)
    PROVE  \A S : Agree(Apply(x, c), Apply(Apply(x, d), c), S, FALSE)
<1>1. Apply(x, d) \in Engines
  BY ApplyTypes
<1>2. c.set = "param" => Names(Apply(x, d), c) = Names(x, c) /\ Names(x, d) = Names(x, c)
                            /\ d.param = c.param
  BY ApplyFields DEF ReplaceableSameField, Names
<1>3. d.set = c.set
  BY DEF ReplaceableSameField
<1> QED
  BY <1>1, <1>2, <1>3, ApplyFields DEF Agree

\* Taking place i comes to the same as coming last, where what is behind yields.
LEMMA ReplaceAgrees ==
    ASSUME NEW q \in Seq(Controls), NEW i \in DOMAIN q, NEW c \in Controls, NEW e \in Engines,
           NEW S, NEW swapped \in BOOLEAN,
           ReplaceableSameField(q[i], c),
           \A j \in DOMAIN q : j > i => Yields(q[j], c, S, swapped)
    PROVE  Agree(Applied(e, ReplaceAt(q, i, c)), Apply(Applied(e, q), c), S, swapped)
<1> DEFINE r == ReplaceAt(q, i, c)
           n == Len(q)
<1>1. /\ n \in Nat /\ DOMAIN q = 1 .. n /\ i \in 1 .. n
      /\ r \in Seq(Controls) /\ Len(r) = n /\ r[i] = c
      /\ \A j \in 1 .. n : j # i => r[j] = q[j]
      /\ \A j \in 1 .. n : q[j] \in Controls
  <2>1. n \in Nat /\ DOMAIN q = 1 .. n /\ i \in 1 .. n /\ \A j \in 1 .. n : q[j] \in Controls
    OBVIOUS
  <2> HIDE DEF r
  <2>2. /\ r \in Seq(Controls) /\ Len(r) = n /\ DOMAIN r = DOMAIN q /\ r[i] = c
        /\ \A j \in DOMAIN q : j # i => r[j] = q[j]
    BY ReplaceElements DEF r
  <2> QED
    BY <2>1, <2>2
<1>2. PICK at : AppliesThrough(at, e, q) /\ Applied(e, q) = at[n]
  BY AppliedThrough
<1>3. PICK bt : AppliesThrough(bt, e, r) /\ Applied(e, r) = bt[n]
  BY <1>1, AppliedThrough
<1> HIDE DEF r, n
<1>4. /\ \A k \in 0 .. n : at[k] \in Engines /\ bt[k] \in Engines
      /\ \A k \in 1 .. n : at[k] = Apply(at[k - 1], q[k])
      /\ \A k \in 1 .. n : bt[k] = Apply(bt[k - 1], r[k])
  BY <1>1, <1>2, <1>3 DEF AppliesThrough, n
<1>5. at[i - 1] = bt[i - 1]
  <2>1. /\ i - 1 \in Nat /\ i - 1 <= Len(q) /\ i - 1 <= Len(r) /\ i - 1 \in 0 .. i - 1
        /\ \A j \in 1 .. i - 1 : q[j] = r[j]
    BY <1>1 DEF n
  <2> QED
    BY <1>1, <1>2, <1>3, <2>1, AppliesAlike
<1>6. Agree(bt[i], Apply(at[i], c), S, swapped)
  <2>1. i - 1 \in 0 .. n /\ at[i] = Apply(at[i - 1], q[i]) /\ bt[i] = Apply(at[i - 1], c)
    BY <1>1, <1>4, <1>5
  <2>2. Agree(bt[i], Apply(at[i], c), S, FALSE)
    BY <1>1, <1>4, <2>1, Overwrites
  <2> QED
    BY <2>2 DEF Agree
<1> DEFINE T == {k \in Nat : i <= k /\ k <= n => Agree(bt[k], Apply(at[k], c), S, swapped)}
<1>7. 0 \in T
  BY <1>1
<1>8. ASSUME NEW k \in Nat, k \in T PROVE k + 1 \in T
  <2> SUFFICES ASSUME i <= k + 1, k + 1 <= n
               PROVE  Agree(bt[k + 1], Apply(at[k + 1], c), S, swapped)
    OBVIOUS
  <2>1. CASE k + 1 = i
    BY <1>6, <2>1
  <2>2. CASE k + 1 # i
    <3>1. /\ k \in 0 .. n /\ k + 1 \in 1 .. n /\ (k + 1) - 1 = k /\ i <= k /\ k <= n
          /\ k + 1 > i /\ k + 1 \in DOMAIN q
      BY <1>1, <2>2
    <3> DEFINE d == q[k + 1]
    <3>2. /\ at[k + 1] = Apply(at[k], d) /\ bt[k + 1] = Apply(bt[k], d) /\ d \in Controls
          /\ at[k] \in Engines /\ bt[k] \in Engines /\ Yields(d, c, S, swapped)
      BY <1>1, <1>4, <2>2, <3>1
    <3>3. Agree(bt[k], Apply(at[k], c), S, swapped)
      BY <1>8, <3>1
    <3> HIDE DEF d
    <3>4. Agree(Apply(bt[k], d), Apply(Apply(at[k], c), d), S, swapped)
      BY <3>2, <3>3, AgreeApply, ApplyTypes
    <3>5. Agree(Apply(Apply(at[k], c), d), Apply(Apply(at[k], d), c), S, swapped)
      BY <3>2, Commute
    <3> QED
      BY <3>2, <3>4, <3>5, AgreeOrder
  <2> QED
    BY <2>1, <2>2
<1> HIDE DEF T
<1>9. Nat \subseteq T
  BY <1>7, <1>8, Naturals
<1>10. Agree(bt[n], Apply(at[n], c), S, swapped)
  BY <1>1, <1>9 DEF T
<1> QED
  BY <1>2, <1>3, <1>10 DEF r

\* A param that is given up costs its own value only.
LEMMA RemoveAgrees ==
    ASSUME NEW q \in Seq(Controls), NEW i \in DOMAIN q, NEW e \in Engines, q[i].set = "param"
    PROVE  Agree(Applied(e, RemoveAt(q, i)), Applied(e, q), {q[i].param}, FALSE)
<1> DEFINE r == RemoveAt(q, i)
           n == Len(q)
           S == {q[i].param}
<1>1. /\ n \in Nat /\ DOMAIN q = 1 .. n /\ i \in 1 .. n
      /\ \A j \in 1 .. n : q[j] \in Controls
  OBVIOUS
<1>2. /\ r \in Seq(Controls) /\ Len(r) = n - 1
      /\ \A j \in 1 .. n - 1 : r[j] = IF j < i THEN q[j] ELSE q[j + 1]
  BY RemoveElements
<1>3. PICK at : AppliesThrough(at, e, q) /\ Applied(e, q) = at[n]
  BY AppliedThrough
<1>4. PICK bt : AppliesThrough(bt, e, r) /\ Applied(e, r) = bt[n - 1]
  BY <1>2, AppliedThrough
<1> HIDE DEF r, n, S
<1>5. /\ \A k \in 0 .. n : at[k] \in Engines
      /\ \A k \in 0 .. n - 1 : bt[k] \in Engines
      /\ \A k \in 1 .. n : at[k] = Apply(at[k - 1], q[k])
      /\ \A k \in 1 .. n - 1 : bt[k] = Apply(bt[k - 1], r[k])
  BY <1>1, <1>2, <1>3, <1>4 DEF AppliesThrough, n
<1>6. at[i - 1] = bt[i - 1]
  <2>1. /\ i - 1 \in Nat /\ i - 1 <= Len(q) /\ i - 1 <= Len(r) /\ i - 1 \in 0 .. i - 1
        /\ \A j \in 1 .. i - 1 : q[j] = r[j]
    BY <1>1, <1>2 DEF n
  <2> QED
    BY <1>1, <1>2, <1>3, <1>4, <2>1, AppliesAlike
<1>7. Agree(bt[i - 1], at[i], S, FALSE)
  <2>1. i - 1 \in 0 .. n /\ at[i] = Apply(at[i - 1], q[i]) /\ at[i - 1] \in Engines
    BY <1>1, <1>5
  <2> QED
    BY <1>1, <1>6, <2>1, ApplyFields DEF Agree, S
<1> DEFINE P(k) == i <= k /\ k <= n => Agree(bt[k - 1], at[k], S, FALSE)
           T == {k \in Nat : P(k)}
<1>8. P(0)
  BY <1>1
<1>9. ASSUME NEW k \in Nat, P(k) PROVE P(k + 1)
  <2> SUFFICES ASSUME i <= k + 1, k + 1 <= n PROVE Agree(bt[(k + 1) - 1], at[k + 1], S, FALSE)
    OBVIOUS
  <2>1. CASE k + 1 = i
    BY <1>7, <2>1
  <2>2. CASE k + 1 # i
    <3>1. /\ k \in 0 .. n /\ k + 1 \in 1 .. n /\ (k + 1) - 1 = k /\ i <= k /\ k <= n
          /\ k \in 1 .. n - 1 /\ k - 1 \in 0 .. n - 1 /\ ~(k < i)
      BY <1>1, <2>2
    <3>2. /\ at[k + 1] = Apply(at[k], q[k + 1]) /\ bt[k] = Apply(bt[k - 1], q[k + 1])
          /\ q[k + 1] \in Controls /\ at[k] \in Engines /\ bt[k - 1] \in Engines
      BY <1>1, <1>2, <1>5, <3>1
    <3>3. Agree(bt[k - 1], at[k], S, FALSE)
      BY <1>9, <3>1
    <3> QED
      BY <3>1, <3>2, <3>3, AgreeApply
  <2> QED
    BY <2>1, <2>2
<1>10. P(n)
  <2> HIDE DEF P
  <2>1. 0 \in T /\ \A k \in Nat : k \in T => k + 1 \in T
    BY <1>8, <1>9
  <2> HIDE DEF T
  <2>2. Nat \subseteq T
    BY <2>1, Naturals
  <2> QED
    BY <1>1, <2>2 DEF T
<1>11. Agree(bt[n - 1], at[n], S, FALSE)
  <2>1. i <= n /\ n <= n
    BY <1>1
  <2> QED
    BY <1>10, <2>1, Zenon
<1> QED
  BY <1>3, <1>4, <1>11 DEF r, S
-----------------------------------------------------------------------------
(* The invariant: two controls wait for one field only where an edit layer *)
(* between them makes them update two layers (or both are edit layers).    *)

Apart(q, i, j) ==
    q[i].set # "edit" /\ ReplaceableSameField(q[i], q[j]) =>
        /\ UsesEditTarget(q[i])
        /\ \E k \in DOMAIN q : i < k /\ k < j /\ q[k].set = "edit"
AllApart(q) == \A i, j \in DOMAIN q : i < j => Apart(q, i, j)

LEMMA SameFieldOrder ==
    ASSUME NEW c, NEW d, ReplaceableSameField(c, d)
    PROVE  /\ ReplaceableSameField(d, c)
           /\ c.set = d.set
           /\ UsesEditTarget(c) <=> UsesEditTarget(d)
           /\ \A e : ReplaceableSameField(c, e) <=> ReplaceableSameField(d, e)
           /\ \A e : ReplaceableSameField(e, c) <=> ReplaceableSameField(e, d)
BY DEF ReplaceableSameField, UsesEditTarget

LEMMA ReplaceApart ==
    ASSUME NEW q \in Seq(Controls), NEW i \in DOMAIN q, NEW c \in Controls,
           ReplaceableSameField(q[i], c), AllApart(q)
    PROVE  AllApart(ReplaceAt(q, i, c))
<1> DEFINE r == ReplaceAt(q, i, c)
<1> HIDE DEF r
<1>1. DOMAIN r = DOMAIN q /\ r[i] = c /\ \A j \in DOMAIN q : j # i => r[j] = q[j]
  BY ReplaceElements DEF r
<1>2. ASSUME NEW j \in DOMAIN q
      PROVE  /\ r[j].set = q[j].set
             /\ UsesEditTarget(r[j]) <=> UsesEditTarget(q[j])
             /\ \A e : ReplaceableSameField(r[j], e) <=> ReplaceableSameField(q[j], e)
             /\ \A e : ReplaceableSameField(e, r[j]) <=> ReplaceableSameField(e, q[j])
  <2>1. CASE j = i
    BY <1>1, <2>1, SameFieldOrder
  <2>2. CASE j # i
    BY <1>1, <2>2
  <2> QED
    BY <2>1, <2>2
<1>3. ASSUME NEW a \in DOMAIN q, NEW b \in DOMAIN q, a < b PROVE Apart(r, a, b)
  <2>1. Apart(q, a, b)
    BY <1>3 DEF AllApart
  <2>2. ReplaceableSameField(r[a], r[b]) <=> ReplaceableSameField(q[a], q[b])
    BY <1>2
  <2> QED
    BY <1>1, <1>2, <2>1, <2>2 DEF Apart
<1> QED
  BY <1>1, <1>3 DEF AllApart, r

LEMMA TailApart ==
    ASSUME NEW q \in Seq(Controls), q # <<>>, AllApart(q)
    PROVE  AllApart(Tail(q))
<1> DEFINE r == Tail(q)
<1> HIDE DEF r
<1>1. /\ DOMAIN r = 1 .. Len(q) - 1 /\ DOMAIN q = 1 .. Len(q) /\ Len(q) \in Nat
      /\ \A i \in 1 .. Len(q) - 1 : r[i] = q[i + 1]
  BY TailElements DEF r
<1>2. ASSUME NEW a \in DOMAIN r, NEW b \in DOMAIN r, a < b PROVE Apart(r, a, b)
  <2>1. /\ a + 1 \in DOMAIN q /\ b + 1 \in DOMAIN q /\ a + 1 < b + 1
        /\ r[a] = q[a + 1] /\ r[b] = q[b + 1]
    BY <1>1, <1>2
  <2>2. Apart(q, a + 1, b + 1)
    BY <2>1 DEF AllApart
  <2>3. ASSUME NEW k \in DOMAIN q, a + 1 < k, k < b + 1, q[k].set = "edit"
        PROVE  /\ k - 1 \in DOMAIN r /\ a < k - 1 /\ k - 1 < b /\ r[k - 1].set = "edit"
    BY <1>1, <2>3
  <2> QED
    BY <2>1, <2>2, <2>3 DEF Apart
<1> QED
  BY <1>2 DEF AllApart, r

LEMMA RemoveApart ==
    ASSUME NEW q \in Seq(Controls), NEW i \in DOMAIN q, q[i].set # "edit", AllApart(q)
    PROVE  AllApart(RemoveAt(q, i))
<1> DEFINE r == RemoveAt(q, i)
           Old(j) == IF j < i THEN j ELSE j + 1
           New(k) == IF k < i THEN k ELSE k - 1
<1> HIDE DEF r
<1>1. /\ DOMAIN q = 1 .. Len(q) /\ Len(q) \in Nat /\ i \in 1 .. Len(q)
      /\ DOMAIN r = 1 .. Len(q) - 1
      /\ \A j \in 1 .. Len(q) - 1 : r[j] = IF j < i THEN q[j] ELSE q[j + 1]
  BY RemoveElements DEF r
<1>2. \A j \in DOMAIN r : Old(j) \in DOMAIN q /\ r[j] = q[Old(j)]
  BY <1>1
<1>3. \A k \in DOMAIN q : k # i => New(k) \in DOMAIN r /\ Old(New(k)) = k
  BY <1>1
<1>4. \A a, b \in DOMAIN r : a < b => Old(a) < Old(b)
  BY <1>1
<1>5. \A a, b \in DOMAIN r, k \in DOMAIN q :
         k # i /\ Old(a) < k /\ k < Old(b) => a < New(k) /\ New(k) < b
  BY <1>1
<1> HIDE DEF Old, New
<1>6. ASSUME NEW a \in DOMAIN r, NEW b \in DOMAIN r, a < b PROVE Apart(r, a, b)
  <2>1. Apart(q, Old(a), Old(b))
    BY <1>2, <1>4, <1>6 DEF AllApart
  <2>2. ASSUME NEW k \in DOMAIN q, Old(a) < k, k < Old(b), q[k].set = "edit"
        PROVE  /\ New(k) \in DOMAIN r /\ a < New(k) /\ New(k) < b /\ r[New(k)].set = "edit"
    <3>1. k # i
      BY <2>2
    <3> QED
      BY <1>2, <1>3, <1>5, <2>2, <3>1
  <2> QED
    BY <1>2, <2>1, <2>2 DEF Apart
<1> QED
  BY <1>6 DEF AllApart, r

LEMMA AppendApart ==
    ASSUME NEW q \in Seq(Controls), NEW c \in Controls, AllApart(q),
           \A i \in DOMAIN q : q[i].set # "edit" /\ ReplaceableSameField(q[i], c) =>
                /\ UsesEditTarget(q[i])
                /\ \E k \in DOMAIN q : i < k /\ q[k].set = "edit"
    PROVE  AllApart(Append(q, c))
<1> DEFINE r == Append(q, c)
<1> HIDE DEF r
<1>1. /\ DOMAIN r = 1 .. Len(q) + 1 /\ DOMAIN q = 1 .. Len(q) /\ Len(q) \in Nat
      /\ \A i \in DOMAIN q : r[i] = q[i]
      /\ r[Len(q) + 1] = c
  BY AppendElements DEF r
<1>2. ASSUME NEW a \in DOMAIN r, NEW b \in DOMAIN r, a < b PROVE Apart(r, a, b)
  <2>1. a \in DOMAIN q /\ r[a] = q[a]
    BY <1>1, <1>2
  <2>2. CASE b \in DOMAIN q
    <3>1. Apart(q, a, b)
      BY <1>2, <2>1, <2>2 DEF AllApart
    <3> QED
      BY <1>1, <2>1, <2>2, <3>1 DEF Apart
  <2>3. CASE b \notin DOMAIN q
    <3>1. r[b] = c /\ \A k \in DOMAIN q : k < b /\ k \in DOMAIN r /\ r[k] = q[k]
      BY <1>1, <2>3
    <3> QED
      BY <2>1, <3>1 DEF Apart
  <2> QED
    BY <2>2, <2>3
<1> QED
  BY <1>2 DEF AllApart, r

\* A control without a place waits behind an edit layer that all for its field precede.
LEMMA NoPlaceApart ==
    ASSUME TypeOK, NEW c \in Controls, Places(c) = {}
    PROVE  \A i \in DOMAIN queue :
              queue[i].set # "edit" /\ ReplaceableSameField(queue[i], c) =>
                /\ UsesEditTarget(queue[i])
                /\ \E k \in DOMAIN queue : i < k /\ queue[k].set = "edit"
<1> SUFFICES ASSUME NEW i \in DOMAIN queue,
                    queue[i].set # "edit", ReplaceableSameField(queue[i], c)
             PROVE  /\ UsesEditTarget(queue[i])
                    /\ \E k \in DOMAIN queue : i < k /\ queue[k].set = "edit"
  OBVIOUS
<1>1. ~ReplacementPreservesEditOrder(i, c)
  BY DEF Places
<1>2. c.set # "edit"
  BY DEF ReplaceableSameField
<1>3. PICK j \in DOMAIN queue : j > i /\ UsesEditTarget(c) /\ queue[j].set = "edit"
  BY <1>1, <1>2 DEF ReplacementPreservesEditOrder
<1>4. i < j
  BY <1>3 DEF TypeOK
<1> QED
  BY <1>3, <1>4, SameFieldOrder

LEMMA OrderReplace ==
    ASSUME TypeOK, QueueKeepsOrder, AllApart(queue), NEW c \in Controls, Replace(c)
    PROVE  QueueKeepsOrder' /\ AllApart(queue')
<1> DEFINE i == Min(Places(c))
           S == evicted \cup overtaken'
           behind == {queue[j] : j \in (i + 1)..Len(queue)}
<1>0. queue \in Seq(Controls) /\ engine \in Engines /\ promised \in Engines
  BY DEF TypeOK
<1>1. i \in Places(c)
  <2>1. Places(c) \in SUBSET Nat /\ Places(c) # {}
    BY DEF Places, TypeOK, Replace
  <2> QED
    BY <2>1, MinExists
<1>2. /\ queue' = ReplaceAt(queue, i, c)
      /\ overtaken' = IF \E d \in behind : Aliases(c, d) THEN overtaken \cup {c.param} ELSE overtaken
      /\ editSwapped' = (editSwapped \/ (c.set = "edit" /\ \E d \in behind : d.set = "edit"))
      /\ promised' = Apply(promised, c) /\ engine' = engine /\ evicted' = evicted
  BY DEF Replace
<1> HIDE DEF i
<1>3. /\ i \in DOMAIN queue /\ ReplaceableSameField(queue[i], c)
      /\ ReplacementPreservesEditOrder(i, c)
  BY <1>1 DEF Places
<1>4. \A j \in DOMAIN queue : j > i => queue[j] \in behind
  BY <1>0, <1>3
<1> HIDE DEF behind
<1>5. editSwapped' \in BOOLEAN /\ (editSwapped => editSwapped')
  BY <1>2 DEF TypeOK
<1>6. ASSUME NEW j \in DOMAIN queue, j > i PROVE Yields(queue[j], c, S, editSwapped')
  <2>1. queue[j] \in behind
    BY <1>4, <1>6
  <2>2. ASSUME ReplaceableSameField(queue[j], c) PROVE c.set = "edit" /\ editSwapped'
    <3>1. CASE c.set = "edit"
      BY <1>2, <2>1, <2>2, <3>1 DEF ReplaceableSameField
    <3>2. CASE c.set # "edit"
      <4>1. /\ ReplaceableSameField(queue[i], queue[j]) /\ queue[i].set # "edit"
            /\ UsesEditTarget(queue[i]) <=> UsesEditTarget(c)
        BY <1>3, <2>2, <3>2, SameFieldOrder
      <4>2. i < j
        BY <1>0, <1>6
      <4>3. Apart(queue, i, j)
        BY <1>3, <4>2 DEF AllApart
      <4>4. PICK k \in DOMAIN queue : i < k /\ queue[k].set = "edit"
        BY <4>1, <4>3 DEF Apart
      <4>5. k > i /\ UsesEditTarget(c)
        BY <1>0, <4>1, <4>3, <4>4 DEF Apart
      <4> QED
        BY <1>3, <4>4, <4>5 DEF ReplacementPreservesEditOrder
    <3> QED
      BY <3>1, <3>2
  <2>3. Aliases(c, queue[j]) => c.param \in S
    BY <1>2, <2>1
  <2>4. /\ UsesEditTarget(c) => queue[j].set # "edit"
        /\ c.set = "edit" => ~UsesEditTarget(queue[j])
    BY <1>3, <1>6 DEF ReplacementPreservesEditOrder
  <2> QED
    BY <2>2, <2>3, <2>4 DEF Yields
<1>7. Agree(Applied(engine, queue'), Apply(Applied(engine, queue), c), S, editSwapped')
  <2> HIDE DEF S
  <2> QED
    BY <1>0, <1>2, <1>3, <1>5, <1>6, ReplaceAgrees
<1>8. Agree(Applied(engine, queue), promised, S, editSwapped')
  <2>1. Agree(Applied(engine, queue), promised, evicted \cup overtaken, editSwapped)
    BY DEF QueueKeepsOrder, Agree
  <2>2. evicted \cup overtaken \subseteq S
    BY <1>2
  <2>3. editSwapped \in BOOLEAN
    BY DEF TypeOK
  <2> HIDE DEF S
  <2> QED
    BY <1>5, <2>1, <2>2, <2>3, AgreeLess
<1> HIDE DEF S
<1>9. Applied(engine, queue) \in Engines
  BY <1>0, AppliedThrough, AppliedIs
<1>10. Agree(Apply(Applied(engine, queue), c), Apply(promised, c), S, editSwapped')
  BY <1>0, <1>5, <1>8, <1>9, AgreeApply
<1>11. Agree(Applied(engine, queue'), Apply(promised, c), S, editSwapped')
  BY <1>5, <1>7, <1>10, AgreeOrder
<1>12. QueueKeepsOrder'
  BY <1>2, <1>11 DEF QueueKeepsOrder, Agree, S
<1>13. AllApart(queue')
  BY <1>0, <1>2, <1>3, ReplaceApart
<1> QED
  BY <1>12, <1>13

LEMMA OrderEnqueue ==
    ASSUME TypeOK, QueueKeepsOrder, AllApart(queue), NEW c \in Controls, Enqueue(c)
    PROVE  QueueKeepsOrder' /\ AllApart(queue')
<1>0. queue \in Seq(Controls) /\ engine \in Engines /\ promised \in Engines
      /\ editSwapped \in BOOLEAN
  BY DEF TypeOK
<1>1. /\ queue' = Append(queue, c) /\ promised' = Apply(promised, c) /\ engine' = engine
      /\ evicted' = evicted /\ overtaken' = overtaken /\ editSwapped' = editSwapped
      /\ Places(c) = {}
  BY DEF Enqueue
<1> DEFINE S == evicted \cup overtaken
<1>2. Agree(Applied(engine, queue), promised, S, editSwapped)
  BY DEF QueueKeepsOrder, Agree
<1> HIDE DEF S
<1>3. Applied(engine, queue) \in Engines
  BY <1>0, AppliedThrough, AppliedIs
<1>4. Agree(Applied(engine, queue'), Apply(promised, c), S, editSwapped)
  BY <1>0, <1>1, <1>2, <1>3, AgreeApply, AppliedAppend
<1>5. QueueKeepsOrder'
  BY <1>1, <1>4 DEF QueueKeepsOrder, Agree, S
<1>6. AllApart(queue')
  BY <1>0, <1>1, NoPlaceApart, AppendApart
<1> QED
  BY <1>5, <1>6

LEMMA OrderEvict ==
    ASSUME TypeOK, QueueKeepsOrder, AllApart(queue), NEW c \in Controls, Evict(c)
    PROVE  QueueKeepsOrder' /\ AllApart(queue')
<1> DEFINE i == Min(Evictable)
           r == RemoveAt(queue, i)
           lost == {queue[i].param}
           S == evicted \cup overtaken
           T == evicted' \cup overtaken'
<1>0. queue \in Seq(Controls) /\ engine \in Engines /\ promised \in Engines
      /\ editSwapped \in BOOLEAN
  BY DEF TypeOK
<1>1. i \in DOMAIN queue /\ queue[i].set = "param"
  BY EvictableFound DEF Evict
<1>2. /\ queue' = Append(r, c) /\ promised' = Apply(promised, c) /\ engine' = engine
      /\ evicted' = evicted \cup lost /\ overtaken' = overtaken
      /\ editSwapped' = editSwapped
      /\ Places(c) = {} /\ c.set # "param"
  BY DEF Evict, IsTopologyControl
<1>3. Agree(Applied(engine, queue), promised, S, editSwapped)
  BY DEF QueueKeepsOrder, Agree
<1>4. S \subseteq T /\ lost \subseteq T
  BY <1>2
<1> HIDE DEF i
<1>5. r \in Seq(Controls) /\ Agree(Applied(engine, r), Applied(engine, queue), lost, FALSE)
  BY <1>0, <1>1, RemoveElements, RemoveAgrees
<1>6. AllApart(r)
  BY <1>0, <1>1, RemoveApart
<1>7. \A k \in DOMAIN r : r[k].set # "edit" /\ ReplaceableSameField(r[k], c) => FALSE
  <2>1. c.set \in {"mode", "split"} \/ c.set = "edit"
    BY <1>2, ControlKinds
  <2>2. c.set \in {"mode", "split"} => NoneWaits(queue, c.set)
    BY <1>2, NoPlaceNoneWaits
  <2>3. /\ DOMAIN queue = 1 .. Len(queue) /\ DOMAIN r = 1 .. Len(queue) - 1
        /\ Len(queue) \in Nat
        /\ \A j \in 1 .. Len(queue) - 1 : r[j] = IF j < i THEN queue[j] ELSE queue[j + 1]
    BY <1>0, <1>1, RemoveElements
  <2> HIDE DEF r
  <2>4. \A k \in DOMAIN r : \E j \in DOMAIN queue : r[k] = queue[j]
    BY <2>3
  <2> QED
    BY <2>1, <2>2, <2>4 DEF NoneWaits, ReplaceableSameField
<1> HIDE DEF r
<1>8. AllApart(queue')
  BY <1>2, <1>5, <1>6, <1>7, AppendApart
<1>9. Applied(engine, queue) \in Engines /\ Applied(engine, r) \in Engines
  BY <1>0, <1>5, AppliedThrough, AppliedIs
<1> HIDE DEF S, T, lost
<1>10. Agree(Applied(engine, r), promised, T, editSwapped)
  <2>1. Agree(Applied(engine, r), Applied(engine, queue), T, editSwapped)
    BY <1>0, <1>4, <1>5, AgreeLess
  <2>2. Agree(Applied(engine, queue), promised, T, editSwapped)
    BY <1>0, <1>3, <1>4, AgreeLess
  <2> QED
    BY <1>0, <2>1, <2>2, AgreeOrder
<1>11. Agree(Applied(engine, queue'), Apply(promised, c), T, editSwapped)
  BY <1>0, <1>2, <1>5, <1>9, <1>10, AgreeApply, AppliedAppend
<1>12. QueueKeepsOrder'
  BY <1>2, <1>11 DEF QueueKeepsOrder, Agree, T
<1> QED
  BY <1>8, <1>12

OrderInv == QueueKeepsOrder /\ AllApart(queue)

LEMMA OrderStep == TypeOK /\ OrderInv /\ [Next]_vars => OrderInv'
<1> SUFFICES ASSUME TypeOK, QueueKeepsOrder, AllApart(queue), [Next]_vars
             PROVE  QueueKeepsOrder' /\ AllApart(queue')
  BY DEF OrderInv
<1>1. CASE TryReceive
  <2>1. /\ queue \in Seq(Controls) /\ engine \in Engines
        /\ queue # <<>> /\ queue' = Tail(queue) /\ engine' = Apply(engine, Head(queue))
        /\ promised' = promised /\ evicted' = evicted /\ overtaken' = overtaken
        /\ editSwapped' = editSwapped
    BY <1>1 DEF TryReceive, TypeOK
  <2>2. Applied(engine', queue') = Applied(engine, queue)
    BY <2>1, AppliedTail
  <2>3. QueueKeepsOrder'
    BY <2>1, <2>2 DEF QueueKeepsOrder
  <2>4. AllApart(queue')
    BY <2>1, TailApart
  <2> QED
    BY <2>3, <2>4
<1>2. ASSUME NEW c \in Controls, TrySend(c) PROVE QueueKeepsOrder' /\ AllApart(queue')
  <2>1. CASE Refuse(c)
    BY <2>1 DEF Refuse, vars, QueueKeepsOrder
  <2> QED
    BY <1>2, <2>1, OrderReplace, OrderEnqueue, OrderEvict DEF TrySend
<1>3. CASE UNCHANGED vars
  BY <1>3 DEF vars, QueueKeepsOrder
<1> QED
  BY <1>1, <1>2, <1>3 DEF Next

\* However controls replace and evict each other, for every capacity: applying what
\* waits leaves the engine as applying all that was accepted in order would, but for
\* the params given up or overtaken, and for edit layers that were swapped.
THEOREM QueueAlwaysKeepsOrder == Spec => []QueueKeepsOrder
<1>1. Init => OrderInv
  <2> SUFFICES ASSUME Init PROVE QueueKeepsOrder /\ AllApart(queue)
    BY DEF OrderInv
  <2>1. queue \in Seq(Controls) /\ engine \in Engines
    BY TypeInit DEF TypeOK
  <2>2. PICK at : AppliesThrough(at, engine, queue) /\ Applied(engine, queue) = at[Len(queue)]
    BY <2>1, AppliedThrough
  <2>3. Applied(engine, queue) = promised
    BY <2>2 DEF Init, AppliesThrough
  <2>4. QueueKeepsOrder
    BY <2>3 DEF QueueKeepsOrder
  <2>5. AllApart(queue)
    BY DEF Init, AllApart
  <2> QED
    BY <2>4, <2>5
<1>2. OrderInv => QueueKeepsOrder
  BY DEF OrderInv
<1> QED
  BY <1>1, <1>2, TypeInit, TypeStep, OrderStep, PTL DEF Spec
=============================================================================
