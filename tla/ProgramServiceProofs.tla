------------------------ MODULE ProgramServiceProofs ------------------------
(***************************************************************************)
(* Theorems about ProgramService for all banks, programs, patches and      *)
(* queue lengths.                                                          *)
(***************************************************************************)
EXTENDS ProgramService, SequenceTheorems, TLAPS

USE ProgramServiceAssumption DEF ProgramServiceAssumption

-----------------------------------------------------------------------------
(* The inductive invariant.                                                *)

PatchValues == Patches \cup {DefaultPatch}
Loads == [op : {"load"}, slot : Slots, due : PatchValues]
Saves == [op : {"save"}, slot : Slots, patch : Patches]
Requests == Loads \cup Saves
Calls == {Store!None} \cup [call : {"save"}, slot : Slots, patch : Patches]
                      \cup [call : {"select"}, slot : Slots]
Tasks == {Nothing} \cup [slot : Slots, patch : PatchValues, due : PatchValues]

Types ==
    /\ stored \in [Slots -> PatchValues] /\ remembered \in Slots
    /\ loaded \in [Slots -> PatchValues] /\ current \in Slots
    /\ jammed \in BOOLEAN
    /\ call \in Calls /\ up \in BOOLEAN
    /\ bank \in Banks /\ cc0 \in Banks \cup {Nothing} /\ cc32 \in Banks \cup {Nothing}
    /\ wanted \in Banks /\ convention \in Conventions
    /\ requests \in Seq(Requests) /\ Len(requests) <= StorageCapacity
    /\ task \in Tasks
    /\ queue \in Seq(Sent) /\ Len(queue) <= PatchCapacity /\ heard \in Sent
    /\ promised \in [Slots -> PatchValues] /\ lastLoad \in Slots
    /\ failed \subseteq Slots \cup {Selection}

\* Without power nothing waits and no call is in progress.
Off == ~up => requests = <<>> /\ task = Nothing /\ queue = <<>> /\ call = Store!None

\* What is pending is nothing, or what the host's convention leaves of its last choice.
Pending ==
    up => \/ cc0 = Nothing /\ cc32 = Nothing /\ wanted = bank
          \/ convention = "cc0" /\ cc0 = wanted /\ cc32 = Nothing
          \/ convention = "cc32" /\ cc0 = Nothing /\ cc32 = wanted
          \/ convention = "cc0 of a pair" /\ cc0 = wanted /\ cc32 = 0
          \/ convention = "cc32 of a pair" /\ cc0 = 0 /\ cc32 = wanted
          \/ convention = "cc0 of a pair" /\ cc0 = Nothing /\ cc32 = 0 /\ wanted = 0
          \/ convention = "cc32 of a pair" /\ cc0 = 0 /\ cc32 = Nothing /\ wanted = 0

\* The program the engine will play once it has taken all that is queued.
LastSent == IF queue = <<>> THEN heard ELSE queue[Len(queue)]

\* The selection in RAM is the last load's, or the call that makes it so is on its way,
\* and the flash holds it too unless the store is jammed.
SelectionFollows ==
    /\ up => LastSent.from \in {lastLoad, Edited}
    /\ call.call = "select" => call.slot = lastLoad
    /\ up /\ call.call # "select" /\ Selection \notin failed => current = lastLoad
    /\ ~jammed => remembered = current

\* Only a failed call parts flash and RAM.
InSync == ~jammed => stored = loaded

SaveAt(j, s) == requests[j].op = "save" /\ requests[j].slot = s
\* The last save of slot s before place i of the storage queue is at j.
Governs(j, i, s) == SaveAt(j, s) /\ \A k \in (j + 1)..(i - 1) : ~SaveAt(k, s)
NoSave(i, s) == \A k \in 1..(i - 1) : ~SaveAt(k, s)
\* Slot s holds p, or will when the call returns.
Owes(s, p) ==
    IF call.call = "save" /\ call.slot = s THEN call.patch = p
    ELSE s \in failed \/ loaded[s] = p
\* A load at place i that is due p will get it.
DueAt(i, s, p) ==
    /\ \A j \in 1..(i - 1) : Governs(j, i, s) => requests[j].patch = p
    /\ NoSave(i, s) => Owes(s, p)

LoadsAreDue ==
    /\ up => /\ \A s \in Slots : DueAt(Len(requests) + 1, s, promised[s])
             /\ \A i \in 1..Len(requests) :
                    requests[i].op = "load" => DueAt(i, requests[i].slot, requests[i].due)
    /\ task # Nothing => /\ call = Store!None
                         /\ task.slot \in failed \/ task.patch = task.due

IInv == Types /\ Off /\ Pending /\ SelectionFollows /\ InSync /\ LoadsAreDue
-----------------------------------------------------------------------------
(* Queues.                                                                 *)

LEMMA Appended ==
    ASSUME NEW S, NEW q \in Seq(S), NEW x \in S
    PROVE  /\ Append(q, x) \in Seq(S) /\ Append(q, x) # <<>>
           /\ Len(Append(q, x)) = Len(q) + 1 /\ Len(q) \in Nat
           /\ \A i \in 1..Len(q) : Append(q, x)[i] = q[i]
           /\ Append(q, x)[Len(q) + 1] = x
BY AppendProperties

\* Taking the request at place NextRequest leaves the tail of the queue.
LEMMA Received ==
    ASSUME NEW q \in Seq(Requests), q # <<>>
    PROVE  /\ SubSeq(q, 1, NextRequest - 1) \o SubSeq(q, NextRequest + 1, Len(q)) = Tail(q)
           /\ q[NextRequest] = q[1]
<1>1. SubSeq(q, 1, 0) = <<>>
  BY SubSeqEmpty
<1>2. Tail(q) = SubSeq(q, 2, Len(q)) /\ Tail(q) \in Seq(Requests)
  BY TailIsSubSeq
<1>3. <<>> \o Tail(q) = Tail(q)
  BY <1>2, ConcatEmptySeq
<1>4. NextRequest = 1 /\ 1 - 1 = 0 /\ 1 + 1 = 2
  BY DEF NextRequest
<1> QED
  BY <1>1, <1>2, <1>3, <1>4

LEMMA Tailed ==
    ASSUME NEW S, NEW q \in Seq(S), q # <<>>
    PROVE  /\ Tail(q) \in Seq(S) /\ Len(Tail(q)) = Len(q) - 1
           /\ Len(q) \in Nat \ {0} /\ Len(Tail(q)) \in Nat
           /\ Head(q) = q[1] /\ q[1] \in S
           /\ \A i \in 1..Len(Tail(q)) : Tail(q)[i] = q[i + 1]
           /\ Tail(q) # <<>> => Tail(q)[Len(Tail(q))] = q[Len(q)]
           /\ Tail(q) = <<>> => Len(q) = 1
<1>1. Len(q) \in Nat \ {0}
  BY EmptySeq
<1>2. /\ Tail(q) \in Seq(S) /\ Len(Tail(q)) = Len(q) - 1
      /\ Head(q) = q[1] /\ Head(q) \in S
      /\ \A i \in 1..Len(Tail(q)) : Tail(q)[i] = q[i + 1]
  BY HeadTailProperties
<1>3. Tail(q) # <<>> => Tail(q)[Len(Tail(q))] = q[Len(q)]
  <2> SUFFICES ASSUME Tail(q) # <<>> PROVE Tail(q)[Len(Tail(q))] = q[Len(q)]
    OBVIOUS
  <2>1. Len(Tail(q)) \in Nat \ {0}
    BY <1>2, EmptySeq
  <2>2. Len(Tail(q)) \in 1..Len(Tail(q)) /\ Len(Tail(q)) + 1 = Len(q)
    BY <1>1, <1>2, <2>1
  <2> QED
    BY <1>2, <2>2
<1>4. Tail(q) = <<>> => Len(q) = 1
  <2> SUFFICES ASSUME Tail(q) = <<>> PROVE Len(q) = 1
    OBVIOUS
  <2>1. Len(Tail(q)) = 0
    BY EmptySeq
  <2> QED
    BY <1>1, <1>2, <2>1
<1>5. Len(Tail(q)) \in Nat /\ q[1] \in S
  BY <1>1, <1>2
<1> QED
  BY <1>1, <1>2, <1>3, <1>4, <1>5
-----------------------------------------------------------------------------
LEMMA NoCall == Store!None.call = "none"
BY DEF Store!None

\* A call in progress is of one of the two kinds.
LEMMA CallKinds ==
    ASSUME call \in Calls
    PROVE  /\ call = Store!None <=> call.call = "none"
           /\ call # Store!None => call.call \in {"save", "select"} /\ call.slot \in Slots
           /\ call.call = "save" => call.patch \in Patches
BY NoCall DEF Calls
-----------------------------------------------------------------------------
(* Types.                                                                  *)

LEMMA TypesInit == Init => Types
<1> SUFFICES ASSUME Init PROVE Types
  OBVIOUS
<1>1. FirstSlot \in Slots /\ stored = [s \in Slots |-> DefaultPatch] /\ remembered = FirstSlot
      /\ loaded = stored /\ current = FirstSlot /\ jammed = FALSE
      /\ call = Store!None /\ up = FALSE
  BY DEF Init, Store!Init, FirstSlot, Slots
<1>2. requests \in Seq(Requests) /\ Len(requests) = 0 /\ queue \in Seq(Sent) /\ Len(queue) = 0
  BY EmptySeq DEF Init
<1>3. heard \in Sent
  BY <1>1 DEF Init, Sent
<1>4. stored \in [Slots -> PatchValues] /\ loaded \in [Slots -> PatchValues]
      /\ call \in Calls /\ task \in Tasks
  BY <1>1 DEF Init, PatchValues, Calls, Tasks
<1>5. Len(requests) <= StorageCapacity /\ Len(queue) <= PatchCapacity
  BY <1>2
<1>6. promised \in [Slots -> PatchValues] /\ lastLoad \in Slots /\ failed \subseteq Slots \cup {Selection}
  BY <1>1, <1>4 DEF Init
<1>7. up \in BOOLEAN /\ jammed \in BOOLEAN /\ remembered \in Slots /\ current \in Slots
  BY <1>1
<1>8. bank \in Banks /\ cc0 = Nothing /\ cc32 = Nothing /\ wanted \in Banks /\ convention \in Conventions
  BY DEF Init
<1> QED
  BY <1>2, <1>3, <1>4, <1>5, <1>6, <1>7, <1>8 DEF Types

\* What a call of the store may do to flash and RAM keeps their types.
StoreTypes ==
    /\ stored \in [Slots -> PatchValues] /\ remembered \in Slots
    /\ loaded \in [Slots -> PatchValues] /\ current \in Slots
    /\ jammed \in BOOLEAN

LEMMA FirstSlotType == FirstSlot \in Slots
BY DEF FirstSlot, Slots

LEMMA SavedTypes ==
    ASSUME Types, NEW p \in [Slots -> PatchValues], call.call = "save"
    PROVE  Store!Saved(p) \in [Slots -> PatchValues]
<1>1. call.slot \in Slots /\ call.patch \in PatchValues
  BY CallKinds DEF Types, PatchValues
<1> QED
  BY <1>1 DEF Store!Saved

LEMMA WrittenTypes ==
    ASSUME Types, call # Store!None, Store!Written
    PROVE  stored' \in [Slots -> PatchValues] /\ remembered' \in Slots
<1>1. stored' \in [Slots -> PatchValues]
  BY SavedTypes DEF Types, Store!Written
<1>2. remembered' \in Slots
  BY CallKinds DEF Types, Store!Written
<1> QED
  BY <1>1, <1>2

LEMMA DoneTypes ==
    ASSUME Types, Store!Done
    PROVE  StoreTypes'
BY WrittenTypes DEF Types, StoreTypes, Store!Done

LEMMA DisturbedTypes ==
    ASSUME Types, Store!Disturbed
    PROVE  stored' \in [Slots -> PatchValues] /\ remembered' \in Slots
<1>1. stored' \in [Slots -> PatchValues]
  BY SavedTypes DEF Types, Store!Disturbed
<1>2. remembered' \in Slots
  BY FirstSlotType DEF Types, Store!Disturbed
<1> QED
  BY <1>1, <1>2

LEMMA FailTypes ==
    ASSUME Types, Store!Fail
    PROVE  StoreTypes'
<1>1. stored' \in [Slots -> PatchValues] /\ remembered' \in Slots
  BY WrittenTypes, DisturbedTypes DEF Types, Store!Fail, Store!flash
<1>2. UNCHANGED <<loaded, current>> /\ jammed' \in BOOLEAN
  BY DEF Types, Store!Fail, Store!ram
<1> QED
  BY <1>1, <1>2 DEF Types, StoreTypes

\* A failed call that does not leave the store jammed has left the flash alone.
LEMMA FailParts ==
    ASSUME Types, Store!Fail, ~jammed'
    PROVE  ~jammed /\ UNCHANGED <<stored, remembered, loaded, current>>
<1>1. jammed \in BOOLEAN /\ UNCHANGED <<loaded, current>>
  BY DEF Types, Store!Fail, Store!ram
<1>2. CASE UNCHANGED Store!flash /\ jammed' \in {jammed, TRUE}
  <2>1. jammed' = jammed \/ jammed' = TRUE
    BY <1>2
  <2> QED
    BY <1>1, <1>2, <2>1 DEF Store!flash
<1>3. CASE ~jammed /\ Store!Written /\ jammed' = TRUE
  BY <1>3
<1>4. CASE Store!Disturbed /\ UNCHANGED jammed
  <2>1. jammed /\ jammed' = jammed
    BY <1>4 DEF Store!Disturbed
  <2> QED
    BY <2>1
<1> QED
  BY <1>2, <1>3, <1>4 DEF Store!Fail

LEMMA WorksTypes ==
    ASSUME Types, StoreWorks
    PROVE  StoreTypes' /\ UNCHANGED <<call, up>>
<1>1. CASE Store!TakeEffect
  BY <1>1, DoneTypes DEF Store!TakeEffect, Store!Done
<1>2. CASE Store!Drift
  BY <1>2, DisturbedTypes DEF Types, StoreTypes, Store!Drift, Store!ram
<1>3. CASE Store!Retry
  BY <1>3 DEF Types, StoreTypes, Store!Retry, Store!flash, Store!ram
<1> QED
  BY <1>1, <1>2, <1>3 DEF StoreWorks

LEMMA PowerTypes ==
    ASSUME Types, Store!PowerUp \/ Store!PowerDown
    PROVE  StoreTypes' /\ up' \in BOOLEAN /\ call' \in Calls
<1>1. CASE Store!PowerUp
  BY <1>1 DEF Types, StoreTypes, PatchValues, Store!PowerUp, Store!Recovered
<1>2. CASE Store!PowerDown
  <2>1. stored' \in [Slots -> PatchValues] /\ remembered' \in Slots
    BY <1>2, DisturbedTypes DEF Types, Store!PowerDown, Store!flash
  <2> QED
    BY <1>2, <2>1 DEF StoreTypes, Store!PowerDown, Calls
<1> QED
  BY <1>1, <1>2

LEMMA TypesStep == Types /\ [Next]_vars => Types'
<1> SUFFICES ASSUME Types, [Next]_vars PROVE Types'
  OBVIOUS
<1> USE DEF handlerVars, taskVars, storeVars, selectionVars
<1>1. ASSUME NEW b \in Banks, SelectBank(b) PROVE Types'
  BY <1>1 DEF SelectBank, Types
<1>15. CASE SelectOutOfRange
  BY <1>15 DEF SelectOutOfRange, Types
<1>2. ASSUME NEW p \in Programs, ProgramChange(p) PROVE Types'
  <2>1. RequestedBank \in Banks
    BY DEF RequestedBank, Types
  <2>2. CASE StorageRoom
    <3> DEFINE slot == <<RequestedBank, p>>
               r == [op |-> "load", slot |-> slot, due |-> promised[slot]]
    <3>1. slot \in Slots /\ promised[slot] \in PatchValues
      BY <2>1 DEF Slots, Types
    <3>2. r \in Requests
      BY <3>1 DEF Requests, Loads
    <3>3. requests' = Append(requests, r) /\ Len(requests) < StorageCapacity
          /\ bank' = RequestedBank /\ cc0' = Nothing /\ cc32' = Nothing
      BY <1>2, <2>2 DEF ProgramChange, StorageRoom
    <3>4. requests' \in Seq(Requests) /\ Len(requests') <= StorageCapacity
      BY <3>2, <3>3, Appended DEF Types
    <3> QED
      BY <1>2, <2>1, <3>3, <3>4 DEF ProgramChange, Types
  <2>3. CASE ~StorageRoom
    BY <1>2, <2>3 DEF ProgramChange, Types
  <2> QED
    BY <2>2, <2>3
<1>3. ASSUME NEW s \in Slots, NEW p \in Patches, SaveProgram(s, p) PROVE Types'
  <2>1. [op |-> "save", slot |-> s, patch |-> p] \in Requests
    BY DEF Requests, Saves
  <2>2. requests' \in Seq(Requests) /\ Len(requests') <= StorageCapacity
    BY <1>3, <2>1, Appended DEF SaveProgram, StorageRoom, Types
  <2>3. promised' \in [Slots -> PatchValues]
    BY <1>3 DEF SaveProgram, Types, PatchValues
  <2> QED
    BY <1>3, <2>2, <2>3 DEF SaveProgram, Types
<1>4. ASSUME NEW p \in Patches, EditBuffer(p) PROVE Types'
  <2>1. [patch |-> p, from |-> Edited] \in Sent
    BY DEF Sent
  <2>2. queue' \in Seq(Sent) /\ Len(queue') <= PatchCapacity
    BY <1>4, <2>1, Appended DEF EditBuffer, PatchRoom, Types
  <2> QED
    BY <1>4, <2>2 DEF EditBuffer, Types
<1>5. CASE Receive
  <2> DEFINE r == requests[NextRequest]
  <2>1. requests \in Seq(Requests) /\ requests # <<>>
    BY <1>5 DEF Receive, Types
  <2>2. requests' = Tail(requests) /\ r \in Requests
    BY <1>5, <2>1, Received, Tailed DEF Receive
  <2>3. requests' \in Seq(Requests) /\ Len(requests') <= StorageCapacity
    BY <2>1, <2>2, Tailed DEF Types
  <2>4. CASE r.op = "load"
    <3>1. r.slot \in Slots /\ r.due \in PatchValues
      BY <2>2, <2>4 DEF Requests, Loads, Saves
    <3>2. task' = [slot |-> r.slot, patch |-> loaded[r.slot], due |-> r.due]
          /\ UNCHANGED storeVars
      BY <1>5, <2>4 DEF Receive
    <3>3. task' \in Tasks
      BY <3>1, <3>2 DEF Tasks, Types
    <3> QED
      BY <1>5, <2>3, <3>2, <3>3 DEF Receive, Types
  <2>5. CASE r.op # "load"
    <3>1. r.slot \in Slots /\ r.patch \in Patches
      BY <2>2, <2>5 DEF Requests, Loads, Saves
    <3>2. call' = [call |-> "save", slot |-> r.slot, patch |-> r.patch]
          /\ UNCHANGED <<stored, remembered, loaded, current, jammed, up, task>>
      BY <1>5, <2>5 DEF Receive, Store!Call, Store!flash, Store!ram
    <3>3. call' \in Calls
      BY <3>1, <3>2 DEF Calls
    <3> QED
      BY <1>5, <2>3, <3>2, <3>3 DEF Receive, Types
  <2> QED
    BY <2>4, <2>5
<1>6. CASE SendProgram
  <2>1. task.slot \in Slots /\ task.patch \in PatchValues
    BY <1>6 DEF SendProgram, Types, Tasks
  <2>2. CASE PatchRoom
    <3>1. [patch |-> task.patch, from |-> task.slot] \in Sent
      BY <2>1 DEF Sent, PatchValues
    <3>2. queue' \in Seq(Sent) /\ Len(queue') <= PatchCapacity
      <4>1. queue' = Append(queue, [patch |-> task.patch, from |-> task.slot])
        BY <1>6, <2>2 DEF SendProgram
      <4>2. queue \in Seq(Sent) /\ Len(queue) < PatchCapacity
        BY <2>2 DEF PatchRoom, Types
      <4> QED
        BY <3>1, <4>1, <4>2, Appended
    <3>3. /\ call' = [call |-> "select", slot |-> task.slot] \/ UNCHANGED call
          /\ failed' \subseteq failed
          /\ UNCHANGED <<stored, remembered, loaded, current, jammed, up>>
          /\ lastLoad' = task.slot
      BY <1>6, <2>2 DEF SendProgram, PersistLastLoad, Store!Call, Store!flash, Store!ram
    <3>4. call' \in Calls
      BY <2>1, <3>3 DEF Calls, Types
    <3> QED
      BY <1>6, <2>1, <3>2, <3>3, <3>4 DEF SendProgram, Types, Tasks
  <2>3. CASE ~PatchRoom
    BY <1>6, <2>3 DEF SendProgram, Types, Tasks
  <2> QED
    BY <2>2, <2>3
<1>7. CASE LoadFails
  BY <1>7 DEF LoadFails, Types, Tasks
<1>8. CASE StoreWorks
  BY <1>8, WorksTypes DEF StoreWorks, StoreTypes, Types
<1>9. CASE StoreReturns
  <2>1. Store!Done /\ call' = Store!None /\ UNCHANGED up
    BY <1>9 DEF StoreReturns, Store!Return, Store!Done
  <2>2. call' \in Calls
    BY <2>1 DEF Calls
  <2> QED
    BY <1>9, <2>1, <2>2, DoneTypes DEF StoreReturns, StoreTypes, Types
<1>10. CASE StoreFails
  <2>1. Subject(call) \in Slots \cup {Selection}
    BY <1>10, CallKinds DEF StoreFails, Store!Fail, Types, Subject
  <2>2. StoreTypes' /\ call' \in Calls /\ UNCHANGED up
    BY <1>10, FailTypes DEF StoreFails, Store!Fail, Calls
  <2> QED
    BY <1>10, <2>1, <2>2 DEF StoreFails, StoreTypes, Types
<1>11. CASE Block
  BY <1>11, Tailed DEF Block, Types
<1>12. CASE PowerUp
  <2>1. StoreTypes' /\ up' \in BOOLEAN /\ call' \in Calls
    BY <1>12, PowerTypes DEF PowerUp
  <2>2. current'[1] \in Banks /\ loaded'[current'] \in PatchValues /\ current' \in Slots
    BY <2>1 DEF StoreTypes, Slots
  <2>3. heard' \in Sent
    BY <1>12, <2>2 DEF PowerUp, Sent, PatchValues
  <2> QED
    BY <1>12, <2>1, <2>2, <2>3 DEF PowerUp, StoreTypes, Types
<1>13. CASE PowerDown
  <2>1. requests' \in Seq(Requests) /\ Len(requests') = 0 /\ queue' \in Seq(Sent) /\ Len(queue') = 0
    BY <1>13, EmptySeq DEF PowerDown
  <2>2. StoreTypes' /\ up' \in BOOLEAN /\ call' \in Calls
    BY <1>13, PowerTypes DEF PowerDown
  <2>3. task' \in Tasks
    BY <1>13 DEF PowerDown, Tasks
  <2>4. Len(requests') <= StorageCapacity /\ Len(queue') <= PatchCapacity
    BY <2>1
  <2> QED
    BY <1>13, <2>1, <2>2, <2>3, <2>4 DEF PowerDown, StoreTypes, Types
<1>14. CASE UNCHANGED vars
  BY <1>14 DEF vars, Types
<1> QED
  BY <1>1, <1>2, <1>3, <1>4, <1>5, <1>6, <1>7, <1>8, <1>9, <1>10, <1>11, <1>12, <1>13, <1>14,
    <1>15
  DEF Next, Handle, Task, Power
-----------------------------------------------------------------------------
LEMMA OffInit == Init => Off
BY DEF Init, Store!Init, Off

\* The store only works on a call, and only a power cut stops it.
LEMMA StoreMoves ==
    ASSUME StoreWorks \/ StoreReturns \/ StoreFails
    PROVE  /\ call # Store!None /\ UNCHANGED up
           /\ UNCHANGED <<bank, cc0, cc32, requests, task, queue, heard, convention, wanted,
                          promised, lastLoad>>
<1> USE DEF handlerVars, selectionVars
<1>1. CASE StoreWorks
  BY <1>1 DEF StoreWorks, Store!TakeEffect, Store!Done, Store!Drift, Store!Disturbed, Store!Retry
<1>2. CASE StoreReturns
  BY <1>2 DEF StoreReturns, Store!Return, Store!Done
<1>3. CASE StoreFails
  BY <1>3 DEF StoreFails, Store!Fail
<1> QED
  BY <1>1, <1>2, <1>3

LEMMA OffStep == Off /\ [Next]_vars => Off'
<1> SUFFICES ASSUME Off, [Next]_vars PROVE Off'
  OBVIOUS
<1> USE DEF handlerVars, taskVars, storeVars, selectionVars
<1>1. CASE Handle
  BY <1>1 DEF Handle, SelectBank, SelectOutOfRange, ProgramChange, SaveProgram, EditBuffer, Off
<1>2. CASE Task
  <2>1. up /\ UNCHANGED up
    BY <1>2, StoreMoves DEF Off, Task, Receive, TaskIdle, SendProgram, PersistLastLoad, LoadFails,
      Store!Call
  <2> QED
    BY <2>1 DEF Off
<1>3. CASE Block
  BY <1>3 DEF Block, Off
<1>4. CASE Power
  BY <1>4 DEF Power, PowerUp, PowerDown, Store!PowerUp, Store!Recovered, Store!PowerDown, Off
<1>5. CASE UNCHANGED vars
  BY <1>5 DEF vars, Off
<1> QED
  BY <1>1, <1>2, <1>3, <1>4, <1>5 DEF Next
-----------------------------------------------------------------------------
(* The bank.                                                               *)

LEMMA PendingInit == Init => Pending
BY DEF Init, Pending

LEMMA PendingStep == Types /\ Pending /\ [Next]_vars => Pending'
<1> SUFFICES ASSUME Types, Pending, [Next]_vars PROVE Pending'
  OBVIOUS
<1> USE DEF handlerVars, taskVars, storeVars, selectionVars
<1>1. ASSUME NEW b \in Banks, SelectBank(b) PROVE Pending'
  <2>1. up /\ UNCHANGED <<up, convention>> /\ convention \in Conventions
    BY <1>1 DEF SelectBank, Types
  <2>2. CASE convention = "cc0"
    BY <1>1, <2>1, <2>2 DEF SelectBank, Pending
  <2>3. CASE convention = "cc32"
    BY <1>1, <2>1, <2>3 DEF SelectBank, Pending
  <2>4. CASE convention = "cc0 of a pair"
    BY <1>1, <2>1, <2>4 DEF SelectBank, Pending
  <2>5. CASE convention = "cc32 of a pair"
    BY <1>1, <2>1, <2>5 DEF SelectBank, Pending
  <2> QED
    BY <2>1, <2>2, <2>3, <2>4, <2>5 DEF Conventions
<1>7. CASE SelectOutOfRange
  <2>1. up /\ UNCHANGED <<up, convention, bank>>
    BY <1>7 DEF SelectOutOfRange
  <2>2. CASE convention = "cc0 of a pair"
    BY <1>7, <2>1, <2>2 DEF SelectOutOfRange, Pending
  <2>3. CASE convention = "cc32 of a pair"
    BY <1>7, <2>1, <2>3 DEF SelectOutOfRange, Pending
  <2> QED
    BY <1>7, <2>2, <2>3 DEF SelectOutOfRange
<1>2. ASSUME NEW p \in Programs, ProgramChange(p) PROVE Pending'
  <2>1. up => RequestedBank = wanted
    BY DEF Pending, RequestedBank, Types
  <2>2. up /\ UNCHANGED <<up, wanted, convention>>
    BY <1>2 DEF ProgramChange
  <2>3. CASE StorageRoom
    <3>1. bank' = RequestedBank /\ cc0' = Nothing /\ cc32' = Nothing
      BY <1>2, <2>3 DEF ProgramChange
    <3> QED
      BY <2>1, <2>2, <3>1 DEF Pending
  <2>4. CASE ~StorageRoom
    <3>1. UNCHANGED <<bank, cc0, cc32>>
      BY <1>2, <2>4 DEF ProgramChange
    <3> QED
      BY <2>2, <3>1 DEF Pending
  <2> QED
    BY <2>3, <2>4
<1>3. CASE PowerUp
  BY <1>3 DEF PowerUp, Pending
<1>4. CASE PowerDown
  BY <1>4 DEF PowerDown, Store!PowerDown, Pending
<1>5. ASSUME UNCHANGED <<selectionVars, wanted, convention, up>> PROVE Pending'
  BY <1>5 DEF Pending
<1>6. ASSUME \/ \E s \in Slots, p \in Patches : SaveProgram(s, p)
             \/ \E p \in Patches : EditBuffer(p)
             \/ Task \/ Block \/ UNCHANGED vars
      PROVE UNCHANGED <<selectionVars, wanted, convention, up>>
  BY <1>6, StoreMoves DEF SaveProgram, EditBuffer, Task, Receive, SendProgram, PersistLastLoad,
    LoadFails, Block, vars, Store!Call
<1> QED
  BY <1>1, <1>2, <1>3, <1>4, <1>5, <1>6, <1>7 DEF Next, Handle, Power

LEMMA BankFollowsPending == Types /\ Pending => HostsBankIsRequested
BY DEF Types, Pending, HostsBankIsRequested, RequestedBank
-----------------------------------------------------------------------------
(* The selection.                                                          *)

LEMMA SelectionInit == Init => SelectionFollows
BY NoCall DEF Init, Store!Init, SelectionFollows

\* A program put in the queue is the last sent, and one taken from it changes nothing.
LEMMA LastSentAppended ==
    ASSUME Types, NEW x \in Sent, queue' = Append(queue, x), UNCHANGED heard
    PROVE  LastSent' = x
BY Appended DEF LastSent, Types

LEMMA LastSentTaken ==
    ASSUME Types, Block
    PROVE  LastSent' = LastSent
<1>1. queue \in Seq(Sent) /\ queue # <<>> /\ heard' = Head(queue) /\ queue' = Tail(queue)
  BY DEF Types, Block
<1> QED
  BY <1>1, Tailed DEF LastSent

LEMMA SelectionStep ==
    Types /\ Off /\ LoadsAreDue /\ SelectionFollows /\ [Next]_vars => SelectionFollows'
<1> SUFFICES ASSUME Types, Off, LoadsAreDue, SelectionFollows, [Next]_vars PROVE SelectionFollows'
  OBVIOUS
<1> USE DEF handlerVars, taskVars, storeVars, selectionVars
<1>1. ASSUME UNCHANGED <<storeVars, lastLoad, failed>>, LastSent' = LastSent \/ LastSent'.from = Edited
      PROVE SelectionFollows'
  BY <1>1 DEF SelectionFollows
<1>2. ASSUME NEW p \in Patches, EditBuffer(p) PROVE SelectionFollows'
  <2>1. [patch |-> p, from |-> Edited] \in Sent
    BY DEF Sent
  <2>2. LastSent'.from = Edited
    BY <1>2, <2>1, LastSentAppended DEF EditBuffer
  <2> QED
    BY <1>1, <1>2, <2>2 DEF EditBuffer
<1>3. CASE Block
  BY <1>1, <1>3, LastSentTaken DEF Block
<1>4. ASSUME \/ \E b \in Banks : SelectBank(b)
             \/ SelectOutOfRange
             \/ \E p \in Programs : ProgramChange(p)
             \/ \E s \in Slots, p \in Patches : SaveProgram(s, p)
             \/ LoadFails \/ UNCHANGED vars
      PROVE SelectionFollows'
  <2>1. UNCHANGED <<storeVars, lastLoad, failed, queue, heard>>
    BY <1>4 DEF SelectBank, SelectOutOfRange, ProgramChange, SaveProgram, LoadFails, vars
  <2> QED
    BY <1>1, <2>1 DEF LastSent
<1>5. CASE Receive
  <2>1. /\ UNCHANGED <<queue, heard, lastLoad, failed, remembered, current, jammed, up>>
        /\ call = Store!None
    BY <1>5 DEF Receive, TaskIdle, Store!Call, Store!flash, Store!ram
  <2>2. call' = call \/ call'.call = "save"
    BY <1>5 DEF Receive, Store!Call
  <2> QED
    BY <2>1, <2>2, NoCall DEF SelectionFollows, LastSent
<1>6. CASE SendProgram
  <2>1. CASE PatchRoom
    <3>1. [patch |-> task.patch, from |-> task.slot] \in Sent
      BY <1>6 DEF SendProgram, Types, Tasks, Sent, PatchValues
    <3>2. /\ lastLoad' = task.slot /\ UNCHANGED <<heard, remembered, current, jammed>>
          /\ queue' = Append(queue, [patch |-> task.patch, from |-> task.slot])
      BY <1>6, <2>1 DEF SendProgram, PersistLastLoad, Store!Call, Store!flash, Store!ram
    <3>3. LastSent'.from = task.slot
      BY <3>1, <3>2, LastSentAppended
    <3>4. CASE task.slot = current
      <4>1. UNCHANGED call /\ call = Store!None
        BY <1>6, <2>1, <3>4 DEF SendProgram, PersistLastLoad, LoadsAreDue
      <4> QED
        BY <3>2, <3>3, <3>4, <4>1, NoCall DEF SelectionFollows
    <3>5. CASE task.slot # current
      <4>1. call' = [call |-> "select", slot |-> task.slot]
        BY <1>6, <2>1, <3>5 DEF SendProgram, PersistLastLoad, Store!Call
      <4> QED
        BY <3>2, <3>3, <4>1 DEF SelectionFollows
    <3> QED
      BY <3>4, <3>5
  <2>2. CASE ~PatchRoom
    BY <1>1, <1>6, <2>2 DEF SendProgram, LastSent
  <2> QED
    BY <2>1, <2>2
<1>7. CASE StoreWorks
  <2>1. UNCHANGED <<call, up, queue, heard, lastLoad, failed>>
    BY <1>7, WorksTypes, StoreMoves DEF StoreWorks
  <2>2. CASE Store!TakeEffect
    <3>1. ~jammed /\ ~jammed' /\ current' = remembered'
          /\ (call.call # "select" => UNCHANGED remembered)
      BY <2>2 DEF Store!TakeEffect, Store!Done, Store!Written
    <3> QED
      BY <2>1, <3>1 DEF SelectionFollows, LastSent
  <2>3. CASE Store!Drift
    <3>1. jammed /\ jammed' /\ UNCHANGED current
      BY <2>3 DEF Store!Drift, Store!Disturbed, Store!ram
    <3> QED
      BY <2>1, <3>1 DEF SelectionFollows, LastSent
  <2>4. CASE Store!Retry
    <3>1. current = remembered /\ UNCHANGED <<current, remembered>>
      BY <2>4 DEF Store!Retry, Store!flash, Store!ram
    <3> QED
      BY <2>1, <3>1 DEF SelectionFollows, LastSent
  <2> QED
    BY <1>7, <2>2, <2>3, <2>4 DEF StoreWorks
<1>8. CASE StoreReturns
  <2>1. /\ call # Store!None /\ call' = Store!None /\ failed' = failed \ {Subject(call)}
        /\ ~jammed /\ ~jammed' /\ current' = remembered' /\ Store!Written
        /\ UNCHANGED <<up, queue, heard, lastLoad>>
    BY <1>8 DEF StoreReturns, Store!Return, Store!Done
  <2>2. CASE call.call = "select"
    <3>1. current' = call.slot
      BY <2>1, <2>2 DEF Store!Written
    <3> QED
      BY <2>1, <2>2, <3>1, NoCall DEF SelectionFollows, LastSent
  <2>3. CASE call.call = "save"
    <3>1. UNCHANGED remembered /\ Subject(call) \in Slots
      BY <2>1, <2>3, CallKinds DEF Store!Written, Types, Subject
    <3>2. Selection \notin failed' => Selection \notin failed
      BY <2>1, <3>1 DEF Selection
    <3> QED
      BY <2>1, <2>3, <3>1, <3>2, NoCall DEF SelectionFollows, LastSent
  <2> QED
    BY <2>1, <2>2, <2>3, CallKinds DEF Types
<1>9. CASE StoreFails
  <2>1. call # Store!None /\ call' = Store!None /\ failed' = failed \cup {Subject(call)}
        /\ UNCHANGED <<current, up, queue, heard, lastLoad>>
    BY <1>9 DEF StoreFails, Store!Fail, Store!ram
  <2>2. call.call = "select" => Selection \in failed'
    BY <2>1 DEF Subject
  <2>3. ~jammed' => ~jammed /\ UNCHANGED remembered
    BY <1>9, FailParts DEF StoreFails
  <2> QED
    BY <2>1, <2>2, <2>3, NoCall DEF SelectionFollows, LastSent
<1>10. CASE PowerUp
  <2>1. lastLoad' = current' /\ heard'.from = current' /\ UNCHANGED <<call, queue>>
        /\ queue = <<>> /\ call = Store!None /\ failed' = {} /\ current' = remembered'
    BY <1>10 DEF PowerUp, Store!PowerUp, Store!Recovered, Off
  <2> QED
    BY <2>1, NoCall DEF SelectionFollows, LastSent
<1>11. CASE PowerDown
  <2>1. up' = FALSE /\ call' = Store!None /\ current' = remembered'
    BY <1>11 DEF PowerDown, Store!PowerDown
  <2> QED
    BY <2>1, NoCall DEF SelectionFollows
<1> QED
  BY <1>2, <1>3, <1>4, <1>5, <1>6, <1>7, <1>8, <1>9, <1>10, <1>11 DEF Next, Handle, Task, Power
-----------------------------------------------------------------------------
(* Loads and saves.                                                        *)

\* What is due stays due while the storage queue stays as it is.
LEMMA DueKept ==
    ASSUME NEW i \in Nat, NEW s \in Slots, NEW p \in PatchValues,
           UNCHANGED requests, Owes(s, p) => Owes(s, p)', DueAt(i, s, p)
    PROVE  DueAt(i, s, p)'
BY DEF DueAt, Governs, NoSave, SaveAt

\* A request put in the queue comes after all that is there.
LEMMA DueAppended ==
    ASSUME Types, NEW n \in Nat, n = Len(requests), NEW r \in Requests, requests' = Append(requests, r), UNCHANGED <<call, failed, loaded>>,
           NEW s \in Slots, NEW p \in PatchValues
    PROVE  /\ \A i \in 1..(n + 1) : DueAt(i, s, p) => DueAt(i, s, p)'
           /\ ~(r.op = "save" /\ r.slot = s) =>
                (DueAt(n + 1, s, p) => DueAt(n + 2, s, p)')
           /\ r.op = "save" /\ r.slot = s /\ r.patch = p => DueAt(n + 2, s, p)'
<1>1. requests'[n + 1] = r /\ \A j \in 1..n : requests'[j] = requests[j]
  BY Appended DEF Types
<1>2. \A j \in 1..n : SaveAt(j, s)' <=> SaveAt(j, s)
  BY <1>1 DEF SaveAt
<1>3. SaveAt(n + 1, s)' <=> r.op = "save" /\ r.slot = s
  BY <1>1 DEF SaveAt
<1>4. Owes(s, p)' <=> Owes(s, p)
  BY DEF Owes
<1>5. ASSUME NEW i \in 1..(n + 1), DueAt(i, s, p) PROVE DueAt(i, s, p)'
  <2>1. ASSUME NEW j \in 1..(i - 1), Governs(j, i, s)' PROVE requests'[j] = requests[j] /\ Governs(j, i, s)
    BY <1>1, <1>2, <2>1 DEF Governs
  <2>2. NoSave(i, s)' => NoSave(i, s)
    BY <1>1, <1>2 DEF NoSave
  <2> QED
    BY <1>4, <1>5, <2>1, <2>2 DEF DueAt
<1>6. ASSUME ~(r.op = "save" /\ r.slot = s), DueAt(n + 1, s, p) PROVE DueAt(n + 2, s, p)'
  <2>1. ASSUME NEW j \in 1..(n + 1), Governs(j, n + 2, s)'
        PROVE j \in 1..n /\ requests'[j] = requests[j] /\ Governs(j, n + 1, s)
    <3>1. j # n + 1
      BY <1>3, <1>6, <2>1 DEF Governs
    <3> QED
      BY <1>1, <1>2, <2>1, <3>1 DEF Governs
  <2>2. NoSave(n + 2, s)' => NoSave(n + 1, s)
    BY <1>1, <1>2 DEF NoSave
  <2> QED
    BY <1>1, <1>4, <1>6, <2>1, <2>2 DEF DueAt
<1>7. ASSUME r.op = "save", r.slot = s, r.patch = p PROVE DueAt(n + 2, s, p)'
  <2>1. ASSUME NEW j \in 1..(n + 1), Governs(j, n + 2, s)' PROVE j = n + 1
    BY <1>1, <1>3, <1>7, <2>1 DEF Governs
  <2>2. ~NoSave(n + 2, s)'
    BY <1>1, <1>3, <1>7 DEF NoSave
  <2> QED
    BY <1>1, <1>7, <2>1, <2>2 DEF DueAt
<1> QED
  BY <1>5, <1>6, <1>7

\* The request at the head of the queue is taken, and if it is a save becomes the call.
LEMMA DueTaken ==
    ASSUME Types, requests # <<>>, requests' = Tail(requests), UNCHANGED <<failed, loaded>>,
           call = Store!None,
           NEW i \in 1..Len(requests), NEW s \in Slots, NEW p \in PatchValues,
           requests[1].op = "load" => UNCHANGED call,
           requests[1].op = "save" =>
                call' = [call |-> "save", slot |-> requests[1].slot, patch |-> requests[1].patch],
           DueAt(i + 1, s, p)
    PROVE  DueAt(i, s, p)'
<1>1. /\ Len(requests) \in Nat \ {0} /\ Len(requests') = Len(requests) - 1
      /\ \A j \in 1..(Len(requests) - 1) : requests'[j] = requests[j + 1]
      /\ requests[1] \in Requests
  BY Tailed DEF Types
<1>2. \A j \in 1..(i - 1) : requests'[j] = requests[j + 1] /\ (SaveAt(j, s)' <=> SaveAt(j + 1, s))
  BY <1>1 DEF SaveAt
<1>3. ASSUME NEW j \in 1..(i - 1), Governs(j, i, s)' PROVE requests'[j].patch = p
  <2>1. Governs(j + 1, i + 1, s)
    <3>1. SaveAt(j + 1, s)
      BY <1>2, <1>3 DEF Governs
    <3>2. ASSUME NEW k \in (j + 2)..i PROVE ~SaveAt(k, s)
      <4>1. k - 1 \in (j + 1)..(i - 1) /\ k - 1 \in 1..(i - 1) /\ (k - 1) + 1 = k
        OBVIOUS
      <4>2. ~SaveAt(k - 1, s)'
        BY <1>3, <4>1 DEF Governs
      <4> QED
        BY <1>2, <4>1, <4>2
    <3>3. (j + 1) + 1 = j + 2 /\ (i + 1) - 1 = i
      OBVIOUS
    <3> QED
      BY <3>1, <3>2, <3>3 DEF Governs
  <2>2. j + 1 \in 1..((i + 1) - 1)
    OBVIOUS
  <2> QED
    BY <1>2, <2>1, <2>2 DEF DueAt
<1>4. ASSUME NoSave(i, s)' PROVE Owes(s, p)'
  <2>1. \A k \in 2..i : ~SaveAt(k, s)
    <3>1. ASSUME NEW k \in 2..i PROVE ~SaveAt(k, s)
      <4>1. k - 1 \in 1..(i - 1) /\ (k - 1) + 1 = k
        OBVIOUS
      <4> QED
        BY <1>2, <1>4, <4>1 DEF NoSave
    <3> QED
      BY <3>1
  <2>2. (i + 1) - 1 = i /\ 1 \in 1..i /\ 1 + 1 = 2
    OBVIOUS
  <2>3. CASE SaveAt(1, s)
    <3>1. Governs(1, i + 1, s)
      BY <2>1, <2>2, <2>3 DEF Governs
    <3>2. requests[1].patch = p
      BY <2>2, <3>1 DEF DueAt
    <3> QED
      BY <2>3, <3>2 DEF SaveAt, Owes
  <2>4. CASE ~SaveAt(1, s)
    <3>1. NoSave(i + 1, s)
      BY <2>1, <2>2, <2>4 DEF NoSave
    <3>2. s \in failed \/ loaded[s] = p
      BY <3>1, NoCall DEF DueAt, Owes
    <3>3. ~(call'.call = "save" /\ call'.slot = s)
      BY <1>1, <2>4, NoCall DEF SaveAt, Requests, Loads, Saves
    <3> QED
      BY <3>2, <3>3 DEF Owes
  <2> QED
    BY <2>3, <2>4
<1> QED
  BY <1>3, <1>4 DEF DueAt

LEMMA LoadsInit == Init => LoadsAreDue
BY DEF Init, Store!Init, LoadsAreDue

\* A step that keeps the queue and what the slots owe.
LEMMA LoadsKept ==
    ASSUME Types, LoadsAreDue, UNCHANGED <<requests, promised, up>>,
           \A s \in Slots, p \in PatchValues : Owes(s, p) => Owes(s, p)',
           task' = Nothing \/ UNCHANGED <<task, call, failed>>
    PROVE  LoadsAreDue'
<1> DEFINE n == Len(requests)
<1>1. n \in Nat
  BY EmptySeq DEF Types
<1>2. ASSUME up, NEW s \in Slots PROVE DueAt(n + 1, s, promised[s])'
  <2>1. promised[s] \in PatchValues /\ n + 1 \in Nat /\ DueAt(n + 1, s, promised[s])
    BY <1>1, <1>2 DEF Types, LoadsAreDue
  <2> QED
    BY <2>1, DueKept DEF DueAt, Governs, NoSave, SaveAt
<1>3. ASSUME up, NEW i \in 1..n, requests[i].op = "load"
      PROVE  DueAt(i, requests[i].slot, requests[i].due)'
  <2>1. requests[i] \in Requests
    BY <1>3, ElementOfSeq DEF Types
  <2>2. requests[i].slot \in Slots /\ requests[i].due \in PatchValues /\ i \in Nat
    BY <1>1, <1>3, <2>1 DEF Requests, Loads, Saves
  <2>3. DueAt(i, requests[i].slot, requests[i].due)
    BY <1>3 DEF LoadsAreDue
  <2> QED
    BY <2>2, <2>3 DEF DueAt, Governs, NoSave, SaveAt
<1> QED
  BY <1>2, <1>3 DEF LoadsAreDue

\* A step that puts a request in the queue, with what its slot is due from now on.
LEMMA LoadsRequested ==
    ASSUME Types, Types', LoadsAreDue, NEW r \in Requests, requests' = Append(requests, r),
           UNCHANGED <<up, call, failed, loaded, task>>,
           r.op = "load" => promised' = promised /\ r.due = promised[r.slot],
           r.op = "save" => promised' = [promised EXCEPT ![r.slot] = r.patch]
    PROVE  LoadsAreDue'
<1> SUFFICES ASSUME up PROVE LoadsAreDue'
  BY DEF LoadsAreDue
<1>1. PICK n \in Nat : n = Len(requests)
  BY EmptySeq DEF Types
<1>2. /\ Len(requests') = n + 1 /\ requests'[n + 1] = r
      /\ \A i \in 1..n : requests'[i] = requests[i]
  BY <1>1, Appended DEF Types
<1>3. r.slot \in Slots /\ (r.op = "load" \/ r.op = "save")
  BY DEF Requests, Loads, Saves
<1>4. ASSUME NEW s \in Slots PROVE DueAt(n + 2, s, promised[s])'
  <2>1. promised[s] \in PatchValues /\ promised'[s] \in PatchValues
    BY DEF Types
  <2>2. DueAt(n + 1, s, promised[s])
    BY <1>1 DEF LoadsAreDue
  <2>3. CASE r.op = "save" /\ r.slot = s
    <3>1. promised'[s] = r.patch
      BY <2>3 DEF Types
    <3>2. PICK p \in PatchValues : p = promised'[s]
      BY <2>1
    <3>3. DueAt(n + 2, s, p)'
      BY <1>1, <2>3, <3>1, <3>2, DueAppended
    <3> QED
      BY <3>2, <3>3 DEF DueAt, Owes
  <2>4. CASE ~(r.op = "save" /\ r.slot = s)
    <3>1. promised'[s] = promised[s]
      BY <1>3, <2>4 DEF Types
    <3>2. PICK p \in PatchValues : p = promised[s]
      BY <2>1
    <3>3. DueAt(n + 2, s, p)'
      BY <1>1, <2>2, <2>4, <3>2, DueAppended
    <3> QED
      BY <3>1, <3>2, <3>3 DEF DueAt, Owes
  <2> QED
    BY <2>3, <2>4
<1>5. ASSUME NEW i \in 1..(n + 1), requests'[i].op = "load"
      PROVE  DueAt(i, requests[i].slot, requests[i].due)'
  <2>1. PICK s \in Slots, p \in PatchValues :
            /\ s = requests'[i].slot /\ p = requests'[i].due /\ DueAt(i, s, p)
    <3>1. CASE i \in 1..n
      <4>1. requests'[i] = requests[i] /\ requests[i] \in Requests
        BY <1>1, <1>2, <3>1, ElementOfSeq DEF Types
      <4>2. requests[i].slot \in Slots /\ requests[i].due \in PatchValues
        BY <1>5, <4>1 DEF Requests, Loads, Saves
      <4>3. DueAt(i, requests[i].slot, requests[i].due)
        BY <1>1, <1>5, <3>1, <4>1 DEF LoadsAreDue
      <4> QED
        BY <4>1, <4>2, <4>3
    <3>2. CASE i = n + 1
      <4>1. requests'[i] = r /\ r.op = "load"
        BY <1>2, <1>5, <3>2
      <4>2. r.due = promised[r.slot] /\ r.due \in PatchValues
        BY <1>3, <4>1 DEF Types
      <4>3. DueAt(i, r.slot, promised[r.slot])
        BY <1>1, <1>3, <3>2 DEF LoadsAreDue
      <4> QED
        BY <1>3, <4>1, <4>2, <4>3
    <3>3. i \in 1..n \/ i = n + 1
      BY <1>5
    <3> QED
      BY <3>1, <3>2, <3>3
  <2>2. DueAt(i, s, p)'
    BY <1>1, <1>5, <2>1, DueAppended
  <2> QED
    BY <2>1, <2>2 DEF DueAt, Governs, NoSave, SaveAt, Owes
<1>6. task' # Nothing => call' = Store!None /\ (task'.slot \in failed' \/ task'.patch = task'.due)
  BY DEF LoadsAreDue
<1>7. (n + 1) + 1 = n + 2
  OBVIOUS
<1> QED
  BY <1>2, <1>4, <1>5, <1>6, <1>7 DEF LoadsAreDue

\* The storage task takes a request.
LEMMA LoadsReceived ==
    ASSUME Types, Types', LoadsAreDue, Receive
    PROVE  LoadsAreDue'
<1> USE DEF handlerVars, taskVars, storeVars, selectionVars
<1> DEFINE r == requests[1]
<1>1. /\ up /\ call = Store!None /\ task = Nothing /\ requests # <<>> /\ requests \in Seq(Requests)
      /\ requests' = Tail(requests) /\ UNCHANGED <<up, failed, loaded, promised>>
  BY Received DEF Receive, TaskIdle, Types, Store!Call, Store!ram
<1>2. requests[NextRequest] = r /\ r \in Requests
  BY <1>1, Received, Tailed
<1>3. (r.op = "load" \/ r.op = "save") /\ r.slot \in Slots
  BY <1>2 DEF Requests, Loads, Saves
<1>4. r.op = "load" =>
        UNCHANGED call /\ task' = [slot |-> r.slot, patch |-> loaded[r.slot], due |-> r.due]
  BY <1>2 DEF Receive
<1>5. r.op = "save" =>
        /\ call' = [call |-> "save", slot |-> r.slot, patch |-> r.patch] /\ UNCHANGED task
  BY <1>2 DEF Receive, Store!Call
<1>6. PICK n \in Nat : n = Len(requests)
  BY <1>1, EmptySeq
<1>7. n \in Nat \ {0} /\ Len(requests') = n - 1 /\ \A i \in 1..(n - 1) : requests'[i] = requests[i + 1]
  BY <1>1, <1>6, Tailed
<1>8. ASSUME NEW i \in 1..n, NEW s \in Slots, NEW p \in PatchValues, DueAt(i + 1, s, p)
      PROVE  DueAt(i, s, p)'
  BY <1>1, <1>4, <1>5, <1>6, <1>8, DueTaken
<1>9. ASSUME NEW s \in Slots PROVE DueAt(n, s, promised[s])'
  <2>1. PICK p \in PatchValues : p = promised[s] /\ DueAt(n + 1, s, p)
    BY <1>1, <1>6 DEF Types, LoadsAreDue
  <2>2. n \in 1..n
    BY <1>7
  <2>3. DueAt(n, s, p)' /\ promised'[s] = p
    BY <1>1, <1>8, <2>1, <2>2
  <2> QED
    BY <2>3 DEF DueAt, Owes
<1>10. ASSUME NEW i \in 1..(n - 1), requests'[i].op = "load"
       PROVE  DueAt(i, requests[i].slot, requests[i].due)'
  <2>1. requests'[i] = requests[i + 1] /\ i + 1 \in 1..n /\ i \in 1..n
    BY <1>7
  <2>2. requests[i + 1] \in Requests
    BY <1>1, <1>6, <2>1, ElementOfSeq
  <2>3. PICK s \in Slots, p \in PatchValues :
            /\ s = requests'[i].slot /\ p = requests'[i].due /\ DueAt(i + 1, s, p)
    BY <1>1, <1>6, <1>10, <2>1, <2>2 DEF LoadsAreDue, Requests, Loads, Saves
  <2>4. DueAt(i, s, p)'
    BY <1>8, <2>1, <2>3
  <2> QED
    BY <2>3, <2>4 DEF DueAt, Governs, NoSave, SaveAt, Owes
<1>11. task' # Nothing => call' = Store!None /\ (task'.slot \in failed' \/ task'.patch = task'.due)
  <2>1. CASE r.op = "load"
    <3>1. DueAt(1, r.slot, r.due)
      BY <1>1, <1>6, <1>7, <2>1 DEF LoadsAreDue
    <3>2. r.slot \in failed \/ loaded[r.slot] = r.due
      BY <1>1, <3>1, NoCall DEF DueAt, NoSave, Owes
    <3> QED
      BY <1>1, <1>4, <2>1, <3>2
  <2>2. CASE r.op = "save"
    BY <1>1, <1>5, <2>2
  <2> QED
    BY <1>3, <2>1, <2>2
<1>12. (n - 1) + 1 = n
  BY <1>7
<1> QED
  BY <1>7, <1>9, <1>10, <1>11, <1>12 DEF LoadsAreDue

LEMMA LoadsStep ==
    Types /\ Types' /\ Off /\ InSync /\ LoadsAreDue /\ [Next]_vars => LoadsAreDue'
<1> SUFFICES ASSUME Types, Types', Off, InSync, LoadsAreDue, [Next]_vars PROVE LoadsAreDue'
  OBVIOUS
<1> USE DEF handlerVars, taskVars, storeVars, selectionVars
<1>1. ASSUME NEW p \in Programs, ProgramChange(p) PROVE LoadsAreDue'
  <2>1. CASE StorageRoom
    <3> DEFINE slot == <<RequestedBank, p>>
               r == [op |-> "load", slot |-> slot, due |-> promised[slot]]
    <3>1. slot \in Slots /\ promised[slot] \in PatchValues
      BY DEF Slots, Types, RequestedBank
    <3>2. r \in Requests
      BY <3>1 DEF Requests, Loads
    <3>3. requests' = Append(requests, r) /\ UNCHANGED <<up, call, failed, loaded, task, promised>>
      BY <1>1, <2>1 DEF ProgramChange
    <3> QED
      BY <3>2, <3>3, LoadsRequested
  <2>2. CASE ~StorageRoom
    BY <1>1, <2>2, LoadsKept DEF ProgramChange, Owes
  <2> QED
    BY <2>1, <2>2
<1>2. ASSUME NEW s \in Slots, NEW p \in Patches, SaveProgram(s, p) PROVE LoadsAreDue'
  <2> DEFINE r == [op |-> "save", slot |-> s, patch |-> p]
  <2>1. r \in Requests
    BY DEF Requests, Saves
  <2>2. /\ requests' = Append(requests, r) /\ promised' = [promised EXCEPT ![s] = p]
        /\ UNCHANGED <<up, call, failed, loaded, task>>
    BY <1>2 DEF SaveProgram
  <2> QED
    BY <2>1, <2>2, LoadsRequested
<1>3. CASE Receive
  BY <1>3, LoadsReceived
<1>4. CASE SendProgram
  <2>1. task # Nothing /\ task' = Nothing /\ call = Store!None
        /\ UNCHANGED <<requests, promised, up, loaded>>
        /\ \A s \in Slots : s \in failed' <=> s \in failed
    BY <1>4 DEF SendProgram, PersistLastLoad, Store!Call, Store!ram, LoadsAreDue, Selection
  <2>2. call'.call # "save"
    BY <1>4, <2>1, NoCall DEF SendProgram, PersistLastLoad, Store!Call
  <2> QED
    BY <2>1, <2>2, NoCall, LoadsKept DEF Owes
<1>5. ASSUME \/ \E b \in Banks : SelectBank(b)
             \/ SelectOutOfRange
             \/ \E p \in Patches : EditBuffer(p)
             \/ LoadFails \/ Block \/ UNCHANGED vars
      PROVE LoadsAreDue'
  <2>1. /\ UNCHANGED <<requests, promised, up, loaded, call, failed>>
        /\ task' = Nothing \/ UNCHANGED task
    BY <1>5 DEF SelectBank, SelectOutOfRange, EditBuffer, LoadFails, Block, vars
  <2> QED
    BY <2>1, LoadsKept DEF Owes
<1>6. CASE StoreWorks
  <2>1. UNCHANGED <<requests, promised, up, call, failed, task>>
    BY <1>6, WorksTypes, StoreMoves DEF StoreWorks
  <2>2. CASE Store!TakeEffect
    <3>1. loaded' = stored' /\ stored = loaded /\ Store!Written
      BY <2>2 DEF Store!TakeEffect, Store!Done, InSync
    <3>2. \A s \in Slots, p \in PatchValues : Owes(s, p) => Owes(s, p)'
      BY <2>1, <3>1 DEF Owes, Store!Written, Store!Saved, Types
    <3> QED
      BY <2>1, <3>2, LoadsKept
  <2>3. CASE Store!Drift \/ Store!Retry
    <3>1. UNCHANGED loaded
      BY <2>3 DEF Store!Drift, Store!Retry, Store!ram
    <3> QED
      BY <2>1, <3>1, LoadsKept DEF Owes
  <2> QED
    BY <1>6, <2>2, <2>3 DEF StoreWorks
<1>7. CASE StoreReturns
  <2>1. /\ call # Store!None /\ call' = Store!None /\ failed' = failed \ {Subject(call)}
        /\ loaded' = stored' /\ stored = loaded /\ Store!Written
        /\ UNCHANGED <<requests, promised, up, task>>
    BY <1>7, StoreMoves DEF StoreReturns, Store!Return, Store!Done, InSync
  <2>2. task' = Nothing
    BY <2>1 DEF LoadsAreDue
  <2>3. ASSUME NEW s \in Slots, NEW p \in PatchValues, Owes(s, p) PROVE Owes(s, p)'
    <3>1. CASE call.call = "save"
      <4>1. loaded' = [loaded EXCEPT ![call.slot] = call.patch] /\ failed' = failed \ {call.slot}
        BY <2>1, <3>1 DEF Store!Written, Store!Saved, Subject
      <4> QED
        BY <2>1, <2>3, <3>1, <4>1, NoCall DEF Owes, Types
    <3>2. CASE call.call = "select"
      <4>1. UNCHANGED loaded /\ failed' = failed \ {Selection}
        BY <2>1, <3>2 DEF Store!Written, Subject
      <4>2. s # Selection
        BY DEF Selection
      <4> QED
        BY <2>1, <2>3, <3>2, <4>1, <4>2, NoCall DEF Owes
    <3> QED
      BY <2>1, <3>1, <3>2, CallKinds DEF Types
  <2> QED
    BY <2>1, <2>2, <2>3, LoadsKept
<1>8. CASE StoreFails
  <2>1. call # Store!None /\ call' = Store!None /\ failed' = failed \cup {Subject(call)}
        /\ UNCHANGED <<requests, promised, up, task, loaded>>
    BY <1>8, StoreMoves DEF StoreFails, Store!Fail, Store!ram
  <2>2. task' = Nothing
    BY <2>1 DEF LoadsAreDue
  <2>3. ASSUME NEW s \in Slots, NEW p \in PatchValues, Owes(s, p) PROVE Owes(s, p)'
    BY <2>1, <2>3, NoCall DEF Owes, Subject
  <2> QED
    BY <2>1, <2>2, <2>3, LoadsKept
<1>9. CASE PowerUp
  <2>1. UNCHANGED <<requests, task, call>> /\ promised' = loaded' /\ failed' = {}
        /\ requests = <<>> /\ task = Nothing /\ call = Store!None
    BY <1>9 DEF PowerUp, Store!PowerUp, Store!Recovered, Off
  <2>2. Len(requests') = 0
    BY <2>1, EmptySeq
  <2>3. ASSUME NEW s \in Slots PROVE DueAt(1, s, promised[s])'
    BY <2>1, NoCall DEF DueAt, Owes
  <2> QED
    BY <2>1, <2>2, <2>3 DEF LoadsAreDue
<1>10. CASE PowerDown
  <2>1. up' = FALSE /\ task' = Nothing
    BY <1>10 DEF PowerDown, Store!PowerDown
  <2> QED
    BY <2>1 DEF LoadsAreDue
<1> QED
  BY <1>1, <1>2, <1>3, <1>4, <1>5, <1>6, <1>7, <1>8, <1>9, <1>10 DEF Next, Handle, Task, Power
-----------------------------------------------------------------------------
LEMMA SyncInit == Init => InSync
BY DEF Init, Store!Init, InSync

LEMMA SyncStep == Types /\ InSync /\ [Next]_vars => InSync'
<1> SUFFICES ASSUME Types, InSync, [Next]_vars PROVE InSync'
  OBVIOUS
<1> USE DEF handlerVars, taskVars, storeVars, selectionVars
<1>1. ASSUME UNCHANGED <<stored, loaded, jammed>> PROVE InSync'
  BY <1>1 DEF InSync
<1>2. CASE Handle
  BY <1>1, <1>2 DEF Handle, SelectBank, SelectOutOfRange, ProgramChange, SaveProgram, EditBuffer
<1>3. CASE Receive \/ SendProgram \/ LoadFails
  BY <1>1, <1>3 DEF Receive, SendProgram, PersistLastLoad, LoadFails, Store!Call, Store!flash, Store!ram
<1>4. CASE StoreWorks
  <2>1. CASE Store!TakeEffect
    BY <2>1 DEF Store!TakeEffect, Store!Done, InSync
  <2>2. CASE Store!Drift
    BY <2>2 DEF Store!Drift, Store!Disturbed, InSync
  <2>3. CASE Store!Retry
    BY <2>3 DEF Store!Retry, Store!flash, Store!ram, InSync
  <2> QED
    BY <1>4, <2>1, <2>2, <2>3 DEF StoreWorks
<1>5. CASE StoreReturns
  BY <1>5 DEF StoreReturns, Store!Return, Store!Done, InSync
<1>6. CASE StoreFails
  <2>1. ~jammed' => ~jammed /\ UNCHANGED <<stored, loaded>>
    BY <1>6, FailParts DEF StoreFails
  <2> QED
    BY <2>1 DEF InSync
<1>7. CASE Block \/ UNCHANGED vars
  BY <1>1, <1>7 DEF Block, vars
<1>8. CASE Power
  BY <1>8 DEF Power, PowerUp, PowerDown, Store!PowerUp, Store!Recovered, Store!PowerDown, InSync
<1> QED
  BY <1>2, <1>3, <1>4, <1>5, <1>6, <1>7, <1>8 DEF Next, Task
-----------------------------------------------------------------------------
(* Theorems.                                                               *)

LEMMA InvInit == Init => IInv
BY TypesInit, OffInit, PendingInit, SelectionInit, SyncInit, LoadsInit DEF IInv

LEMMA InvStep == IInv /\ [Next]_vars => IInv'
BY TypesStep, OffStep, PendingStep, SelectionStep, SyncStep, LoadsStep DEF IInv

\* The types, what is pending of a bank selection, the way of the selection to flash, how
\* flash and RAM part and what every queued load is due hold in every reachable state of handler, task and audio.
THEOREM Invariance == Spec => []IInv
BY InvInit, InvStep, PTL DEF Spec

\* The handler, the storage task and the queues keep their types, and the queues their
\* capacity.
THEOREM TypeCorrect == Spec => []TypeOK
<1>1. IInv => TypeOK
  <2> SUFFICES ASSUME IInv PROVE TypeOK
    OBVIOUS
  <2>1. Types
    BY DEF IInv
  <2>2. \A i \in DOMAIN requests : requests[i].slot \in Slots
    <3> SUFFICES ASSUME NEW i \in DOMAIN requests PROVE requests[i].slot \in Slots
      OBVIOUS
    <3>1. requests[i] \in Requests
      BY <2>1, LenProperties, ElementOfSeq DEF Types
    <3> QED
      BY <3>1 DEF Requests, Loads, Saves
  <2>3. task = Nothing \/ task.slot \in Slots
    BY <2>1 DEF Types, Tasks
  <2> QED
    BY <2>1, <2>2, <2>3 DEF Types, TypeOK, PatchValues
<1> QED
  BY <1>1, Invariance, PTL

\* bank_select, requested_bank and commit: a program change asks for the bank the host
\* selected last, whichever way it does so.
THEOREM BankIsRequested == Spec => []HostsBankIsRequested
<1>1. IInv => HostsBankIsRequested
  BY BankFollowsPending DEF IInv
<1> QED
  BY <1>1, Invariance, PTL

\* run_task: the task loads with every save accepted before the program change, and none
\* accepted after it.
THEOREM LoadsAlwaysFollowSaves == Spec => []LoadsFollowSaves
<1>1. IInv => LoadsFollowSaves
  BY DEF IInv, LoadsAreDue, LoadsFollowSaves
<1> QED
  BY <1>1, Invariance, PTL

\* persist_last_load, with its early return on the selection that RAM holds: when the storage
\* task rests, the selection in RAM is the program last sent to the engine, which plays it or
\* an edit buffer, and a reboot would bring it back unless a failed call has jammed the store.
THEOREM RebootAlwaysPlaysLastLoad == Spec => []RebootPlaysLastLoad
<1>1. IInv => RebootPlaysLastLoad
  <2> SUFFICES ASSUME Types, SelectionFollows, TaskIdle, Selection \notin failed
               PROVE  /\ current = lastLoad /\ (remembered = current \/ jammed)
                      /\ queue = <<>> => heard.from \in {current, Edited}
    BY DEF IInv, RebootPlaysLastLoad
  <2> QED
    BY NoCall DEF SelectionFollows, TaskIdle, LastSent
<1> QED
  BY <1>1, Invariance, PTL
=============================================================================
