---------------------------- MODULE ControlQueue ----------------------------
(***************************************************************************)
(* The queue of parameter and layer controls between the MIDI handler and  *)
(* the audio task of the Daisy firmware (control_queue.rs).  A control      *)
(* replaces a queued one for the same field where it finds one, and a full  *)
(* queue gives up a parameter for a layer control.                          *)
(*                                                                         *)
(* Every operation holds the queue's lock: an operation is one action.      *)
(* Parameters, modulation fields and sequence fields are all "params", each *)
(* replaced only by a control of its name and target (PolyLaneStep, which   *)
(* writes two of them, never comes from MIDI).  The engine is what the      *)
(* controls set in it; programs loaded meanwhile are left out.              *)
(***************************************************************************)
EXTENDS Integers, SequencesExt

CONSTANTS
    Layers,         \* LayerId, at least the edited one
    Params,         \* what SetParam, SetModulationParam and SetSequence name
    Values, Modes, Splits,
    Capacity        \* CONTROL_QUEUE_CAPACITY

ASSUME ControlQueueAssumption ==
    /\ Capacity \in Nat \ {0}
    /\ Layers # {} /\ Values # {} /\ Modes # {} /\ Splits # {}

VARIABLES
    queue,          \* ControlQueue.queue
    engine,         \* what the audio task has applied
    promised,       \* history: every control accepted, applied in the order sent
    evicted,        \* history: params a layer control pushed out
    overtaken,      \* history: params replaced ahead of another name for them
    editSwapped     \* history: an edit layer took a place ahead of another one

vars == <<queue, engine, promised, evicted, overtaken, editSwapped>>
-----------------------------------------------------------------------------
SetEditLayer(l)  == [set |-> "edit", to |-> l]
SetLayerMode(m)  == [set |-> "mode", to |-> m]
SetSplitPoint(s) == [set |-> "split", to |-> s]
\* LayerTarget: the layer edited when the control is applied, or one by name.
Edit == [names |-> "edited"]
Explicit(l) == [names |-> l]
SetParam(t, p, v) == [set |-> "param", target |-> t, param |-> p, to |-> v]

TopologyControls ==
    {SetEditLayer(l) : l \in Layers} \cup {SetLayerMode(m) : m \in Modes}
        \cup {SetSplitPoint(s) : s \in Splits}
Targets == {Edit} \cup {Explicit(l) : l \in Layers}
Updates == {SetParam(t, p, v) : t \in Targets, p \in Params, v \in Values}
Controls == TopologyControls \cup Updates

IsTopologyControl(c) == c.set # "param"
UsesEditTarget(c)    == c.set = "param" /\ c.target = Edit

Engines ==
    [edit : Layers, mode : Modes, split : Splits, value : [Layers -> [Params -> Values]]]

\* The engine after a control (handle_control).
Apply(e, c) ==
    CASE c.set = "edit"  -> [e EXCEPT !.edit = c.to]
      [] c.set = "mode"  -> [e EXCEPT !.mode = c.to]
      [] c.set = "split" -> [e EXCEPT !.split = c.to]
      [] c.set = "param" ->
            LET layer == IF c.target = Edit THEN e.edit ELSE c.target.names
            IN  [e EXCEPT !.value[layer][c.param] = c.to]

Applied(e, q) == FoldLeft(Apply, e, q)
-----------------------------------------------------------------------------
(* Where a control goes. *)

\* Mutant: a control stands in only for one that sets the same.
ReplaceableEqual(c, d) == c = d
ReplaceableSameField(c, d) ==
    /\ c.set = d.set
    /\ c.set = "param" => c.target = d.target /\ c.param = d.param

\* Mutant: an edit layer does not look for updates to the layer edited before.
PreservesEditOrderHalf(i, c) ==
    UsesEditTarget(c) => \A j \in DOMAIN queue : j > i => queue[j].set # "edit"
\* Taking place i, c changes no layer that an update queued behind goes to,
\* and goes to the layer edited now.
ReplacementPreservesEditOrder(i, c) ==
    \A j \in DOMAIN queue : j > i =>
        /\ UsesEditTarget(c) => queue[j].set # "edit"
        /\ c.set = "edit" => ~UsesEditTarget(queue[j])

Places(c) ==
    {i \in DOMAIN queue :
        ReplaceableSameField(queue[i], c) /\ ReplacementPreservesEditOrder(i, c)}

\* Mutant: room for one more.
FullOffByOne == Len(queue) > Capacity
Full == Len(queue) = Capacity
\* The entries a layer control may push out.
Evictable == {i \in DOMAIN queue : ~IsTopologyControl(queue[i])}

\* Two updates write the same field of the same layer under different names.
Aliases(c, d) ==
    /\ c.set = "param" /\ d.set = "param" /\ c.param = d.param
    /\ c.target # d.target /\ Edit \in {c.target, d.target}
-----------------------------------------------------------------------------
Init ==
    /\ queue = <<>>
    /\ engine = [edit |-> CHOOSE l \in Layers : TRUE, mode |-> CHOOSE m \in Modes : TRUE,
                 split |-> CHOOSE s \in Splits : TRUE,
                 value |-> [l \in Layers |-> [p \in Params |-> CHOOSE v \in Values : TRUE]]]
    /\ promised = engine
    /\ evicted = {} /\ overtaken = {} /\ editSwapped = FALSE

\* The oldest queued control c may stand for takes c's value, and c's place is its.
Replace(c) ==
    /\ Places(c) # {}
    /\ LET i == Min(Places(c))
           behind == {queue[j] : j \in (i + 1)..Len(queue)}
       IN  /\ queue' = ReplaceAt(queue, i, c)
           /\ overtaken' = IF \E d \in behind : Aliases(c, d)
                           THEN overtaken \cup {c.param} ELSE overtaken
           /\ editSwapped' = (editSwapped \/ (c.set = "edit"
                                              /\ \E d \in behind : d.set = "edit"))
    /\ promised' = Apply(promised, c)
    /\ UNCHANGED <<engine, evicted>>

Enqueue(c) ==
    /\ Places(c) = {} /\ ~Full
    /\ queue' = Append(queue, c)
    /\ promised' = Apply(promised, c)
    /\ UNCHANGED <<engine, evicted, overtaken, editSwapped>>

\* evict_oldest_parameter, then push_back.
Evict(c) ==
    /\ Places(c) = {} /\ Full
    /\ IsTopologyControl(c) /\ Evictable # {}
    /\ LET i == Min(Evictable)
       IN  /\ queue' = Append(RemoveAt(queue, i), c)
           /\ evicted' = evicted \cup {queue[i].param}
    /\ promised' = Apply(promised, c)
    /\ UNCHANGED <<engine, overtaken, editSwapped>>

\* TrySendError::Full: the handler drops the control.
Refused(c) ==
    Places(c) = {} /\ Full /\ (IsTopologyControl(c) => Evictable = {})
Refuse(c) == Refused(c) /\ UNCHANGED vars

TrySend(c) == Replace(c) \/ Enqueue(c) \/ Evict(c) \/ Refuse(c)

\* try_receive by the audio task, which applies the control at once.
TryReceive ==
    /\ queue # <<>>
    /\ queue' = Tail(queue)
    /\ engine' = Apply(engine, Head(queue))
    /\ UNCHANGED <<promised, evicted, overtaken, editSwapped>>

Next == TryReceive \/ \E c \in Controls : TrySend(c)

Spec == Init /\ [][Next]_vars
-----------------------------------------------------------------------------
\* The queue stays within its capacity; the engines are engines.
TypeOK ==
    /\ queue \in Seq(Controls) /\ Len(queue) <= Capacity
    /\ engine \in Engines /\ promised \in Engines
    /\ evicted \subseteq Params /\ overtaken \subseteq Params
    /\ editSwapped \in BOOLEAN

\* try_send: however controls are coalesced and evicted, applying what is queued
\* leaves the engine as applying all that was accepted in order would: in mode
\* and split always; in the edit layer and in the params still whole unless an
\* edit layer went ahead of a newer one.  Broken are only params given up, and
\* params replaced ahead of a queued control naming the same field otherwise.
QueueKeepsOrder ==
    LET final == Applied(engine, queue) IN
    /\ final.mode = promised.mode /\ final.split = promised.split
    /\ ~editSwapped =>
        /\ final.edit = promised.edit
        /\ \A l \in Layers, p \in Params \ (evicted \cup overtaken) :
            final.value[l][p] = promised.value[l][p]

\* Of the controls that set f, the last accepted is the one that waits, or else the
\* one in force: now is what the engine has, last what was accepted last.
Stands(f, now, last) ==
    LET waiting == {i \in DOMAIN queue : queue[i].set = f}
    IN  \/ waiting = {} /\ now = last
        \/ \E i \in DOMAIN queue : waiting = {i} /\ queue[i].to = last

\* try_send under saturation: a layer mode or a split point once accepted is never
\* given up for another control, never waits twice, and is never undone by an
\* older one, whatever replaces or evicts what is queued around it.
ModeAndSplitStand ==
    /\ Stands("mode", engine.mode, promised.mode)
    /\ Stands("split", engine.split, promised.split)
=============================================================================
