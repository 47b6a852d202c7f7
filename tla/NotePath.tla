------------------------------ MODULE NotePath ------------------------------
(***************************************************************************)
(* The way of notes from USB MIDI to the synth engine of the Daisy         *)
(* firmware: the performance FIFO (PerformanceQueue in audio.rs), the      *)
(* fallback for releases it has no room for (pending_releases.rs), and the *)
(* audio task that drains both.                                            *)
(*                                                                         *)
(* The MIDI handler runs at interrupt priority P2 and the audio task at    *)
(* P1: a block may fall between any two accesses of the handler, and the   *)
(* handler never runs inside a block.  The engine is the one the firmware  *)
(* starts with: one layer, no arpeggiator, no unison, and voices to spare. *)
(* Commands that touch neither a note nor the pedal are all "other".       *)
(***************************************************************************)
EXTENDS Integers, Sequences

CONSTANTS
    Notes,          \* MIDI note numbers
    Capacity        \* PERFORMANCE_QUEUE_CAPACITY

ASSUME NotePathAssumption == Capacity \in Nat \ {0}

VARIABLES
    keys,           \* the notes the player holds, going by the MIDI received
    foot,           \* whether the player holds the pedal
    queue,          \* the performance FIFO
    pendingNotes,   \* PendingReleases.words
    pendingAll,     \* PendingReleases.all_notes_off
    rejected,       \* a release the full FIFO gave back to the handler
    engine,         \* the engine's voices and pedal
    draining,       \* whether the audio task is inside a block
    exposed,        \* history: notes whose last release cannot stop a queued NoteOn
    pedalDropped    \* history: the last pedal change found the FIFO full

player  == <<keys, foot>>
pending == <<pendingNotes, pendingAll>>
vars == <<keys, foot, queue, pendingNotes, pendingAll, rejected, engine, draining,
          exposed, pedalDropped>>
-----------------------------------------------------------------------------
On(n)    == [cmd |-> "on", note |-> n]
Off(n)   == [cmd |-> "off", note |-> n]
AllOff   == [cmd |-> "allOff"]
Pedal(d) == [cmd |-> "pedal", down |-> d]
Other    == [cmd |-> "other"]
None     == [cmd |-> "none"]

Releases == {Off(n) : n \in Notes} \cup {AllOff}
Commands ==
    Releases \cup {On(n) : n \in Notes} \cup {Pedal(d) : d \in BOOLEAN} \cup {Other}

Queued(c) == \E i \in DOMAIN queue : queue[i] = c

\* Mutant: room for one more.
FullOffByOne == Len(queue) > Capacity
Full == Len(queue) = Capacity

\* Notes with a NoteOn queued, and those with one behind an AllNotesOff.
OnQueued == {n \in Notes : Queued(On(n))}
OnBehindAllOff ==
    {n \in Notes : \E i, j \in DOMAIN queue : i < j /\ queue[i] = AllOff /\ queue[j] = On(n)}
-----------------------------------------------------------------------------
(* The engine.  held: notes whose voice a key gates; sustained: notes whose *)
(* voice only the pedal keeps alive.                                        *)

Silent == [held |-> {}, sustained |-> {}, pedal |-> FALSE]

\* Mutant: the pedal is not consulted.
LiftedSustains(e, S) ==
    [e EXCEPT !.held = @ \ S, !.sustained = @ \cup (e.held \cap S)]
\* The keys S go up.
Lifted(e, S) ==
    [e EXCEPT !.held = @ \ S,
              !.sustained = IF e.pedal THEN @ \cup (e.held \cap S) ELSE @]

\* The engine after one command.
After(e, c) ==
    CASE c.cmd = "on"     -> [e EXCEPT !.held = @ \cup {c.note}]
      [] c.cmd = "off"    -> Lifted(e, {c.note})
      [] c.cmd = "allOff" -> Silent
      [] c.cmd = "pedal"  ->
            [e EXCEPT !.pedal = c.down,
                      !.sustained = IF e.pedal /\ ~c.down THEN {} ELSE @]
      [] OTHER -> e

\* Mutant: the flag is taken and not acted on.
AfterReleasesNotesOnly(e) == Lifted(e, pendingNotes)
\* The engine after apply_pending_releases.
AfterReleases(e) == Lifted(IF pendingAll THEN Silent ELSE e, pendingNotes)
-----------------------------------------------------------------------------
Init ==
    /\ keys = {} /\ foot = FALSE
    /\ queue = <<>>
    /\ pendingNotes = {} /\ pendingAll = FALSE
    /\ rejected = None
    /\ engine = Silent
    /\ draining = FALSE
    /\ exposed = {} /\ pedalDropped = FALSE

(* The MIDI handler.                                                       *)

\* What a command says of the player's keys and pedal.
Played(c) ==
    /\ keys' = CASE c.cmd = "on"     -> keys \cup {c.note}
                 [] c.cmd = "off"    -> keys \ {c.note}
                 [] c.cmd = "allOff" -> {}
                 [] OTHER            -> keys
    /\ foot' = IF c.cmd = "pedal" THEN c.down ELSE foot

\* Mutant: an AllNotesOff waiting in the fallback counts as queued.
MergesPending(c) == c = AllOff /\ (Queued(AllOff) \/ pendingAll)
\* try_send keeps one AllNotesOff in the FIFO.
Merges(c) == c = AllOff /\ Queued(AllOff)

Merge(c) ==
    /\ Merges(c)
    /\ exposed' = OnBehindAllOff
    /\ UNCHANGED <<queue, rejected, pedalDropped>>

Accept(c) ==
    /\ ~Merges(c) /\ ~Full
    /\ queue' = Append(queue, c)
    /\ exposed' = CASE c.cmd = "off"    -> exposed \ {c.note}
                    [] c.cmd = "allOff" -> {}
                    [] OTHER            -> exposed
    /\ pedalDropped' = (pedalDropped /\ c.cmd # "pedal")
    /\ UNCHANGED rejected

\* A full FIFO: the handler turns to the fallback with a release, the rest is lost.
Reject(c) ==
    /\ ~Merges(c) /\ Full
    /\ rejected' = IF c \in Releases THEN c ELSE None
    /\ pedalDropped' = (pedalDropped \/ c.cmd = "pedal")
    /\ UNCHANGED <<queue, exposed>>

Receive(c) ==
    /\ ~draining /\ rejected = None
    /\ Played(c)
    /\ Merge(c) \/ Accept(c) \/ Reject(c)
    /\ UNCHANGED <<pending, engine, draining>>

StoreRelease ==
    /\ ~draining /\ rejected # None
    /\ IF rejected = AllOff
       THEN /\ pendingAll' = TRUE
            /\ exposed' = OnQueued
            /\ UNCHANGED pendingNotes
       ELSE /\ pendingNotes' = pendingNotes \cup {rejected.note}
            /\ exposed' = (exposed \ {rejected.note}) \cup (OnQueued \cap {rejected.note})
            /\ UNCHANGED pendingAll
    /\ rejected' = None
    /\ UNCHANGED <<player, queue, engine, draining, pedalDropped>>
-----------------------------------------------------------------------------
(* The audio task, one block: what is pending, then one command, then as   *)
(* many more as the adaptive budget lets it take.                          *)

BlockStart ==
    /\ ~draining
    /\ pendingNotes' = {} /\ pendingAll' = FALSE
    /\ IF queue = <<>>
       THEN engine' = AfterReleases(engine) /\ UNCHANGED queue
       ELSE engine' = After(AfterReleases(engine), Head(queue)) /\ queue' = Tail(queue)
    /\ draining' = TRUE
    /\ UNCHANGED <<player, rejected, exposed, pedalDropped>>

BlockExtra ==
    /\ draining /\ queue # <<>>
    /\ engine' = After(engine, Head(queue))
    /\ queue' = Tail(queue)
    /\ UNCHANGED <<player, pending, rejected, draining, exposed, pedalDropped>>

BlockEnd ==
    /\ draining
    /\ draining' = FALSE
    /\ UNCHANGED <<player, queue, pending, rejected, engine, exposed, pedalDropped>>
-----------------------------------------------------------------------------
Next ==
    \/ \E c \in Commands : Receive(c)
    \/ StoreRelease
    \/ BlockStart \/ BlockExtra \/ BlockEnd

\* The codec's DMA starts block after block, and each ends.  Blocks preempt the
\* handler again and again, but leave it time to finish (strong fairness).
Fairness == SF_vars(StoreRelease) /\ WF_vars(BlockStart) /\ WF_vars(BlockEnd)

Spec == Init /\ [][Next]_vars
-----------------------------------------------------------------------------
\* The variables keep their types, and the FIFO its capacity.
TypeOK ==
    /\ keys \in SUBSET Notes /\ foot \in BOOLEAN
    /\ queue \in Seq(Commands) /\ Len(queue) <= Capacity
    /\ pendingNotes \in SUBSET Notes /\ pendingAll \in BOOLEAN
    /\ rejected \in Releases \cup {None}
    /\ engine \in [held : SUBSET Notes, sustained : SUBSET Notes, pedal : BOOLEAN]
    /\ draining \in BOOLEAN
    /\ exposed \in SUBSET Notes /\ pedalDropped \in BOOLEAN

Stops(c, n) == c \in {Off(n), AllOff}

\* The releases already on their way stop note n, whatever of it is under way.
WillStop(n) ==
    \/ \E i \in DOMAIN queue :
          Stops(queue[i], n) /\ \A j \in DOMAIN queue : queue[j] = On(n) => j < i
    \/ ~Queued(On(n)) /\ (n \notin engine.held \/ n \in pendingNotes \/ pendingAll)

\* A note whose key is up stops, except in the two cases where the firmware lets
\* a release go by a NoteOn that is still queued: a release taken by the fallback
\* while the FIFO is full, and an AllNotesOff merged with an earlier one.
OnlyExposedNotesHang ==
    \A n \in Notes \ keys : n \in exposed \/ Stops(rejected, n) \/ WillStop(n)

\* Where the pedal stands once the FIFO is drained.
PedalToCome ==
    \/ \E i \in DOMAIN queue :
          /\ queue[i] = Pedal(TRUE)
          /\ \A j \in DOMAIN queue : queue[j] \in {Pedal(FALSE), AllOff} => j < i
    \/ engine.pedal /\ ~Queued(Pedal(FALSE)) /\ ~Queued(AllOff)

\* Voices outlive their key only under the pedal, and the engine's pedal outlives
\* the player's foot only when the change that lifts it found the FIFO full.
SustainEndsWithPedal ==
    /\ engine.sustained # {} => engine.pedal
    /\ ~foot /\ ~pedalDropped => ~PedalToCome

\* A note whose key is up is silenced by the engine, unless it is exposed or the
\* key goes down again.
ReleasedNotesStop ==
    \A n \in Notes :
        (n \in engine.held \ (keys \cup exposed)) ~> (n \notin engine.held \ (keys \cup exposed))

\* The fallback loses no release: with nothing left to process, no voice is gated
\* for a key that is up.
QuietKeysAreSilent ==
    queue = <<>> /\ pendingNotes = {} /\ ~pendingAll /\ rejected = None
        => engine.held \subseteq keys
=============================================================================
