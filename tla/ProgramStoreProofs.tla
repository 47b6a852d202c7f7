------------------------- MODULE ProgramStoreProofs -------------------------
(***************************************************************************)
(* Theorems about ProgramStore and ProgramStoreFaults for every number of  *)
(* slots, journal length, counter width and set of patches.                *)
(***************************************************************************)
EXTENDS ProgramStoreFaults, FiniteSetTheorems, WellFoundedInduction, SequenceTheorems, TLAPS

USE StoreAssumption DEF StoreAssumption
-----------------------------------------------------------------------------
(* Helpers of the model: least and greatest elements, a free block.        *)

\* Lowest(S) is the least element of a non-empty set of naturals.
LEMMA LowestExists ==
    ASSUME NEW S, S \in SUBSET Nat, S # {}
    PROVE  Lowest(S) \in S /\ \A y \in S : Lowest(S) <= y
<1> DEFINE Below(x) == {y \in S : y < x}
           Cuts == {Below(x) : x \in S}
<1>1. Cuts \subseteq FiniteSubsetsOf(S)
  <2> SUFFICES ASSUME NEW x \in S PROVE IsFiniteSet(Below(x))
    BY DEF FiniteSubsetsOf
  <2> QED
    BY FS_BoundedSetOfNaturals, \A y \in Below(x) : y <= x, Below(x) \in SUBSET Nat, x \in Nat
<1>2. PICK c \in Cuts : \A d \in Cuts : ~ (<<d, c>> \in StrictSubsetOrdering(S))
  <2>1. Cuts # {}
    OBVIOUS
  <2> HIDE DEF Cuts
  <2> QED
    BY <1>1, <2>1, FS_StrictSubsetOrderingWellFounded, WFMin
<1>3. PICK x \in S : c = Below(x)
  BY <1>2
<1>4. ASSUME NEW y \in S PROVE x <= y
  <2> SUFFICES ASSUME y < x PROVE FALSE
    OBVIOUS
  <2>1. y \in Below(x) /\ y \notin Below(y)
    OBVIOUS
  <2>2. \A z \in Below(y) : z \in Below(x)
    OBVIOUS
  <2>3. <<Below(y), Below(x)>> \in StrictSubsetOrdering(S)
    BY <2>1, <2>2 DEF StrictSubsetOrdering
  <2>4. Below(y) \in Cuts
    OBVIOUS
  <2> QED
    BY <1>2, <1>3, <2>3, <2>4
<1> QED
  BY <1>4 DEF Lowest

\* Last(S) is the greatest element of a non-empty bounded set of naturals.
LEMMA LastExists ==
    ASSUME NEW n \in Nat, NEW S, S \in SUBSET (1 .. n), S # {}
    PROVE  Last(S) \in S /\ \A y \in S : y <= Last(S)
<1> DEFINE T == {n - i : i \in S}
<1>0. \A i \in S : i \in 1 .. n
  OBVIOUS
<1>1. T \in SUBSET Nat /\ T # {}
  <2>1. \A i \in S : n - i \in Nat
    BY <1>0
  <2> QED
    BY <2>1
<1>2. Lowest(T) \in T /\ \A y \in T : Lowest(T) <= y
  BY <1>1, LowestExists
<1>3. PICK i \in S : Lowest(T) = n - i
  BY <1>2
<1>4. ASSUME NEW y \in S PROVE y <= i
  <2>1. n - i <= n - y
    BY <1>2, <1>3
  <2> QED
    BY <1>0, <2>1
<1> QED
  BY <1>4 DEF Last

\* One block more than slots: an index never refers to all of them.
LEMMA SomeBlockUnreferenced ==
    ASSUME NEW ix \in [Slots -> Blocks \cup {NoBlock}]
    PROVE  Unreferenced(ix) # {}
<1> SUFFICES ASSUME \A b \in Blocks : \E s \in Slots : ix[s] = b
             PROVE  FALSE
  BY DEF Unreferenced
<1> DEFINE f == [b \in Blocks |-> CHOOSE s \in Slots : ix[s] = b]
<1>1. f \in [Blocks -> Slots] /\ \A b \in Blocks : ix[f[b]] = b
  OBVIOUS
<1>2. IsFiniteSet(Blocks) /\ IsFiniteSet(Slots) /\ Cardinality(Slots) < Cardinality(Blocks)
  BY FS_Interval DEF Blocks, Slots
<1>3. \E x, y \in Blocks : x # y /\ f[x] = f[y]
  <2> HIDE DEF f
  <2> QED
    BY <1>1, <1>2, FS_PigeonHole
<1> QED
  BY <1>1, <1>3

LEMMA LowestUnreferenced ==
    ASSUME NEW ix \in [Slots -> Blocks \cup {NoBlock}]
    PROVE  /\ Lowest(Unreferenced(ix)) \in Unreferenced(ix)
           /\ Lowest(Unreferenced(ix)) \in Blocks
<1>1. Unreferenced(ix) \in SUBSET Nat
  BY DEF Unreferenced, Blocks
<1> QED
  BY <1>1, SomeBlockUnreferenced, LowestExists DEF Unreferenced

LEMMA LowestMissing ==
    ASSUME TypeOK, Missing # {}
    PROVE  Lowest(Missing) \in Missing /\ Lowest(Missing) \in Slots
BY LowestExists, Missing \in SUBSET Nat DEF Missing, Slots

\* With each slot in a block of its own, just one block is left over.
LEMMA OneBlockUnreferenced ==
    ASSUME NEW ix \in [Slots -> Blocks],
           \A s, t \in Slots : s # t => ix[s] # ix[t],
           NEW b \in Unreferenced(ix), NEW d \in Unreferenced(ix)
    PROVE  b = d
<1> SUFFICES ASSUME b # d PROVE FALSE
  OBVIOUS
<1> DEFINE Rest == (Blocks \ {b}) \ {d}
<1>1. ix \in Injection(Slots, Rest)
  BY DEF Injection, IsInjective, Unreferenced
<1>2. IsFiniteSet(Blocks) /\ Cardinality(Blocks) = NSlots + 1 /\ Cardinality(Slots) = NSlots
  BY FS_Interval DEF Blocks, Slots
<1>3. b \in Blocks /\ d \in Blocks \ {b}
  BY DEF Unreferenced
<1>4. IsFiniteSet(Rest) /\ Cardinality(Rest) = NSlots - 1
  <2>1. IsFiniteSet(Blocks \ {b}) /\ Cardinality(Blocks \ {b}) = Cardinality(Blocks) - 1
    BY <1>2, <1>3, FS_RemoveElement
  <2>2. IsFiniteSet(Rest) /\ Cardinality(Rest) = Cardinality(Blocks \ {b}) - 1
    BY <1>3, <2>1, FS_RemoveElement
  <2> QED
    BY <1>2, <2>1, <2>2
<1>5. Cardinality(Slots) <= Cardinality(Rest)
  <2> HIDE DEF Rest
  <2> QED
    BY <1>1, <1>4, FS_Injection
<1> QED
  BY <1>2, <1>4, <1>5
-----------------------------------------------------------------------------
(* What a replayed catalog holds.                                          *)

LEMMA ReplayTypes ==
    ASSUME NEW c \in CatalogValues, IsValid(c), Len(c.journal) <= JournalCap
    PROVE  /\ ReplayedIndex(c) \in [Slots -> Blocks]
           /\ ReplayedSelection(c) \in Slots
           /\ ReplayedUsed(c) \in 0 .. JournalCap
           /\ c.epoch \in U32
<1>1. /\ c.table \in [Slots -> Blocks] /\ c.sel \in Slots /\ c.epoch \in U32
      /\ c.journal \in Seq(Entries) /\ Len(c.journal) \in Nat
      /\ DOMAIN c.journal = 1 .. Len(c.journal)
  BY DEF CatalogValues, IsValid, Erased, Dirty
<1>2. ASSUME NEW s \in Slots, PointersTo(c.journal, s) # {}
      PROVE  c.journal[Last(PointersTo(c.journal, s))].block \in Blocks
  <2>1. PointersTo(c.journal, s) \in SUBSET (1 .. Len(c.journal))
    BY <1>1 DEF PointersTo, Decodable
  <2>2. Last(PointersTo(c.journal, s)) \in PointersTo(c.journal, s)
    BY <1>1, <1>2, <2>1, LastExists
  <2>3. c.journal[Last(PointersTo(c.journal, s))] \in Entries
    BY <1>1, <2>1, <2>2
  <2>4. c.journal[Last(PointersTo(c.journal, s))].kind = "pointer"
    BY <2>2 DEF PointersTo
  <2> QED
    BY <2>3, <2>4 DEF Entries, Torn
<1>3. ASSUME Selections(c.journal) # {}
      PROVE  c.journal[Last(Selections(c.journal))].slot \in Slots
  <2>1. Selections(c.journal) \in SUBSET (1 .. Len(c.journal))
    BY <1>1 DEF Selections, Decodable
  <2>2. Last(Selections(c.journal)) \in Selections(c.journal)
    BY <1>1, <1>3, <2>1, LastExists
  <2>3. c.journal[Last(Selections(c.journal))] \in Entries
    BY <1>1, <2>1, <2>2
  <2>4. c.journal[Last(Selections(c.journal))].kind = "selection"
    BY <2>2 DEF Selections
  <2> QED
    BY <2>3, <2>4 DEF Entries, Torn
<1>4. ReplayedUsed(c) \in 0 .. JournalCap
  BY <1>1 DEF ReplayedUsed
<1> QED
  BY <1>1, <1>2, <1>3, <1>4 DEF ReplayedIndex, ReplayedSelection

LEMMA SelectedIsValid ==
    Openable => Selected \in Catalogs /\ IsValid(catalog[Selected])
BY DEF Openable, Selected, Catalogs
-----------------------------------------------------------------------------
(* The inductive invariant.                                                *)

\* Which call is in progress at which step.
CallMatches ==
    /\ pc \in {"off", "ready"} => op = Idle
    /\ pc \in {"fill", "fillProgram", "fillCommit"} => op.call = "open"
    /\ pc = "wipeSpare" => op.call \in {"none", "open"}
    /\ pc \in {"blockErase", "blockProgram", "blockCommit", "oldErase"} =>
          op.call = "save"
    /\ pc \in {"catErase", "catProgram", "catCommit", "catRetire"} =>
          op.call \in {"open", "save", "select"}
    /\ pc \in {"entryProgram", "entryCommit"} => op.call \in {"save", "select"}

\* The journal fits its sector, and an entry goes behind the last one of a
\* catalog that is valid.
JournalFits ==
    /\ \A c \in Catalogs :
          IsValid(catalog[c]) => Len(catalog[c].journal) <= JournalCap
    /\ pc \in {"catRetire", "entryProgram", "entryCommit"} => used < JournalCap
    /\ pc = "entryCommit" => Len(catalog[active].journal) = used + 1
    /\ ~Booting /\ (op.call = "open" => pc = "catRetire") => IsValid(catalog[active])

\* The one block the index does not name.
FreeBlock == IF pc = "oldErase" THEN op.old ELSE spare
IndexComplete ==
    ~Booting =>
        /\ index \in [Slots -> Blocks]
        /\ Validates(index)
        /\ Unreferenced(index) = {FreeBlock}
        /\ spare \in Blocks

\* What a save in progress has done so far.
SaveProgress ==
    op.call = "save" =>
        /\ pc \in {"blockErase", "blockProgram", "blockCommit", "catErase", "catProgram",
                   "catCommit", "catRetire", "entryProgram", "entryCommit"} =>
              op.old = index[op.slot]
        /\ pc \in {"catErase", "catProgram", "catCommit", "catRetire", "entryProgram",
                   "entryCommit"} =>
              block[spare] = Committed(op.slot, op.gen, op.patch)

\* A recovery has an index of committed blocks; the slots it misses have none.
RecoveryProgress ==
    pc \in {"fill", "fillProgram", "fillCommit"} =>
        /\ \A s \in Slots \ Missing : IsValid(block[index[s]]) /\ block[index[s]].slot = s
        /\ \A s, t \in Slots \ Missing : s # t => index[s] # index[t]
        /\ \A s \in Missing : Copies(s) = {}
        /\ pc # "fill" =>
              spare \in Unreferenced(index) /\ Missing # {} /\ ~IsValid(block[spare])

\* All committed blocks but one belong to different slots, so that no slot
\* ever has more than two copies for a recovery to choose from.
OneExtraCopy ==
    \E u \in Blocks : \A b, d \in Blocks \ {u} :
        b # d /\ IsValid(block[b]) /\ IsValid(block[d]) => block[b].slot # block[d].slot

IndInv ==
    /\ TypeOK /\ CallMatches /\ JournalFits
    /\ IndexComplete /\ SaveProgress /\ RecoveryProgress /\ OneExtraCopy

LEMMA InitIndInv == Init => IndInv
<1> SUFFICES ASSUME Init PROVE IndInv
  OBVIOUS
<1> USE DEF Init
<1>1. TypeOK
  BY DEF TypeOK, BlockValues, CatalogValues, Erased, Slots, Blocks, Catalogs, U32, Ops,
         Idle, Phases, NoBlock
<1>2. CallMatches /\ SaveProgress /\ RecoveryProgress
  BY DEF CallMatches, SaveProgress, RecoveryProgress, Idle
<1>3. JournalFits /\ IndexComplete
  BY DEF JournalFits, IndexComplete, Booting, IsValid, Erased
<1>4. OneExtraCopy
  BY DEF OneExtraCopy, IsValid, Erased, Blocks
<1> QED
  BY <1>1, <1>2, <1>3, <1>4 DEF IndInv

\* With at most two copies of a slot, the scan of a recovery ends with one of
\* them.
LEMMA NewestCopyExists ==
    ASSUME TypeOK, OneExtraCopy, NEW s \in Slots, Copies(s) # {}
    PROVE  NewestCopy(s) \in Copies(s)
<1>1. PICK u \in Blocks : \A b, d \in Blocks \ {u} :
        b # d /\ IsValid(block[b]) /\ IsValid(block[d]) => block[b].slot # block[d].slot
  BY DEF OneExtraCopy
<1>2. \A b, d \in Copies(s) : b = d \/ b = u \/ d = u
  BY <1>1 DEF Copies
<1>3. \A b \in Copies(s) : b \in Nat /\ block[b].gen \in U32
  BY DEF TypeOK, Copies, BlockValues, IsValid, Erased, Dirty, Blocks
<1>4. \A b, d \in Copies(s) : b # d => Beats(b, d) \/ Beats(d, b)
  <2> SUFFICES ASSUME NEW b \in Copies(s), NEW d \in Copies(s), b < d
               PROVE  Beats(b, d) \/ Beats(d, b)
    BY <1>3
  <2> QED
    BY DEF Beats
<1>5. \E b \in Copies(s) : \A d \in Copies(s) \ {b} : Beats(b, d)
  <2>1. CASE u \notin Copies(s)
    BY <1>2, <2>1
  <2>2. CASE u \in Copies(s)
    BY <1>2, <1>4, <2>2
  <2> QED
    BY <2>1, <2>2
<1> QED
  BY <1>5 DEF NewestCopy

-----------------------------------------------------------------------------
(* Types of the values a step writes.                                      *)

LEMMA FlashValues ==
    /\ Erased \in BlockValues /\ Dirty \in BlockValues
    /\ Erased \in CatalogValues /\ Dirty \in CatalogValues
    /\ \A s \in Slots, g \in U32, p \in Patches : Committed(s, g, p) \in BlockValues
    /\ \A e \in U32, t \in [Slots -> Blocks], s \in Slots, j \in Seq(Entries) :
          Snapshot(e, t, s, j) \in CatalogValues
BY DEF BlockValues, CatalogValues, Committed, Snapshot

LEMMA CounterTypes ==
    /\ 0 \in U32 /\ 1 \in U32 /\ 0 \in Slots /\ 0 \in 0 .. JournalCap
    /\ \A n \in U32 : Successor(n) \in U32
BY DEF U32, Slots, Successor

LEMMA SetBlockType ==
    ASSUME TypeOK, NEW b \in Blocks, NEW x \in BlockValues, SetBlock(b, x)
    PROVE  block' \in [Blocks -> BlockValues] /\ catalog' \in [Catalogs -> CatalogValues]
BY DEF TypeOK, SetBlock

LEMMA SetCatalogType ==
    ASSUME TypeOK, NEW c \in Catalogs, NEW x \in CatalogValues, SetCatalog(c, x)
    PROVE  block' \in [Blocks -> BlockValues] /\ catalog' \in [Catalogs -> CatalogValues]
BY DEF TypeOK, SetCatalog

\* The journal of a valid catalog is a sequence of entries.
LEMMA JournalType ==
    ASSUME NEW c \in CatalogValues, IsValid(c)
    PROVE  c.journal \in Seq(Entries)
BY DEF CatalogValues, IsValid, Erased, Dirty

\* A valid catalog with another journal is a catalog value.
LEMMA JournalUpdateType ==
    ASSUME NEW c \in CatalogValues, IsValid(c), NEW j \in Seq(Entries)
    PROVE  /\ [c EXCEPT !.journal = j] \in CatalogValues
           /\ [c EXCEPT !.journal = j].st = "valid"
           /\ [c EXCEPT !.journal = j].journal = j
<1> DEFINE Valid == [st : {"valid"}, epoch : U32, table : [Slots -> Blocks], sel : Slots,
                     journal : Seq(Entries)]
<1>1. c \in Valid
  BY DEF CatalogValues, IsValid, Erased, Dirty
<1>2. [c EXCEPT !.journal = j] \in Valid
  BY <1>1
<1>3. [c EXCEPT !.journal = j].journal = j
  BY <1>1
<1> QED
  BY <1>1, <1>2, <1>3 DEF CatalogValues

LEMMA CutCatalogType ==
    ASSUME NEW c \in CatalogValues, NEW x \in CutCatalogs(c),
           IsValid(c) => Len(c.journal) <= JournalCap
    PROVE  x \in CatalogValues /\ (IsValid(x) => Len(x.journal) <= JournalCap)
<1>1. CASE x = Dirty
  BY <1>1, FlashValues DEF IsValid, Dirty
<1>2. ASSUME IsValid(c), NEW n \in 0 .. Len(c.journal),
             x = [c EXCEPT !.journal = SubSeq(c.journal, 1, n)]
      PROVE  x \in CatalogValues /\ Len(x.journal) <= JournalCap
  <2>1. c.journal \in Seq(Entries)
    BY <1>2, JournalType
  <2>2. SubSeq(c.journal, 1, n) \in Seq(Entries) /\ Len(SubSeq(c.journal, 1, n)) = n
    BY <2>1, SubSeqProperties
  <2>3. x \in CatalogValues /\ x.journal = SubSeq(c.journal, 1, n)
    BY <1>2, <2>2, JournalUpdateType
  <2>4. Len(c.journal) \in Nat
    BY <2>1
  <2> QED
    BY <1>2, <2>2, <2>3, <2>4
<1>3. ASSUME IsValid(c), NEW n \in DOMAIN c.journal,
             x = [c EXCEPT !.journal = Append(SubSeq(c.journal, 1, n - 1), Torn)]
      PROVE  x \in CatalogValues /\ Len(x.journal) <= JournalCap
  <2>1. c.journal \in Seq(Entries)
    BY <1>3, JournalType
  <2>2. n \in 1 .. Len(c.journal) /\ Len(c.journal) \in Nat
    BY <2>1
  <2>3. /\ SubSeq(c.journal, 1, n - 1) \in Seq(Entries)
        /\ Len(SubSeq(c.journal, 1, n - 1)) = n - 1
    BY <2>1, <2>2, SubSeqProperties
  <2>4. /\ Append(SubSeq(c.journal, 1, n - 1), Torn) \in Seq(Entries)
        /\ Len(Append(SubSeq(c.journal, 1, n - 1), Torn)) = n
    BY <2>2, <2>3, AppendProperties, Torn \in Entries DEF Entries
  <2>5. /\ x \in CatalogValues
        /\ x.journal = Append(SubSeq(c.journal, 1, n - 1), Torn)
    BY <1>3, <2>4, JournalUpdateType
  <2> QED
    BY <1>3, <2>2, <2>4, <2>5
<1> QED
  BY <1>1, <1>2, <1>3 DEF CutCatalogs

LEMMA OpTypes ==
    ASSUME TypeOK
    PROVE  /\ op.call = "save" =>
                 op.slot \in Slots /\ op.patch \in Patches /\ op.old \in Blocks /\ op.gen \in U32
           /\ op.call = "select" => op.slot \in Slots
           /\ Idle \in Ops /\ [call |-> "open"] \in Ops
           /\ \A s \in Slots, p \in Patches, b \in Blocks, g \in U32 :
                 [call |-> "save", slot |-> s, patch |-> p, old |-> b, gen |-> g] \in Ops
           /\ \A s \in Slots : [call |-> "select", slot |-> s] \in Ops
BY DEF TypeOK, Ops, Idle

\* Without power the RAM variables and the call have their initial values.
LEMMA RamTypes ==
    /\ [s \in Slots |-> NoBlock] \in [Slots -> Blocks \cup {NoBlock}]
    /\ 0 \in Slots /\ 0 \in U32 /\ 0 \in 0 .. JournalCap
    /\ {"A", "B"} = Catalogs /\ \A c \in Catalogs : Other(c) \in Catalogs /\ Other(c) # c
BY DEF Slots, U32, Catalogs, Other

-----------------------------------------------------------------------------
(* Steps.  Each action preserves the inductive invariant.                  *)

USE DEF IsValid, SetBlock, SetCatalog, Erased, Dirty, Committed, Idle, Booting, PowerLost,
        JournalStep, Target, flash, ram


\* A trusted catalog gives a complete index with one block left over.
LEMMA OpenIndexedStep ==
    ASSUME IndInv, OpenIndexed
    PROVE  IndInv'
<1> DEFINE snap == catalog[Selected]
           ix   == ReplayedIndex(snap)
<1>a. /\ Selected \in Catalogs /\ IsValid(snap) /\ snap \in CatalogValues
      /\ Len(snap.journal) <= JournalCap
  BY SelectedIsValid DEF IndInv, OpenIndexed, TypeOK, JournalFits
<1>b. /\ ix \in [Slots -> Blocks] /\ ReplayedSelection(snap) \in Slots
      /\ ReplayedUsed(snap) \in 0 .. JournalCap /\ snap.epoch \in U32
  BY <1>a, ReplayTypes
<1>c. Lowest(Unreferenced(ix)) \in Unreferenced(ix) /\ Lowest(Unreferenced(ix)) \in Blocks
  <2>1. ix \in [Slots -> Blocks \cup {NoBlock}]
    BY <1>b
  <2> QED
    BY <2>1, LowestUnreferenced
<1>d. Validates(ix)
  BY DEF OpenIndexed, Openable
<1>e. Unreferenced(ix) = {Lowest(Unreferenced(ix))}
  BY <1>b, <1>c, <1>d, OneBlockUnreferenced DEF Validates
<1>f. /\ index' = ix /\ spare' = Lowest(Unreferenced(ix)) /\ active' = Selected
      /\ lastLoad' = ReplayedSelection(snap) /\ used' = ReplayedUsed(snap)
      /\ epoch' = snap.epoch /\ pc' \in {"ready", "wipeSpare"}
      /\ UNCHANGED <<block, catalog, op>>
  BY DEF OpenIndexed
<1> HIDE DEF ix, snap
<1>1. TypeOK'
  BY <1>a, <1>b, <1>c, <1>f DEF IndInv, TypeOK, Phases
<1>2. CallMatches'
  BY DEF IndInv, OpenIndexed, CallMatches
<1>3. JournalFits'
  BY <1>a, <1>f DEF IndInv, JournalFits, snap, CallMatches, OpenIndexed
<1>4. IndexComplete'
  BY <1>b, <1>c, <1>d, <1>e, <1>f DEF IndexComplete, Unreferenced, Validates, FreeBlock
<1>5. SaveProgress'
  BY DEF IndInv, OpenIndexed, SaveProgress, TypeOK, CallMatches, IndexComplete, FreeBlock, Unreferenced
<1>6. RecoveryProgress'
  BY DEF IndInv, OpenIndexed, RecoveryProgress, CallMatches, TypeOK, Missing, Copies, Unreferenced
<1>7. OneExtraCopy'
  BY DEF IndInv, OpenIndexed, OneExtraCopy, TypeOK
<1> QED
  BY <1>1, <1>2, <1>3, <1>4, <1>5, <1>6, <1>7 DEF IndInv

\* The scan indexes a committed block of each slot that has one.
LEMMA OpenRecoverStep ==
    ASSUME IndInv, OpenRecover
    PROVE  IndInv'
<1>a. \A s \in Slots : \/ Copies(s) = {} /\ ScannedIndex[s] = NoBlock
                       \/ ScannedIndex[s] \in Copies(s)
  BY NewestCopyExists DEF IndInv, ScannedIndex, NewestCopy
<1>1. TypeOK'
  <2>1. ScannedIndex \in [Slots -> Blocks \cup {NoBlock}]
    BY <1>a DEF ScannedIndex, Copies
  <2> QED
    BY <2>1, OpTypes, RamTypes DEF IndInv, OpenRecover, TypeOK, Phases
<1>2. CallMatches'
  BY DEF IndInv, OpenRecover, CallMatches
<1>3. JournalFits'
  BY DEF IndInv, OpenRecover, JournalFits, TypeOK, Catalogs, Other, CallMatches
<1>4. IndexComplete'
  BY DEF IndInv, OpenRecover, IndexComplete, TypeOK, CallMatches, SaveProgress, Validates, FreeBlock, Unreferenced
<1>5. SaveProgress'
  BY DEF IndInv, OpenRecover, SaveProgress, TypeOK, CallMatches, IndexComplete, FreeBlock, Unreferenced
<1>6. RecoveryProgress'
  BY <1>a, NoBlock \notin Blocks
     DEF OpenRecover, RecoveryProgress, Missing, Copies, NoBlock, Blocks
<1>7. OneExtraCopy'
  BY DEF IndInv, OpenRecover, OneExtraCopy, TypeOK
<1> QED
  BY <1>1, <1>2, <1>3, <1>4, <1>5, <1>6, <1>7 DEF IndInv

\* Recovery erases a block that no slot needs.
LEMMA FillEraseStep ==
    ASSUME IndInv, FillErase
    PROVE  IndInv'
<1>1. TypeOK'
  <2>1. Lowest(Unreferenced(index)) \in Blocks /\ Erased \in BlockValues
    BY FlashValues, OpTypes, LowestUnreferenced, LowestMissing, CounterTypes
       DEF IndInv, FillErase, TypeOK, CallMatches, IndexComplete, RecoveryProgress, Unreferenced
  <2>2. block' \in [Blocks -> BlockValues] /\ catalog' \in [Catalogs -> CatalogValues]
    BY <2>1, SetBlockType DEF IndInv, FillErase
  <2> QED
    BY <2>1, <2>2, OpTypes, LowestMissing, LowestUnreferenced DEF IndInv, FillErase, TypeOK, Phases
<1>2. CallMatches'
  BY DEF IndInv, FillErase, CallMatches
<1>3. JournalFits'
  BY DEF IndInv, FillErase, JournalFits, TypeOK, Catalogs, Other, CallMatches
<1>4. IndexComplete'
  BY DEF IndInv, FillErase, IndexComplete, TypeOK, CallMatches, SaveProgress, Validates, FreeBlock, Unreferenced
<1>5. SaveProgress'
  BY DEF IndInv, FillErase, SaveProgress, TypeOK, CallMatches, IndexComplete, FreeBlock, Unreferenced
<1>6. RecoveryProgress'
  <2>1. spare' \in Unreferenced(index) /\ spare' \in Blocks
    BY LowestUnreferenced DEF IndInv, FillErase, TypeOK
  <2>2. block' = [block EXCEPT ![spare'] = Erased] /\ index' = index /\ pc' = "fillProgram"
    BY DEF FillErase
  <2>3. Missing' = Missing /\ Missing # {} /\ Unreferenced(index)' = Unreferenced(index)
    BY <2>2 DEF Missing, Unreferenced, FillErase
  <2>4. \A s \in Slots \ Missing : block'[index[s]] = block[index[s]]
    BY <2>1, <2>2 DEF IndInv, TypeOK, Unreferenced
  <2>5. \A s \in Slots : Copies(s)' \subseteq Copies(s)
    BY <2>1, <2>2 DEF IndInv, TypeOK, Copies
  <2>6. /\ \A s \in Slots \ Missing : IsValid(block[index[s]]) /\ block[index[s]].slot = s
        /\ \A s, t \in Slots \ Missing : s # t => index[s] # index[t]
        /\ \A s \in Missing : Copies(s) = {}
    BY DEF IndInv, FillErase, RecoveryProgress
  <2>7. block'[spare'] = Erased
    BY <2>1, <2>2 DEF IndInv, TypeOK
  <2>8. \A s \in Slots \ Missing' : block'[index'[s]].st = "valid" /\ block'[index'[s]].slot = s
    BY <2>2, <2>3, <2>4, <2>6
  <2>9. \A s \in Missing' : Copies(s)' = {}
    BY <2>3, <2>5, <2>6 DEF Missing
  <2> QED
    BY <2>1, <2>2, <2>3, <2>6, <2>7, <2>8, <2>9 DEF RecoveryProgress
<1>7. OneExtraCopy'
  BY DEF IndInv, FillErase, OneExtraCopy, TypeOK
<1> QED
  BY <1>1, <1>2, <1>3, <1>4, <1>5, <1>6, <1>7 DEF IndInv

\* A default is being written to the free block.
LEMMA FillProgramStep ==
    ASSUME IndInv, FillProgram
    PROVE  IndInv'
<1>1. TypeOK'
  <2>1. spare \in Blocks /\ Dirty \in BlockValues
    BY FlashValues, OpTypes, LowestUnreferenced, LowestMissing, CounterTypes
       DEF IndInv, FillProgram, TypeOK, CallMatches, IndexComplete, RecoveryProgress, Unreferenced
  <2>2. block' \in [Blocks -> BlockValues] /\ catalog' \in [Catalogs -> CatalogValues]
    BY <2>1, SetBlockType DEF IndInv, FillProgram
  <2> QED
    BY <2>1, <2>2, OpTypes, LowestMissing, LowestUnreferenced DEF IndInv, FillProgram, TypeOK, Phases
<1>2. CallMatches'
  BY DEF IndInv, FillProgram, CallMatches
<1>3. JournalFits'
  BY DEF IndInv, FillProgram, JournalFits, TypeOK, Catalogs, Other, CallMatches
<1>4. IndexComplete'
  BY DEF IndInv, FillProgram, IndexComplete, TypeOK, CallMatches, SaveProgress, Validates, FreeBlock, Unreferenced
<1>5. SaveProgress'
  BY DEF IndInv, FillProgram, SaveProgress, TypeOK, CallMatches, IndexComplete, FreeBlock, Unreferenced
<1>6. RecoveryProgress'
  BY DEF IndInv, FillProgram, RecoveryProgress, CallMatches, TypeOK, Missing, Copies, Unreferenced
<1>7. OneExtraCopy'
  BY DEF IndInv, FillProgram, OneExtraCopy, TypeOK
<1> QED
  BY <1>1, <1>2, <1>3, <1>4, <1>5, <1>6, <1>7 DEF IndInv

\* The block that a recovery fills is the first copy of a slot that has none.
LEMMA FilledCopy ==
    ASSUME IndInv, pc = "fillCommit",
           block' = [block EXCEPT ![spare] = Committed(Lowest(Missing), 1, DefaultPatch)]
    PROVE  OneExtraCopy'
<1> DEFINE m == Lowest(Missing)
<1>1. m \in Missing /\ Copies(m) = {} /\ spare \in Blocks
  BY LowestMissing DEF IndInv, RecoveryProgress, Unreferenced
<1>2. \A b \in Blocks : block'[b] = IF b = spare THEN Committed(m, 1, DefaultPatch) ELSE block[b]
  BY DEF IndInv, TypeOK
<1> HIDE DEF m
<1>3. PICK u \in Blocks : \A b, d \in Blocks \ {u} :
        b # d /\ IsValid(block[b]) /\ IsValid(block[d]) => block[b].slot # block[d].slot
  BY DEF IndInv, OneExtraCopy
<1>4. \A b \in Blocks : IsValid(block[b]) => block[b].slot # m
  BY <1>1 DEF Copies
<1>5. \A b, d \in Blocks \ {u} :
        b # d /\ IsValid(block'[b]) /\ IsValid(block'[d]) => block'[b].slot # block'[d].slot
  BY <1>2, <1>3, <1>4
<1> QED
  BY <1>5 DEF OneExtraCopy

\* A default patch becomes the only copy of a missing slot.
LEMMA FillCommitStep ==
    ASSUME IndInv, FillCommit
    PROVE  IndInv'
<1> DEFINE m == Lowest(Missing)
<1>a. /\ m \in Missing /\ m \in Slots /\ Copies(m) = {}
      /\ spare \in Unreferenced(index) /\ spare \in Blocks
  BY LowestMissing DEF IndInv, FillCommit, RecoveryProgress, Unreferenced
<1>b. /\ block' = [block EXCEPT ![spare] = Committed(m, 1, DefaultPatch)]
      /\ index' = [index EXCEPT ![m] = spare]
      /\ pc' = "fill"
  BY DEF FillCommit
<1>c. \A b \in Blocks : block'[b] = IF b = spare THEN Committed(m, 1, DefaultPatch) ELSE block[b]
  BY <1>b DEF IndInv, TypeOK
<1>d. \A s \in Slots : index'[s] = IF s = m THEN spare ELSE index[s]
  BY <1>b DEF IndInv, TypeOK
<1> HIDE DEF m
<1>1. TypeOK'
  <2>1. spare \in Blocks /\ Committed(Lowest(Missing), 1, DefaultPatch) \in BlockValues
    BY FlashValues, OpTypes, LowestUnreferenced, LowestMissing, CounterTypes
       DEF IndInv, FillCommit, TypeOK, CallMatches, IndexComplete, RecoveryProgress, Unreferenced
  <2>2. block' \in [Blocks -> BlockValues] /\ catalog' \in [Catalogs -> CatalogValues]
    BY <2>1, SetBlockType DEF IndInv, FillCommit
  <2> QED
    BY <2>1, <2>2, OpTypes, LowestMissing, LowestUnreferenced DEF IndInv, FillCommit, TypeOK, Phases
<1>2. CallMatches'
  BY DEF IndInv, FillCommit, CallMatches
<1>3. JournalFits'
  BY DEF IndInv, FillCommit, JournalFits, TypeOK, Catalogs, Other, CallMatches
<1>4. IndexComplete'
  BY DEF IndInv, FillCommit, IndexComplete, TypeOK, CallMatches, SaveProgress, Validates, FreeBlock, Unreferenced
<1>5. SaveProgress'
  BY DEF IndInv, FillCommit, SaveProgress, TypeOK, CallMatches, IndexComplete, FreeBlock, Unreferenced
<1>6. RecoveryProgress'
  <2>1. spare # NoBlock
    BY <1>a DEF Blocks, NoBlock
  <2>2. Missing' = Missing \ {m}
    BY <1>a, <1>d, <2>1 DEF Missing
  <2>3. \A s \in Slots \ Missing : index[s] # spare /\ index[s] \in Blocks
    BY <1>a DEF Unreferenced, IndInv, TypeOK, Missing
  <2>4. \A s \in Slots \ Missing' : block'[index'[s]].st = "valid" /\ block'[index'[s]].slot = s
    BY <1>a, <1>c, <1>d, <2>2, <2>3 DEF IndInv, FillCommit, RecoveryProgress
  <2>5. \A s, t \in Slots \ Missing' : s # t => index'[s] # index'[t]
    BY <1>a, <1>d, <2>2, <2>3 DEF IndInv, FillCommit, RecoveryProgress
  <2>6. \A s \in Missing' : Copies(s)' = {}
    <3> SUFFICES ASSUME NEW s \in Missing', NEW b \in Copies(s)' PROVE FALSE
      OBVIOUS
    <3>1. s # m /\ Copies(s) = {}
      BY <2>2 DEF IndInv, FillCommit, RecoveryProgress
    <3>2. b \in Blocks /\ block'[b].st = "valid" /\ block'[b].slot = s
      BY DEF Copies
    <3> QED
      BY <1>c, <3>1, <3>2 DEF Copies
  <2> QED
    BY <1>b, <2>4, <2>5, <2>6 DEF RecoveryProgress
<1>7. OneExtraCopy'
  BY <1>b, FilledCopy DEF FillCommit, m
<1> QED
  BY <1>1, <1>2, <1>3, <1>4, <1>5, <1>6, <1>7 DEF IndInv

\* With no slot missing, the recovered index is complete.
LEMMA FillDoneStep ==
    ASSUME IndInv, FillDone
    PROVE  IndInv'
<1>a. index \in [Slots -> Blocks]
  BY DEF IndInv, TypeOK, FillDone, Missing
<1>b. Validates(index)
  BY DEF IndInv, RecoveryProgress, FillDone, Validates
<1>c. spare' \in Unreferenced(index) /\ spare' \in Blocks
  BY LowestUnreferenced DEF IndInv, FillDone, TypeOK
<1>d. Unreferenced(index) = {spare'}
  BY <1>a, <1>b, <1>c, OneBlockUnreferenced DEF Validates
<1>e. pc' \in {"catErase", "wipeSpare"} /\ UNCHANGED <<flash, index, lastLoad, epoch, used, active, op>>
  BY DEF FillDone
<1>1. TypeOK'
  BY <1>c, <1>e DEF IndInv, TypeOK, Phases
<1>2. CallMatches'
  BY DEF IndInv, FillDone, CallMatches
<1>3. JournalFits'
  BY <1>e DEF IndInv, FillDone, JournalFits, CallMatches
<1>4. IndexComplete'
  BY <1>a, <1>b, <1>c, <1>d, <1>e DEF IndexComplete, FreeBlock, Validates, Unreferenced
<1>5. SaveProgress'
  BY DEF IndInv, FillDone, SaveProgress, TypeOK, CallMatches, IndexComplete, FreeBlock, Unreferenced
<1>6. RecoveryProgress'
  BY DEF IndInv, FillDone, RecoveryProgress, CallMatches, TypeOK, Missing, Copies, Unreferenced
<1>7. OneExtraCopy'
  BY DEF IndInv, FillDone, OneExtraCopy, TypeOK
<1> QED
  BY <1>1, <1>2, <1>3, <1>4, <1>5, <1>6, <1>7 DEF IndInv

\* The spare block is not a live one.
LEMMA WipeSpareStep ==
    ASSUME IndInv, WipeSpare
    PROVE  IndInv'
<1>1. TypeOK'
  <2>1. spare \in Blocks /\ Erased \in BlockValues
    BY FlashValues, OpTypes, LowestUnreferenced, LowestMissing, CounterTypes
       DEF IndInv, WipeSpare, TypeOK, CallMatches, IndexComplete, RecoveryProgress, Unreferenced
  <2>2. block' \in [Blocks -> BlockValues] /\ catalog' \in [Catalogs -> CatalogValues]
    BY <2>1, SetBlockType DEF IndInv, WipeSpare
  <2> QED
    BY <2>1, <2>2, OpTypes, LowestMissing, LowestUnreferenced DEF IndInv, WipeSpare, TypeOK, Phases
<1>2. CallMatches'
  <2>1. op.call = "none" => op = Idle
    BY DEF IndInv, TypeOK, Ops
  <2> QED
    BY <2>1 DEF IndInv, WipeSpare, CallMatches
<1>3. JournalFits'
  BY DEF IndInv, WipeSpare, JournalFits, TypeOK, Catalogs, Other, CallMatches
<1>4. IndexComplete'
  BY DEF IndInv, WipeSpare, IndexComplete, TypeOK, CallMatches, SaveProgress, Validates, FreeBlock, Unreferenced
<1>5. SaveProgress'
  BY DEF IndInv, WipeSpare, SaveProgress, TypeOK, CallMatches, IndexComplete, FreeBlock, Unreferenced
<1>6. RecoveryProgress'
  BY DEF IndInv, WipeSpare, RecoveryProgress, CallMatches, TypeOK, Missing, Copies, Unreferenced
<1>7. OneExtraCopy'
  BY DEF IndInv, WipeSpare, OneExtraCopy, TypeOK
<1> QED
  BY <1>1, <1>2, <1>3, <1>4, <1>5, <1>6, <1>7 DEF IndInv

\* A save erases the spare block.
LEMMA BlockEraseStep ==
    ASSUME IndInv, BlockErase
    PROVE  IndInv'
<1>1. TypeOK'
  <2>1. spare \in Blocks /\ Erased \in BlockValues
    BY FlashValues, OpTypes, LowestUnreferenced, LowestMissing, CounterTypes
       DEF IndInv, BlockErase, TypeOK, CallMatches, IndexComplete, RecoveryProgress, Unreferenced
  <2>2. block' \in [Blocks -> BlockValues] /\ catalog' \in [Catalogs -> CatalogValues]
    BY <2>1, SetBlockType DEF IndInv, BlockErase
  <2> QED
    BY <2>1, <2>2, OpTypes, LowestMissing, LowestUnreferenced DEF IndInv, BlockErase, TypeOK, Phases
<1>2. CallMatches'
  BY DEF IndInv, BlockErase, CallMatches
<1>3. JournalFits'
  BY DEF IndInv, BlockErase, JournalFits, TypeOK, Catalogs, Other, CallMatches
<1>4. IndexComplete'
  BY DEF IndInv, BlockErase, IndexComplete, TypeOK, CallMatches, SaveProgress, Validates, FreeBlock, Unreferenced
<1>5. SaveProgress'
  BY DEF IndInv, BlockErase, SaveProgress, TypeOK, CallMatches, IndexComplete, FreeBlock, Unreferenced
<1>6. RecoveryProgress'
  BY DEF IndInv, BlockErase, RecoveryProgress, CallMatches, TypeOK, Missing, Copies, Unreferenced
<1>7. OneExtraCopy'
  BY DEF IndInv, BlockErase, OneExtraCopy, TypeOK
<1> QED
  BY <1>1, <1>2, <1>3, <1>4, <1>5, <1>6, <1>7 DEF IndInv

\* A save writes the spare block.
LEMMA BlockProgramStep ==
    ASSUME IndInv, BlockProgram
    PROVE  IndInv'
<1>1. TypeOK'
  <2>1. spare \in Blocks /\ Dirty \in BlockValues
    BY FlashValues, OpTypes, LowestUnreferenced, LowestMissing, CounterTypes
       DEF IndInv, BlockProgram, TypeOK, CallMatches, IndexComplete, RecoveryProgress, Unreferenced
  <2>2. block' \in [Blocks -> BlockValues] /\ catalog' \in [Catalogs -> CatalogValues]
    BY <2>1, SetBlockType DEF IndInv, BlockProgram
  <2> QED
    BY <2>1, <2>2, OpTypes, LowestMissing, LowestUnreferenced DEF IndInv, BlockProgram, TypeOK, Phases
<1>2. CallMatches'
  BY DEF IndInv, BlockProgram, CallMatches
<1>3. JournalFits'
  BY DEF IndInv, BlockProgram, JournalFits, TypeOK, Catalogs, Other, CallMatches
<1>4. IndexComplete'
  BY DEF IndInv, BlockProgram, IndexComplete, TypeOK, CallMatches, SaveProgress, Validates, FreeBlock, Unreferenced
<1>5. SaveProgress'
  BY DEF IndInv, BlockProgram, SaveProgress, TypeOK, CallMatches, IndexComplete, FreeBlock, Unreferenced
<1>6. RecoveryProgress'
  BY DEF IndInv, BlockProgram, RecoveryProgress, CallMatches, TypeOK, Missing, Copies, Unreferenced
<1>7. OneExtraCopy'
  BY DEF IndInv, BlockProgram, OneExtraCopy, TypeOK
<1> QED
  BY <1>1, <1>2, <1>3, <1>4, <1>5, <1>6, <1>7 DEF IndInv

\* Whatever the spare block holds, the others hold a slot each.
LEMMA SpareIsExtra ==
    ASSUME IndInv, ~Booting, pc # "oldErase",
           \A b \in Blocks \ {spare} : block'[b] = block[b]
    PROVE  OneExtraCopy'
<1>1. spare \in Blocks /\ Unreferenced(index) = {spare} /\ Validates(index)
  BY DEF IndInv, IndexComplete, FreeBlock
<1>2. \A b \in Blocks \ {spare} : \E s \in Slots : index[s] = b /\ block[b].slot = s
  BY <1>1 DEF Unreferenced, Validates
<1>3. \A b, d \in Blocks \ {spare} : b # d => block'[b].slot # block'[d].slot
  BY <1>2
<1> QED
  BY <1>1, <1>3 DEF OneExtraCopy

\* A save commits the second copy of its slot.
LEMMA BlockCommitStep ==
    ASSUME IndInv, BlockCommit
    PROVE  IndInv'
<1>1. TypeOK'
  <2>1. spare \in Blocks /\ Committed(op.slot, op.gen, op.patch) \in BlockValues
    BY FlashValues, OpTypes, LowestUnreferenced, LowestMissing, CounterTypes
       DEF IndInv, BlockCommit, TypeOK, CallMatches, IndexComplete, RecoveryProgress, Unreferenced
  <2>2. block' \in [Blocks -> BlockValues] /\ catalog' \in [Catalogs -> CatalogValues]
    BY <2>1, SetBlockType DEF IndInv, BlockCommit
  <2> QED
    BY <2>1, <2>2, OpTypes, LowestMissing, LowestUnreferenced DEF IndInv, BlockCommit, TypeOK, Phases
<1>2. CallMatches'
  BY DEF IndInv, BlockCommit, CallMatches
<1>3. JournalFits'
  BY DEF IndInv, BlockCommit, JournalFits, TypeOK, Catalogs, Other, CallMatches
<1>4. IndexComplete'
  BY DEF IndInv, BlockCommit, IndexComplete, TypeOK, CallMatches, SaveProgress, Validates, FreeBlock, Unreferenced
<1>5. SaveProgress'
  BY DEF IndInv, BlockCommit, SaveProgress, TypeOK, CallMatches, IndexComplete, FreeBlock, Unreferenced
<1>6. RecoveryProgress'
  BY DEF IndInv, BlockCommit, RecoveryProgress, CallMatches, TypeOK, Missing, Copies, Unreferenced
<1>7. OneExtraCopy'
  BY SpareIsExtra DEF IndInv, BlockCommit, TypeOK
<1> QED
  BY <1>1, <1>2, <1>3, <1>4, <1>5, <1>6, <1>7 DEF IndInv

\* The target of a new catalog is not the active one.
LEMMA CatalogEraseStep ==
    ASSUME IndInv, CatalogErase
    PROVE  IndInv'
<1>1. TypeOK'
  <2>1. Target \in Catalogs /\ Erased \in CatalogValues
    BY <<>> \in Seq(Entries), FlashValues, RamTypes, CounterTypes
       DEF IndInv, CatalogErase, TypeOK, IndexComplete
  <2>2. block' \in [Blocks -> BlockValues] /\ catalog' \in [Catalogs -> CatalogValues]
    BY <2>1, SetCatalogType DEF IndInv, CatalogErase
  <2> QED
    BY <2>1, <2>2, OpTypes, RamTypes, CounterTypes DEF IndInv, CatalogErase, TypeOK, Phases
<1>2. CallMatches'
  BY DEF IndInv, CatalogErase, CallMatches
<1>3. JournalFits'
  BY DEF IndInv, CatalogErase, JournalFits, TypeOK, Catalogs, Other, CallMatches
<1>4. IndexComplete'
  BY DEF IndInv, CatalogErase, IndexComplete, TypeOK, CallMatches, SaveProgress, Validates, FreeBlock, Unreferenced
<1>5. SaveProgress'
  BY DEF IndInv, CatalogErase, SaveProgress, TypeOK, CallMatches, IndexComplete, FreeBlock, Unreferenced
<1>6. RecoveryProgress'
  BY DEF IndInv, CatalogErase, RecoveryProgress, CallMatches, TypeOK, Missing, Copies, Unreferenced
<1>7. OneExtraCopy'
  BY DEF IndInv, CatalogErase, OneExtraCopy, TypeOK
<1> QED
  BY <1>1, <1>2, <1>3, <1>4, <1>5, <1>6, <1>7 DEF IndInv

\* The target of a new catalog is not the active one.
LEMMA CatalogProgramStep ==
    ASSUME IndInv, CatalogProgram
    PROVE  IndInv'
<1>1. TypeOK'
  <2>1. Target \in Catalogs /\ Dirty \in CatalogValues
    BY <<>> \in Seq(Entries), FlashValues, RamTypes, CounterTypes
       DEF IndInv, CatalogProgram, TypeOK, IndexComplete
  <2>2. block' \in [Blocks -> BlockValues] /\ catalog' \in [Catalogs -> CatalogValues]
    BY <2>1, SetCatalogType DEF IndInv, CatalogProgram
  <2> QED
    BY <2>1, <2>2, OpTypes, RamTypes, CounterTypes DEF IndInv, CatalogProgram, TypeOK, Phases
<1>2. CallMatches'
  BY DEF IndInv, CatalogProgram, CallMatches
<1>3. JournalFits'
  BY DEF IndInv, CatalogProgram, JournalFits, TypeOK, Catalogs, Other, CallMatches
<1>4. IndexComplete'
  BY DEF IndInv, CatalogProgram, IndexComplete, TypeOK, CallMatches, SaveProgress, Validates, FreeBlock, Unreferenced
<1>5. SaveProgress'
  BY DEF IndInv, CatalogProgram, SaveProgress, TypeOK, CallMatches, IndexComplete, FreeBlock, Unreferenced
<1>6. RecoveryProgress'
  BY DEF IndInv, CatalogProgram, RecoveryProgress, CallMatches, TypeOK, Missing, Copies, Unreferenced
<1>7. OneExtraCopy'
  BY DEF IndInv, CatalogProgram, OneExtraCopy, TypeOK
<1> QED
  BY <1>1, <1>2, <1>3, <1>4, <1>5, <1>6, <1>7 DEF IndInv

\* The new catalog starts with an empty journal.
LEMMA CatalogCommitStep ==
    ASSUME IndInv, CatalogCommit
    PROVE  IndInv'
<1>1. TypeOK'
  <2>1. Target \in Catalogs /\ Snapshot(Successor(epoch), index, lastLoad, <<>>) \in CatalogValues
    BY <<>> \in Seq(Entries), FlashValues, RamTypes, CounterTypes
       DEF IndInv, CatalogCommit, TypeOK, IndexComplete
  <2>2. block' \in [Blocks -> BlockValues] /\ catalog' \in [Catalogs -> CatalogValues]
    BY <2>1, SetCatalogType DEF IndInv, CatalogCommit
  <2> QED
    BY <2>1, <2>2, OpTypes, RamTypes, CounterTypes DEF IndInv, CatalogCommit, TypeOK, Phases
<1>2. CallMatches'
  BY DEF IndInv, CatalogCommit, CallMatches
<1>3. JournalFits'
  BY DEF IndInv, CatalogCommit, JournalFits, TypeOK, Catalogs, Other, CallMatches, Snapshot
<1>4. IndexComplete'
  BY DEF IndInv, CatalogCommit, IndexComplete, TypeOK, CallMatches, SaveProgress, Validates, FreeBlock, Unreferenced
<1>5. SaveProgress'
  BY DEF IndInv, CatalogCommit, SaveProgress, TypeOK, CallMatches, IndexComplete, FreeBlock, Unreferenced
<1>6. RecoveryProgress'
  BY DEF IndInv, CatalogCommit, RecoveryProgress, CallMatches, TypeOK, Missing, Copies, Unreferenced
<1>7. OneExtraCopy'
  BY DEF IndInv, CatalogCommit, OneExtraCopy, TypeOK
<1> QED
  BY <1>1, <1>2, <1>3, <1>4, <1>5, <1>6, <1>7 DEF IndInv

\* The retired catalog is not the active one.
LEMMA CatalogRetireStep ==
    ASSUME IndInv, CatalogRetire
    PROVE  IndInv'
<1>1. TypeOK'
  <2>1. Other(active) \in Catalogs /\ Erased \in CatalogValues
    BY <<>> \in Seq(Entries), FlashValues, RamTypes, CounterTypes
       DEF IndInv, CatalogRetire, TypeOK, IndexComplete
  <2>2. block' \in [Blocks -> BlockValues] /\ catalog' \in [Catalogs -> CatalogValues]
    BY <2>1, SetCatalogType DEF IndInv, CatalogRetire
  <2> QED
    BY <2>1, <2>2, OpTypes, RamTypes, CounterTypes DEF IndInv, CatalogRetire, TypeOK, Phases
<1>2. CallMatches'
  BY DEF IndInv, CatalogRetire, CallMatches
<1>3. JournalFits'
  <2>1. active \in Catalogs /\ Other(active) # active
    BY RamTypes DEF IndInv, TypeOK
  <2>2. /\ catalog' = [catalog EXCEPT ![Other(active)] = Erased]
        /\ active' = active /\ used' = used /\ pc' \in {"ready", "entryProgram"}
    BY DEF CatalogRetire
  <2>3. IsValid(catalog[active]) /\ used < JournalCap
    BY DEF IndInv, CatalogRetire, JournalFits
  <2>4. \A c \in Catalogs : catalog'[c] = Erased \/ catalog'[c] = catalog[c]
    BY <2>2 DEF IndInv, TypeOK
  <2>5. catalog'[active] = catalog[active]
    BY <2>1, <2>2 DEF IndInv, TypeOK
  <2> QED
    BY <2>2, <2>3, <2>4, <2>5 DEF IndInv, JournalFits
<1>4. IndexComplete'
  BY DEF IndInv, CatalogRetire, IndexComplete, TypeOK, CallMatches, SaveProgress, Validates, FreeBlock, Unreferenced
<1>5. SaveProgress'
  BY DEF IndInv, CatalogRetire, SaveProgress, TypeOK, CallMatches, IndexComplete, FreeBlock, Unreferenced
<1>6. RecoveryProgress'
  BY DEF IndInv, CatalogRetire, RecoveryProgress, CallMatches, TypeOK, Missing, Copies, Unreferenced
<1>7. OneExtraCopy'
  BY DEF IndInv, CatalogRetire, OneExtraCopy, TypeOK
<1> QED
  BY <1>1, <1>2, <1>3, <1>4, <1>5, <1>6, <1>7 DEF IndInv

\* An uncommitted entry is appended to the journal.
LEMMA EntryProgramStep ==
    ASSUME IndInv, EntryProgram
    PROVE  IndInv'
<1>1. TypeOK'
  <2>1. active \in Catalogs /\ catalog[active] \in CatalogValues /\ IsValid(catalog[active])
    BY DEF IndInv, EntryProgram, TypeOK, JournalFits, CallMatches
  <2>2. catalog[active].journal \in Seq(Entries)
    BY <2>1, JournalType
  <2>3. Append(catalog[active].journal, Torn) \in Seq(Entries)
    BY <2>2, AppendProperties, Torn \in Entries DEF Entries
  <2>4. [catalog[active] EXCEPT !.journal = Append(@, Torn)] \in CatalogValues
    BY <2>1, <2>3, JournalUpdateType
  <2>5. block' \in [Blocks -> BlockValues] /\ catalog' \in [Catalogs -> CatalogValues]
    BY <2>1, <2>4, SetCatalogType DEF IndInv, EntryProgram
  <2> QED
    BY <2>5 DEF IndInv, EntryProgram, TypeOK, Phases
<1>2. CallMatches'
  BY DEF IndInv, EntryProgram, CallMatches
<1>3. JournalFits'
  <2>1. active \in Catalogs /\ catalog[active] \in CatalogValues /\ IsValid(catalog[active])
    BY DEF IndInv, EntryProgram, TypeOK, JournalFits, CallMatches
  <2>2. catalog[active].journal \in Seq(Entries)
    BY <2>1, JournalType
  <2>3. /\ Append(catalog[active].journal, Torn) \in Seq(Entries)
        /\ Len(Append(catalog[active].journal, Torn)) = used + 1
    BY <2>2, AppendProperties, Torn \in Entries DEF Entries, EntryProgram
  <2>4. /\ catalog'[active].st = "valid"
        /\ catalog'[active].journal = Append(catalog[active].journal, Torn)
    BY <2>1, <2>3, JournalUpdateType DEF EntryProgram, IndInv, TypeOK
  <2>5. \A c \in Catalogs : c # active => catalog'[c] = catalog[c]
    BY DEF IndInv, EntryProgram, TypeOK
  <2> QED
    BY <2>1, <2>3, <2>4, <2>5 DEF IndInv, EntryProgram, JournalFits, TypeOK
<1>4. IndexComplete'
  BY DEF IndInv, EntryProgram, IndexComplete, TypeOK, CallMatches, SaveProgress, Validates, FreeBlock, Unreferenced
<1>5. SaveProgress'
  BY DEF IndInv, EntryProgram, SaveProgress, TypeOK, CallMatches, IndexComplete, FreeBlock, Unreferenced
<1>6. RecoveryProgress'
  BY DEF IndInv, EntryProgram, RecoveryProgress, CallMatches, TypeOK, Missing, Copies, Unreferenced
<1>7. OneExtraCopy'
  BY DEF IndInv, EntryProgram, OneExtraCopy, TypeOK
<1> QED
  BY <1>1, <1>2, <1>3, <1>4, <1>5, <1>6, <1>7 DEF IndInv

\* The commit of a save's entry swaps the new block and the old one.
LEMMA EntryCommitStep ==
    ASSUME IndInv, EntryCommit
    PROVE  IndInv'
<1> DEFINE j == [catalog[active].journal EXCEPT ![used + 1] = OpEntry]
<1>a. /\ active \in Catalogs /\ catalog[active] \in CatalogValues /\ IsValid(catalog[active])
      /\ used < JournalCap /\ used \in Nat /\ Len(catalog[active].journal) = used + 1
  BY DEF IndInv, EntryCommit, TypeOK, JournalFits, CallMatches
<1>b. catalog[active].journal \in Seq(Entries)
  BY <1>a, JournalType
<1>c. OpEntry \in Entries
  BY OpTypes DEF IndInv, EntryCommit, CallMatches, OpEntry, Pointer, Selection, Entries,
                 IndexComplete
<1>d. j \in Seq(Entries) /\ Len(j) = used + 1
  BY <1>a, <1>b, <1>c, ExceptSeq
<1>e. catalog' = [catalog EXCEPT ![active] = [catalog[active] EXCEPT !.journal = j]]
  BY DEF EntryCommit
<1> HIDE DEF j
<1>f. /\ [catalog[active] EXCEPT !.journal = j] \in CatalogValues
      /\ IsValid(catalog'[active]) /\ catalog'[active].journal = j
  BY <1>a, <1>d, <1>e, JournalUpdateType DEF IndInv, TypeOK
<1>1. TypeOK'
  <2>1. block' \in [Blocks -> BlockValues] /\ catalog' \in [Catalogs -> CatalogValues]
    BY <1>a, <1>e, <1>f DEF IndInv, EntryCommit, TypeOK
  <2>2. used' \in 0 .. JournalCap
    BY <1>a DEF EntryCommit
  <2> QED
    BY <2>1, <2>2, OpTypes DEF IndInv, EntryCommit, TypeOK, Phases, CallMatches, IndexComplete
<1>2. CallMatches'
  BY DEF IndInv, EntryCommit, CallMatches
<1>3. JournalFits'
  <2>1. \A c \in Catalogs : c # active => catalog'[c] = catalog[c]
    BY <1>e DEF IndInv, TypeOK
  <2> QED
    BY <1>a, <1>d, <1>f, <2>1 DEF IndInv, EntryCommit, JournalFits
<1>4. IndexComplete'
  <2>1. CASE op.call # "save"
    BY <2>1 DEF IndInv, EntryCommit, IndexComplete, CallMatches, FreeBlock, Validates, Unreferenced
  <2>2. CASE op.call = "save"
    <3>1. /\ op.slot \in Slots /\ op.old = index[op.slot] /\ spare \in Blocks
          /\ block[spare] = Committed(op.slot, op.gen, op.patch)
      BY <2>2, OpTypes DEF IndInv, EntryCommit, SaveProgress, IndexComplete
    <3>2. /\ index \in [Slots -> Blocks] /\ Validates(index)
          /\ Unreferenced(index) = {spare}
      BY DEF IndInv, EntryCommit, IndexComplete, FreeBlock
    <3>3. /\ index' = [index EXCEPT ![op.slot] = spare] /\ pc' = "oldErase"
          /\ UNCHANGED <<block, spare, op>>
      BY <2>2 DEF EntryCommit
    <3>4. \A s \in Slots : index'[s] = IF s = op.slot THEN spare ELSE index[s]
      BY <3>2, <3>3
    <3>5. \A s \in Slots : index[s] # spare
      BY <3>2 DEF Unreferenced
    <3>6. Validates(index')
      BY <3>1, <3>2, <3>4, <3>5 DEF Validates
    <3>7. \A b \in Blocks : b = spare \/ \E s \in Slots : index[s] = b
      BY <3>2 DEF Unreferenced
    <3>8. op.old \in Blocks /\ \A s \in Slots : index'[s] # op.old
      BY <3>1, <3>2, <3>4, <3>5 DEF Validates
    <3>9. \A b \in Blocks : b = op.old \/ \E s \in Slots : index'[s] = b
      BY <3>1, <3>4, <3>7
    <3> HIDE DEF IsValid
    <3>10. Unreferenced(index') = {op.old}
      BY <3>8, <3>9 DEF Unreferenced
    <3>11. index' \in [Slots -> Blocks]
      BY <3>1, <3>2, <3>3
    <3>12. Validates(index)'
      BY <3>3, <3>6 DEF Validates, IsValid
    <3>13. Unreferenced(index)' = {op'.old}
      BY <3>3, <3>10 DEF Unreferenced
    <3> QED
      BY <3>1, <3>3, <3>11, <3>12, <3>13 DEF IndexComplete, FreeBlock
  <2> QED
    BY <2>1, <2>2
<1>5. SaveProgress'
  BY DEF IndInv, EntryCommit, SaveProgress, TypeOK, CallMatches, IndexComplete, FreeBlock, Unreferenced
<1>6. RecoveryProgress'
  BY DEF IndInv, EntryCommit, RecoveryProgress, CallMatches, TypeOK, Missing, Copies, Unreferenced
<1>7. OneExtraCopy'
  BY DEF IndInv, EntryCommit, OneExtraCopy, TypeOK
<1> QED
  BY <1>1, <1>2, <1>3, <1>4, <1>5, <1>6, <1>7 DEF IndInv

\* The replaced block becomes the spare one.
LEMMA OldEraseStep ==
    ASSUME IndInv, OldErase
    PROVE  IndInv'
<1>1. TypeOK'
  <2>1. op.old \in Blocks /\ Erased \in BlockValues
    BY FlashValues, OpTypes, LowestUnreferenced, LowestMissing, CounterTypes
       DEF IndInv, OldErase, TypeOK, CallMatches, IndexComplete, RecoveryProgress, Unreferenced
  <2>2. block' \in [Blocks -> BlockValues] /\ catalog' \in [Catalogs -> CatalogValues]
    BY <2>1, SetBlockType DEF IndInv, OldErase
  <2> QED
    BY <2>1, <2>2, OpTypes, LowestMissing, LowestUnreferenced DEF IndInv, OldErase, TypeOK, Phases
<1>2. CallMatches'
  BY DEF IndInv, OldErase, CallMatches
<1>3. JournalFits'
  BY DEF IndInv, OldErase, JournalFits, TypeOK, Catalogs, Other, CallMatches
<1>4. IndexComplete'
  BY DEF IndInv, OldErase, IndexComplete, TypeOK, CallMatches, SaveProgress, Validates, FreeBlock, Unreferenced
<1>5. SaveProgress'
  BY DEF IndInv, OldErase, SaveProgress, TypeOK, CallMatches, IndexComplete, FreeBlock, Unreferenced
<1>6. RecoveryProgress'
  BY DEF IndInv, OldErase, RecoveryProgress, CallMatches, TypeOK, Missing, Copies, Unreferenced
<1>7. OneExtraCopy'
  BY DEF IndInv, OldErase, OneExtraCopy, TypeOK
<1> QED
  BY <1>1, <1>2, <1>3, <1>4, <1>5, <1>6, <1>7 DEF IndInv

\* A save remembers the block it will replace.
LEMMA SaveBeginStep ==
    ASSUME IndInv, NEW s \in Slots, NEW p \in Patches, SaveBegin(s, p)
    PROVE  IndInv'
<1>1. TypeOK'
  <2>1. op' \in Ops
    BY OpTypes, CounterTypes DEF IndInv, SaveBegin, TypeOK, BlockValues, IndexComplete
  <2> QED
    BY <2>1 DEF IndInv, SaveBegin, TypeOK, Phases
<1>2. CallMatches'
  BY DEF IndInv, SaveBegin, CallMatches
<1>3. JournalFits'
  BY DEF IndInv, SaveBegin, JournalFits, TypeOK, Catalogs, Other, CallMatches
<1>4. IndexComplete'
  BY DEF IndInv, SaveBegin, IndexComplete, TypeOK, CallMatches, SaveProgress, Validates, FreeBlock, Unreferenced
<1>5. SaveProgress'
  BY DEF IndInv, SaveBegin, SaveProgress, TypeOK, CallMatches, IndexComplete, FreeBlock, Unreferenced
<1>6. RecoveryProgress'
  BY DEF IndInv, SaveBegin, RecoveryProgress, CallMatches, TypeOK, Missing, Copies, Unreferenced
<1>7. OneExtraCopy'
  BY DEF IndInv, SaveBegin, OneExtraCopy, TypeOK
<1> QED
  BY <1>1, <1>2, <1>3, <1>4, <1>5, <1>6, <1>7 DEF IndInv

\* A selection goes to the journal.
LEMMA SelectBeginStep ==
    ASSUME IndInv, NEW s \in Slots, SelectBegin(s)
    PROVE  IndInv'
<1>1. TypeOK'
  <2>1. op' \in Ops
    BY OpTypes, CounterTypes DEF IndInv, SelectBegin, TypeOK, BlockValues, IndexComplete
  <2> QED
    BY <2>1 DEF IndInv, SelectBegin, TypeOK, Phases
<1>2. CallMatches'
  BY DEF IndInv, SelectBegin, CallMatches
<1>3. JournalFits'
  BY DEF IndInv, SelectBegin, JournalFits, TypeOK, Catalogs, Other, CallMatches
<1>4. IndexComplete'
  BY DEF IndInv, SelectBegin, IndexComplete, TypeOK, CallMatches, SaveProgress, Validates, FreeBlock, Unreferenced
<1>5. SaveProgress'
  BY DEF IndInv, SelectBegin, SaveProgress, TypeOK, CallMatches, IndexComplete, FreeBlock, Unreferenced
<1>6. RecoveryProgress'
  BY DEF IndInv, SelectBegin, RecoveryProgress, CallMatches, TypeOK, Missing, Copies, Unreferenced
<1>7. OneExtraCopy'
  BY DEF IndInv, SelectBegin, OneExtraCopy, TypeOK
<1> QED
  BY <1>1, <1>2, <1>3, <1>4, <1>5, <1>6, <1>7 DEF IndInv

\* A power cut between two flash operations.
LEMMA CrashStep ==
    ASSUME IndInv, Crash
    PROVE  IndInv'
<1>1. TypeOK'
  BY OpTypes, RamTypes DEF IndInv, Crash, TypeOK, Phases
<1>2. CallMatches'
  BY DEF IndInv, Crash, CallMatches
<1>3. JournalFits'
  BY DEF IndInv, Crash, JournalFits, TypeOK, Catalogs, Other, CallMatches
<1>4. IndexComplete'
  BY DEF IndInv, Crash, IndexComplete, TypeOK, CallMatches, SaveProgress, Validates, FreeBlock, Unreferenced
<1>5. SaveProgress'
  BY DEF IndInv, Crash, SaveProgress, TypeOK, CallMatches, IndexComplete, FreeBlock, Unreferenced
<1>6. RecoveryProgress'
  BY DEF IndInv, Crash, RecoveryProgress, CallMatches, TypeOK, Missing, Copies, Unreferenced
<1>7. OneExtraCopy'
  BY DEF IndInv, Crash, OneExtraCopy, TypeOK
<1> QED
  BY <1>1, <1>2, <1>3, <1>4, <1>5, <1>6, <1>7 DEF IndInv

\* A power cut in the erase of a block that is not live.
LEMMA CrashErasingBlockStep ==
    ASSUME IndInv, CrashErasingBlock
    PROVE  IndInv'
<1>1. TypeOK'
  <2>1. Erasing \in Blocks
    BY LowestUnreferenced, OpTypes
       DEF IndInv, CrashErasingBlock, Erasing, TypeOK, CallMatches, IndexComplete
  <2>2. block' \in [Blocks -> BlockValues] /\ catalog' \in [Catalogs -> CatalogValues]
    BY <2>1, FlashValues, SetBlockType DEF IndInv, CrashErasingBlock
  <2> QED
    BY <2>2, OpTypes, RamTypes DEF IndInv, CrashErasingBlock, TypeOK, Phases
<1>2. CallMatches'
  BY DEF IndInv, CrashErasingBlock, CallMatches
<1>3. JournalFits'
  BY DEF IndInv, CrashErasingBlock, JournalFits, TypeOK, Catalogs, Other, CallMatches
<1>4. IndexComplete'
  BY DEF IndInv, CrashErasingBlock, IndexComplete, TypeOK, CallMatches, SaveProgress, Validates, FreeBlock, Unreferenced
<1>5. SaveProgress'
  BY DEF IndInv, CrashErasingBlock, SaveProgress, TypeOK, CallMatches, IndexComplete, FreeBlock, Unreferenced
<1>6. RecoveryProgress'
  BY DEF IndInv, CrashErasingBlock, RecoveryProgress, CallMatches, TypeOK, Missing, Copies, Unreferenced
<1>7. OneExtraCopy'
  BY DEF IndInv, CrashErasingBlock, OneExtraCopy, TypeOK
<1> QED
  BY <1>1, <1>2, <1>3, <1>4, <1>5, <1>6, <1>7 DEF IndInv

\* A power cut in the erase of a catalog that is not active.
LEMMA CrashErasingCatalogStep ==
    ASSUME IndInv, CrashErasingCatalog
    PROVE  IndInv'
<1>a. PICK x \in CutCatalogs(catalog[Target]) : SetCatalog(Target, x)
  BY DEF CrashErasingCatalog
<1>b. Target \in Catalogs /\ catalog[Target] \in CatalogValues
  BY RamTypes DEF IndInv, TypeOK
<1>c. x \in CatalogValues /\ (IsValid(x) => Len(x.journal) <= JournalCap)
  BY <1>b, CutCatalogType DEF IndInv, JournalFits
<1>1. TypeOK'
  <2>1. block' \in [Blocks -> BlockValues] /\ catalog' \in [Catalogs -> CatalogValues]
    BY <1>a, <1>b, <1>c, SetCatalogType DEF IndInv
  <2> QED
    BY <2>1, OpTypes, RamTypes DEF IndInv, CrashErasingCatalog, TypeOK, Phases
<1>2. CallMatches'
  BY DEF IndInv, CrashErasingCatalog, CallMatches
<1>3. JournalFits'
  BY <1>a, <1>b, <1>c DEF IndInv, CrashErasingCatalog, JournalFits, TypeOK
<1>4. IndexComplete'
  BY DEF IndInv, CrashErasingCatalog, IndexComplete, TypeOK, CallMatches, SaveProgress, Validates, FreeBlock, Unreferenced
<1>5. SaveProgress'
  BY DEF IndInv, CrashErasingCatalog, SaveProgress, TypeOK, CallMatches, IndexComplete, FreeBlock, Unreferenced
<1>6. RecoveryProgress'
  BY DEF IndInv, CrashErasingCatalog, RecoveryProgress, CallMatches, TypeOK, Missing, Copies, Unreferenced
<1>7. OneExtraCopy'
  BY DEF IndInv, CrashErasingCatalog, OneExtraCopy, TypeOK
<1> QED
  BY <1>1, <1>2, <1>3, <1>4, <1>5, <1>6, <1>7 DEF IndInv

LEMMA IndInvStep == IndInv /\ [Next]_vars => IndInv'
<1> SUFFICES ASSUME IndInv, [Next]_vars PROVE IndInv'
  OBVIOUS
<1>1. CASE Step
  BY <1>1, OpenIndexedStep, OpenRecoverStep, FillEraseStep, FillProgramStep, FillCommitStep,
     FillDoneStep, WipeSpareStep, BlockEraseStep, BlockProgramStep, BlockCommitStep,
     CatalogEraseStep, CatalogProgramStep, CatalogCommitStep, CatalogRetireStep,
     EntryProgramStep, EntryCommitStep, OldEraseStep DEF Step
<1>2. ASSUME NEW s \in Slots, NEW p \in Patches, SaveBegin(s, p) PROVE IndInv'
  BY <1>2, SaveBeginStep
<1>3. ASSUME NEW s \in Slots, SelectBegin(s) PROVE IndInv'
  BY <1>3, SelectBeginStep
<1>4. CASE Crash \/ CrashErasingBlock \/ CrashErasingCatalog
  BY <1>4, CrashStep, CrashErasingBlockStep, CrashErasingCatalogStep
<1>5. CASE UNCHANGED vars
  BY <1>5 DEF vars, IndInv, TypeOK, CallMatches, JournalFits, IndexComplete, FreeBlock,
     Unreferenced, Validates, SaveProgress, RecoveryProgress, Missing, Copies, OneExtraCopy
<1> QED
  BY <1>1, <1>2, <1>3, <1>4, <1>5 DEF Next
-----------------------------------------------------------------------------
(* Theorems.                                                               *)

\* The invariant holds at every step of every behaviour: with any number of
\* calls, power cuts and counter wraps.
THEOREM Invariance == Spec => []IndInv
<1>1. Init => IndInv
  BY InitIndInv
<1>2. IndInv /\ [Next]_vars => IndInv'
  BY IndInvStep
<1> QED
  BY <1>1, <1>2, PTL DEF Spec

\* The variables of the store keep their types; in particular the journal
\* position stays in its sector and the counters in their 32 bits.
THEOREM TypeCorrect == Spec => []TypeOK
<1>1. IndInv => TypeOK
  BY DEF IndInv
<1> QED
  BY <1>1, Invariance, PTL

\* Every program is readable at every step of every save, selection and
\* compaction, through any sequence of power cuts, and the block the next save
\* erases is never a live one.
THEOREM LiveBlocksAlwaysIntact == Spec => []LiveBlocksIntact
<1>1. IndInv => LiveBlocksIntact
  BY DEF IndInv, IndexComplete, FreeBlock, LiveBlocksIntact
<1> QED
  BY <1>1, Invariance, PTL
-----------------------------------------------------------------------------
(* ProgramStore implements AtomicStore.                                    *)

HIDE DEF IsValid, SetBlock, SetCatalog, Erased, Dirty, Committed, Idle, Booting, PowerLost,
         JournalStep, Target, flash, ram
-----------------------------------------------------------------------------
(* Journals and counters.                                                  *)

LEMMA ValidCatalog ==
    ASSUME NEW c \in CatalogValues, c.st = "valid"
    PROVE  /\ c \in [st : {"valid"}, epoch : U32, table : [Slots -> Blocks], sel : Slots,
                     journal : Seq(Entries)]
           /\ c.journal \in Seq(Entries) /\ Len(c.journal) \in Nat
           /\ DOMAIN c.journal = 1 .. Len(c.journal)
           /\ \A j : /\ [c EXCEPT !.journal = j].journal = j
                     /\ [c EXCEPT !.journal = j].table = c.table
                     /\ [c EXCEPT !.journal = j].sel = c.sel
                     /\ [c EXCEPT !.journal = j].epoch = c.epoch
                     /\ [c EXCEPT !.journal = j].st = "valid"
<1>1. c \in [st : {"valid"}, epoch : U32, table : [Slots -> Blocks], sel : Slots,
             journal : Seq(Entries)]
  BY DEF CatalogValues, Erased, Dirty
<1> QED
  BY <1>1

LEMMA LastDecodable ==
    ASSUME NEW j \in Seq(Entries)
    PROVE  /\ Decodable(j) \subseteq DOMAIN j
           /\ \A s \in Slots : PointersTo(j, s) # {} =>
                 Last(PointersTo(j, s)) \in PointersTo(j, s)
           /\ Selections(j) # {} => Last(Selections(j)) \in Selections(j)
<1>1. DOMAIN j = 1 .. Len(j) /\ Len(j) \in Nat
  OBVIOUS
<1>2. Decodable(j) \subseteq 1 .. Len(j)
  BY <1>1 DEF Decodable
<1>3. \A s \in Slots : PointersTo(j, s) \in SUBSET (1 .. Len(j))
  BY <1>2 DEF PointersTo
<1>4. Selections(j) \in SUBSET (1 .. Len(j))
  BY <1>2 DEF Selections
<1> QED
  BY <1>1, <1>2, <1>3, <1>4, LastExists

\* Catalogs whose decodable entries are the same read the same.
LEMMA SameDecodable ==
    ASSUME NEW c, NEW d, c.journal \in Seq(Entries), c.table = d.table, c.sel = d.sel,
           Decodable(d.journal) = Decodable(c.journal),
           \A i \in Decodable(c.journal) : d.journal[i] = c.journal[i]
    PROVE  /\ ReplayedIndex(d) = ReplayedIndex(c)
           /\ ReplayedSelection(d) = ReplayedSelection(c)
<1>1. ASSUME NEW s \in Slots
      PROVE  /\ PointersTo(d.journal, s) = PointersTo(c.journal, s)
             /\ PointersTo(c.journal, s) # {} =>
                   d.journal[Last(PointersTo(c.journal, s))]
                      = c.journal[Last(PointersTo(c.journal, s))]
  <2>1. PointersTo(d.journal, s) = PointersTo(c.journal, s)
    BY DEF PointersTo
  <2>2. PointersTo(c.journal, s) \subseteq Decodable(c.journal)
    BY DEF PointersTo
  <2> QED
    BY <2>1, <2>2, LastDecodable
<1>2. /\ Selections(d.journal) = Selections(c.journal)
      /\ Selections(c.journal) # {} =>
            d.journal[Last(Selections(c.journal))] = c.journal[Last(Selections(c.journal))]
  <2>1. Selections(d.journal) = Selections(c.journal)
    BY DEF Selections
  <2>2. Selections(c.journal) \subseteq Decodable(c.journal)
    BY DEF Selections
  <2> QED
    BY <2>1, <2>2, LastDecodable
<1>3. ReplayedIndex(d) = ReplayedIndex(c)
  BY <1>1 DEF ReplayedIndex
<1>4. ReplayedSelection(d) = ReplayedSelection(c)
  BY <1>2 DEF ReplayedSelection
<1> QED
  BY <1>3, <1>4

\* Bytes that do not decode add nothing to a journal.
LEMMA TornAppended ==
    ASSUME NEW j \in Seq(Entries)
    PROVE  /\ Append(j, Torn) \in Seq(Entries)
           /\ Len(Append(j, Torn)) = Len(j) + 1
           /\ Append(j, Torn)[Len(j) + 1] = Torn
           /\ \A i \in 1 .. Len(j) : Append(j, Torn)[i] = j[i]
           /\ Decodable(Append(j, Torn)) = Decodable(j)
<1> DEFINE k == Append(j, Torn)
<1>1. Torn \in Entries
  BY DEF Entries
<1>2. /\ k \in Seq(Entries) /\ Len(k) = Len(j) + 1 /\ Len(j) \in Nat
      /\ k[Len(j) + 1] = Torn /\ \A i \in 1 .. Len(j) : k[i] = j[i]
      /\ DOMAIN k = 1 .. Len(j) + 1 /\ DOMAIN j = 1 .. Len(j)
  BY <1>1
<1> HIDE DEF k
<1>3. Decodable(k) = Decodable(j)
  <2>1. Len(j) + 1 \notin Decodable(k)
    BY <1>2 DEF Decodable
  <2>2. ASSUME NEW i \in 1 .. Len(j) PROVE i \in Decodable(k) <=> i \in Decodable(j)
    <3>1. \A n \in 1 .. i : n \in 1 .. Len(j)
      BY <1>2
    <3> QED
      BY <1>2, <3>1 DEF Decodable
  <2>3. Decodable(k) \subseteq 1 .. Len(j) /\ Decodable(j) \subseteq 1 .. Len(j)
    BY <1>2, <2>1 DEF Decodable
  <2> QED
    BY <2>2, <2>3
<1> QED
  BY <1>2, <1>3 DEF k

LEMMA TornReads ==
    ASSUME NEW c \in CatalogValues, c.st = "valid",
           NEW d, d = [c EXCEPT !.journal = Append(c.journal, Torn)]
    PROVE  /\ ReplayedIndex(d) = ReplayedIndex(c)
           /\ ReplayedSelection(d) = ReplayedSelection(c)
           /\ d.epoch = c.epoch /\ d.st = "valid"
           /\ d.journal = Append(c.journal, Torn)
<1>1. /\ d.journal = Append(c.journal, Torn) /\ d.table = c.table /\ d.sel = c.sel
      /\ d.epoch = c.epoch /\ d.st = "valid" /\ c.journal \in Seq(Entries)
  BY ValidCatalog
<1>2. /\ Decodable(d.journal) = Decodable(c.journal)
      /\ \A i \in 1 .. Len(c.journal) : d.journal[i] = c.journal[i]
  BY <1>1, TornAppended
<1>3. Decodable(c.journal) \subseteq 1 .. Len(c.journal)
  BY <1>1, LastDecodable
<1> QED
  BY <1>1, <1>2, <1>3, SameDecodable

LEMMA ReplayedFrom ==
    ASSUME NEW c
    PROVE  /\ \A s \in Slots :
                 ReplayedIndex(c)[s] = IF PointersTo(c.journal, s) = {} THEN c.table[s]
                                       ELSE c.journal[Last(PointersTo(c.journal, s))].block
           /\ ReplayedSelection(c) = IF Selections(c.journal) = {} THEN c.sel
                                     ELSE c.journal[Last(Selections(c.journal))].slot
BY DEF ReplayedIndex, ReplayedSelection

\* A committed entry at the end of a journal that decodes up to it is what counts.
LEMMA EntryReads ==
    ASSUME NEW c \in CatalogValues, c.st = "valid", NEW n \in Nat, Len(c.journal) = n + 1,
           c.journal[n + 1] = Torn, \A i \in 1 .. n : c.journal[i] # Torn,
           NEW e \in Entries, e # Torn,
           NEW d, d.journal = [c.journal EXCEPT ![n + 1] = e],
           d.table = c.table, d.sel = c.sel
    PROVE  /\ ReplayedIndex(d) = IF e.kind = "pointer"
                                 THEN [ReplayedIndex(c) EXCEPT ![e.slot] = e.block]
                                 ELSE ReplayedIndex(c)
           /\ ReplayedSelection(d) = IF e.kind = "selection" THEN e.slot
                                     ELSE ReplayedSelection(c)
           /\ ReplayedUsed(d) = n + 1
<1> DEFINE j == c.journal
           k == [c.journal EXCEPT ![n + 1] = e]
<1>1. /\ d.journal = k /\ d.table = c.table /\ d.sel = c.sel
      /\ j \in Seq(Entries) /\ DOMAIN j = 1 .. n + 1
  BY ValidCatalog
<1>2. /\ DOMAIN k = 1 .. n + 1 /\ k[n + 1] = e /\ \A i \in 1 .. n : k[i] = j[i]
      /\ k \in Seq(Entries) /\ Len(k) = n + 1
  BY <1>1, ExceptSeq
<1> HIDE DEF k
<1>3. Decodable(k) = 1 .. n + 1
  <2>1. \A i \in 1 .. n + 1 : k[i] # Torn
    BY <1>2
  <2>2. \A i \in 1 .. n + 1 : 1 .. i \subseteq 1 .. n + 1
    OBVIOUS
  <2> QED
    BY <1>2, <2>1, <2>2 DEF Decodable
<1>4. Decodable(j) = 1 .. n
  <2>1. \A i \in 1 .. n : 1 .. i \subseteq 1 .. n /\ i \in 1 .. n + 1
    OBVIOUS
  <2>2. n + 1 \in 1 .. n + 1 /\ \A i \in 1 .. n + 1 : i \in 1 .. n \/ i = n + 1
    OBVIOUS
  <2>3. n + 1 \notin Decodable(j)
    BY <2>2 DEF Decodable
  <2>4. \A i \in 1 .. n : i \in Decodable(j)
    BY <1>1, <2>1 DEF Decodable
  <2>5. Decodable(j) \subseteq 1 .. n + 1
    BY <1>1 DEF Decodable
  <2> QED
    BY <2>2, <2>3, <2>4, <2>5
<1>5. n + 1 \notin 1 .. n /\ 1 .. n + 1 = (1 .. n) \cup {n + 1}
  OBVIOUS
<1>a. ASSUME NEW s \in Slots
      PROVE  /\ ReplayedIndex(d)[s] = IF PointersTo(k, s) = {} THEN c.table[s]
                                      ELSE k[Last(PointersTo(k, s))].block
             /\ ReplayedIndex(c)[s] = IF PointersTo(j, s) = {} THEN c.table[s]
                                      ELSE j[Last(PointersTo(j, s))].block
  <2>1. /\ ReplayedIndex(d)[s] = IF PointersTo(d.journal, s) = {} THEN d.table[s]
                                 ELSE d.journal[Last(PointersTo(d.journal, s))].block
        /\ ReplayedIndex(c)[s] = IF PointersTo(c.journal, s) = {} THEN c.table[s]
                                 ELSE c.journal[Last(PointersTo(c.journal, s))].block
    BY ReplayedFrom
  <2> QED
    BY <1>1, <2>1, Zenon
<1>b. /\ ReplayedSelection(d) = IF Selections(k) = {} THEN c.sel
                                ELSE k[Last(Selections(k))].slot
      /\ ReplayedSelection(c) = IF Selections(j) = {} THEN c.sel
                                ELSE j[Last(Selections(j))].slot
  BY <1>1, ReplayedFrom
<1>6. ASSUME NEW s \in Slots
      PROVE  ReplayedIndex(d)[s] = IF e.kind = "pointer" /\ e.slot = s THEN e.block
                                   ELSE ReplayedIndex(c)[s]
  <2>1. CASE e.kind = "pointer" /\ e.slot = s
    <3>1. n + 1 \in PointersTo(k, s) /\ PointersTo(k, s) \in SUBSET (1 .. n + 1)
      BY <1>2, <1>3, <2>1 DEF PointersTo
    <3>2. Last(PointersTo(k, s)) \in 1 .. n + 1 /\ n + 1 <= Last(PointersTo(k, s))
      BY <3>1, LastExists
    <3>3. Last(PointersTo(k, s)) = n + 1
      BY <3>2
    <3> QED
      BY <1>2, <1>a, <2>1, <3>1, <3>3
  <2>2. CASE ~(e.kind = "pointer" /\ e.slot = s)
    <3>1. PointersTo(k, s) = PointersTo(j, s)
      BY <1>2, <1>3, <1>4, <1>5, <2>2 DEF PointersTo
    <3>2. PointersTo(j, s) \subseteq 1 .. n
      BY <1>4 DEF PointersTo
    <3>3. PointersTo(j, s) # {} => k[Last(PointersTo(j, s))] = j[Last(PointersTo(j, s))]
      BY <1>1, <1>2, <3>2, LastDecodable
    <3> QED
      BY <1>a, <2>2, <3>1, <3>3
  <2> QED
    BY <2>1, <2>2
<1>7. ReplayedIndex(d) = IF e.kind = "pointer"
                         THEN [ReplayedIndex(c) EXCEPT ![e.slot] = e.block]
                         ELSE ReplayedIndex(c)
  <2>1. DOMAIN ReplayedIndex(d) = Slots /\ DOMAIN ReplayedIndex(c) = Slots
    BY DEF ReplayedIndex
  <2>2. /\ ReplayedIndex(d) = [s \in Slots |-> ReplayedIndex(d)[s]]
        /\ ReplayedIndex(c) = [s \in Slots |-> ReplayedIndex(c)[s]]
    BY DEF ReplayedIndex
  <2> QED
    BY <1>6, <2>1, <2>2
<1>8. ReplayedSelection(d) = IF e.kind = "selection" THEN e.slot ELSE ReplayedSelection(c)
  <2>1. CASE e.kind = "selection"
    <3>1. n + 1 \in Selections(k) /\ Selections(k) \in SUBSET (1 .. n + 1)
      BY <1>2, <1>3, <2>1 DEF Selections
    <3>2. Last(Selections(k)) \in 1 .. n + 1 /\ n + 1 <= Last(Selections(k))
      BY <3>1, LastExists
    <3>3. Last(Selections(k)) = n + 1
      BY <3>2
    <3> QED
      BY <1>2, <1>b, <2>1, <3>1, <3>3
  <2>2. CASE e.kind # "selection"
    <3>1. Selections(k) = Selections(j)
      BY <1>2, <1>3, <1>4, <1>5, <2>2 DEF Selections
    <3>2. Selections(j) \subseteq 1 .. n
      BY <1>4 DEF Selections
    <3>3. Selections(j) # {} => k[Last(Selections(j))] = j[Last(Selections(j))]
      BY <1>1, <1>2, <3>2, LastDecodable
    <3> QED
      BY <1>b, <2>2, <3>1, <3>3
  <2> QED
    BY <2>1, <2>2
<1>9. ReplayedUsed(d) = n + 1
  BY <1>1, <1>2, <1>3 DEF ReplayedUsed
<1> QED
  BY <1>1, <1>7, <1>8, <1>9

\* A new catalog reads as what it was written from.
LEMMA SnapshotReads ==
    ASSUME NEW e, NEW t \in [Slots -> Blocks], NEW s,
           NEW c, c = Snapshot(e, t, s, <<>>)
    PROVE  /\ ReplayedIndex(c) = t /\ ReplayedSelection(c) = s /\ ReplayedUsed(c) = 0
           /\ c.epoch = e /\ c.st = "valid"
<1>1. c.journal = <<>> /\ c.table = t /\ c.sel = s /\ c.epoch = e /\ c.st = "valid"
  BY DEF Snapshot
<1>2. Decodable(<<>>) = {} /\ DOMAIN <<>> = {} /\ Len(<<>>) = 0
  BY DEF Decodable
<1>3. /\ \A x \in Slots : PointersTo(<<>>, x) = {}
      /\ Selections(<<>>) = {}
  BY <1>2 DEF PointersTo, Selections
<1> QED
  BY <1>1, <1>2, <1>3 DEF ReplayedIndex, ReplayedSelection, ReplayedUsed

\* The next epoch is newer, and the one before it is not, around the wrap as well.
LEMMA SuccessorNewer ==
    ASSUME NEW e \in U32
    PROVE  GenerationNewer(Successor(e), e) /\ ~GenerationNewer(e, Successor(e))
<1>1. Mod \div 2 \in Nat /\ 1 < Mod \div 2 /\ Mod \div 2 <= Mod - 1
  OBVIOUS
<1>2. 1 % Mod = 1
  OBVIOUS
<1>3. (-1) % Mod = Mod - 1
  OBVIOUS
<1>4. CASE e < Mod - 1
  <2>1. Successor(e) = e + 1
    BY <1>4 DEF Successor, U32
  <2> QED
    BY <1>1, <1>2, <1>3, <2>1 DEF GenerationNewer, U32
<1>5. CASE e = Mod - 1
  <2>1. Successor(e) = 0
    BY <1>5 DEF Successor
  <2>2. (0 - e) % Mod = 1
    BY <1>5
  <2>3. (e - 0) % Mod = Mod - 1
    BY <1>5
  <2> QED
    BY <1>1, <1>5, <2>1, <2>2, <2>3 DEF GenerationNewer
<1> QED
  BY <1>4, <1>5 DEF U32
-----------------------------------------------------------------------------
(* What the flash holds for the next open().                               *)

\* Some catalog is valid.
Formatted == \E c \in Catalogs : IsValid(catalog[c])

\* RAM stands for the active catalog.
InService == ~Booting /\ (op.call = "open" => pc = "catRetire")

\* n entries that decode, and behind them one that does not.
TornBehind(j, n) ==
    /\ Len(j) = n + 1 /\ j[n + 1] = Torn
    /\ \A i \in 1 .. n : j[i] # Torn

\* RAM is what open() would read from the flash, except for an entry that a call is
\* in the middle of.
CatalogAgrees ==
    InService =>
        /\ Selected = active
        /\ ReplayedIndex(catalog[active]) = index
        /\ ReplayedSelection(catalog[active]) = lastLoad
        /\ catalog[active].epoch = epoch
        /\ pc # "entryCommit" => ReplayedUsed(catalog[active]) = used
        /\ pc = "entryCommit" =>
              /\ catalog[active].journal[used + 1] = Torn
              /\ \A i \in 1 .. used : catalog[active].journal[i] # Torn

\* The flash is formatted once, and holds nothing but defaults until then: a power cut
\* alone never leads to a recovery afterwards.
DefaultsFirst ==
    /\ op.call = "open" => lastLoad = 0 /\ (pc # "catRetire" => ~Formatted)
    /\ pc = "off" /\ Formatted => Openable
    /\ ~Formatted => \A b \in Blocks : IsValid(block[b]) => block[b].patch = DefaultPatch

\* A save has taken effect once its entry is committed.
SaveDone == pc = "oldErase" => block[index[op.slot]].patch = op.patch

BootInv == CatalogAgrees /\ DefaultsFirst /\ SaveDone

USE DEF IsValid, SetBlock, SetCatalog, Erased, Dirty, Committed, Idle, Booting, PowerLost,
        JournalStep, Target, flash, ram

LEMMA InitBootInv == Init => BootInv
BY DEF Init, BootInv, CatalogAgrees, DefaultsFirst, SaveDone, InService, Formatted, Catalogs

\* In service the active catalog is valid.
LEMMA ActiveValid ==
    ASSUME IndInv, InService
    PROVE  /\ active \in Catalogs /\ catalog[active] \in CatalogValues
           /\ catalog[active].st = "valid" /\ index \in [Slots -> Blocks]
           /\ Validates(index)
BY DEF IndInv, TypeOK, JournalFits, InService, IndexComplete

\* Another open() would trust it.
LEMMA ServiceOpens ==
    ASSUME IndInv, BootInv, InService
    PROVE  /\ Formatted /\ Openable
           /\ active \in Catalogs /\ catalog[active] \in CatalogValues
           /\ catalog[active].st = "valid"
           /\ index \in [Slots -> Blocks] /\ Validates(index)
BY ActiveValid DEF Formatted, Openable, BootInv, CatalogAgrees

\* Which catalog counts depends on the epochs of the valid ones alone.
LEMMA SameSelected ==
    ASSUME \A c \in Catalogs : /\ catalog'[c].st = "valid" <=> catalog[c].st = "valid"
                               /\ catalog[c].st = "valid" =>
                                     catalog'[c].epoch = catalog[c].epoch
    PROVE  Selected' = Selected
BY DEF Selected, Catalogs

LEMMA OnlySelected ==
    ASSUME NEW a \in Catalogs, catalog'[a].st = "valid", catalog'[Other(a)].st # "valid"
    PROVE  Selected' = a
BY DEF Selected, Catalogs, Other

\* A committed entry is read in place of the torn one; a pointer changes the index by one
\* slot, a selection the selection, and neither which catalog counts.
LEMMA EntryLands ==
    ASSUME IndInv, EntryCommit, TornBehind(catalog[active].journal, used)
    PROVE  /\ ReplayedIndex(catalog'[active]) =
                 IF op.call = "save" THEN [ReplayedIndex(catalog[active]) EXCEPT ![op.slot] = spare]
                 ELSE ReplayedIndex(catalog[active])
           /\ ReplayedSelection(catalog'[active]) =
                 IF op.call = "save" THEN ReplayedSelection(catalog[active]) ELSE op.slot
           /\ ReplayedUsed(catalog'[active]) = used + 1
           /\ catalog'[active].epoch = catalog[active].epoch /\ catalog'[active].st = "valid"
           /\ Selected' = Selected
<1>1. /\ pc = "entryCommit" /\ op.call \in {"save", "select"} /\ used \in Nat /\ InService
      /\ catalog' = [catalog EXCEPT ![active] =
            [catalog[active] EXCEPT
                !.journal = [catalog[active].journal EXCEPT ![used + 1] = OpEntry]]]
  BY DEF EntryCommit, IndInv, CallMatches, TypeOK, InService
<1>2. /\ active \in Catalogs /\ catalog[active] \in CatalogValues
      /\ catalog[active].st = "valid"
  BY <1>1, ActiveValid
<1>3. /\ Len(catalog[active].journal) = used + 1
      /\ catalog[active].journal[used + 1] = Torn
      /\ \A i \in 1 .. used : catalog[active].journal[i] # Torn
  BY DEF TornBehind
<1>4. /\ OpEntry \in Entries /\ OpEntry # Torn
      /\ IF op.call = "save"
         THEN OpEntry.kind = "pointer" /\ OpEntry.slot = op.slot /\ OpEntry.block = spare
         ELSE OpEntry.kind = "selection" /\ OpEntry.slot = op.slot
  BY <1>1, OpTypes DEF IndInv, OpEntry, Pointer, Selection, Entries, IndexComplete, Torn
<1>5. /\ catalog'[active].journal = [catalog[active].journal EXCEPT ![used + 1] = OpEntry]
      /\ catalog'[active].table = catalog[active].table
      /\ catalog'[active].sel = catalog[active].sel
      /\ catalog'[active].epoch = catalog[active].epoch /\ catalog'[active].st = "valid"
  <2> DEFINE j == [catalog[active].journal EXCEPT ![used + 1] = OpEntry]
  <2>1. catalog'[active] = [catalog[active] EXCEPT !.journal = j]
    BY <1>1, <1>2 DEF IndInv, TypeOK
  <2> HIDE DEF j
  <2>2. /\ catalog'[active].journal = j
        /\ catalog'[active].table = catalog[active].table
        /\ catalog'[active].sel = catalog[active].sel
        /\ catalog'[active].epoch = catalog[active].epoch /\ catalog'[active].st = "valid"
    BY <1>2, <2>1, ValidCatalog
  <2> QED
    BY <2>2 DEF j
<1>6. /\ ReplayedIndex(catalog'[active]) =
            IF OpEntry.kind = "pointer"
            THEN [ReplayedIndex(catalog[active]) EXCEPT ![OpEntry.slot] = OpEntry.block]
            ELSE ReplayedIndex(catalog[active])
      /\ ReplayedSelection(catalog'[active]) =
            IF OpEntry.kind = "selection" THEN OpEntry.slot
            ELSE ReplayedSelection(catalog[active])
      /\ ReplayedUsed(catalog'[active]) = used + 1
  <2> DEFINE c == catalog[active]
             d == catalog'[active]
             e == OpEntry
  <2>1. /\ c \in CatalogValues /\ c.st = "valid" /\ used \in Nat /\ Len(c.journal) = used + 1
        /\ c.journal[used + 1] = Torn /\ \A i \in 1 .. used : c.journal[i] # Torn
        /\ e \in Entries /\ e # Torn
        /\ d.journal = [c.journal EXCEPT ![used + 1] = e]
        /\ d.table = c.table /\ d.sel = c.sel
    BY <1>1, <1>2, <1>3, <1>4, <1>5
  <2> HIDE DEF c, d, e
  <2>2. /\ ReplayedIndex(d) = IF e.kind = "pointer"
                              THEN [ReplayedIndex(c) EXCEPT ![e.slot] = e.block]
                              ELSE ReplayedIndex(c)
        /\ ReplayedSelection(d) = IF e.kind = "selection" THEN e.slot
                                  ELSE ReplayedSelection(c)
        /\ ReplayedUsed(d) = used + 1
    BY ONLY <2>1, EntryReads, Z3
  <2> QED
    BY <2>2 DEF c, d, e
<1>7. Selected' = Selected
  <2>1. \A c \in Catalogs : c # active => catalog'[c] = catalog[c]
    BY <1>1 DEF IndInv, TypeOK
  <2> QED
    BY <1>2, <1>5, <2>1, SameSelected
<1> QED
  BY <1>4, <1>5, <1>6, <1>7

\* Steps within a recovery write blocks only, or catalogs that are not yet valid.
LEMMA RecoveryStep ==
    ASSUME IndInv, BootInv, op.call = "open" /\ pc # "catRetire",
           op'.call = "open" /\ pc' \notin {"off", "catRetire", "oldErase"}, lastLoad' = lastLoad,
           \A c \in Catalogs : catalog'[c] = catalog[c] \/ ~IsValid(catalog'[c]),
           \A b \in Blocks : \/ block'[b] = block[b] \/ ~IsValid(block'[b])
                             \/ block'[b].patch = DefaultPatch
    PROVE  BootInv' /\ ~Formatted /\ ~Formatted'
BY DEF BootInv, CatalogAgrees, DefaultsFirst, SaveDone, InService, Formatted

\* Steps in service that write blocks only.
LEMMA ServiceBlockStep ==
    ASSUME IndInv, IndInv', BootInv, InService, InService',
           catalog' = catalog, index' = index, lastLoad' = lastLoad, epoch' = epoch,
           used' = used, active' = active,
           pc # "entryCommit", pc' \notin {"entryCommit", "oldErase", "off"},
           op'.call # "open"
    PROVE  BootInv'
<1>1. CatalogAgrees'
  <2>1. Selected' = Selected
    BY SameSelected
  <2> QED
    BY <2>1 DEF BootInv, CatalogAgrees
<1>2. DefaultsFirst' /\ SaveDone'
  BY ServiceOpens DEF DefaultsFirst, SaveDone, Formatted
<1> QED
  BY <1>1, <1>2 DEF BootInv
-----------------------------------------------------------------------------
(* Each action keeps RAM and flash in agreement.                           *)

LEMMA OpenIndexedAgrees ==
    ASSUME IndInv, IndInv', BootInv, OpenIndexed
    PROVE  BootInv'
<1>1. /\ active' = Selected /\ index' = ReplayedIndex(catalog[Selected])
      /\ lastLoad' = ReplayedSelection(catalog[Selected])
      /\ used' = ReplayedUsed(catalog[Selected]) /\ epoch' = catalog[Selected].epoch
      /\ pc' \in {"ready", "wipeSpare"} /\ op' = [call |-> "none"]
      /\ block' = block /\ catalog' = catalog
  BY DEF OpenIndexed, IndInv, CallMatches
<1>2. Selected' = Selected
  BY <1>1, SameSelected
<1>3. Formatted /\ Formatted'
  BY <1>1, SelectedIsValid DEF OpenIndexed, Formatted
<1>4. CatalogAgrees'
  BY <1>1, <1>2 DEF CatalogAgrees
<1>5. DefaultsFirst' /\ SaveDone'
  BY <1>1, <1>3 DEF DefaultsFirst, SaveDone
<1> QED
  BY <1>4, <1>5 DEF BootInv

LEMMA OpenRecoverAgrees ==
    ASSUME IndInv, BootInv, OpenRecover
    PROVE  BootInv'
<1>1. ~Formatted
  BY DEF OpenRecover, BootInv, DefaultsFirst
<1> QED
  BY <1>1 DEF OpenRecover, BootInv, CatalogAgrees, InService, DefaultsFirst, SaveDone, Formatted

LEMMA FillAgrees ==
    ASSUME IndInv, BootInv, FillErase \/ FillProgram \/ FillCommit \/ FillDone
    PROVE  BootInv' /\ ~Formatted /\ ~Formatted'
<1>1. /\ op.call = "open" /\ pc # "catRetire" /\ catalog' = catalog /\ op' = op
      /\ lastLoad' = lastLoad
  BY DEF FillErase, FillProgram, FillCommit, FillDone, IndInv, CallMatches
<1>2. pc' \notin {"off", "catRetire", "oldErase"}
  BY DEF FillErase, FillProgram, FillCommit, FillDone
<1>3. \A b \in Blocks : \/ block'[b] = block[b] \/ ~IsValid(block'[b])
                        \/ block'[b].patch = DefaultPatch
  BY DEF FillErase, FillProgram, FillCommit, FillDone, IndInv, TypeOK
<1> QED
  BY <1>1, <1>2, <1>3, RecoveryStep

\* The steps of a recovery that write a catalog not yet valid, or the spare block.
LEMMA RecoveryCatalogAgrees ==
    ASSUME IndInv, BootInv, op.call = "open", WipeSpare \/ CatalogErase \/ CatalogProgram
    PROVE  BootInv' /\ ~Formatted /\ ~Formatted'
<1>1. /\ op' = op /\ pc # "catRetire" /\ pc' \notin {"off", "catRetire", "oldErase"}
      /\ lastLoad' = lastLoad
  BY DEF WipeSpare, CatalogErase, CatalogProgram
<1>2. \A c \in Catalogs : catalog'[c] = catalog[c] \/ ~IsValid(catalog'[c])
  BY DEF WipeSpare, CatalogErase, CatalogProgram, IndInv, TypeOK
<1>3. \A b \in Blocks : block'[b] = block[b] \/ ~IsValid(block'[b])
  BY DEF WipeSpare, CatalogErase, CatalogProgram, IndInv, TypeOK
<1> QED
  BY <1>1, <1>2, <1>3, RecoveryStep

\* Up to the journal a call writes the spare block.
LEMMA BlockStepsAgree ==
    ASSUME IndInv, IndInv', BootInv,
           \/ WipeSpare /\ op.call # "open"
           \/ BlockErase \/ BlockProgram \/ BlockCommit
           \/ \E s \in Slots, p \in Patches : SaveBegin(s, p)
           \/ \E s \in Slots : SelectBegin(s)
    PROVE  /\ BootInv' /\ InService /\ InService'
           /\ catalog' = catalog /\ index' = index /\ lastLoad' = lastLoad
           /\ \A s \in Slots : block'[index[s]] = block[index[s]]
<1>1. /\ catalog' = catalog /\ index' = index /\ lastLoad' = lastLoad /\ epoch' = epoch
      /\ used' = used /\ active' = active
      /\ pc # "entryCommit" /\ pc' \notin {"entryCommit", "oldErase", "off"}
      /\ op'.call # "open" /\ op.call # "open"
      /\ ~Booting /\ ~Booting' /\ pc # "oldErase"
  BY DEF WipeSpare, BlockErase, BlockProgram, BlockCommit, SaveBegin, SelectBegin, IndInv,
         CallMatches
<1>2. InService /\ InService'
  BY <1>1 DEF InService
<1>3. BootInv'
  BY <1>1, <1>2, ServiceBlockStep
<1>4. \A b \in Blocks : block'[b] = block[b] \/ b = spare
  BY DEF WipeSpare, BlockErase, BlockProgram, BlockCommit, SaveBegin, SelectBegin, IndInv,
         TypeOK
<1>5. \A s \in Slots : index[s] \in Blocks /\ index[s] # spare
  BY <1>1 DEF IndInv, IndexComplete, FreeBlock, Unreferenced
<1> QED
  BY <1>1, <1>2, <1>3, <1>4, <1>5

\* A compaction erases and writes the catalog that is not active.
LEMMA CompactionAgrees ==
    ASSUME IndInv, IndInv', BootInv, op.call # "open", CatalogErase \/ CatalogProgram
    PROVE  /\ BootInv' /\ InService /\ InService'
           /\ block' = block /\ index' = index /\ lastLoad' = lastLoad
<1>1. /\ block' = block /\ index' = index /\ lastLoad' = lastLoad /\ epoch' = epoch
      /\ used' = used /\ active' = active /\ op' = op
      /\ pc \in {"catErase", "catProgram"} /\ pc' \in {"catProgram", "catCommit"}
  BY DEF CatalogErase, CatalogProgram
<1>2. InService /\ InService'
  BY <1>1 DEF InService
<1>3. active \in Catalogs /\ catalog[active].st = "valid"
  BY <1>2, ServiceOpens
<1>4. catalog'[active] = catalog[active] /\ catalog'[Other(active)].st # "valid"
  BY <1>3, RamTypes DEF CatalogErase, CatalogProgram, IndInv, TypeOK
<1>5. Selected' = active
  BY <1>3, <1>4, OnlySelected
<1>6. CatalogAgrees'
  BY <1>1, <1>2, <1>4, <1>5 DEF BootInv, CatalogAgrees
<1>7. Formatted'
  BY <1>3, <1>4 DEF Formatted
<1>8. DefaultsFirst' /\ SaveDone'
  BY <1>1, <1>2, <1>7 DEF DefaultsFirst, SaveDone, InService
<1> QED
  BY <1>1, <1>2, <1>6, <1>8 DEF BootInv

\* A new catalog takes over: it is the only valid one, or the newer of two.
LEMMA CatalogCommitAgrees ==
    ASSUME IndInv, IndInv', BootInv, CatalogCommit
    PROVE  /\ BootInv' /\ InService'
           /\ block' = block /\ index' = index /\ lastLoad' = lastLoad
<1>1. /\ block' = block /\ index' = index /\ lastLoad' = lastLoad
      /\ epoch' = Successor(epoch) /\ used' = 0 /\ active' = Other(active) /\ op' = op
      /\ pc = "catCommit" /\ pc' = "catRetire"
      /\ catalog' = [catalog EXCEPT ![Other(active)] =
                        Snapshot(Successor(epoch), index, lastLoad, <<>>)]
  BY DEF CatalogCommit
<1>2. /\ active \in Catalogs /\ Other(active) \in Catalogs /\ Other(active) # active
      /\ index \in [Slots -> Blocks] /\ epoch \in U32
  BY <1>1, RamTypes DEF IndInv, TypeOK, IndexComplete
<1>3. /\ catalog'[Other(active)] = Snapshot(Successor(epoch), index, lastLoad, <<>>)
      /\ catalog'[active] = catalog[active]
  BY <1>1, <1>2 DEF IndInv, TypeOK
<1>4. /\ ReplayedIndex(catalog'[Other(active)]) = index
      /\ ReplayedSelection(catalog'[Other(active)]) = lastLoad
      /\ ReplayedUsed(catalog'[Other(active)]) = 0
      /\ catalog'[Other(active)].epoch = Successor(epoch)
      /\ catalog'[Other(active)].st = "valid"
  BY <1>2, <1>3, SnapshotReads
<1>5. Selected' = Other(active)
  <2>1. CASE op.call = "open"
    <3>1. catalog'[active].st # "valid"
      BY <1>1, <1>2, <1>3, <2>1 DEF BootInv, DefaultsFirst, Formatted
    <3>2. Other(Other(active)) = active
      <4>1. active = "A" \/ active = "B"
        BY <1>2 DEF Catalogs
      <4> QED
        BY <4>1 DEF Other
    <3> QED
      BY <1>2, <1>4, <3>1, <3>2, OnlySelected
  <2>2. CASE op.call # "open"
    <3>1. catalog'[active].st = "valid" /\ catalog'[active].epoch = epoch
      <4>1. InService
        BY <1>1, <2>2 DEF InService
      <4> QED
        BY <1>3, <4>1, ServiceOpens DEF BootInv, CatalogAgrees
    <3>2. GenerationNewer(Successor(epoch), epoch) /\ ~GenerationNewer(epoch, Successor(epoch))
      BY <1>2, SuccessorNewer
    <3>3. \/ active = "A" /\ Other(active) = "B"
          \/ active = "B" /\ Other(active) = "A"
      BY <1>2 DEF Catalogs, Other
    <3> QED
      BY <1>4, <3>1, <3>2, <3>3 DEF Selected
  <2> QED
    BY <2>1, <2>2
<1>6. CatalogAgrees'
  BY <1>1, <1>4, <1>5 DEF CatalogAgrees
<1>7. Formatted'
  BY <1>2, <1>4 DEF Formatted
<1>8. DefaultsFirst' /\ SaveDone' /\ InService'
  BY <1>1, <1>7 DEF BootInv, DefaultsFirst, SaveDone, InService
<1> QED
  BY <1>1, <1>6, <1>8 DEF BootInv

LEMMA CatalogRetireAgrees ==
    ASSUME IndInv, IndInv', BootInv, CatalogRetire
    PROVE  /\ BootInv' /\ InService /\ InService'
           /\ block' = block /\ index' = index /\ lastLoad' = lastLoad
<1>1. /\ block' = block /\ index' = index /\ lastLoad' = lastLoad /\ epoch' = epoch
      /\ used' = used /\ active' = active
      /\ pc = "catRetire" /\ pc' \in {"ready", "entryProgram"}
      /\ op'.call # "open" /\ catalog' = [catalog EXCEPT ![Other(active)] = [st |-> "erased"]]
  BY DEF CatalogRetire
<1>2. InService /\ InService'
  BY <1>1 DEF InService
<1>3. active \in Catalogs /\ catalog[active].st = "valid"
  BY <1>2, ServiceOpens
<1>4. catalog'[active] = catalog[active] /\ catalog'[Other(active)].st # "valid"
  BY <1>1, <1>3, RamTypes DEF IndInv, TypeOK
<1>5. Selected' = active
  BY <1>3, <1>4, OnlySelected
<1>6. CatalogAgrees'
  BY <1>1, <1>2, <1>4, <1>5 DEF BootInv, CatalogAgrees
<1>7. Formatted'
  BY <1>3, <1>4 DEF Formatted
<1>8. DefaultsFirst' /\ SaveDone'
  BY <1>1, <1>2, <1>7 DEF DefaultsFirst, SaveDone, InService
<1> QED
  BY <1>1, <1>2, <1>6, <1>8 DEF BootInv

LEMMA EntryProgramAgrees ==
    ASSUME IndInv, IndInv', BootInv, EntryProgram
    PROVE  /\ BootInv' /\ InService /\ InService'
           /\ block' = block /\ index' = index /\ lastLoad' = lastLoad
<1>1. /\ block' = block /\ index' = index /\ lastLoad' = lastLoad /\ epoch' = epoch
      /\ used' = used /\ active' = active /\ op' = op
      /\ pc = "entryProgram" /\ pc' = "entryCommit" /\ op.call # "open"
      /\ Len(catalog[active].journal) = used /\ used < JournalCap
      /\ catalog' = [catalog EXCEPT ![active] =
                        [catalog[active] EXCEPT !.journal = Append(catalog[active].journal, Torn)]]
  BY DEF EntryProgram, IndInv, CallMatches, JournalFits
<1>2. InService /\ InService'
  BY <1>1 DEF InService
<1>3. /\ active \in Catalogs /\ catalog[active] \in CatalogValues
      /\ catalog[active].st = "valid"
  BY <1>2, ServiceOpens
<1>4. /\ ReplayedIndex(catalog'[active]) = ReplayedIndex(catalog[active])
      /\ ReplayedSelection(catalog'[active]) = ReplayedSelection(catalog[active])
      /\ catalog'[active].epoch = catalog[active].epoch /\ catalog'[active].st = "valid"
      /\ catalog'[active].journal = Append(catalog[active].journal, Torn)
  <2>1. catalog'[active] =
           [catalog[active] EXCEPT !.journal = Append(catalog[active].journal, Torn)]
    BY <1>1, <1>3 DEF IndInv, TypeOK
  <2> QED
    BY <1>3, <2>1, TornReads
<1>5. Selected' = Selected
  <2>1. \A c \in Catalogs : c # active => catalog'[c] = catalog[c]
    BY <1>1 DEF IndInv, TypeOK
  <2> QED
    BY <1>3, <1>4, <2>1, SameSelected
<1>6. /\ catalog'[active].journal[used + 1] = Torn
      /\ \A i \in 1 .. used : catalog'[active].journal[i] # Torn
  <2>1. catalog[active].journal \in Seq(Entries)
    BY <1>3, ValidCatalog
  <2>2. Decodable(catalog[active].journal) = DOMAIN catalog[active].journal
    BY <1>1, <1>2 DEF BootInv, CatalogAgrees, ReplayedUsed
  <2>3. \A i \in 1 .. used : i \in Decodable(catalog[active].journal)
    BY <1>1, <2>1, <2>2
  <2>4. \A i \in 1 .. used : i \in 1 .. i
    BY <1>1, <2>1
  <2>5. \A i \in 1 .. used : catalog[active].journal[i] # Torn
    BY <2>3, <2>4 DEF Decodable
  <2> QED
    BY <1>1, <1>4, <2>1, <2>5, TornAppended
<1>7. CatalogAgrees'
  BY <1>1, <1>2, <1>4, <1>5, <1>6 DEF BootInv, CatalogAgrees
<1>8. Formatted'
  BY <1>3, <1>4 DEF Formatted
<1>9. DefaultsFirst' /\ SaveDone'
  BY <1>1, <1>8 DEF DefaultsFirst, SaveDone
<1> QED
  BY <1>1, <1>2, <1>7, <1>9 DEF BootInv

\* The commit of an entry is the instant at which a call takes effect.
LEMMA EntryCommitAgrees ==
    ASSUME IndInv, IndInv', BootInv, EntryCommit
    PROVE  /\ BootInv' /\ InService /\ InService' /\ block' = block
           /\ op.call = "save" => /\ index' = [index EXCEPT ![op.slot] = spare]
                                  /\ op.slot \in Slots /\ lastLoad' = lastLoad
                                  /\ block[spare].patch = op.patch /\ op' = op
           /\ op.call # "save" => /\ op.call = "select" /\ index' = index
                                  /\ lastLoad' = op.slot /\ op' = [call |-> "none"]
<1>1. /\ block' = block /\ epoch' = epoch /\ used' = used + 1 /\ active' = active
      /\ pc = "entryCommit" /\ pc' \in {"oldErase", "ready"}
      /\ op.call \in {"save", "select"}
  BY DEF EntryCommit, IndInv, CallMatches
<1>2. op'.call # "open"
  BY <1>1 DEF EntryCommit
<1>3. InService /\ InService'
  BY <1>1, <1>2 DEF InService
<1>4. /\ active \in Catalogs /\ index \in [Slots -> Blocks]
      /\ ReplayedIndex(catalog[active]) = index
      /\ ReplayedSelection(catalog[active]) = lastLoad
      /\ catalog[active].epoch = epoch /\ Selected = active
  BY <1>3, ServiceOpens DEF BootInv, CatalogAgrees
<1>5. TornBehind(catalog[active].journal, used)
  BY <1>1, <1>3 DEF BootInv, CatalogAgrees, IndInv, JournalFits, TornBehind
<1>6. ASSUME op.call = "save"
      PROVE  /\ index' = [index EXCEPT ![op.slot] = spare] /\ op.slot \in Slots
             /\ lastLoad' = lastLoad /\ block[spare].patch = op.patch /\ op' = op
             /\ SaveDone'
  <2>1. /\ index' = [index EXCEPT ![op.slot] = spare] /\ lastLoad' = lastLoad /\ op' = op
    BY <1>6 DEF EntryCommit
  <2>2. op.slot \in Slots /\ block[spare].patch = op.patch
    BY <1>1, <1>6, OpTypes DEF IndInv, SaveProgress
  <2> QED
    BY <1>1, <1>4, <2>1, <2>2 DEF SaveDone
<1>7. ASSUME op.call # "save"
      PROVE  /\ op.call = "select" /\ index' = index /\ lastLoad' = op.slot
             /\ op' = [call |-> "none"] /\ SaveDone'
  <2>1. index' = index /\ lastLoad' = op.slot /\ pc' = "ready" /\ op' = [call |-> "none"]
    BY <1>7 DEF EntryCommit
  <2> QED
    BY <1>1, <1>7, <2>1 DEF SaveDone
<1>8. CatalogAgrees'
  BY <1>1, <1>4, <1>5, <1>6, <1>7, EntryLands DEF CatalogAgrees
<1>9. DefaultsFirst'
  BY <1>1, <1>2, <1>4, <1>5, EntryLands DEF DefaultsFirst, Formatted
<1> QED
  BY <1>1, <1>3, <1>6, <1>7, <1>8, <1>9 DEF BootInv

\* The block a save replaced is no longer one of the index.
LEMMA OldEraseAgrees ==
    ASSUME IndInv, IndInv', BootInv, OldErase
    PROVE  /\ BootInv' /\ InService /\ InService' /\ op' = [call |-> "none"]
           /\ catalog' = catalog /\ index' = index /\ lastLoad' = lastLoad
           /\ \A s \in Slots : block'[index[s]] = block[index[s]]
<1>1. /\ catalog' = catalog /\ index' = index /\ lastLoad' = lastLoad /\ epoch' = epoch
      /\ used' = used /\ active' = active /\ op' = [call |-> "none"] /\ op.call = "save"
      /\ pc = "oldErase" /\ pc' = "ready"
      /\ block' = [block EXCEPT ![op.old] = [st |-> "erased"]]
  BY DEF OldErase, IndInv, CallMatches
<1>2. InService /\ InService'
  BY <1>1 DEF InService
<1>3. BootInv'
  BY <1>1, <1>2, ServiceBlockStep
<1>4. \A s \in Slots : index[s] \in Blocks /\ index[s] # op.old
  BY <1>1 DEF IndInv, IndexComplete, FreeBlock, Unreferenced
<1>5. \A b \in Blocks : b # op.old => block'[b] = block[b]
  BY <1>1 DEF IndInv, TypeOK
<1> QED
  BY <1>1, <1>2, <1>3, <1>4, <1>5

-----------------------------------------------------------------------------
(* What a boot makes of the flash.                                         *)

LEMMA SameFlash ==
    ASSUME block' = block, catalog' = catalog
    PROVE  /\ BootPatches' = BootPatches /\ BootSelection' = BootSelection
           /\ Openable' = Openable /\ Formatted' = Formatted /\ Selected' = Selected
BY DEF BootPatches, BootIndex, BootSelection, Openable, Formatted, Selected, Validates,
       ScannedIndex, NewestCopy, Copies, Beats

\* In service it finds what RAM holds, and before the first format it finds defaults.
ServiceReads ==
    /\ BootPatches = [s \in Slots |-> block[index[s]].patch]
    /\ BootSelection = lastLoad
VirginReads ==
    /\ BootPatches = [s \in Slots |-> DefaultPatch]
    /\ BootSelection = 0

LEMMA ServiceBoot == IndInv /\ BootInv /\ InService => ServiceReads
<1> SUFFICES ASSUME IndInv, BootInv, InService PROVE ServiceReads
  OBVIOUS
<1>1. Openable /\ index \in [Slots -> Blocks]
  BY ServiceOpens
<1>2. /\ ReplayedIndex(catalog[Selected]) = index
      /\ ReplayedSelection(catalog[Selected]) = lastLoad
  BY DEF BootInv, CatalogAgrees
<1>3. \A s \in Slots : index[s] # NoBlock
  BY <1>1 DEF Blocks, NoBlock
<1> QED
  BY <1>1, <1>2, <1>3 DEF ServiceReads, BootPatches, BootIndex, BootSelection

LEMMA VirginBoot == IndInv /\ BootInv /\ ~Formatted => VirginReads
<1> SUFFICES ASSUME IndInv, BootInv, ~Formatted PROVE VirginReads
  OBVIOUS
<1>1. ~Openable
  BY DEF Openable, Formatted
<1>2. ASSUME NEW s \in Slots, NewestCopy(s) # NoBlock
      PROVE  block[NewestCopy(s)].patch = DefaultPatch
  <2>1. NewestCopy(s) \in Copies(s)
    BY <1>2, NewestCopyExists DEF IndInv, NewestCopy
  <2> QED
    BY <2>1 DEF Copies, BootInv, DefaultsFirst
<1> QED
  BY <1>1, <1>2 DEF VirginReads, BootPatches, BootIndex, BootSelection, ScannedIndex

LEMMA ServiceBootNext == IndInv' /\ BootInv' /\ InService' => ServiceReads'
BY ServiceBoot, PTL

LEMMA VirginBootNext == IndInv' /\ BootInv' /\ ~Formatted' => VirginReads'
BY VirginBoot, PTL

\* A catalog that is still valid when its erase is cut short was so before, and its
\* epoch stands.
LEMMA CutReads ==
    ASSUME NEW c \in CatalogValues, NEW x \in CutCatalogs(c), x.st = "valid"
    PROVE  c.st = "valid" /\ x.epoch = c.epoch
<1>1. c.st = "valid" /\ x # Dirty
  BY DEF CutCatalogs
<1>2. ASSUME NEW n \in 0 .. Len(c.journal),
             x = [c EXCEPT !.journal = SubSeq(c.journal, 1, n)]
      PROVE  x.epoch = c.epoch
  BY <1>1, <1>2, ValidCatalog
<1>3. ASSUME NEW n \in DOMAIN c.journal,
             x = [c EXCEPT !.journal = Append(SubSeq(c.journal, 1, n - 1), Torn)]
      PROVE  x.epoch = c.epoch
  BY <1>1, <1>3, ValidCatalog
<1> QED
  BY <1>1, <1>2, <1>3 DEF CutCatalogs

\* A power cut loses nothing that a boot would have found.
LEMMA CrashAgrees ==
    ASSUME IndInv, IndInv', BootInv, Crash \/ CrashErasingBlock \/ CrashErasingCatalog
    PROVE  BootInv' /\ BootPatches' = BootPatches /\ BootSelection' = BootSelection
<1>1. pc # "off" /\ pc' = "off" /\ op' = [call |-> "none"] /\ lastLoad' = 0
  BY DEF Crash, CrashErasingBlock, CrashErasingCatalog
<1>2. CatalogAgrees' /\ SaveDone'
  BY <1>1 DEF CatalogAgrees, SaveDone, InService
<1>3. /\ \A b \in Blocks : block'[b] = block[b] \/ block'[b].st = "dirty"
      /\ \A c \in Catalogs : \/ catalog'[c] = catalog[c]
                             \/ c = Other(active) /\ catalog'[c] \in CutCatalogs(catalog[c])
  BY DEF Crash, CrashErasingBlock, CrashErasingCatalog, IndInv, TypeOK
<1>4. CASE InService
  <2>1. /\ active \in Catalogs /\ Other(active) # active /\ Other(active) \in Catalogs
        /\ catalog[active].st = "valid" /\ catalog[active] \in CatalogValues
        /\ index \in [Slots -> Blocks] /\ Validates(index) /\ Openable
    BY <1>4, ServiceOpens, RamTypes
  <2>2. /\ Selected = active /\ ReplayedIndex(catalog[active]) = index
        /\ ReplayedSelection(catalog[active]) = lastLoad
    BY <1>4 DEF BootInv, CatalogAgrees
  <2>3. catalog'[active] = catalog[active]
    BY <1>3, <2>1
  <2>4. Selected' = active
    <3>1. CASE catalog'[Other(active)].st # "valid"
      BY <2>1, <2>3, <3>1, OnlySelected
    <3>2. CASE catalog'[Other(active)].st = "valid"
      <4>1. /\ catalog[Other(active)].st = "valid"
            /\ catalog'[Other(active)].epoch = catalog[Other(active)].epoch
        <5>1. CASE catalog'[Other(active)] = catalog[Other(active)]
          BY <3>2, <5>1
        <5>2. CASE catalog'[Other(active)] \in CutCatalogs(catalog[Other(active)])
          <6>1. catalog[Other(active)] \in CatalogValues
            BY <2>1 DEF IndInv, TypeOK
          <6> QED
            BY <3>2, <5>2, <6>1, CutReads
        <5> QED
          BY <1>3, <2>1, <5>1, <5>2
      <4>2. \A c \in Catalogs : c = active \/ c = Other(active)
        BY <2>1 DEF Catalogs, Other
      <4>3. Selected' = Selected
        BY <2>3, <3>2, <4>1, <4>2, SameSelected
      <4> QED
        BY <2>2, <4>3
    <3> QED
      BY <3>1, <3>2
  <2>5. \A s \in Slots : block'[index[s]] = block[index[s]]
    <3>1. ASSUME CrashErasingBlock PROVE Erasing \in Unreferenced(index)
      <4>1. ~Booting
        BY <1>4 DEF InService
      <4> QED
        BY <3>1, <4>1 DEF CrashErasingBlock, Erasing, IndInv, IndexComplete, FreeBlock
    <3>2. \A b \in Blocks : \/ block'[b] = block[b]
                            \/ CrashErasingBlock /\ b = Erasing
      BY DEF Crash, CrashErasingBlock, CrashErasingCatalog, IndInv, TypeOK
    <3> QED
      BY <2>1, <3>1, <3>2 DEF Unreferenced
  <2>6. Openable'
    BY <2>1, <2>2, <2>3, <2>4, <2>5 DEF Openable, Validates
  <2>7. \A s \in Slots : index[s] # NoBlock
    BY <2>1 DEF Blocks, NoBlock
  <2>8. /\ BootPatches' = [s \in Slots |-> block[index[s]].patch]
        /\ BootSelection' = lastLoad
    BY <2>2, <2>3, <2>4, <2>5, <2>6, <2>7 DEF BootPatches, BootIndex, BootSelection
  <2>9. DefaultsFirst'
    BY <1>1, <2>6 DEF DefaultsFirst, Openable, Formatted
  <2> QED
    BY <1>2, <1>4, <2>8, <2>9, ServiceBoot DEF BootInv, ServiceReads
<1>5. CASE ~InService
  <2>1. op.call = "open" /\ pc # "catRetire"
    BY <1>1, <1>5 DEF InService, IndInv, CallMatches
  <2>2. ~Formatted
    BY <2>1 DEF BootInv, DefaultsFirst
  <2>3. ~Formatted'
    <3>1. \A c \in Catalogs : catalog[c] \in CatalogValues
      BY DEF IndInv, TypeOK
    <3> QED
      BY <1>3, <2>2, <3>1, CutReads DEF Formatted
  <2>4. DefaultsFirst'
    BY <1>1, <1>3, <2>2, <2>3 DEF BootInv, DefaultsFirst
  <2>5. BootInv'
    BY <1>2, <2>4 DEF BootInv
  <2> QED
    BY <2>2, <2>3, <2>5, VirginBoot, VirginBootNext DEF VirginReads
<1> QED
  BY <1>4, <1>5
-----------------------------------------------------------------------------
(* The invariant, and RAM as a copy of the flash.                          *)

LEMMA BootInvStep == IndInv /\ IndInv' /\ BootInv /\ [Next]_vars => BootInv'
<1> SUFFICES ASSUME IndInv, IndInv', BootInv, [Next]_vars PROVE BootInv'
  OBVIOUS
<1>1. CASE OpenIndexed \/ OpenRecover
  BY <1>1, OpenIndexedAgrees, OpenRecoverAgrees
<1>2. CASE FillErase \/ FillProgram \/ FillCommit \/ FillDone
  BY <1>2, FillAgrees
<1>3. CASE WipeSpare \/ CatalogErase \/ CatalogProgram
  BY <1>3, RecoveryCatalogAgrees, BlockStepsAgree, CompactionAgrees
<1>4. CASE BlockErase \/ BlockProgram \/ BlockCommit
  BY <1>4, BlockStepsAgree
<1>5. CASE CatalogCommit \/ CatalogRetire
  BY <1>5, CatalogCommitAgrees, CatalogRetireAgrees
<1>6. CASE EntryProgram \/ EntryCommit \/ OldErase
  BY <1>6, EntryProgramAgrees, EntryCommitAgrees, OldEraseAgrees
<1>7. CASE (\E s \in Slots, p \in Patches : SaveBegin(s, p)) \/ \E s \in Slots : SelectBegin(s)
  BY <1>7, BlockStepsAgree
<1>8. CASE Crash \/ CrashErasingBlock \/ CrashErasingCatalog
  BY <1>8, CrashAgrees
<1>9. CASE UNCHANGED vars
  <2>1. block' = block /\ catalog' = catalog
    BY <1>9 DEF vars
  <2>2. Openable' = Openable /\ Formatted' = Formatted /\ Selected' = Selected
    BY <2>1, SameFlash
  <2> QED
    BY <1>9, <2>2 DEF vars, BootInv, CatalogAgrees, DefaultsFirst, SaveDone, InService
<1> QED
  BY <1>1, <1>2, <1>3, <1>4, <1>5, <1>6, <1>7, <1>8, <1>9 DEF Next, Step

LEMMA BootInvariance == Spec => [](IndInv /\ BootInv)
<1>1. Init => BootInv
  BY InitBootInv
<1>2. IndInv /\ IndInv' /\ BootInv /\ [Next]_vars => BootInv'
  BY BootInvStep
<1> QED
  BY <1>1, <1>2, Invariance, PTL DEF Spec

\* Whatever calls and power cuts came before, between two calls the next open() would
\* trust the active catalog and read from it the index, the selection, the epoch and
\* the journal position that the store works with.
THEOREM RamAlwaysMatchesFlash == Spec => []RamMatchesFlash
<1>1. IndInv /\ BootInv => RamMatchesFlash
  <2> SUFFICES ASSUME IndInv, BootInv, pc = "ready" PROVE RamMatchesFlash
    BY DEF RamMatchesFlash
  <2>1. InService
    BY DEF InService, IndInv, CallMatches
  <2> QED
    BY <2>1, ServiceOpens DEF RamMatchesFlash, BootInv, CatalogAgrees
<1> QED
  BY <1>1, BootInvariance, PTL
-----------------------------------------------------------------------------
(* The refinement.  Each step of the store is one of AtomicStore or leaves *)
(* its variables unchanged.                                                *)

SameBoot == BootPatches' = BootPatches /\ BootSelection' = BootSelection

LEMMA RefinedInit == Init => Atomic!Init
<1> SUFFICES ASSUME Init PROVE Atomic!Init
  OBVIOUS
<1>1. IndInv /\ BootInv /\ ~Formatted
  BY InitIndInv, InitBootInv DEF Init, Formatted, Catalogs
<1>2. VirginReads
  BY <1>1, VirginBoot
<1> QED
  BY <1>2 DEF Init, Atomic!Init, Atomic!None, VirginReads, Request

\* open() turns the power on; what it finds is what was there.
LEMMA OpenRefines ==
    ASSUME IndInv, OpenIndexed \/ OpenRecover
    PROVE  Atomic!PowerUp
<1>1. block' = block /\ catalog' = catalog
  BY DEF OpenIndexed, OpenRecover
<1>2. SameBoot
  BY <1>1, SameFlash DEF SameBoot
<1>3. Request' = Request /\ pc = "off" /\ pc' # "off"
  BY DEF OpenIndexed, OpenRecover, IndInv, CallMatches, Request
<1> QED
  BY <1>2, <1>3 DEF Atomic!PowerUp, SameBoot

\* The other steps of a recovery change nothing a caller could tell.
LEMMA RecoveryRefines ==
    ASSUME IndInv, IndInv', BootInv,
           \/ FillErase \/ FillProgram \/ FillCommit \/ FillDone
           \/ op.call = "open" /\ (WipeSpare \/ CatalogErase \/ CatalogProgram)
    PROVE  UNCHANGED Atomic!avars
<1>1. BootInv' /\ ~Formatted /\ ~Formatted'
  BY FillAgrees, RecoveryCatalogAgrees
<1>2. SameBoot
  BY <1>1, VirginBoot, VirginBootNext DEF VirginReads, SameBoot
<1>3. op' = op /\ pc # "off" /\ pc' # "off"
  BY DEF FillErase, FillProgram, FillCommit, FillDone, WipeSpare, CatalogErase, CatalogProgram
<1> QED
  BY <1>2, <1>3 DEF Atomic!avars, SameBoot, Request

\* In service a boot changes with the index, the blocks it names and the selection.
LEMMA ServiceSame ==
    ASSUME IndInv, IndInv', BootInv, BootInv', InService, InService',
           index' = index, lastLoad' = lastLoad,
           \A s \in Slots : block'[index[s]] = block[index[s]]
    PROVE  SameBoot
<1>1. ServiceReads /\ ServiceReads'
  BY ServiceBoot, ServiceBootNext
<1> QED
  BY <1>1 DEF ServiceReads, SameBoot

\* A call begins; until its entry is committed nothing else is to be seen.
LEMMA CallRefines ==
    ASSUME IndInv, IndInv', BootInv
    PROVE  /\ \A s \in Slots, p \in Patches : SaveBegin(s, p) =>
                 Atomic!Call([call |-> "save", slot |-> s, patch |-> p])
           /\ \A s \in Slots : SelectBegin(s) => Atomic!Call([call |-> "select", slot |-> s])
<1>1. ASSUME NEW s \in Slots, NEW p \in Patches, SaveBegin(s, p)
      PROVE  Atomic!Call([call |-> "save", slot |-> s, patch |-> p])
  <2>1. SameBoot
    BY <1>1, BlockStepsAgree, ServiceSame
  <2>2. Request = [call |-> "none"] /\ pc # "off" /\ pc' # "off"
    BY <1>1 DEF SaveBegin, IndInv, CallMatches, Request
  <2>3. Request' = [call |-> "save", slot |-> s, patch |-> p]
    BY <1>1 DEF SaveBegin, Request
  <2> QED
    BY <2>1, <2>2, <2>3 DEF Atomic!Call, Atomic!None, SameBoot
<1>2. ASSUME NEW s \in Slots, SelectBegin(s)
      PROVE  Atomic!Call([call |-> "select", slot |-> s])
  <2>1. SameBoot
    BY <1>2, BlockStepsAgree, ServiceSame
  <2>2. Request = [call |-> "none"] /\ pc # "off" /\ pc' # "off"
    BY <1>2 DEF SelectBegin, IndInv, CallMatches, Request
  <2>3. Request' = [call |-> "select", slot |-> s]
    BY <1>2 DEF SelectBegin, Request
  <2> QED
    BY <2>1, <2>2, <2>3 DEF Atomic!Call, Atomic!None, SameBoot
<1> QED
  BY <1>1, <1>2

LEMMA WorkRefines ==
    ASSUME IndInv, IndInv', BootInv,
           \/ op.call # "open" /\ (WipeSpare \/ CatalogErase \/ CatalogProgram)
           \/ BlockErase \/ BlockProgram \/ BlockCommit \/ EntryProgram
    PROVE  UNCHANGED Atomic!avars
<1>1. /\ BootInv' /\ InService /\ InService' /\ index' = index /\ lastLoad' = lastLoad
      /\ \A s \in Slots : block'[index[s]] = block[index[s]]
  BY BlockStepsAgree, CompactionAgrees, EntryProgramAgrees
<1>2. SameBoot
  BY <1>1, ServiceSame
<1>3. op' = op /\ pc # "off" /\ pc' # "off"
  BY DEF WipeSpare, CatalogErase, CatalogProgram, BlockErase, BlockProgram, BlockCommit,
         EntryProgram
<1> QED
  BY <1>2, <1>3 DEF Atomic!avars, SameBoot, Request

\* The first catalog of a recovery holds the defaults that a boot would have made up;
\* a later one holds what its predecessor did.
LEMMA CatalogRefines ==
    ASSUME IndInv, IndInv', BootInv, CatalogCommit \/ CatalogRetire
    PROVE  UNCHANGED Atomic!avars
<1>1. /\ BootInv' /\ InService' /\ block' = block /\ index' = index /\ lastLoad' = lastLoad
  BY CatalogCommitAgrees, CatalogRetireAgrees
<1>2. Request' = Request /\ pc # "off" /\ pc' # "off"
  BY DEF CatalogCommit, CatalogRetire, Request
<1>3. CASE InService
  <2>1. SameBoot
    BY <1>1, <1>3, ServiceSame
  <2> QED
    BY <1>2, <2>1 DEF Atomic!avars, SameBoot
<1>4. CASE ~InService
  <2>1. CatalogCommit /\ op.call = "open" /\ pc = "catCommit"
    BY <1>4, CatalogRetireAgrees DEF InService, CatalogCommit
  <2>2. ~Formatted /\ lastLoad = 0
    BY <2>1 DEF BootInv, DefaultsFirst
  <2>3. \A s \in Slots : index[s] \in Blocks /\ block[index[s]].st = "valid"
    BY <2>1 DEF IndInv, IndexComplete, Validates
  <2>4. \A s \in Slots : block[index[s]].patch = DefaultPatch
    BY <2>2, <2>3 DEF BootInv, DefaultsFirst
  <2>5. VirginReads /\ ServiceReads'
    BY <1>1, <2>2, VirginBoot, ServiceBootNext
  <2>6. SameBoot
    BY <1>1, <2>2, <2>4, <2>5 DEF VirginReads, ServiceReads, SameBoot
  <2> QED
    BY <1>2, <2>6 DEF Atomic!avars, SameBoot
<1> QED
  BY <1>3, <1>4

\* The commit of its entry is where a save takes effect and a selection returns.
LEMMA EntryRefines ==
    ASSUME IndInv, IndInv', BootInv, EntryCommit
    PROVE  Atomic!TakeEffect \/ Atomic!Return
<1>1. /\ BootInv' /\ InService /\ InService' /\ block' = block
      /\ op.call = "save" => /\ index' = [index EXCEPT ![op.slot] = spare]
                             /\ op.slot \in Slots /\ lastLoad' = lastLoad
                             /\ block[spare].patch = op.patch /\ op' = op
      /\ op.call # "save" => /\ op.call = "select" /\ index' = index
                             /\ lastLoad' = op.slot /\ op' = [call |-> "none"]
  BY EntryCommitAgrees
<1>2. ServiceReads /\ ServiceReads' /\ index \in [Slots -> Blocks]
  BY <1>1, ServiceBoot, ServiceBootNext, ServiceOpens
<1>3. pc # "off" /\ pc' # "off"
  BY DEF EntryCommit
<1>4. CASE op.call = "save"
  <2>1. BootPatches' = [BootPatches EXCEPT ![op.slot] = op.patch]
    BY <1>1, <1>2, <1>4 DEF ServiceReads
  <2>2. BootSelection' = BootSelection
    BY <1>1, <1>2, <1>4 DEF ServiceReads
  <2>3. Request = [call |-> "save", slot |-> op.slot, patch |-> op.patch] /\ Request' = Request
    BY <1>1, <1>4 DEF Request
  <2>4. Request # Atomic!None /\ Request.call = "save" /\ Request.slot = op.slot
        /\ Request.patch = op.patch
    BY <2>3 DEF Atomic!None
  <2> QED
    BY <1>3, <2>1, <2>2, <2>3, <2>4 DEF Atomic!TakeEffect, Atomic!Done
<1>5. CASE op.call # "save"
  <2>1. BootPatches' = BootPatches /\ BootSelection' = op.slot
    BY <1>1, <1>2, <1>5 DEF ServiceReads
  <2>2. Request = op /\ op.call = "select" /\ Request' = [call |-> "none"]
    BY <1>1, <1>5 DEF Request
  <2>3. Request # Atomic!None
    BY <2>2 DEF Atomic!None
  <2> QED
    BY <1>3, <2>1, <2>2, <2>3 DEF Atomic!Return, Atomic!Done, Atomic!None
<1> QED
  BY <1>4, <1>5

\* A save returns once the block it replaced is erased.
LEMMA ReturnRefines ==
    ASSUME IndInv, IndInv', BootInv, OldErase
    PROVE  Atomic!Return
<1>1. /\ BootInv' /\ InService /\ InService' /\ op' = [call |-> "none"]
      /\ index' = index /\ lastLoad' = lastLoad
      /\ \A s \in Slots : block'[index[s]] = block[index[s]]
  BY OldEraseAgrees
<1>2. SameBoot
  BY <1>1, ServiceSame
<1>3. op.call = "save" /\ op.slot \in Slots /\ pc = "oldErase" /\ pc' = "ready"
  BY OpTypes DEF OldErase, IndInv, CallMatches
<1>4. BootPatches = [s \in Slots |-> block[index[s]].patch]
  BY <1>1, ServiceBoot DEF ServiceReads
<1>5. BootPatches[op.slot] = op.patch
  BY <1>3, <1>4 DEF BootInv, SaveDone
<1>6. BootPatches' = [BootPatches EXCEPT ![op.slot] = op.patch]
  BY <1>2, <1>3, <1>4, <1>5 DEF SameBoot
<1>7. /\ Request = [call |-> "save", slot |-> op.slot, patch |-> op.patch]
      /\ Request' = [call |-> "none"]
  BY <1>1, <1>3 DEF Request
<1>8. Request # Atomic!None /\ Request.call = "save" /\ Request.slot = op.slot
      /\ Request.patch = op.patch
  BY <1>7 DEF Atomic!None
<1> QED
  BY <1>2, <1>3, <1>6, <1>7, <1>8 DEF Atomic!Return, Atomic!Done, Atomic!None, SameBoot

\* A power cut loses the call in progress, unless it has taken effect, and nothing else.
LEMMA CrashRefines ==
    ASSUME IndInv, IndInv', BootInv, Crash \/ CrashErasingBlock \/ CrashErasingCatalog
    PROVE  Atomic!PowerDown
<1>1. pc # "off" /\ pc' = "off" /\ op' = [call |-> "none"]
  BY DEF Crash, CrashErasingBlock, CrashErasingCatalog
<1>2. Request' = [call |-> "none"]
  BY <1>1 DEF Request
<1> QED
  BY <1>1, <1>2, CrashAgrees DEF Atomic!PowerDown, Atomic!None

LEMMA RefinedStep == IndInv /\ IndInv' /\ BootInv /\ [Next]_vars => [Atomic!Next]_Atomic!avars
<1> SUFFICES ASSUME IndInv, IndInv', BootInv, [Next]_vars
             PROVE  Atomic!Next \/ UNCHANGED Atomic!avars
  OBVIOUS
<1>1. CASE OpenIndexed \/ OpenRecover
  BY <1>1, OpenRefines DEF Atomic!Next
<1>2. CASE FillErase \/ FillProgram \/ FillCommit \/ FillDone
  BY <1>2, RecoveryRefines
<1>3. CASE WipeSpare \/ CatalogErase \/ CatalogProgram
  BY <1>3, RecoveryRefines, WorkRefines
<1>4. CASE BlockErase \/ BlockProgram \/ BlockCommit \/ EntryProgram
  BY <1>4, WorkRefines
<1>5. CASE CatalogCommit \/ CatalogRetire
  BY <1>5, CatalogRefines
<1>6. CASE EntryCommit
  BY <1>6, EntryRefines DEF Atomic!Next
<1>7. CASE OldErase
  BY <1>7, ReturnRefines DEF Atomic!Next
<1>8. CASE (\E s \in Slots, p \in Patches : SaveBegin(s, p)) \/ \E s \in Slots : SelectBegin(s)
  BY <1>8, CallRefines DEF Atomic!Next
<1>9. CASE Crash \/ CrashErasingBlock \/ CrashErasingCatalog
  BY <1>9, CrashRefines DEF Atomic!Next
<1>10. CASE UNCHANGED vars
  <2>1. block' = block /\ catalog' = catalog /\ op' = op /\ pc' = pc
    BY <1>10 DEF vars
  <2> QED
    BY <2>1, SameFlash DEF Atomic!avars, Request
<1> QED
  BY <1>1, <1>2, <1>3, <1>4, <1>5, <1>6, <1>7, <1>8, <1>9, <1>10 DEF Next, Step

\* save() and persist_last_load() are atomic and durable, whatever the number of slots,
\* the length of the journal and the width of the counters: the store implements
\* AtomicStore, read off the flash the way the next open() would read it.
THEOREM StoreImplementsAtomic == Spec => SavesAreAtomic
<1>1. Init => Atomic!Init
  BY RefinedInit
<1>2. IndInv /\ IndInv' /\ BootInv /\ [Next]_vars => [Atomic!Next]_Atomic!avars
  BY RefinedStep
<1> QED
  BY <1>1, <1>2, BootInvariance, PTL DEF Spec, SavesAreAtomic, Atomic!Spec
-----------------------------------------------------------------------------
(* Faults.  No erase reports an error (EraseErrors = FALSE); with one, SpareIsNotLive fails *)
(* and the invariants below with it.                                       *)

LEMMA CopiesLost ==
    ASSUME OneExtraCopy,
           \A b \in Blocks : block'[b] = block[b] \/ block'[b].st # "valid"
    PROVE  OneExtraCopy'
<1>1. PICK u \in Blocks : \A b, d \in Blocks \ {u} :
        b # d /\ IsValid(block[b]) /\ IsValid(block[d]) => block[b].slot # block[d].slot
  BY DEF OneExtraCopy
<1>2. \A b \in Blocks \ {u} : IsValid(block'[b]) => block'[b] = block[b]
  OBVIOUS
<1>3. \A b, d \in Blocks \ {u} :
        b # d /\ IsValid(block'[b]) /\ IsValid(block'[d]) => block'[b].slot # block'[d].slot
  BY <1>1, <1>2
<1> QED
  BY <1>3 DEF OneExtraCopy

\* A call that returns an error, or a boot that does, keeps the invariant if what it wrote
\* last is the spare block, the catalog that is not in use or the end of the one that is.
LEMMA FailStep ==
    ASSUME IndInv, Fail, pc \notin {"off", "ready", "wipeSpare", "oldErase", "catRetire"},
           block' \in [Blocks -> BlockValues], catalog' \in [Catalogs -> CatalogValues],
           \A b \in Blocks : block'[b] = block[b] \/ b = spare,
           \A c \in Catalogs : \/ catalog'[c] = catalog[c]
                               \/ /\ c = Target \/ (c = active /\ catalog'[c].st = "valid")
                                  /\ catalog'[c].st = "valid" =>
                                        Len(catalog'[c].journal) <= JournalCap,
           Booting => OneExtraCopy'
    PROVE  IndInv'
<1>1. TypeOK'
  BY OpTypes, RamTypes DEF IndInv, Fail, TypeOK, Phases
<1>2. CallMatches' /\ SaveProgress' /\ RecoveryProgress'
  BY DEF Fail, CallMatches, SaveProgress, RecoveryProgress
<1>3. JournalFits'
  <2>1. \A c \in Catalogs : IsValid(catalog'[c]) => Len(catalog'[c].journal) <= JournalCap
    BY DEF IndInv, JournalFits
  <2>2. CASE op.call = "open"
    BY <2>1, <2>2 DEF Fail, JournalFits
  <2>3. CASE op.call # "open"
    <3>1. ~Booting /\ active' = active /\ pc' = "ready" /\ op' = Idle /\ active \in Catalogs
      BY <2>3 DEF Fail, IndInv, CallMatches, TypeOK
    <3>2. catalog[active].st = "valid" /\ Target # active
      BY <2>3, <3>1, RamTypes DEF IndInv, JournalFits
    <3>3. catalog'[active].st = "valid"
      BY <3>1, <3>2
    <3> QED
      BY <2>1, <3>1, <3>3 DEF JournalFits
  <2> QED
    BY <2>2, <2>3
<1>4. IndexComplete'
  <2>1. CASE op.call = "open"
    BY <2>1 DEF Fail, IndexComplete
  <2>2. CASE op.call # "open"
    <3>1. ~Booting /\ index' = index /\ spare' = spare /\ pc' = "ready"
      BY <2>2 DEF Fail, IndInv, CallMatches
    <3>2. /\ index \in [Slots -> Blocks] /\ Validates(index) /\ Unreferenced(index) = {spare}
          /\ spare \in Blocks
      BY <3>1 DEF IndInv, IndexComplete, FreeBlock
    <3>3. \A s \in Slots : index[s] # spare
      BY <3>2 DEF Unreferenced
    <3>4. Validates(index)'
      BY <3>1, <3>2, <3>3 DEF Validates
    <3>5. Unreferenced(index)' = {spare}
      BY <3>1, <3>2 DEF Unreferenced
    <3> QED
      BY <3>1, <3>2, <3>4, <3>5 DEF IndexComplete, FreeBlock
  <2> QED
    BY <2>1, <2>2
<1>5. OneExtraCopy'
  BY SpareIsExtra
<1> QED
  BY <1>1, <1>2, <1>3, <1>4, <1>5 DEF IndInv

\* The spare block, in whichever state the failed call left it.
LEMMA BlockFailedStep ==
    ASSUME IndInv, BlockFailed
    PROVE  IndInv'
<1>1. /\ pc \in {"blockErase", "blockProgram", "fillProgram", "blockCommit", "fillCommit"}
      /\ spare \in Blocks /\ catalog' = catalog /\ Fail
  BY DEF BlockFailed, IndInv, IndexComplete, RecoveryProgress, Unreferenced
<1>2. /\ Dirty \in BlockValues
      /\ pc = "blockCommit" => Committed(op.slot, op.gen, op.patch) \in BlockValues
      /\ pc = "fillCommit" => Committed(Lowest(Missing), 1, DefaultPatch) \in BlockValues
  BY <1>1, FlashValues, OpTypes, LowestMissing, CounterTypes
     DEF IndInv, TypeOK, CallMatches, RecoveryProgress
<1>3. block' \in [Blocks -> BlockValues] /\ \A b \in Blocks \ {spare} : block'[b] = block[b]
  BY <1>1, <1>2 DEF BlockFailed, IndInv, TypeOK
<1>4. ASSUME Booting PROVE OneExtraCopy'
  <2>1. CASE block' = block \/ block' = [block EXCEPT ![spare] = Dirty]
    BY <1>1, <2>1, CopiesLost DEF IndInv, TypeOK
  <2>2. CASE /\ pc = "fillCommit"
             /\ block' = [block EXCEPT ![spare] = Committed(Lowest(Missing), 1, DefaultPatch)]
    BY <2>2, FilledCopy
  <2> QED
    BY <1>4, <2>1, <2>2 DEF BlockFailed
<1>5. catalog' \in [Catalogs -> CatalogValues]
  BY <1>1 DEF IndInv, TypeOK
<1> QED
  BY <1>1, <1>3, <1>4, <1>5, FailStep

\* The target of the new catalog.
LEMMA CatalogFailedStep ==
    ASSUME IndInv, CatalogFailed
    PROVE  IndInv'
<1> DEFINE new == Snapshot(Successor(epoch), index, lastLoad, <<>>)
<1>1. /\ pc \in {"catProgram", "catCommit"} /\ block' = block /\ Fail /\ ~Booting
      /\ Target \in Catalogs
  BY RamTypes DEF CatalogFailed, IndInv, TypeOK
<1>2. new \in CatalogValues /\ Len(new.journal) = 0
  <2>1. Successor(epoch) \in U32 /\ index \in [Slots -> Blocks] /\ lastLoad \in Slots
    BY <1>1, CounterTypes DEF IndInv, TypeOK, IndexComplete
  <2>2. <<>> \in Seq(Entries) /\ new.journal = <<>>
    BY DEF Snapshot
  <2> QED
    BY <2>1, <2>2, FlashValues
<1> HIDE DEF new
<1>3. \/ catalog' = catalog \/ catalog' = [catalog EXCEPT ![Target] = Dirty]
      \/ catalog' = [catalog EXCEPT ![Target] = new]
  BY DEF CatalogFailed, new
<1>4. catalog' \in [Catalogs -> CatalogValues]
  BY <1>1, <1>2, <1>3, FlashValues DEF IndInv, TypeOK
<1>5. \A c \in Catalogs : \/ catalog'[c] = catalog[c]
                          \/ c = Target /\ (catalog'[c].st = "valid" =>
                                               Len(catalog'[c].journal) <= JournalCap)
  BY <1>1, <1>2, <1>3 DEF IndInv, TypeOK
<1> QED
  BY <1>1, <1>4, <1>5, FailStep DEF IndInv, TypeOK

\* A call fails with one entry at the end of the journal: the active catalog stays valid.
LEMMA EntryFailStep ==
    ASSUME IndInv, Fail, pc \in {"entryProgram", "entryCommit"}, block' = block,
           NEW j \in Seq(Entries), Len(j) <= JournalCap,
           \/ catalog' = catalog
           \/ catalog' = [catalog EXCEPT ![active] = [catalog[active] EXCEPT !.journal = j]]
    PROVE  IndInv'
<1> DEFINE d == [catalog[active] EXCEPT !.journal = j]
<1>1. active \in Catalogs /\ catalog[active] \in CatalogValues /\ catalog[active].st = "valid"
  BY DEF IndInv, TypeOK, JournalFits, CallMatches
<1>2. d \in CatalogValues /\ d.st = "valid" /\ d.journal = j
  BY <1>1, JournalUpdateType
<1>3. catalog' = catalog \/ catalog' = [catalog EXCEPT ![active] = d]
  OBVIOUS
<1> HIDE DEF d
<1>4. /\ catalog' \in [Catalogs -> CatalogValues]
      /\ \A c \in Catalogs : \/ catalog'[c] = catalog[c]
                             \/ /\ c = active /\ catalog'[c].st = "valid"
                                /\ Len(catalog'[c].journal) <= JournalCap
  BY <1>1, <1>2, <1>3 DEF IndInv, TypeOK
<1>5. block' \in [Blocks -> BlockValues] /\ ~Booting
  BY DEF IndInv, TypeOK
<1> QED
  BY <1>4, <1>5, FailStep

\* What a call puts behind the last entry: bytes that do not decode, then its entry.
LEMMA OpEntryType ==
    ASSUME IndInv, op.call \in {"save", "select"}, ~Booting
    PROVE  /\ OpEntry \in Entries /\ OpEntry # Torn
           /\ OpEntry.kind = "pointer" => OpEntry.block = spare
BY OpTypes DEF IndInv, OpEntry, Pointer, Selection, Entries, IndexComplete, Torn

LEMMA EntryFailedStep ==
    ASSUME IndInv, EntryFailed
    PROVE  IndInv'
<1> DEFINE c == catalog[active]
<1>1. /\ active \in Catalogs /\ c \in CatalogValues /\ c.st = "valid" /\ c.journal \in Seq(Entries)
      /\ pc \in {"entryProgram", "entryCommit"} /\ op.call \in {"save", "select"}
      /\ used \in Nat /\ used < JournalCap /\ Fail
  <2>1. active \in Catalogs /\ c \in CatalogValues /\ c.st = "valid"
    BY DEF EntryFailed, IndInv, TypeOK, JournalFits, CallMatches
  <2> QED
    BY <2>1, JournalType DEF EntryFailed, IndInv, TypeOK, JournalFits, CallMatches
<1>2. CASE catalog' = catalog /\ block' = block
  <2>1. <<>> \in Seq(Entries) /\ Len(<<>>) <= JournalCap
    OBVIOUS
  <2> QED
    BY <1>1, <1>2, <2>1, EntryFailStep
<1>3. CASE /\ Len(c.journal) = used /\ block' = block
           /\ catalog' = [catalog EXCEPT ![active] =
                            [c EXCEPT !.journal = Append(c.journal, Torn)]]
  <2>1. Append(c.journal, Torn) \in Seq(Entries) /\ Len(Append(c.journal, Torn)) <= JournalCap
    BY <1>1, <1>3, TornAppended
  <2> QED
    BY <1>1, <1>3, <2>1, EntryFailStep
<1>4. CASE /\ pc = "entryCommit" /\ block' = block
           /\ catalog' = [catalog EXCEPT ![active] =
                            [c EXCEPT !.journal = [c.journal EXCEPT ![used + 1] = OpEntry]]]
  <2> DEFINE j == [c.journal EXCEPT ![used + 1] = OpEntry]
  <2>1. OpEntry \in Entries /\ Len(c.journal) = used + 1
    BY <1>1, <1>4, OpEntryType DEF IndInv, JournalFits
  <2>2. j \in Seq(Entries) /\ Len(j) = used + 1
    BY <1>1, <2>1, ExceptSeq
  <2>3. catalog' = [catalog EXCEPT ![active] = [catalog[active] EXCEPT !.journal = j]]
    BY <1>4
  <2>4. Len(j) <= JournalCap
    BY <1>1, <2>2
  <2> HIDE DEF j, c
  <2> QED
    BY <1>1, <1>4, <2>2, <2>3, <2>4, EntryFailStep
<1> QED
  BY <1>2, <1>3, <1>4 DEF EntryFailed

\* Decay takes committed content away; the power is off.
LEMMA DecayStep ==
    ASSUME IndInv, \/ \E b \in Blocks : DecayBlock(b)
                   \/ \E c \in Catalogs : DecayCatalog(c)
    PROVE  IndInv'
<1>1. pc = "off" /\ pc' = "off" /\ op' = op /\ op = Idle
  BY DEF DecayBlock, DecayCatalog, IndInv, CallMatches
<1>2. /\ index' = index /\ spare' = spare /\ lastLoad' = lastLoad /\ epoch' = epoch
      /\ used' = used /\ active' = active
  BY DEF DecayBlock, DecayCatalog
<1> DEFINE Decayed ==
              /\ block' \in [Blocks -> BlockValues] /\ catalog' \in [Catalogs -> CatalogValues]
              /\ \A b \in Blocks : block'[b] = block[b] \/ block'[b].st # "valid"
              /\ \A c \in Catalogs :
                    IsValid(catalog'[c]) => Len(catalog'[c].journal) <= JournalCap
           Update(c, x) ==
              /\ catalog' = [catalog EXCEPT ![c] = x] /\ block' = block
              /\ x.st = "valid" => Len(x.journal) <= JournalCap
<1>3. Decayed
  <2>1. ASSUME NEW b \in Blocks, DecayBlock(b) PROVE Decayed
    BY <2>1, FlashValues DEF DecayBlock, IndInv, TypeOK, JournalFits
  <2>2. ASSUME NEW c \in Catalogs, DecayCatalog(c), NEW x \in CatalogValues,
               Update(c, x)
        PROVE  Decayed
    BY <2>2 DEF IndInv, TypeOK, JournalFits
  <2>3. ASSUME NEW c \in Catalogs, DecayCatalog(c)
        PROVE  \E x \in CatalogValues : Update(c, x)
    <3>1. CASE SetCatalog(c, Dirty)
      BY <3>1, FlashValues
    <3>2. ASSUME NEW i \in DOMAIN catalog[c].journal,
                 SetCatalog(c, [catalog[c] EXCEPT !.journal[i] = Torn])
          PROVE  \E x \in CatalogValues : Update(c, x)
      <4> DEFINE j == [catalog[c].journal EXCEPT ![i] = Torn]
                 d == [catalog[c] EXCEPT !.journal = j]
      <4>1. /\ catalog[c] \in CatalogValues /\ catalog[c].st = "valid"
            /\ Len(catalog[c].journal) <= JournalCap
        BY <2>3 DEF DecayCatalog, IndInv, TypeOK, JournalFits
      <4>2. catalog[c].journal \in Seq(Entries)
        BY <4>1, JournalType
      <4>3. j \in Seq(Entries) /\ Len(j) = Len(catalog[c].journal)
        BY <3>2, <4>2, ExceptSeq, Torn \in Entries DEF Entries
      <4>4. d \in CatalogValues /\ d.journal = j
        BY <4>1, <4>3, JournalUpdateType
      <4>5. block' = block /\ catalog' = [catalog EXCEPT ![c] = d]
        BY <3>2
      <4> HIDE DEF d, j
      <4> QED
        BY <4>1, <4>3, <4>4, <4>5
    <3> QED
      BY <2>3, <3>1, <3>2 DEF DecayCatalog
  <2> QED
    BY <2>1, <2>2, <2>3
<1>4. TypeOK'
  BY <1>1, <1>2, <1>3 DEF IndInv, TypeOK
<1>5. CallMatches' /\ IndexComplete' /\ SaveProgress' /\ RecoveryProgress'
  BY <1>1 DEF CallMatches, IndexComplete, SaveProgress, RecoveryProgress
<1>6. JournalFits'
  BY <1>1, <1>3 DEF JournalFits
<1>7. OneExtraCopy'
  BY <1>3, CopiesLost DEF IndInv
<1> QED
  BY <1>4, <1>5, <1>6, <1>7 DEF IndInv
-----------------------------------------------------------------------------
(* Between the faults RAM stands for the flash.                            *)

\* c replays to what RAM holds.
AsRead(c) ==
    ReplayedIndex(c) = index /\ ReplayedSelection(c) = lastLoad /\ c.epoch = epoch

\* The active catalog is c but for the entry of a failed call, which went down behind the
\* last one: a selection, or a pointer to the block that the next save erases.
Stray(c) ==
    /\ c.st = "valid" /\ AsRead(c) /\ TornBehind(c.journal, used)
    /\ \E e \in Entries :
          /\ e # Torn /\ (e.kind = "pointer" => e.block = spare)
          /\ catalog[active] = [c EXCEPT !.journal = [c.journal EXCEPT ![used + 1] = e]]

\* RAM is what the active catalog replays to; behind its last entry there may be one
\* that a call is in the middle of or has left torn, or the stray one of a failed call.
CatalogReads ==
    InService =>
        /\ \/ /\ AsRead(catalog[active])
              /\ ReplayedUsed(catalog[active]) = used \/ TornBehind(catalog[active].journal, used)
           \/ pc \notin {"entryCommit", "oldErase"} /\ \E c \in CatalogValues : Stray(c)
        /\ pc = "entryCommit" => TornBehind(catalog[active].journal, used)

\* A failed compaction may have left the new catalog committed; the old one is full.
Superseded ==
    /\ used = JournalCap
    /\ catalog[Other(active)] = Snapshot(Successor(epoch), index, lastLoad, <<>>)

\* The next open() would select the active catalog, or the one that supersedes it.  A
\* recovery has yet to retire the catalog it did not trust, whose epoch may be the newer.
CatalogFound == InService /\ op.call # "open" => Selected = active \/ Superseded

ServiceInv == CatalogReads /\ CatalogFound

\* Calls compact a full journal only.
Compacting ==
    pc \in {"catErase", "catProgram", "catCommit"} /\ op.call # "open" => used = JournalCap

\* A stray entry costs at most the block that the next save erases.
LEMMA StrayReads ==
    ASSUME IndInv, InService, NEW c \in CatalogValues, Stray(c)
    PROVE  /\ catalog[active].epoch = epoch /\ used \in Nat /\ used < JournalCap
           /\ Len(catalog[active].journal) = used + 1
           /\ catalog[active].journal[used + 1] # Torn
           /\ \A s \in Slots : ReplayedIndex(catalog[active])[s] \in {index[s], spare}
<1>1. PICK e \in Entries :
        /\ e # Torn /\ (e.kind = "pointer" => e.block = spare)
        /\ catalog[active] = [c EXCEPT !.journal = [c.journal EXCEPT ![used + 1] = e]]
  BY DEF Stray
<1> DEFINE d == catalog[active]
           n == used
<1>2. /\ c.st = "valid" /\ n \in Nat /\ Len(c.journal) = n + 1 /\ c.journal \in Seq(Entries)
      /\ c.journal[n + 1] = Torn /\ \A i \in 1 .. n : c.journal[i] # Torn
  BY ValidCatalog DEF Stray, TornBehind, IndInv, TypeOK
<1>3. /\ d.journal = [c.journal EXCEPT ![n + 1] = e] /\ d.table = c.table /\ d.sel = c.sel
      /\ d.epoch = c.epoch
  BY <1>1, <1>2, ValidCatalog
<1>4. Len(d.journal) = n + 1 /\ d.journal[n + 1] = e
  BY <1>2, <1>3, ExceptSeq
<1>5. n < JournalCap
  BY <1>2, <1>4, ActiveValid DEF IndInv, JournalFits
<1>6. c.epoch = epoch /\ ReplayedIndex(c) = index
  BY DEF Stray, AsRead
<1>7. ReplayedIndex(d) = IF e.kind = "pointer"
                         THEN [ReplayedIndex(c) EXCEPT ![e.slot] = e.block]
                         ELSE ReplayedIndex(c)
  <2>1. /\ c \in CatalogValues /\ c.st = "valid" /\ n \in Nat /\ Len(c.journal) = n + 1
        /\ c.journal[n + 1] = Torn /\ \A i \in 1 .. n : c.journal[i] # Torn
        /\ e \in Entries /\ e # Torn
        /\ d.journal = [c.journal EXCEPT ![n + 1] = e]
        /\ d.table = c.table /\ d.sel = c.sel
    BY <1>1, <1>2, <1>3
  <2> HIDE DEF d, n
  <2> QED
    BY ONLY <2>1, EntryReads, Z3
<1>8. \A s \in Slots : ReplayedIndex(d)[s] \in {index[s], spare}
  <2>1. index \in [Slots -> Blocks]
    BY ActiveValid
  <2> HIDE DEF d
  <2> QED
    BY <1>1, <1>6, <1>7, <2>1
<1> QED
  BY <1>1, <1>2, <1>3, <1>4, <1>5, <1>6, <1>8

LEMMA ActiveEpoch ==
    ASSUME IndInv, CatalogReads, InService
    PROVE  catalog[active].epoch = epoch
BY StrayReads DEF CatalogReads, AsRead

\* While there is room for an entry, the active catalog is the one that counts.
LEMMA RoomSelected ==
    ASSUME IndInv, CatalogFound, InService, op.call # "open", used < JournalCap
    PROVE  Selected = active
BY DEF CatalogFound, Superseded, IndInv, TypeOK

\* Steps that leave the active catalog and what RAM has read of it alone.
LEMMA ActiveReads ==
    ASSUME IndInv, CatalogReads, InService,
           index' = index, lastLoad' = lastLoad, epoch' = epoch, used' = used, active' = active,
           pc = "oldErase" \/ spare' = spare, pc' # "oldErase",
           catalog'[active] = catalog[active],
           pc' = "entryCommit" => TornBehind(catalog[active].journal, used)
    PROVE  CatalogReads'
<1>1. CASE AsRead(catalog[active]) /\ (\/ ReplayedUsed(catalog[active]) = used
                                       \/ TornBehind(catalog[active].journal, used))
  BY <1>1 DEF CatalogReads, AsRead, TornBehind
<1>2. CASE /\ pc \notin {"entryCommit", "oldErase"}
           /\ \E c \in CatalogValues : Stray(c)
  <2>1. PICK c \in CatalogValues : Stray(c)
    BY <1>2
  <2>2. Stray(c)'
    BY <1>2, <2>1 DEF Stray, AsRead, TornBehind
  <2>3. pc' # "entryCommit"
    BY <2>1, StrayReads DEF TornBehind
  <2> QED
    BY <2>2, <2>3 DEF CatalogReads
<1> QED
  BY <1>1, <1>2 DEF CatalogReads

LEMMA ActiveKept ==
    ASSUME IndInv, ServiceInv, InService,
           index' = index, lastLoad' = lastLoad, epoch' = epoch, used' = used, active' = active,
           pc = "oldErase" \/ spare' = spare, pc' # "oldErase",
           catalog'[active] = catalog[active],
           \/ catalog' = catalog /\ (op.call = "open" => op'.call = "open")
           \/ catalog'[Other(active)].st # "valid",
           pc' = "entryCommit" => TornBehind(catalog[active].journal, used)
    PROVE  ServiceInv'
<1>1. CatalogReads'
  BY ActiveReads DEF ServiceInv
<1>2. CatalogFound'
  <2>1. CASE catalog' = catalog /\ (op.call = "open" => op'.call = "open")
    <3>1. Selected' = Selected
      BY <2>1, SameSelected
    <3>2. Superseded => Superseded'
      BY <2>1 DEF Superseded
    <3> QED
      BY <2>1, <3>1, <3>2 DEF ServiceInv, CatalogFound
  <2>2. CASE catalog'[Other(active)].st # "valid"
    <3>1. Selected' = active
      BY <2>2, ActiveValid, OnlySelected
    <3> QED
      BY <3>1 DEF CatalogFound
  <2> QED
    BY <2>1, <2>2
<1> QED
  BY <1>1, <1>2 DEF ServiceInv

\* Steps that end outside service, or in a recovery.
LEMMA AsideKept ==
    ASSUME ~InService'
    PROVE  ServiceInv'
BY DEF ServiceInv, CatalogReads, CatalogFound

LEMMA OpenIndexedServes ==
    ASSUME IndInv, OpenIndexed
    PROVE  ServiceInv'
<1>1. /\ active' = Selected /\ index' = ReplayedIndex(catalog[Selected])
      /\ lastLoad' = ReplayedSelection(catalog[Selected])
      /\ used' = ReplayedUsed(catalog[Selected]) /\ epoch' = catalog[Selected].epoch
      /\ pc' \in {"ready", "wipeSpare"} /\ catalog' = catalog
  BY DEF OpenIndexed
<1>2. Selected' = Selected
  BY <1>1, SameSelected
<1> QED
  BY <1>1, <1>2 DEF ServiceInv, CatalogReads, CatalogFound, AsRead

\* Blocks written, the other catalog erased, programmed or retired, calls begun.
LEMMA WorkServes ==
    ASSUME IndInv, ServiceInv, InService,
           \/ WipeSpare \/ BlockErase \/ BlockProgram \/ BlockCommit
           \/ CatalogErase \/ CatalogProgram \/ CatalogRetire \/ OldErase
           \/ \E s \in Slots, p \in Patches : SaveBegin(s, p)
           \/ \E s \in Slots : SelectBegin(s)
    PROVE  ServiceInv'
<1>1. /\ index' = index /\ lastLoad' = lastLoad /\ epoch' = epoch /\ used' = used
      /\ active' = active /\ pc' \notin {"entryCommit", "oldErase"}
      /\ pc = "oldErase" \/ spare' = spare
  BY DEF WipeSpare, BlockErase, BlockProgram, BlockCommit, CatalogErase, CatalogProgram,
         CatalogRetire, OldErase, SaveBegin, SelectBegin
<1>2. active \in Catalogs /\ Other(active) \in Catalogs /\ Other(active) # active
  BY RamTypes, ActiveValid
<1>3. CASE CatalogErase \/ CatalogProgram \/ CatalogRetire
  <2>1. catalog'[active] = catalog[active] /\ catalog'[Other(active)].st # "valid"
    BY <1>2, <1>3 DEF CatalogErase, CatalogProgram, CatalogRetire, IndInv, TypeOK
  <2> QED
    BY <1>1, <2>1, ActiveKept
<1>4. CASE \/ WipeSpare \/ BlockErase \/ BlockProgram \/ BlockCommit \/ OldErase
           \/ \E s \in Slots, p \in Patches : SaveBegin(s, p)
           \/ \E s \in Slots : SelectBegin(s)
  <2>1. catalog' = catalog /\ op.call # "open"
    BY <1>4 DEF WipeSpare, BlockErase, BlockProgram, BlockCommit, OldErase, SaveBegin,
                SelectBegin, IndInv, CallMatches, InService
  <2> QED
    BY <1>1, <2>1, ActiveKept
<1> QED
  BY <1>3, <1>4

\* A new catalog is empty behind its snapshot, and newer than the one it replaces.
LEMMA CatalogCommitServes ==
    ASSUME IndInv, ServiceInv, CatalogCommit
    PROVE  ServiceInv'
<1>1. /\ index' = index /\ lastLoad' = lastLoad /\ epoch' = Successor(epoch)
      /\ used' = 0 /\ active' = Other(active) /\ op' = op
      /\ pc = "catCommit" /\ pc' = "catRetire"
      /\ catalog' = [catalog EXCEPT ![Other(active)] =
                        Snapshot(Successor(epoch), index, lastLoad, <<>>)]
  BY DEF CatalogCommit
<1>2. /\ active \in Catalogs /\ Other(active) \in Catalogs /\ Other(active) # active
      /\ index \in [Slots -> Blocks] /\ epoch \in U32
  BY <1>1, RamTypes DEF IndInv, TypeOK, IndexComplete
<1>3. /\ catalog'[Other(active)] = Snapshot(Successor(epoch), index, lastLoad, <<>>)
      /\ catalog'[active] = catalog[active]
  BY <1>1, <1>2 DEF IndInv, TypeOK
<1>4. /\ ReplayedIndex(catalog'[Other(active)]) = index
      /\ ReplayedSelection(catalog'[Other(active)]) = lastLoad
      /\ ReplayedUsed(catalog'[Other(active)]) = 0
      /\ catalog'[Other(active)].epoch = Successor(epoch)
      /\ catalog'[Other(active)].st = "valid"
  BY <1>2, <1>3, SnapshotReads
<1>5. CatalogReads'
  BY <1>1, <1>4 DEF CatalogReads, AsRead
<1>6. ASSUME op.call # "open" PROVE Selected' = Other(active)
  <2>1. InService
    BY <1>1, <1>6 DEF InService
  <2>2. catalog'[active].st = "valid" /\ catalog'[active].epoch = epoch
    BY <1>3, <2>1, ActiveValid, ActiveEpoch DEF ServiceInv
  <2>3. GenerationNewer(Successor(epoch), epoch) /\ ~GenerationNewer(epoch, Successor(epoch))
    BY <1>2, SuccessorNewer
  <2>4. \/ active = "A" /\ Other(active) = "B"
        \/ active = "B" /\ Other(active) = "A"
    BY <1>2 DEF Catalogs, Other
  <2> QED
    BY <1>4, <2>2, <2>3, <2>4 DEF Selected
<1>7. CatalogFound'
  BY <1>1, <1>6 DEF CatalogFound
<1> QED
  BY <1>5, <1>7 DEF ServiceInv

\* An entry that is programmed, whether its read-back passes or not, reads as torn.
LEMMA TornEntryServes ==
    ASSUME IndInv, ServiceInv, pc = "entryProgram", Len(catalog[active].journal) = used,
           catalog' = [catalog EXCEPT ![active] =
                          [catalog[active] EXCEPT
                              !.journal = Append(catalog[active].journal, Torn)]],
           index' = index, lastLoad' = lastLoad, epoch' = epoch, used' = used, active' = active
    PROVE  ServiceInv'
<1>1. InService /\ op.call # "open" /\ used < JournalCap /\ used \in Nat
  BY DEF InService, IndInv, CallMatches, JournalFits, TypeOK
<1>2. /\ active \in Catalogs /\ catalog[active] \in CatalogValues
      /\ catalog[active].st = "valid" /\ catalog[active].journal \in Seq(Entries)
  BY <1>1, ActiveValid, ValidCatalog
<1>0. AsRead(catalog[active]) /\ ReplayedUsed(catalog[active]) = used /\ Selected = active
  BY <1>1, StrayReads, RoomSelected DEF ServiceInv, CatalogReads, TornBehind
<1>3. /\ ReplayedIndex(catalog'[active]) = ReplayedIndex(catalog[active])
      /\ ReplayedSelection(catalog'[active]) = ReplayedSelection(catalog[active])
      /\ catalog'[active].epoch = catalog[active].epoch /\ catalog'[active].st = "valid"
      /\ catalog'[active].journal = Append(catalog[active].journal, Torn)
  <2>1. catalog'[active] =
           [catalog[active] EXCEPT !.journal = Append(catalog[active].journal, Torn)]
    BY <1>2 DEF IndInv, TypeOK
  <2> QED
    BY <1>2, <2>1, TornReads
<1>4. TornBehind(catalog'[active].journal, used)
  <2>1. Decodable(catalog[active].journal) = DOMAIN catalog[active].journal
    BY <1>0, <1>1, <1>2 DEF ReplayedUsed
  <2>2. \A i \in 1 .. used : i \in Decodable(catalog[active].journal)
    BY <1>2, <2>1
  <2>3. \A i \in 1 .. used : i \in 1 .. i
    BY <1>1
  <2>4. \A i \in 1 .. used : catalog[active].journal[i] # Torn
    BY <2>2, <2>3 DEF Decodable
  <2> QED
    BY <1>2, <1>3, <2>4, TornAppended DEF TornBehind
<1>5. Selected' = active
  <2>1. \A c \in Catalogs : c # active => catalog'[c] = catalog[c]
    BY DEF IndInv, TypeOK
  <2>2. Selected' = Selected
    BY <1>2, <1>3, <2>1, SameSelected
  <2> QED
    BY <1>0, <2>2
<1>6. CatalogReads'
  BY <1>0, <1>1, <1>3, <1>4 DEF CatalogReads, AsRead
<1> QED
  BY <1>5, <1>6 DEF ServiceInv, CatalogFound

\* A committed entry is what a call asked for, in RAM as in the flash.
LEMMA EntryCommitServes ==
    ASSUME IndInv, ServiceInv, EntryCommit
    PROVE  ServiceInv'
<1>1. /\ epoch' = epoch /\ used' = used + 1 /\ active' = active
      /\ pc = "entryCommit" /\ pc' \in {"oldErase", "ready"} /\ op.call \in {"save", "select"}
      /\ InService /\ used < JournalCap
  BY DEF EntryCommit, IndInv, CallMatches, InService, JournalFits
<1>2. /\ ReplayedIndex(catalog[active]) = index
      /\ ReplayedSelection(catalog[active]) = lastLoad
      /\ catalog[active].epoch = epoch /\ Selected = active
      /\ TornBehind(catalog[active].journal, used)
  BY <1>1, RoomSelected DEF ServiceInv, CatalogReads, AsRead
<1>3. IF op.call = "save" THEN index' = [index EXCEPT ![op.slot] = spare] /\ lastLoad' = lastLoad
      ELSE index' = index /\ lastLoad' = op.slot
  BY DEF EntryCommit
<1> QED
  BY <1>1, <1>2, <1>3, EntryLands DEF ServiceInv, CatalogReads, CatalogFound, AsRead

\* Where a failed call leaves the store: between calls, or without power.
LEMMA FailAside ==
    ASSUME IndInv, Fail, pc \notin {"off", "ready", "wipeSpare"}
    PROVE  /\ op.call = "open" => ~InService'
           /\ op.call # "open" => /\ InService /\ op' = Idle /\ pc' = "ready"
                                  /\ index' = index /\ spare' = spare /\ lastLoad' = lastLoad
                                  /\ epoch' = epoch /\ used' = used /\ active' = active
BY DEF Fail, InService, IndInv, CallMatches

LEMMA BlockFailedServes ==
    ASSUME IndInv, ServiceInv, BlockFailed
    PROVE  ServiceInv'
<1>1. Fail /\ catalog' = catalog /\ pc \notin {"off", "ready", "wipeSpare"}
  BY DEF BlockFailed
<1> QED
  BY <1>1, FailAside, AsideKept, ActiveKept

\* A new catalog that is committed, in a compaction that failed all the same, holds what
\* RAM does.
LEMMA CatalogFailedServes ==
    ASSUME IndInv, ServiceInv, Compacting, CatalogFailed
    PROVE  ServiceInv'
<1>1. Fail /\ pc \in {"catProgram", "catCommit"}
  BY DEF CatalogFailed
<1>2. CASE op.call = "open"
  BY <1>1, <1>2, FailAside, AsideKept
<1>3. CASE op.call # "open"
  <2>1. /\ InService /\ op' = Idle /\ pc' = "ready" /\ used = JournalCap
        /\ index' = index /\ spare' = spare /\ lastLoad' = lastLoad
        /\ epoch' = epoch /\ used' = used /\ active' = active
    BY <1>1, <1>3, FailAside DEF Compacting
  <2>2. active \in Catalogs /\ Other(active) \in Catalogs /\ Other(active) # active
    BY <2>1, RamTypes, ActiveValid
  <2>3. CASE catalog' = catalog \/ catalog' = [catalog EXCEPT ![Other(active)] = Dirty]
    <3>1. catalog' = catalog \/ catalog'[Other(active)].st # "valid"
      BY <2>2, <2>3 DEF IndInv, TypeOK
    <3>2. catalog'[active] = catalog[active]
      BY <2>2, <2>3 DEF IndInv, TypeOK
    <3> QED
      BY <1>3, <2>1, <3>1, <3>2, ActiveKept
  <2>4. CASE catalog' = [catalog EXCEPT ![Other(active)] =
                            Snapshot(Successor(epoch), index, lastLoad, <<>>)]
    <3>1. /\ catalog'[active] = catalog[active]
          /\ catalog'[Other(active)] = Snapshot(Successor(epoch), index, lastLoad, <<>>)
      BY <2>2, <2>4 DEF IndInv, TypeOK
    <3>2. CatalogReads'
      BY <2>1, <3>1, ActiveReads DEF ServiceInv
    <3>3. Superseded'
      BY <2>1, <3>1 DEF Superseded
    <3> QED
      BY <3>2, <3>3 DEF ServiceInv, CatalogFound
  <2> QED
    BY <2>3, <2>4 DEF CatalogFailed
<1> QED
  BY <1>2, <1>3

\* An entry that is down although its call fails is a stray one.
LEMMA StrayLeft ==
    ASSUME IndInv, ServiceInv, Fail, pc = "entryCommit",
           catalog' = [catalog EXCEPT ![active] =
                         [catalog[active] EXCEPT
                            !.journal = [catalog[active].journal EXCEPT ![used + 1] = OpEntry]]]
    PROVE  ServiceInv'
<1>1. /\ InService /\ op' = Idle /\ pc' = "ready" /\ used < JournalCap
      /\ op.call \in {"save", "select"} /\ ~Booting
      /\ index' = index /\ spare' = spare /\ lastLoad' = lastLoad
      /\ epoch' = epoch /\ used' = used /\ active' = active
  BY FailAside DEF IndInv, CallMatches, JournalFits
<1>2. active \in Catalogs /\ catalog[active] \in CatalogValues /\ catalog[active].st = "valid"
  BY <1>1, ActiveValid
<1>3. AsRead(catalog[active]) /\ TornBehind(catalog[active].journal, used) /\ Selected = active
  BY <1>1, RoomSelected DEF ServiceInv, CatalogReads
<1>4. PICK c \in CatalogValues : c = catalog[active]
  BY <1>2
<1>5. PICK e \in Entries : e = OpEntry /\ e # Torn /\ (e.kind = "pointer" => e.block = spare)
  BY <1>1, OpEntryType
<1>6. PICK n \in Nat : n = used
  BY DEF IndInv, TypeOK
<1>7. catalog'[active] = [c EXCEPT !.journal = [c.journal EXCEPT ![n + 1] = e]]
  BY <1>2, <1>4, <1>5, <1>6 DEF IndInv, TypeOK
<1>8. Stray(c)'
  BY <1>1, <1>2, <1>3, <1>4, <1>5, <1>6, <1>7 DEF Stray, AsRead, TornBehind
<1>9. Selected' = active
  <2>1. \A x \in Catalogs : x # active => catalog'[x] = catalog[x]
    BY DEF IndInv, TypeOK
  <2>2. catalog'[active].st = "valid" /\ catalog'[active].epoch = catalog[active].epoch
    <3> DEFINE j == [c.journal EXCEPT ![n + 1] = e]
    <3>1. catalog'[active] = [c EXCEPT !.journal = j]
      BY <1>7
    <3> HIDE DEF j
    <3> QED
      BY <1>2, <1>4, <3>1, ValidCatalog
  <2> QED
    BY <1>2, <1>3, <2>1, <2>2, SameSelected
<1> QED
  BY <1>1, <1>8, <1>9 DEF ServiceInv, CatalogReads, CatalogFound

LEMMA EntryFailedServes ==
    ASSUME IndInv, ServiceInv, EntryFailed
    PROVE  ServiceInv'
<1>1. Fail /\ pc \in {"entryProgram", "entryCommit"} /\ op.call # "open"
  BY DEF EntryFailed, IndInv, CallMatches
<1>2. /\ InService /\ op' = Idle /\ pc' = "ready"
      /\ index' = index /\ spare' = spare /\ lastLoad' = lastLoad
      /\ epoch' = epoch /\ used' = used /\ active' = active
  BY <1>1, FailAside
<1>3. CASE catalog' = catalog
  BY <1>1, <1>2, <1>3, ActiveKept
<1>4. CASE catalog' # catalog
  BY <1>1, <1>2, <1>4, TornEntryServes, StrayLeft DEF EntryFailed
<1> QED
  BY <1>3, <1>4

\* What is in the way of an entry: a torn one, or a stray one.
LEMMA InTheWay ==
    ASSUME IndInv, ServiceInv, EntryBlocked
    PROVE  \/ AsRead(catalog[active]) /\ TornBehind(catalog[active].journal, used)
           \/ \E c \in CatalogValues : Stray(c)
<1>1. /\ pc = "entryProgram" /\ Len(catalog[active].journal) > used
      /\ used < JournalCap /\ used \in Nat /\ InService
  BY DEF EntryBlocked, IndInv, JournalFits, TypeOK, InService, CallMatches
<1>2. catalog[active].journal \in Seq(Entries)
  BY <1>1, ActiveValid, ValidCatalog
<1>3. ReplayedUsed(catalog[active]) # used
  BY <1>1, <1>2 DEF ReplayedUsed
<1> QED
  BY <1>1, <1>3 DEF ServiceInv, CatalogReads

\* Spoiling what is in the way leaves a torn entry behind those that RAM has read.
LEMMA SpoiledServes ==
    ASSUME IndInv, ServiceInv, EntryBlocked, Fail,
           catalog' = [catalog EXCEPT ![active] =
                         [catalog[active] EXCEPT
                            !.journal = [catalog[active].journal EXCEPT ![used + 1] = Torn]]]
    PROVE  ServiceInv'
<1>1. /\ InService /\ op' = Idle /\ pc' = "ready" /\ used < JournalCap /\ used \in Nat
      /\ op.call # "open"
      /\ index' = index /\ spare' = spare /\ lastLoad' = lastLoad
      /\ epoch' = epoch /\ used' = used /\ active' = active
  BY FailAside DEF EntryBlocked, IndInv, JournalFits, TypeOK, CallMatches
<1>2. active \in Catalogs /\ catalog[active] \in CatalogValues /\ catalog[active].st = "valid"
  BY <1>1, ActiveValid
<1>3. PICK c \in CatalogValues :
        /\ c.st = "valid" /\ AsRead(c) /\ TornBehind(c.journal, used)
        /\ [catalog[active] EXCEPT
              !.journal = [catalog[active].journal EXCEPT ![used + 1] = Torn]] = c
  <2> DEFINE n == used
             d == catalog[active]
  <2>1. CASE AsRead(d) /\ TornBehind(d.journal, n)
    <3>1. d.journal \in Seq(Entries) /\ d.journal[n + 1] = Torn /\ DOMAIN d.journal = 1 .. n + 1
      BY <1>2, <2>1, ValidCatalog DEF TornBehind
    <3>2. [d.journal EXCEPT ![n + 1] = Torn] = d.journal
      BY <3>1
    <3>3. [d EXCEPT !.journal = d.journal] = d
      BY <1>2, ValidCatalog
    <3> QED
      BY <1>2, <2>1, <3>2, <3>3
  <2>2. ASSUME NEW c \in CatalogValues, Stray(c)
        PROVE  [d EXCEPT !.journal = [d.journal EXCEPT ![n + 1] = Torn]] = c
    <3>1. PICK e \in Entries : d = [c EXCEPT !.journal = [c.journal EXCEPT ![n + 1] = e]]
      BY <2>2 DEF Stray
    <3>2. /\ c.journal \in Seq(Entries) /\ c.journal[n + 1] = Torn /\ c.st = "valid"
          /\ DOMAIN c.journal = 1 .. n + 1
      BY <2>2, ValidCatalog DEF Stray, TornBehind
    <3>3. d.journal = [c.journal EXCEPT ![n + 1] = e]
      BY <3>1, <3>2, ValidCatalog
    <3>4. [d.journal EXCEPT ![n + 1] = Torn] = c.journal
      BY <3>2, <3>3
    <3>5. [[c EXCEPT !.journal = [c.journal EXCEPT ![n + 1] = e]] EXCEPT !.journal = c.journal] = c
      BY <3>2, ValidCatalog
    <3> QED
      BY <3>1, <3>4, <3>5
  <2> HIDE DEF n, d
  <2>3. CASE \E c \in CatalogValues : Stray(c)
    BY <2>2, <2>3 DEF Stray, n, d
  <2> QED
    BY <2>1, <2>3, InTheWay DEF n, d
<1>4. catalog'[active] = c /\ \A x \in Catalogs : x # active => catalog'[x] = catalog[x]
  BY <1>2, <1>3 DEF IndInv, TypeOK
<1>5. CatalogReads'
  BY <1>1, <1>3, <1>4 DEF CatalogReads, AsRead, TornBehind
<1>6. Selected' = active
  <2>1. catalog[active].epoch = epoch /\ Selected = active
    BY <1>1, ActiveEpoch, RoomSelected DEF ServiceInv
  <2>2. catalog'[active].st = "valid" /\ catalog'[active].epoch = epoch
    BY <1>3, <1>4 DEF AsRead
  <2> QED
    BY <1>2, <1>4, <2>1, <2>2, SameSelected
<1> QED
  BY <1>1, <1>5, <1>6 DEF ServiceInv, CatalogFound

\* A call that finds an entry in its way fails, or goes on over a torn one.
LEMMA EntryBlockedStep ==
    ASSUME IndInv, ServiceInv, EntryBlocked
    PROVE  IndInv' /\ ServiceInv'
<1>1. /\ pc = "entryProgram" /\ Len(catalog[active].journal) > used
      /\ block' = block /\ used < JournalCap /\ used \in Nat
      /\ InService /\ op.call \in {"save", "select"}
  BY DEF EntryBlocked, IndInv, JournalFits, TypeOK, InService, CallMatches
<1>2. /\ active \in Catalogs /\ catalog[active] \in CatalogValues
      /\ catalog[active].st = "valid" /\ catalog[active].journal \in Seq(Entries)
      /\ Len(catalog[active].journal) <= JournalCap
  BY <1>1, ActiveValid, ValidCatalog DEF IndInv, JournalFits
<1>3. CASE Fail /\ catalog' = catalog
  <2>1. IndInv'
    BY <1>1, <1>2, <1>3, EntryFailStep
  <2>2. ServiceInv'
    BY <1>1, <1>3, FailAside, ActiveKept
  <2> QED
    BY <2>1, <2>2
<1>4. CASE /\ Fail
           /\ SetCatalog(active, [catalog[active] EXCEPT !.journal[used + 1] = Torn])
  <2> DEFINE j == [catalog[active].journal EXCEPT ![used + 1] = Torn]
  <2>1. catalog' = [catalog EXCEPT ![active] = [catalog[active] EXCEPT !.journal = j]]
    BY <1>4
  <2>2. j \in Seq(Entries) /\ Len(j) <= JournalCap
    BY <1>1, <1>2, ExceptSeq, Torn \in Entries DEF Entries
  <2>3. ServiceInv'
    BY <1>4, <2>1, SpoiledServes
  <2> HIDE DEF j
  <2>4. IndInv'
    BY <1>1, <1>4, <2>1, <2>2, EntryFailStep
  <2> QED
    BY <2>3, <2>4
<1>5. CASE /\ catalog[active].journal[used + 1] = Torn
           /\ pc' = "entryCommit" /\ UNCHANGED <<flash, ram, op>>
  <2>1. /\ index' = index /\ spare' = spare /\ lastLoad' = lastLoad /\ epoch' = epoch
        /\ used' = used /\ active' = active /\ op' = op /\ catalog' = catalog
    BY <1>5
  <2>2. TornBehind(catalog[active].journal, used)
    BY <1>1, <1>5, InTheWay, StrayReads
  <2>3. TypeOK'
    BY <1>1, <1>5, <2>1 DEF IndInv, TypeOK, Phases
  <2>4. CallMatches' /\ JournalFits'
    BY <1>1, <1>2, <1>5, <2>1, <2>2
       DEF IndInv, CallMatches, JournalFits, TornBehind
  <2>5. IndexComplete' /\ SaveProgress' /\ RecoveryProgress' /\ OneExtraCopy'
    BY <1>1, <1>5, <2>1 DEF IndInv, IndexComplete, SaveProgress, RecoveryProgress, OneExtraCopy,
                            Validates, Unreferenced, FreeBlock
  <2>6. ServiceInv'
    BY <1>1, <1>5, <2>1, <2>2, ActiveKept
  <2> QED
    BY <2>3, <2>4, <2>5, <2>6 DEF IndInv
<1> QED
  BY <1>3, <1>4, <1>5 DEF EntryBlocked

LEMMA CompactingStep ==
    ASSUME EraseErrors = FALSE, IndInv, Compacting, [NextFaults]_vars
    PROVE  Compacting'
<1>1. CASE Step
  BY <1>1 DEF Step, Compacting, IndInv, CallMatches, TypeOK, OpenIndexed, OpenRecover, FillErase,
              FillProgram, FillCommit, FillDone, WipeSpare, BlockErase, BlockProgram,
              BlockCommit, CatalogErase, CatalogProgram, CatalogCommit, CatalogRetire,
              EntryProgram, EntryCommit, OldErase
<1>2. CASE \/ \E s \in Slots, p \in Patches : SaveBegin(s, p)
           \/ \E s \in Slots : SelectBegin(s)
  BY <1>2 DEF SaveBegin, SelectBegin, Compacting, IndInv, TypeOK
<1>3. CASE \/ Crash \/ CrashErasingBlock \/ CrashErasingCatalog
           \/ \E b \in Blocks : DecayBlock(b)
           \/ \E c \in Catalogs : DecayCatalog(c)
  BY <1>3 DEF Crash, CrashErasingBlock, CrashErasingCatalog, DecayBlock, DecayCatalog, Compacting
<1>4. CASE BlockFailed \/ CatalogFailed \/ EntryFailed \/ EraseFailed \/ EntryBlocked
  BY <1>4 DEF BlockFailed, CatalogFailed, EntryFailed, EraseFailed, EntryBlocked, Fail, Compacting
<1>5. CASE UNCHANGED vars
  BY <1>5 DEF vars, Compacting
<1> QED
  BY <1>1, <1>2, <1>3, <1>4, <1>5 DEF NextFaults, Next, Fault

LEMMA FaultsStep ==
    ASSUME EraseErrors = FALSE, IndInv, ServiceInv, Compacting, [NextFaults]_vars
    PROVE  IndInv' /\ ServiceInv'
<1>1. CASE Step
  <2>1. IndInv'
    BY <1>1, IndInvStep DEF Next
  <2>2. CASE OpenIndexed
    BY <2>1, <2>2, OpenIndexedServes
  <2>3. CASE \/ OpenRecover \/ FillErase \/ FillProgram \/ FillCommit \/ FillDone
             \/ ~InService /\ (WipeSpare \/ CatalogErase \/ CatalogProgram)
    <3>1. ~InService'
      BY <2>3 DEF OpenRecover, FillErase, FillProgram, FillCommit, FillDone, WipeSpare,
                  CatalogErase, CatalogProgram, InService, IndInv, CallMatches
    <3> QED
      BY <2>1, <3>1, AsideKept
  <2>4. CASE \/ BlockErase \/ BlockProgram \/ BlockCommit \/ CatalogRetire \/ OldErase
             \/ InService /\ (WipeSpare \/ CatalogErase \/ CatalogProgram)
    <3>1. InService
      BY <2>4 DEF BlockErase, BlockProgram, BlockCommit, CatalogRetire, OldErase, InService,
                  IndInv, CallMatches
    <3>2. ServiceInv'
      BY <2>4, <3>1, WorkServes
    <3> QED
      BY <2>1, <3>2
  <2>5. CASE EntryProgram
    BY <2>1, <2>5, TornEntryServes DEF EntryProgram
  <2> QED
    BY <1>1, <2>1, <2>2, <2>3, <2>4, <2>5, CatalogCommitServes, EntryCommitServes DEF Step
<1>2. ASSUME NEW s \in Slots, NEW p \in Patches, SaveBegin(s, p)
      PROVE  IndInv' /\ ServiceInv'
  <2>1. InService
    BY <1>2 DEF SaveBegin, InService, IndInv, CallMatches
  <2>2. ServiceInv'
    BY <1>2, <2>1, WorkServes
  <2> QED
    BY <1>2, <2>2, SaveBeginStep
<1>3. ASSUME NEW s \in Slots, SelectBegin(s) PROVE IndInv' /\ ServiceInv'
  <2>1. InService
    BY <1>3 DEF SelectBegin, InService, IndInv, CallMatches
  <2>2. ServiceInv'
    BY <1>3, <2>1, WorkServes
  <2> QED
    BY <1>3, <2>2, SelectBeginStep
<1>4. CASE Crash \/ CrashErasingBlock \/ CrashErasingCatalog
  <2>1. ~InService'
    BY <1>4 DEF Crash, CrashErasingBlock, CrashErasingCatalog, InService
  <2>2. ServiceInv'
    BY <2>1, AsideKept
  <2> QED
    BY <1>4, <2>2, IndInvStep DEF Next
<1>5. CASE \/ \E b \in Blocks : DecayBlock(b)
           \/ \E c \in Catalogs : DecayCatalog(c)
  <2>1. ~InService'
    BY <1>5 DEF DecayBlock, DecayCatalog, InService
  <2>2. ServiceInv'
    BY <2>1, AsideKept
  <2> QED
    BY <1>5, <2>2, DecayStep
<1>6. CASE BlockFailed \/ CatalogFailed \/ EntryFailed
  BY <1>6, BlockFailedStep, CatalogFailedStep, EntryFailedStep, BlockFailedServes,
     CatalogFailedServes, EntryFailedServes
<1>7. CASE EntryBlocked
  BY <1>7, EntryBlockedStep
<1>8. ~EraseFailed
  BY DEF EraseFailed
<1>9. CASE UNCHANGED vars
  <2>1. IndInv'
    BY <1>9, IndInvStep
  <2>2. ServiceInv'
    BY <1>9 DEF vars, ServiceInv, CatalogReads, CatalogFound, InService, Selected, AsRead,
                Stray, Superseded
  <2> QED
    BY <2>1, <2>2
<1> QED
  BY <1>1, <1>2, <1>3, <1>4, <1>5, <1>6, <1>7, <1>8, <1>9 DEF NextFaults, Next, Fault

\* Through decay and errors the invariant stands, as long as erases report none.
LEMMA FaultsInvariance ==
    ASSUME EraseErrors = FALSE
    PROVE  SpecFaults => [](IndInv /\ ServiceInv /\ Compacting)
<1>1. Init => IndInv /\ ServiceInv /\ Compacting
  <2>1. ASSUME Init PROVE ~InService
    BY <2>1 DEF Init, InService
  <2> QED
    BY <2>1, InitIndInv DEF ServiceInv, CatalogReads, CatalogFound, Compacting, Init
<1>2. IndInv /\ ServiceInv /\ Compacting /\ [NextFaults]_vars
          => (IndInv /\ ServiceInv /\ Compacting)'
  BY FaultsStep, CompactingStep
<1> QED
  BY <1>1, <1>2, PTL DEF SpecFaults

\* Decay and failed calls cost no program that is in service: whatever a call left
\* undone, every slot has a committed block of its own and the spare is not among them.
THEOREM LiveBlocksSurviveFaults ==
    ASSUME EraseErrors = FALSE
    PROVE  SpecFaults => []LiveBlocksIntact
<1>1. IndInv => LiveBlocksIntact
  BY DEF IndInv, IndexComplete, FreeBlock, LiveBlocksIntact
<1> QED
  BY <1>1, FaultsInvariance, PTL

\* A call that failed, at whichever flash mutation and with its last bytes down or not,
\* leaves the table and the selection in RAM as a reboot would find them; only an entry
\* that was committed all the same parts them, and then by the block the save wrote.
THEOREM RamAndFlashAlwaysAgree ==
    ASSUME EraseErrors = FALSE
    PROVE  SpecFaults => []RamAndFlashAgree
<1>1. IndInv /\ ServiceInv => RamAndFlashAgree
  <2> DEFINE Same == Openable /\ BootIndex = index /\ BootSelection = lastLoad
             Near == \A s \in Slots : BootIndex[s] \in {index[s], spare}
  <2> SUFFICES ASSUME IndInv, ServiceInv, pc = "ready"
               PROVE  Near /\ (~Leftover => Same)
    BY DEF RamAndFlashAgree
  <2>1. /\ InService /\ op.call # "open" /\ active \in Catalogs /\ Other(active) \in Catalogs
        /\ catalog[active].st = "valid" /\ index \in [Slots -> Blocks] /\ Validates(index)
    BY ActiveValid, RamTypes DEF InService, IndInv, CallMatches
  <2>2. Same => Near
    OBVIOUS
  <2>3. ASSUME NEW c \in Catalogs, c = Selected, catalog[c].st = "valid",
               ReplayedIndex(catalog[c]) = index, ReplayedSelection(catalog[c]) = lastLoad
        PROVE  Same
    BY <2>1, <2>3 DEF Openable, BootIndex, BootSelection
  <2>4. CASE Selected # active
    <3>1. Superseded /\ Selected = Other(active)
      BY <2>1, <2>4 DEF ServiceInv, CatalogFound, Selected, Catalogs, Other
    <3> DEFINE c == catalog[Other(active)]
    <3>2. /\ ReplayedIndex(c) = index /\ ReplayedSelection(c) = lastLoad /\ c.st = "valid"
      BY <2>1, <3>1, SnapshotReads DEF Superseded
    <3> QED
      BY <2>1, <2>2, <2>3, <3>1, <3>2
  <2>5. CASE Selected = active /\ AsRead(catalog[active])
    BY <2>1, <2>2, <2>3, <2>5 DEF AsRead
  <2>6. ASSUME Selected = active, NEW c \in CatalogValues, Stray(c)
        PROVE  Near /\ Leftover
    <3>1. Leftover /\ \A s \in Slots : ReplayedIndex(catalog[active])[s] \in {index[s], spare}
      BY <2>1, <2>6, StrayReads DEF Leftover
    <3>2. CASE Openable
      BY <2>6, <3>1, <3>2 DEF BootIndex
    <3>3. ASSUME ~Openable, NEW s \in Slots PROVE BootIndex[s] \in {index[s], spare}
      <4>1. BootIndex[s] = NewestCopy(s)
        BY <3>3 DEF BootIndex, ScannedIndex
      <4>2. index[s] \in Copies(s)
        BY <2>1 DEF Validates, Copies
      <4>3. Copies(s) \subseteq {index[s], spare}
        <5>1. Unreferenced(index) = {spare}
          BY <2>1 DEF IndInv, IndexComplete, FreeBlock
        <5> QED
          BY <2>1, <5>1 DEF Unreferenced, Validates, Copies
      <4>4. NewestCopy(s) \in Copies(s)
        BY <4>2, NewestCopyExists DEF IndInv
      <4> QED
        BY <4>1, <4>3, <4>4
    <3> QED
      BY <3>1, <3>2, <3>3
  <2> HIDE DEF Same, Near
  <2> QED
    BY <2>1, <2>2, <2>4, <2>5, <2>6 DEF ServiceInv, CatalogReads
<1> QED
  BY <1>1, FaultsInvariance, PTL
-----------------------------------------------------------------------------
(* What a fault may cost.                                                  *)

\* A boot takes for a slot one of its committed copies, and defaults if there is none.
TakesCopy ==
    \A s \in Slots :
        /\ Copies(s) # {} => /\ BootIndex[s] \in Copies(s) /\ BootIndex[s] # NoBlock
                             /\ BootPatches[s] = block[BootIndex[s]].patch
        /\ Copies(s) = {} => BootPatches[s] = DefaultPatch

LEMMA BootTakesCopy == IndInv => TakesCopy
<1> SUFFICES ASSUME IndInv, NEW s \in Slots
             PROVE  /\ Copies(s) # {} => /\ BootIndex[s] \in Copies(s) /\ BootIndex[s] # NoBlock
                                         /\ BootPatches[s] = block[BootIndex[s]].patch
                    /\ Copies(s) = {} => BootPatches[s] = DefaultPatch
  BY DEF TakesCopy
<1> DEFINE ix == ReplayedIndex(catalog[Selected])
<1>1. ASSUME Openable PROVE BootIndex[s] \in Copies(s)
  <2>1. Selected \in Catalogs /\ catalog[Selected] \in CatalogValues /\ IsValid(catalog[Selected])
    BY <1>1, SelectedIsValid DEF IndInv, TypeOK
  <2>2. Len(catalog[Selected].journal) <= JournalCap
    BY <2>1 DEF IndInv, JournalFits
  <2>3. ix \in [Slots -> Blocks]
    BY <2>1, <2>2, ReplayTypes
  <2>4. Validates(ix)
    BY <1>1 DEF Openable
  <2> HIDE DEF ix
  <2>5. ix[s] \in Copies(s)
    BY <2>3, <2>4 DEF Copies, Validates
  <2>6. BootIndex = ix
    BY <1>1 DEF BootIndex, ix
  <2> QED
    BY <2>5, <2>6
<1>2. ASSUME ~Openable
      PROVE  /\ Copies(s) # {} => BootIndex[s] \in Copies(s)
             /\ Copies(s) = {} => BootIndex[s] = NoBlock
  <2>1. BootIndex[s] = NewestCopy(s)
    BY <1>2 DEF BootIndex, ScannedIndex
  <2>2. Copies(s) # {} => NewestCopy(s) \in Copies(s)
    BY NewestCopyExists DEF IndInv
  <2> QED
    BY <2>1, <2>2 DEF NewestCopy
<1>3. NoBlock \notin Copies(s)
  BY DEF Copies, Blocks, NoBlock
<1>4. BootPatches[s] = IF BootIndex[s] = NoBlock THEN DefaultPatch ELSE block[BootIndex[s]].patch
  BY DEF BootPatches
<1> QED
  BY <1>1, <1>2, <1>3, <1>4

\* No step but the commits of a save and of a recovery makes a committed copy, and a
\* recovery makes one of a slot that has none.
MakesCopy(s) ==
    \A b \in Copies(s)' :
        \/ b \in Copies(s) /\ block'[b] = block[b]
        \/ op.call = "save" /\ op.slot = s /\ block'[b].patch = op.patch
        \/ Copies(s) = {} /\ block'[b].patch = DefaultPatch
\* No step takes the last copy of a slot away, unless by spoiling it.
LosesCopy(s) ==
    Copies(s) = {} \/ Copies(s)' # {} \/ \A b \in Copies(s) : block'[b] = Dirty

\* Blocks that are kept, spoiled, or erased when their slot has another copy.
LEMMA CopiesKept ==
    ASSUME NEW s \in Slots,
           \A b \in Blocks : \/ block'[b] = block[b] \/ block'[b] = Dirty
                             \/ block'[b].st # "valid" /\ \E d \in Copies(s) : block'[d] = block[d]
                             \/ block'[b].st # "valid" /\ b \notin Copies(s)
    PROVE  MakesCopy(s) /\ LosesCopy(s)
BY DEF MakesCopy, LosesCopy, Copies

\* The block that a call in service writes or erases holds no slot's only copy.
LEMMA LiveCopy ==
    ASSUME IndInv, ~Booting, NEW s \in Slots
    PROVE  index[s] \in Copies(s) /\ index[s] # FreeBlock
BY DEF IndInv, IndexComplete, Validates, Unreferenced, Copies

LEMMA EraseCopies ==
    ASSUME IndInv, FillErase \/ WipeSpare \/ BlockErase \/ OldErase, NEW s \in Slots
    PROVE  MakesCopy(s) /\ LosesCopy(s)
<1>1. CASE WipeSpare \/ BlockErase \/ OldErase
  <2>1. block' = [block EXCEPT ![FreeBlock] = Erased] /\ ~Booting
    BY <1>1 DEF WipeSpare, BlockErase, OldErase, FreeBlock
  <2>2. \A b \in Blocks : block'[b] = IF b = FreeBlock THEN Erased ELSE block[b]
    BY <2>1 DEF IndInv, TypeOK
  <2>3. index[s] \in Copies(s) /\ index[s] # FreeBlock /\ index[s] \in Blocks
    BY <2>1, LiveCopy DEF Copies
  <2>4. block'[index[s]] = block[index[s]]
    BY <2>2, <2>3
  <2> QED
    BY <2>2, <2>3, <2>4, CopiesKept
<1>2. CASE FillErase
  <2> DEFINE x == Lowest(Unreferenced(index))
  <2>1. block' = [block EXCEPT ![x] = Erased] /\ pc = "fill"
    BY <1>2 DEF FillErase
  <2>2. x \in Unreferenced(index)
    BY LowestUnreferenced DEF IndInv, TypeOK
  <2> HIDE DEF x
  <2>3. \A b \in Blocks : block'[b] = IF b = x THEN Erased ELSE block[b]
    BY <2>1 DEF IndInv, TypeOK
  <2>4. CASE s \in Missing
    <3>1. Copies(s) = {}
      BY <2>1, <2>4 DEF IndInv, RecoveryProgress
    <3> QED
      BY <2>3, <3>1, CopiesKept
  <2>5. CASE s \notin Missing
    <3>1. index[s] \in Copies(s) /\ index[s] # x /\ index[s] \in Blocks
      BY <2>1, <2>2, <2>5 DEF IndInv, RecoveryProgress, TypeOK, Missing, Copies, Unreferenced
    <3>2. block'[index[s]] = block[index[s]]
      BY <2>3, <3>1
    <3> QED
      BY <2>3, <3>1, <3>2, CopiesKept
  <2> QED
    BY <2>4, <2>5
<1> QED
  BY <1>1, <1>2

LEMMA CommitCopies ==
    ASSUME IndInv, NEW s \in Slots,
           \/ /\ pc = "blockCommit"
              /\ block' = [block EXCEPT ![spare] = Committed(op.slot, op.gen, op.patch)]
           \/ /\ pc = "fillCommit"
              /\ block' = [block EXCEPT ![spare] = Committed(Lowest(Missing), 1, DefaultPatch)]
    PROVE  MakesCopy(s) /\ LosesCopy(s)
<1>1. CASE /\ pc = "blockCommit"
           /\ block' = [block EXCEPT ![spare] = Committed(op.slot, op.gen, op.patch)]
  <2>1. /\ block' = [block EXCEPT ![spare] = Committed(op.slot, op.gen, op.patch)]
        /\ op.call = "save" /\ ~Booting /\ FreeBlock = spare /\ spare \in Blocks
    BY <1>1 DEF IndInv, CallMatches, FreeBlock, IndexComplete
  <2>2. \A b \in Blocks : block'[b] = IF b = spare THEN Committed(op.slot, op.gen, op.patch)
                                      ELSE block[b]
    BY <2>1 DEF IndInv, TypeOK
  <2>3. index[s] \in Copies(s) /\ index[s] # spare /\ index[s] \in Blocks
    BY <2>1, LiveCopy DEF Copies
  <2>4. index[s] \in Copies(s)'
    BY <2>2, <2>3 DEF Copies
  <2>5. MakesCopy(s)
    BY <2>1, <2>2 DEF MakesCopy, Copies
  <2> QED
    BY <2>4, <2>5 DEF LosesCopy
<1>2. CASE /\ pc = "fillCommit"
           /\ block' = [block EXCEPT ![spare] = Committed(Lowest(Missing), 1, DefaultPatch)]
  <2> DEFINE m == Lowest(Missing)
  <2>1. /\ block' = [block EXCEPT ![spare] = Committed(m, 1, DefaultPatch)]
        /\ pc = "fillCommit"
    BY <1>2
  <2>2. Missing # {} /\ spare \in Blocks /\ block[spare].st # "valid"
    BY <2>1 DEF IndInv, RecoveryProgress, Unreferenced
  <2>3. m \in Missing /\ Copies(m) = {}
    BY <2>1, <2>2, LowestMissing DEF IndInv, RecoveryProgress
  <2> HIDE DEF m
  <2>4. \A b \in Blocks : block'[b] = IF b = spare THEN Committed(m, 1, DefaultPatch)
                                      ELSE block[b]
    BY <2>1 DEF IndInv, TypeOK
  <2>5. MakesCopy(s)
    BY <2>3, <2>4 DEF MakesCopy, Copies
  <2>6. Copies(s) \subseteq Copies(s)'
    BY <2>2, <2>4 DEF Copies
  <2> QED
    BY <2>5, <2>6 DEF LosesCopy
<1> QED
  BY <1>1, <1>2

\* Every other step leaves the blocks as they are, or spoils one of them.
LEMMA SpoilCopies ==
    ASSUME IndInv, NEW s \in Slots,
           block' = block \/ \E x \in Blocks \cup {NoBlock} : block' = [block EXCEPT ![x] = Dirty]
    PROVE  MakesCopy(s) /\ LosesCopy(s)
<1>1. \A b \in Blocks : block'[b] = block[b] \/ block'[b] = Dirty
  BY DEF IndInv, TypeOK
<1> QED
  BY <1>1, CopiesKept

LEMMA StepCopies ==
    ASSUME EraseErrors = FALSE, IndInv, [NextFaults]_vars, NEW s \in Slots
    PROVE  MakesCopy(s) /\ LosesCopy(s)
<1>1. CASE FillErase \/ WipeSpare \/ BlockErase \/ OldErase
  BY <1>1, EraseCopies
<1>2. CASE FillCommit \/ BlockCommit
  BY <1>2, CommitCopies DEF FillCommit, BlockCommit
<1>3. CASE \/ OpenIndexed \/ OpenRecover \/ FillDone
           \/ CatalogErase \/ CatalogProgram \/ CatalogCommit \/ CatalogRetire
           \/ EntryProgram \/ EntryCommit
           \/ \E t \in Slots, p \in Patches : SaveBegin(t, p)
           \/ \E t \in Slots : SelectBegin(t)
           \/ Crash \/ CrashErasingCatalog
           \/ \E c \in Catalogs : DecayCatalog(c)
           \/ CatalogFailed \/ EntryFailed \/ EntryBlocked \/ EraseFailed \/ UNCHANGED vars
  <2>1. block' = block
    BY <1>3 DEF OpenIndexed, OpenRecover, FillDone, CatalogErase, CatalogProgram, CatalogCommit,
                CatalogRetire, EntryProgram, EntryCommit, SaveBegin, SelectBegin, Crash,
                CrashErasingCatalog, DecayCatalog, CatalogFailed, EntryFailed, EntryBlocked,
                EraseFailed, vars
  <2> QED
    BY <2>1, SpoilCopies
<1>4. CASE \/ FillProgram \/ BlockProgram \/ BlockFailed
           \/ CrashErasingBlock
           \/ \E b \in Blocks : DecayBlock(b)
  <2>1. spare \in Blocks \cup {NoBlock}
    BY DEF IndInv, TypeOK
  <2>2. CASE FillProgram \/ BlockProgram \/ BlockFailed
    <3>1. \/ block' = block \/ block' = [block EXCEPT ![spare] = Dirty]
          \/ /\ pc = "blockCommit"
             /\ block' = [block EXCEPT ![spare] = Committed(op.slot, op.gen, op.patch)]
          \/ /\ pc = "fillCommit"
             /\ block' = [block EXCEPT ![spare] = Committed(Lowest(Missing), 1, DefaultPatch)]
      BY <2>2 DEF FillProgram, BlockProgram, BlockFailed
    <3> QED
      BY <2>1, <3>1, SpoilCopies, CommitCopies
  <2>3. CASE CrashErasingBlock
    <3>1. Erasing \in Blocks
      BY <2>3, LowestUnreferenced, OpTypes
         DEF IndInv, CrashErasingBlock, Erasing, TypeOK, CallMatches, IndexComplete
    <3> QED
      BY <2>3, <3>1, SpoilCopies DEF CrashErasingBlock
  <2>4. CASE \E b \in Blocks : DecayBlock(b)
    BY <2>4, SpoilCopies DEF DecayBlock
  <2> QED
    BY <1>4, <2>2, <2>3, <2>4
<1> QED
  BY <1>1, <1>2, <1>3, <1>4 DEF NextFaults, Next, Step, Fault

\* A step changes what a boot would load into a slot only as the property allows.
LEMMA SlotContained ==
    ASSUME EraseErrors = FALSE, IndInv, IndInv', [NextFaults]_vars, NEW s \in Slots
    PROVE  \/ BootPatches'[s] = BootPatches[s]
           \/ op.call = "save" /\ op.slot = s /\ BootPatches'[s] = op.patch
           \/ BootIndex[s] # NoBlock /\ block'[BootIndex[s]] = Dirty
           \/ \E b \in Copies(s) : BootPatches'[s] = block[b].patch
<1>1. MakesCopy(s) /\ LosesCopy(s)
  BY StepCopies
<1>2. TakesCopy /\ TakesCopy'
  BY BootTakesCopy, PTL
<1>3. /\ Copies(s) # {} => BootIndex[s] \in Copies(s) /\ BootIndex[s] # NoBlock
      /\ Copies(s) = {} => BootPatches[s] = DefaultPatch
      /\ Copies(s)' # {} => /\ BootIndex'[s] \in Copies(s)'
                            /\ BootPatches'[s] = block'[BootIndex'[s]].patch
      /\ Copies(s)' = {} => BootPatches'[s] = DefaultPatch
  BY <1>2 DEF TakesCopy
<1>4. CASE Copies(s)' # {}
  <2> DEFINE b == BootIndex'[s]
  <2>1. b \in Copies(s)' /\ BootPatches'[s] = block'[b].patch
    BY <1>3, <1>4
  <2> HIDE DEF b
  <2> QED
    BY <1>1, <1>3, <2>1 DEF MakesCopy
<1>5. CASE Copies(s)' = {}
  BY <1>1, <1>3, <1>5 DEF LosesCopy
<1> QED
  BY <1>4, <1>5

\* Decay, failed read-backs and power cuts in any order cost at most the program they
\* hit: what a reboot would load into a slot changes to the patch being saved there, or
\* its own block decays or fails, or an older copy of the same slot takes its place.
THEOREM FaultsAlwaysContained ==
    ASSUME EraseErrors = FALSE
    PROVE  SpecFaults => FaultsAreContained
<1>1. IndInv /\ IndInv' /\ [NextFaults]_vars =>
        [\A s \in Slots :
            \/ BootPatches'[s] = BootPatches[s]
            \/ op.call = "save" /\ op.slot = s /\ BootPatches'[s] = op.patch
            \/ BootIndex[s] # NoBlock /\ block'[BootIndex[s]] = Dirty
            \/ \E b \in Copies(s) : BootPatches'[s] = block[b].patch]_vars
  BY SlotContained
<1> QED
  BY <1>1, FaultsInvariance, PTL DEF SpecFaults, FaultsAreContained
=============================================================================
