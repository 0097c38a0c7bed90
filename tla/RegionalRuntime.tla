---------------------------- MODULE RegionalRuntime ----------------------------
(***************************************************************************)
(* The regions of a Runtime: the deltas a tick writes while it runs, the   *)
(* references a save has instead of them, and the store they are in, with  *)
(* processes that end between any two of these.                            *)
(*                                                                         *)
(* Of RegionStorage there is what AtomicRegions promises: a transaction    *)
(* happens, or does not, or is logged and waits for recover with some of   *)
(* its regions written.  The hash of a region is the region.  Nobody else  *)
(* writes to the directory while a Runtime has it.                         *)
(***************************************************************************)
EXTENDS Integers, FiniteSets, SequencesExt

CONSTANTS
  RegionPlaces,      \* keys of regions
  Pieces,      \* chunks of a region that can have a delta
  DeltaPayloads,    \* what a delta of a chunk can be
  Generators,  \* versions of the generator of a game
  CommandBatches  \* the deltas that the commands of one batch ask for

ASSUME RegionalAssumption ==
  /\ 0 \notin Generators /\ 0 \notin DeltaPayloads
  /\ CommandBatches \subseteq Seq([place : RegionPlaces, piece : Pieces, payload : DeltaPayloads])

VARIABLES
  regionFiles,  \* the region in the file of a place, or NoRegion
  journaled,    \* the journal: a region for each place it names
  engine,       \* the Runtime, and how far its tick is
  envelope,     \* the references of the last save the host kept
  touched       \* history: the places that transactions named since that save, or when
                \* it was made

regional == <<regionFiles, journaled, engine, envelope, touched>>

NoRegion == [generator |-> 0, deltas |-> [piece \in Pieces |-> 0]]
NoReferences == <<>>

NewEngine ==
  [at |-> "idle", generator |-> 0, loaded |-> NoReferences, references |-> NoReferences,
   committed |-> {}, initial |-> NoReferences, played |-> FALSE]

RegionalInit ==
  /\ regionFiles = [r \in RegionPlaces |-> NoRegion]
  /\ journaled = NoReferences
  /\ engine = NewEngine
  /\ envelope = NoReferences
  /\ touched = {}

-----------------------------------------------------------------------------
(* The store *)

\* The files when those in places are replaced by what the journal says.
WrittenOver(files, journal, places) == [r \in RegionPlaces |-> IF r \in places THEN journal[r] ELSE files[r]]

\* Files are written in the order of their keys, and any of them may fail.
WrittenFirst(places) == {{r \in places : r < limit} : limit \in places} \union {places}

\* The transaction is done, and its journal erased.
Store(changed) ==
  /\ journaled = NoReferences
  /\ regionFiles' = WrittenOver(regionFiles, changed, DOMAIN changed)
  /\ UNCHANGED journaled

\* It fails once its journal is there, which waits for recover.
StoreLogs(changed) ==
  /\ journaled = NoReferences
  /\ journaled' = changed
  /\ \E places \in WrittenFirst(DOMAIN changed) : regionFiles' = WrittenOver(regionFiles, changed, places)

-----------------------------------------------------------------------------
(* Runtime::configure_region_storage, restore_region_references *)

\* The journal is applied and erased, and the regions are loaded anew when they are
\* needed.  A replay without frames starts without regions.  When exists() cannot tell,
\* recover reports success with the journal as it is.
Configure(generator) ==
  /\ engine.at = "idle"
  /\ \/ /\ regionFiles' = WrittenOver(regionFiles, journaled, DOMAIN journaled)
        /\ journaled' = NoReferences
     \/ UNCHANGED <<regionFiles, journaled>>
  /\ engine' = [engine EXCEPT !.generator = generator,
                              !.loaded = NoReferences, !.references = NoReferences,
                              !.initial = IF engine.played THEN @ ELSE NoReferences]
  /\ UNCHANGED <<envelope, touched>>

\* Recovery fails on one of the files: the Runtime goes on with the storage it had.
ConfigureFails ==
  /\ engine.at = "idle" /\ journaled # NoReferences
  /\ \E places \in WrittenFirst(DOMAIN journaled) : regionFiles' = WrittenOver(regionFiles, journaled, places)
  /\ UNCHANGED <<journaled, engine, envelope, touched>>

\* Every region is there, of this game, and what it was when it was saved.
Restorable(references) ==
  \A r \in DOMAIN references :
    /\ regionFiles[r] = references[r]
    /\ references[r].generator = engine.generator

\* The regions a save refers to become the ones that are loaded; otherwise the load is
\* refused and nothing has changed.
LoadRegions ==
  /\ engine.at = "idle" /\ Restorable(envelope)
  /\ engine' = [engine EXCEPT !.loaded = envelope, !.references = envelope,
                              !.committed = {}, !.initial = envelope, !.played = FALSE]
  /\ UNCHANGED <<regionFiles, journaled, envelope, touched>>

SaveRegions ==
  /\ engine.at = "idle"
  /\ envelope' = engine.references
  /\ touched' = DOMAIN journaled
  /\ UNCHANGED <<regionFiles, journaled, engine>>

\* The process ends, also between the timers of a tick and its inputs.
EndProcess ==
  /\ engine # NewEngine
  /\ engine' = NewEngine
  /\ UNCHANGED <<regionFiles, journaled, envelope, touched>>

-----------------------------------------------------------------------------
(* Runtime::apply_region_deltas and the tick it is part of *)

\* What the Runtime has loaded, or else the file, or else a region of its own.
Known(r) ==
  IF r \in DOMAIN engine.loaded THEN engine.loaded[r]
  ELSE IF regionFiles[r] # NoRegion THEN regionFiles[r]
  ELSE [NoRegion EXCEPT !.generator = engine.generator]

PlacesOf(batch) == {delta.place : delta \in ToSet(batch)}

\* The deltas of a batch over what is known, the later of two for a chunk.
Changed(batch) ==
  FoldLeft(LAMBDA regions, delta : [regions EXCEPT ![delta.place].deltas[delta.piece] = delta.payload],
           [r \in PlacesOf(batch) |-> Known(r)], batch)

Overriding(changed, regions) ==
  [r \in DOMAIN changed \union DOMAIN regions |-> IF r \in DOMAIN changed THEN changed[r] ELSE regions[r]]

\* The deltas for the host: the last of every chunk.
Reported(batch, committed) ==
  LET chunks == {<<delta.place, delta.piece>> : delta \in ToSet(batch)}
  IN {delta \in committed : <<delta.place, delta.piece>> \notin chunks}
     \union {batch[i] : i \in {j \in DOMAIN batch :
               \A k \in DOMAIN batch : k > j => batch[k].place # batch[j].place
                                                \/ batch[k].piece # batch[j].piece}}

\* Defect: the regions count as changed before the store has them.
ApplyFailsLate(batch, after) ==
  /\ engine' = IF engine.generator = 0 THEN after
               ELSE [after EXCEPT !.loaded = Overriding(Changed(batch), @),
                                  !.references = Overriding(Changed(batch), @)]
  /\ UNCHANGED <<regionFiles, journaled, touched>>

OfThisGame(changed) ==
  engine.generator # 0 /\ \A r \in DOMAIN changed : changed[r].generator = engine.generator

ApplyDeltas(batch, after) ==
  /\ IF batch = <<>> THEN UNCHANGED <<regionFiles, journaled>>
     ELSE OfThisGame(Changed(batch)) /\ Store(Changed(batch))
  /\ engine' = [after EXCEPT !.loaded = Overriding(Changed(batch), @),
                             !.references = Overriding(Changed(batch), @),
                             !.committed = Reported(batch, @)]
  /\ touched' = touched \union PlacesOf(batch)

\* A handler or an earlier command fails, a region cannot be read or is of another
\* generator, there is no storage, or it fails: what the Runtime has loaded stays.
ApplyFails(batch, after) ==
  /\ engine' = after
  /\ \/ UNCHANGED <<regionFiles, journaled>>
     \/ batch # <<>> /\ OfThisGame(Changed(batch)) /\ StoreLogs(Changed(batch))
  /\ touched' = touched \union DOMAIN journaled'

\* The handlers of the timers first.  What their deltas did stays when the tick then
\* fails: only the deltas of the tick before are no longer reported.
FireTimers(batch) ==
  /\ engine.at = "idle"
  /\ LET cleared == [engine EXCEPT !.committed = {}] IN
       \/ ApplyDeltas(batch, [cleared EXCEPT !.at = "inputs"])
       \/ ApplyFails(batch, cleared)
  /\ UNCHANGED envelope

\* Then those of the chart and the inputs; a tick that succeeds adds a frame.
HandleInputs(batch) ==
  /\ engine.at = "inputs"
  /\ LET ended == [engine EXCEPT !.at = "idle"] IN
       \/ ApplyDeltas(batch, [ended EXCEPT !.played = TRUE])
       \/ ApplyFails(batch, ended)
  /\ UNCHANGED envelope

\* The host has copied the deltas.
DrainRegionDeltas ==
  /\ engine.at = "idle" /\ engine.committed # {}
  /\ engine' = [engine EXCEPT !.committed = {}]
  /\ UNCHANGED <<regionFiles, journaled, envelope, touched>>

-----------------------------------------------------------------------------
RegionalNext ==
  \/ \E generator \in Generators : Configure(generator)
  \/ ConfigureFails \/ LoadRegions \/ SaveRegions \/ EndProcess \/ DrainRegionDeltas
  \/ \E batch \in CommandBatches : FireTimers(batch) \/ HandleInputs(batch)

RegionalSpec == RegionalInit /\ [][RegionalNext]_regional

-----------------------------------------------------------------------------
\* Whatever fails or ends between the deltas of a tick, its journal, recovery, saves and
\* loads: what a Runtime and the last save refer to is what the files hold, and so a load
\* is not refused, except in regions whose transaction still waits for recover, or which
\* were written after the save or waited when it was made.  What is loaded agrees with it,
\* and what is reported to the host does for as long as the Runtime refers to the region
\* (runtime.cpp, apply_region_deltas and restore_region_references).
ReferencesHold ==
  /\ engine.loaded = engine.references
  /\ \A r \in DOMAIN engine.references \ DOMAIN journaled : regionFiles[r] = engine.references[r]
  /\ \A r \in DOMAIN envelope \ touched : regionFiles[r] = envelope[r]
  /\ \A delta \in engine.committed : delta.place \in DOMAIN engine.references
       => engine.references[delta.place].deltas[delta.piece] = delta.payload
=============================================================================
