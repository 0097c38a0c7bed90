------------------------------ MODULE StorageTool ------------------------------
(***************************************************************************)
(* The storage commands (commands/storage.ts) over the directory a game    *)
(* keeps its regions in: recover, compact and migrate, which may fail or   *)
(* be stopped after each file they write.  The game runs before and after  *)
(* them, never beside them, and may have been stopped itself: see          *)
(* RegionStorage for how.                                                  *)
(*                                                                         *)
(* A file is written to a temporary one and renamed; what a region or the  *)
(* journal holds is a number.                                              *)
(***************************************************************************)
EXTENDS Integers

CONSTANT RegionCount  \* how many regions there are

ASSUME StorageAssumption == RegionCount \in Nat

\* The keys of the regions, in their order.
Regions == 1..RegionCount

VARIABLES
  regions,     \* regions[k]: [data, version] of its file
  intents,     \* the data in journal.ldwj, for the regions it is about
  stale,       \* whether there is a journal.ldwj.tmp
  tool,        \* the command that runs: [doing, left], with the regions left to write
  promised     \* history: what the game has promised to keep of each region

storage == <<regions, intents, stale, tool, promised>>

Damaged == 0
Data == 1..2
NoIntents == [k \in {} |-> Damaged]
NoTool == [doing |-> "nothing", left |-> {}]

\* What the game finds: its journal goes over the regions.
Found(k) == IF k \in DOMAIN intents THEN intents[k] ELSE regions[k].data

StorageInit ==
  /\ regions \in [Regions -> [data : {Damaged, 1}, version : {0, 1}]]
  /\ intents = NoIntents
  /\ stale \in BOOLEAN
  /\ tool = NoTool
  /\ promised = [k \in Regions |-> regions[k].data]

\* The game replays its journal and commits regions; it ends, or is stopped while it
\* writes the journal, after some of the regions of one, or before it removes it.
RunGame ==
  /\ tool = NoTool
  /\ \E touched \in SUBSET Regions :
       \E data \in [touched -> Data], written \in SUBSET touched :
         LET kept == [k \in Regions |-> IF k \in touched THEN data[k] ELSE Found(k)] IN
         /\ promised' = kept
         /\ regions' = [k \in Regions |->
              IF k \in written THEN [data |-> data[k], version |-> 1]
              ELSE IF k \in DOMAIN intents THEN [data |-> intents[k], version |-> 1] ELSE regions[k]]
         /\ intents' \in {data} \union (IF written = touched THEN {NoIntents} ELSE {})
  /\ stale' \in BOOLEAN
  /\ UNCHANGED tool

-----------------------------------------------------------------------------
\* Defect: the journal is removed before its regions are written.
BeginRecoverFirst ==
  /\ tool = NoTool
  /\ stale' = FALSE
  /\ intents' = NoIntents
  /\ tool' = IF DOMAIN intents = {} THEN NoTool ELSE [doing |-> "recover", left |-> DOMAIN intents]
  /\ UNCHANGED <<regions, promised>>

\* What is left of an unfinished journal is removed; a journal that cannot be read, or
\* is not of this version, is an error.
BeginRecover ==
  /\ tool = NoTool
  /\ stale' = FALSE
  /\ tool' \in {NoTool} \union
       (IF DOMAIN intents = {} THEN {} ELSE {[doing |-> "recover", left |-> DOMAIN intents]})
  /\ UNCHANGED <<regions, intents, promised>>

\* With a journal, or with one region that cannot be read, nothing is rewritten.
BeginRewrite ==
  /\ tool = NoTool /\ DOMAIN intents = {}
  /\ \A k \in Regions : regions[k].data # Damaged
  /\ tool' \in {[doing |-> "compact", left |-> Regions],
                [doing |-> "migrate", left |-> {k \in Regions : regions[k].version = 0}]}
  /\ UNCHANGED <<regions, intents, stale, promised>>

FirstLeft == CHOOSE k \in tool.left : \A other \in tool.left : k <= other

WriteRegion ==
  /\ tool.left # {}
  /\ regions' = [regions EXCEPT ![FirstLeft] =
       [data |-> IF tool.doing = "recover" THEN Found(FirstLeft) ELSE @.data, version |-> 1]]
  /\ tool' = [tool EXCEPT !.left = @ \ {FirstLeft}]
  /\ UNCHANGED <<intents, stale, promised>>

\* A recovery ends with the journal removed.
EndTool ==
  /\ tool # NoTool /\ tool.left = {}
  /\ tool' = NoTool
  /\ intents' = IF tool.doing = "recover" THEN NoIntents ELSE intents
  /\ UNCHANGED <<regions, stale, promised>>

\* A write fails, or the command is stopped.
StopTool ==
  /\ tool # NoTool
  /\ tool' = NoTool
  /\ UNCHANGED <<regions, intents, stale, promised>>

StorageNext ==
  RunGame \/ BeginRecover \/ BeginRewrite \/ WriteRegion \/ EndTool \/ StopTool

StorageSpec == StorageInit /\ [][StorageNext]_storage

-----------------------------------------------------------------------------
\* What the game promised to keep of its regions is there, in the journal or in their
\* files, after every step of every command, whichever of them are stopped and run again
\* (commands/storage.ts, recover).
PromisesAreKept ==
  \A k \in Regions : Found(k) = promised[k]
=============================================================================
