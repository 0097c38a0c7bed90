------------------------------ MODULE VisualForge ------------------------------
(***************************************************************************)
(* The visual forge (visual-forge.ts): a character is planned or authored, *)
(* its textures are imported, it is compiled into a cache directory of its *)
(* own key, and its job is validated and approved.  One command runs at a  *)
(* time; a compile may be stopped between its writes.                      *)
(*                                                                         *)
(* The key of a character is the version of its spec, with its textures    *)
(* and its style.  What a spec compiles to is the same each time.          *)
(***************************************************************************)
EXTENDS Integers

VARIABLES
  quality,   \* quality[k]: what compiling k comes to
  surfaces,  \* the keys whose spec asks for textures
  character, \* the key of the spec there is; 0 when there is none
  textures,  \* whether the textures have been copied into the project
  job,       \* job.json: [state, key, asks, judged]; judged, history, is the key whose
             \* report the state is about
  manifest,  \* manifest[k]: manifest.json of the directory of k
  visualIndex, \* the key of the entry in the index of visuals
  command    \* the compile that runs: [doing, force, only, record]

visual == <<quality, surfaces, character, textures, job, manifest, visualIndex, command>>

VisualKeys == 1..2
NoEntry == 0
TornIndex == 3
NoJob == [state |-> "NONE", key |-> 0, asks |-> "nothing", judged |-> 0]
TornJob == [NoJob EXCEPT !.state = "TORN"]
NoCommand == [doing |-> "nothing", force |-> FALSE, only |-> FALSE, record |-> NoEntry]

VisualInit ==
  /\ quality \in [VisualKeys -> {"passed", "failed", "throws", "unmanifested"}]
  /\ surfaces \in SUBSET {2}
  /\ character = 0 /\ textures = FALSE
  /\ job = NoJob
  /\ manifest = [k \in VisualKeys |-> "none"]
  /\ visualIndex = NoEntry
  /\ command = NoCommand

-----------------------------------------------------------------------------
\* A spec that exists is left alone; what is planned asks for no textures.
PlanVisual ==
  /\ command = NoCommand /\ character = 0
  /\ character' = 1
  /\ job' = [NoJob EXCEPT !.state = "PLANNED"]
  /\ UNCHANGED <<quality, surfaces, textures, manifest, visualIndex, command>>

\* An author writes the spec, or another one.
EditCharacter ==
  /\ command = NoCommand
  /\ \E k \in VisualKeys \ {character} : character' = k
  /\ UNCHANGED <<quality, surfaces, textures, job, manifest, visualIndex, command>>

\* The textures the job asks for are in the inbox, or not: not those of the spec.
ImportTextures ==
  /\ command = NoCommand /\ job.state \notin {"NONE", "TORN"}
  /\ \E found \in BOOLEAN :
       LET asks == IF found /\ job.asks # "nothing" THEN "imported" ELSE job.asks IN
       /\ textures' = (textures \/ asks = "imported")
       /\ job' = [job EXCEPT !.asks = asks,
            !.state = IF asks = "missing" THEN "WAITING_FOR_TEXTURES" ELSE "TEXTURES_IMPORTED"]
  /\ UNCHANGED <<quality, surfaces, character, manifest, visualIndex, command>>

\* The job there is, or one for a spec nobody planned.
JobOf(k) ==
  IF job.state # "NONE" THEN job
  ELSE [NoJob EXCEPT !.state = "PLANNED", !.asks = IF k \in surfaces THEN "missing" ELSE "nothing"]

Waits(k) == k \in surfaces /\ ~textures

\* A manifest that cannot be parsed ends the command, unless it is forced.
Reused(force) == ~force /\ manifest[character] = "there"

\* One id or the whole project; a preview is forced.  A job that cannot be parsed ends
\* the command.  The approval of a job stays with what it reuses.
BeginCompile ==
  /\ command = NoCommand /\ character # 0 /\ job.state # "TORN"
  /\ \E force, only \in BOOLEAN :
       LET found == JobOf(character) IN
       IF Waits(character)
       THEN /\ job' = [found EXCEPT !.state = "WAITING_FOR_TEXTURES"]
            /\ command' = [NoCommand EXCEPT !.doing = "indexing", !.only = only]
       ELSE /\ force \/ manifest[character] # "torn"
            /\ job' = [found EXCEPT !.key = character,
                 !.asks = IF @ = "missing" /\ character \in surfaces THEN "imported" ELSE @,
                 !.state = IF Reused(force) /\ @ = "APPROVED" THEN "APPROVED" ELSE "COMPILING"]
            /\ command' = [NoCommand EXCEPT
                 !.doing = IF Reused(force) THEN "reading" ELSE "compiling", !.only = only]
  /\ UNCHANGED <<quality, surfaces, character, textures, manifest, visualIndex>>

\* Defect: the approval of the job stays, whatever the report says.
JudgedFondly(k) ==
  [job EXCEPT !.judged = k,
     !.state = IF quality[k] = "passed"
               THEN IF @ = "APPROVED" THEN "APPROVED" ELSE "VALIDATING"
               ELSE IF @ = "APPROVED" THEN "APPROVED" ELSE "NEEDS_REVISION"]

\* The report of k decides what becomes of the job.
Judged(k) ==
  [job EXCEPT !.judged = k,
     !.state = IF quality[k] # "passed" THEN "NEEDS_REVISION"
               ELSE IF @ = "APPROVED" THEN "APPROVED" ELSE "VALIDATING"]

\* The report that is reused, or the new one with its manifest.
EndCompile ==
  /\ \/ command.doing = "reading" /\ UNCHANGED manifest
     \/ /\ command.doing = "compiling" /\ quality[character] \in {"passed", "failed"}
        /\ manifest' = [manifest EXCEPT ![character] = "there"]
  /\ job' = Judged(character)
  /\ command' = [command EXCEPT !.doing = "indexing", !.record = character]
  /\ UNCHANGED <<quality, surfaces, character, textures, visualIndex>>

\* A texture or an output that cannot be compiled needs a revision.  A spec of version 1
\* that throws ends the command, and a manifest that breaks its schema leaves the job
\* as it is.
CompileFails ==
  /\ command.doing = "compiling"
  /\ \/ /\ quality[character] = "throws"
        /\ \/ /\ job' = [job EXCEPT !.state = "NEEDS_REVISION", !.judged = character]
              /\ command' = [command EXCEPT !.doing = "indexing"]
           \/ command' = NoCommand /\ UNCHANGED job
     \/ /\ quality[character] = "unmanifested"
        /\ command' = [command EXCEPT !.doing = "indexing"] /\ UNCHANGED job
  /\ UNCHANGED <<quality, surfaces, character, textures, manifest, visualIndex>>

\* With one id, the other entries and the earlier entry of this one are kept; an index
\* that cannot be parsed ends the command.
WriteVisualIndex ==
  /\ command.doing = "indexing"
  /\ visualIndex' = IF command.only /\ (visualIndex = TornIndex \/ command.record = NoEntry)
                    THEN visualIndex ELSE command.record
  /\ command' = NoCommand
  /\ UNCHANGED <<quality, surfaces, character, textures, job, manifest>>

\* The file that is being written is half there.
StopCompile ==
  /\ command # NoCommand
  /\ \/ UNCHANGED <<job, manifest, visualIndex>>
     \/ job' = TornJob /\ UNCHANGED <<manifest, visualIndex>>
     \/ /\ command.doing = "compiling" /\ quality[character] \in {"passed", "failed"}
        /\ manifest' = [manifest EXCEPT ![character] = "torn"] /\ UNCHANGED <<job, visualIndex>>
     \/ /\ command.doing = "indexing"
        /\ visualIndex' = TornIndex /\ UNCHANGED <<job, manifest>>
  /\ command' = NoCommand
  /\ UNCHANGED <<quality, surfaces, character, textures>>

\* The entry of the index is the one that is judged, not the key of the job.
Indexed ==
  /\ command = NoCommand
  /\ visualIndex \in VisualKeys /\ manifest[visualIndex] = "there"
  /\ job.state \notin {"NONE", "TORN"}

ValidateVisual ==
  /\ Indexed
  /\ job' = [job EXCEPT !.judged = visualIndex,
       !.state = IF quality[visualIndex] = "passed" THEN "VALIDATING" ELSE "NEEDS_REVISION"]
  /\ UNCHANGED <<quality, surfaces, character, textures, manifest, visualIndex, command>>

FinalizeVisual ==
  /\ Indexed /\ job.state = "VALIDATING" /\ quality[visualIndex] = "passed"
  /\ job' = [job EXCEPT !.state = "APPROVED", !.judged = visualIndex]
  /\ UNCHANGED <<quality, surfaces, character, textures, manifest, visualIndex, command>>

\* A job that cannot be parsed is deleted.
ClearJob ==
  /\ command = NoCommand /\ job.state = "TORN"
  /\ job' = NoJob
  /\ UNCHANGED <<quality, surfaces, character, textures, manifest, visualIndex, command>>

VisualNext ==
  \/ PlanVisual \/ EditCharacter \/ ImportTextures
  \/ BeginCompile \/ EndCompile \/ CompileFails \/ WriteVisualIndex \/ StopCompile
  \/ ValidateVisual \/ FinalizeVisual \/ ClearJob

VisualSpec == VisualInit /\ [][VisualNext]_visual

\* What is approved has passed: the report its approval was given for, or was kept for
\* by a later compile, says so, whatever commands were stopped before they wrote the
\* index or the job (visual-forge.ts, runValidateOrFinalize and preserveApproval).  The
\* key a job names may be another one, of a compile that failed since.
ApprovedHasPassed ==
  job.state = "APPROVED" /\ command = NoCommand => quality[job.judged] = "passed"
=============================================================================
