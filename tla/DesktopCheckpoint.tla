-------------------------- MODULE DesktopCheckpoint --------------------------
(***************************************************************************)
(* The saves of a desktop game: desktop-checkpoint.ts in the page that     *)
(* plays it, storage.cjs and steam.cjs in the main process of Electron,    *)
(* and the messages of main.cjs and preload.cjs between them.              *)
(*                                                                         *)
(* A write is awaited by the page and made by the main process, one file   *)
(* operation per step; the main process goes on with it when the page is   *)
(* gone, and ends with the window.  What an archive holds is its tick and  *)
(* the version of its format.  The temporary file has a name of its own    *)
(* and nobody reads it.                                                    *)
(***************************************************************************)
EXTENDS Integers, FiniteSets, SequencesExt

CONSTANTS
  MaxSavedTick,   \* bound on the ticks of a game between launch and quit
  MaxCheckpoints, \* bound on the checkpoints a page has queued
  MaxRequests     \* bound on the close events of a window

ASSUME CheckpointAssumption ==
  MaxSavedTick \in Nat \ {0} /\ {MaxCheckpoints, MaxRequests} \subseteq Nat

VARIABLES
  files,       \* the save, its backup, and its copy in the cloud
  cloud,       \* whether the host reports steam.cloud as available
  session,     \* what becomes of the page
  savedTick,   \* the tick of the runtime in the page
  candidates,  \* the <<file, archive>> that restore has still to try
  chain,       \* writeChain: 0 for an autosave, or the id of a close request
  writer,      \* how far the main process is with storage.write
  archive,     \* the archive it writes
  requests,    \* checkpoint requests on their way to the page
  answers,     \* answers <<id, succeeded>> on their way to the main process
  awaited,     \* the keys of pendingCheckpoints
  approved,    \* closeApproved
  asked,       \* history: asked[id] - 1 is the tick of the game when id was requested
  kept         \* history: the archive of the last storage.write that succeeded, and of
               \* those begun since

saves == <<files, cloud, session, savedTick, candidates, chain, writer, archive,
           requests, answers, awaited, approved, asked, kept>>

Files == {"primary", "backup", "cloud"}
CurrentVersion == 6
Archives == [tick : 0..MaxSavedTick, version : {1, CurrentVersion}]
NoFile == [tick |-> -1, version |-> 0]
HalfWritten == [tick |-> -2, version |-> 0]
Requests == 1..MaxRequests

Readable(f) == files[f] \in Archives

\* No save yet and no cloud, or what a version of the game that restores them left on
\* two machines.
DesktopInit ==
  /\ cloud \in BOOLEAN
  /\ files = [f \in Files |-> IF ~cloud THEN NoFile
                             ELSE [tick |-> IF f = "cloud" THEN 1 ELSE 0, version |-> 1]]
  /\ session = "off"
  /\ savedTick = 0
  /\ candidates = {}
  /\ chain = <<>>
  /\ writer = "idle"
  /\ archive = NoFile
  /\ requests = {} /\ answers = {} /\ awaited = {}
  /\ approved = FALSE
  /\ asked = [id \in Requests |-> 0]
  /\ kept = {}

-----------------------------------------------------------------------------
(* The main process: its window and the service behind storage.write *)

\* The page reads the saves there are; the metadata of version 1 is all it accepts.
Launch ==
  /\ session = "off"
  /\ session' = "restoring"
  /\ savedTick' = 0
  /\ candidates' = {<<f, files[f]>> : f \in {g \in Files :
                     Readable(g) /\ files[g].version = 1 /\ (g = "cloud" => cloud)}}
  /\ UNCHANGED <<files, cloud, chain, writer, archive, requests, answers, awaited, approved,
                 asked, kept>>

\* A read that fails, of the save or its backup, ends the script of the page: the
\* window is there, and nobody listens to its requests.
LaunchFails ==
  /\ session = "off"
  /\ session' = "unmanaged"
  /\ savedTick' = 0
  /\ UNCHANGED <<files, cloud, candidates, chain, writer, archive, requests, answers, awaited,
                 approved, asked, kept>>

Idle == writer' = "idle" /\ archive' = NoFile

Ended ==
  /\ session' = "off"
  /\ savedTick' = 0 /\ candidates' = {} /\ chain' = <<>>
  /\ Idle
  /\ requests' = {} /\ answers' = {} /\ awaited' = {}
  /\ approved' = FALSE
  /\ asked' = [id \in Requests |-> 0]

\* The window closes, and with the last window the application quits, whatever the
\* storage service is doing.
Quit ==
  /\ session # "off" /\ approved
  /\ Ended
  /\ UNCHANGED <<files, cloud, kept>>

ProcessDies ==
  /\ session # "off"
  /\ Ended
  /\ UNCHANGED <<files, cloud, kept>>

\* The backup is never synchronised, and before the directory is, neither is a rename.
PowerLoss ==
  /\ session # "off"
  /\ \E primary \in {files["primary"]} \union
                     (IF writer = "renamed" THEN {files["backup"]} ELSE {}),
        backup \in {files["backup"], HalfWritten} :
       files' = [files EXCEPT !["primary"] = primary, !["backup"] = backup]
  /\ Ended
  /\ UNCHANGED <<cloud, kept>>

\* The render process is gone; the window stays.
PageGone ==
  /\ session \in {"restoring", "playing"}
  /\ session' = "gone"
  /\ savedTick' = 0 /\ candidates' = {} /\ chain' = <<>> /\ requests' = {}
  /\ UNCHANGED <<files, cloud, writer, archive, answers, awaited, approved, asked, kept>>

Writing(a) ==
  /\ writer = "idle"
  /\ writer' = "staging"
  /\ archive' = a
  /\ kept' = IF kept = {} THEN {} ELSE kept \union {a}

\* Defect: the save itself is opened, and written anew.
StageInPlace ==
  /\ writer = "staging"
  /\ writer' = "staged"
  /\ files' = [files EXCEPT !["primary"] = HalfWritten]

\* The temporary file is written and synchronised.
Stage ==
  /\ writer = "staging"
  /\ writer' = "staged"
  /\ UNCHANGED files

\* The backup is overwritten in place; when there is no save yet it is left alone.
StartCopy ==
  /\ writer = "staged"
  /\ IF files["primary"] = NoFile
     THEN writer' = "copied" /\ UNCHANGED files
     ELSE writer' = "copying" /\ files' = [files EXCEPT !["backup"] = HalfWritten]

EndCopy ==
  /\ writer = "copying"
  /\ writer' = "copied"
  /\ files' = [files EXCEPT !["backup"] = files["primary"]]

Rename ==
  /\ writer = "copied"
  /\ writer' = "renamed"
  /\ files' = [files EXCEPT !["primary"] = archive]

\* Nobody awaits the write of a page that is gone, but it is made all the same.
WriteStep ==
  /\ Stage \/ StartCopy \/ EndCopy \/ Rename
  /\ UNCHANGED <<cloud, session, savedTick, candidates, chain, archive, requests, answers,
                 awaited, approved, asked, kept>>

-----------------------------------------------------------------------------
(* The page: restore, then the chain of checkpoints *)

\* The latest first, and of those the local ones.
Preference(f) == CASE f = "primary" -> 0 [] f = "cloud" -> 1 [] f = "backup" -> 2

Best(c) ==
  \A other \in candidates \ {c} :
    \/ other[2].tick < c[2].tick
    \/ other[2].tick = c[2].tick /\ Preference(c[1]) < Preference(other[1])

\* The runtime takes the archive; one that is not the save is written back to it.
RestoreBest ==
  /\ session = "restoring" /\ writer = "idle"
  /\ \E c \in candidates :
       /\ Best(c)
       /\ savedTick' = c[2].tick
       /\ IF c[1] = "primary"
          THEN session' = "playing" /\ candidates' = {} /\ UNCHANGED <<writer, archive, kept>>
          ELSE candidates' = candidates \ {c} /\ Writing(c[2]) /\ UNCHANGED session
  /\ UNCHANGED <<files, cloud, chain, requests, answers, awaited, approved, asked>>

\* The runtime rejects the archive, which is of another game or content.
RejectBest ==
  /\ session = "restoring" /\ writer = "idle"
  /\ \E c \in candidates : Best(c) /\ candidates' = candidates \ {c}
  /\ UNCHANGED <<files, cloud, session, savedTick, chain, writer, archive, requests, answers,
                 awaited, approved, asked, kept>>

NothingToRestore ==
  /\ session = "restoring" /\ writer = "idle" /\ candidates = {}
  /\ session' = "playing"
  /\ UNCHANGED <<files, cloud, savedTick, candidates, chain, writer, archive, requests, answers,
                 awaited, approved, asked, kept>>

PlayTick ==
  /\ session = "playing" /\ savedTick < MaxSavedTick
  /\ savedTick' = savedTick + 1
  /\ UNCHANGED <<files, cloud, session, candidates, chain, writer, archive, requests, answers,
                 awaited, approved, asked, kept>>

\* The interval, a pause in the game, a suspended computer or a hidden page.
Autosave ==
  /\ session = "playing" /\ Len(chain) < MaxCheckpoints
  /\ chain' = Append(chain, 0)
  /\ UNCHANGED <<files, cloud, session, savedTick, candidates, writer, archive, requests, answers,
                 awaited, approved, asked, kept>>

\* What waits in the chain saves the runtime as it is when its turn comes.
BeginCheckpoint ==
  /\ session = "playing" /\ chain # <<>>
  /\ Writing([tick |-> savedTick, version |-> CurrentVersion])
  /\ UNCHANGED <<files, cloud, session, savedTick, candidates, chain, requests, answers, awaited,
                 approved, asked>>

\* The head of the chain settles, and a close request is answered.
Settled(succeeded) ==
  /\ chain' = Tail(chain)
  /\ answers' = IF Head(chain) = 0 THEN answers ELSE answers \union {<<Head(chain), succeeded>>}

\* storage.write succeeds: the page goes on with what it awaits.
WriteEnds ==
  /\ writer = "renamed"
  /\ kept' = {archive}
  /\ IF session = "playing" /\ cloud THEN writer' = "cloud" /\ UNCHANGED archive ELSE Idle
  /\ session' = IF session = "restoring" THEN "playing" ELSE session
  /\ candidates' = {}
  /\ IF session = "playing" /\ ~cloud THEN Settled(TRUE) ELSE UNCHANGED <<chain, answers>>
  /\ UNCHANGED <<files, cloud, savedTick, requests, awaited, approved, asked>>

\* A file operation before the rename, or the rename, fails.  A restore goes on with
\* the next candidate, and loads it over the state it has.
WriteFails ==
  /\ writer \in {"staging", "staged", "copying", "copied"}
  /\ Idle
  /\ IF session = "playing" THEN Settled(FALSE) ELSE UNCHANGED <<chain, answers>>
  /\ UNCHANGED <<files, cloud, session, savedTick, candidates, requests, awaited, approved,
                 asked, kept>>

\* The copy in the cloud is made, or its failure is logged.
CloudWrite ==
  /\ writer = "cloud"
  /\ Idle
  /\ \/ files' = [files EXCEPT !["cloud"] = archive]
     \/ UNCHANGED files
  /\ IF session = "playing" THEN Settled(TRUE) ELSE UNCHANGED <<chain, answers>>
  /\ UNCHANGED <<cloud, session, savedTick, candidates, requests, awaited, approved, asked,
                 kept>>

-----------------------------------------------------------------------------
(* Closing the window *)

\* A close event that is not approved asks the page for a checkpoint.
RequestClose ==
  /\ session # "off" /\ ~approved
  /\ \E id \in Requests :
       /\ id = 1 + Cardinality({i \in Requests : asked[i] # 0})
       /\ awaited' = awaited \union {id}
       /\ requests' = IF session = "gone" THEN requests ELSE requests \union {id}
       /\ asked' = [asked EXCEPT ![id] = 1 + IF session = "playing" THEN savedTick ELSE 0]
  /\ UNCHANGED <<files, cloud, session, savedTick, candidates, chain, writer, archive, answers,
                 approved, kept>>

\* Defect: a checkpoint that is being written answers for this one.
ReceiveRequestJoining ==
  /\ \E id \in requests :
       /\ \A other \in requests : id <= other
       /\ requests' = requests \ {id}
       /\ IF chain # <<>> /\ writer = "renamed"
          THEN answers' = answers \union {<<id, TRUE>>} /\ UNCHANGED chain
          ELSE chain' = Append(chain, id) /\ UNCHANGED answers
  /\ UNCHANGED <<files, cloud, session, savedTick, candidates, writer, archive,
                 awaited, approved, asked, kept>>

\* Before restore has ended there is no listener, and the request is lost.
ReceiveRequest ==
  /\ \E id \in requests :
       /\ \A other \in requests : id <= other
       /\ requests' = requests \ {id}
       /\ chain' = IF session = "playing" THEN Append(chain, id) ELSE chain
  /\ UNCHANGED <<files, cloud, session, savedTick, candidates, writer, archive, answers,
                 awaited, approved, asked, kept>>

\* Whether the page could save or not, the window closes; a late answer finds no one.
ReceiveAnswer ==
  /\ \E answer \in answers :
       /\ answers' = answers \ {answer}
       /\ awaited' = awaited \ {answer[1]}
       /\ approved' = (approved \/ answer[1] \in awaited)
  /\ UNCHANGED <<files, cloud, session, savedTick, candidates, chain, writer, archive, requests,
                 asked, kept>>

\* Defect: the request is forgotten, and its promise never settles.
TimeoutUnsettled ==
  /\ \E id \in awaited : awaited' = awaited \ {id}
  /\ UNCHANGED <<files, cloud, session, savedTick, candidates, chain, writer, archive, requests,
                 answers, approved, asked, kept>>

\* Two seconds have passed.
Timeout ==
  /\ \E id \in awaited : awaited' = awaited \ {id}
  /\ approved' = TRUE
  /\ UNCHANGED <<files, cloud, session, savedTick, candidates, chain, writer, archive, requests,
                 answers, asked, kept>>

-----------------------------------------------------------------------------
DesktopNext ==
  \/ Launch \/ LaunchFails \/ Quit \/ ProcessDies \/ PowerLoss \/ PageGone
  \/ WriteStep \/ RestoreBest \/ RejectBest \/ NothingToRestore
  \/ PlayTick \/ Autosave \/ BeginCheckpoint
  \/ WriteEnds \/ WriteFails \/ CloudWrite
  \/ RequestClose \/ ReceiveRequest \/ ReceiveAnswer \/ Timeout

DesktopSpec == DesktopInit /\ [][DesktopNext]_saves

\* Timers fire, and an approved window closes.
DesktopFairness == WF_saves(Timeout) /\ WF_saves(Quit)

-----------------------------------------------------------------------------
DesktopTypeOK ==
  /\ files \in [Files -> Archives \union {NoFile, HalfWritten}]
  /\ session \in {"off", "restoring", "playing", "unmanaged", "gone"}
  /\ savedTick \in 0..MaxSavedTick
  /\ candidates \subseteq Files \X Archives
  /\ chain \in Seq(0..MaxRequests)
  /\ writer \in {"idle", "staging", "staged", "copying", "copied", "renamed", "cloud"}
  /\ archive \in Archives \union {NoFile} /\ kept \subseteq Archives
  /\ requests \union awaited \subseteq Requests
  /\ answers \subseteq Requests \X BOOLEAN
  /\ asked \in [Requests -> 0..(MaxSavedTick + 1)]
  /\ {cloud, approved} \subseteq BOOLEAN

\* The last checkpoint the storage service reported as saved, or the one it was asked
\* for since, can be read from the save or its backup, whenever the application or the
\* computer stops (storage.cjs, write).
SavedIsReadable ==
  kept # {} => {files["primary"], files["backup"]} \intersect kept # {}

\* A window that closes because its page answered that it saved has saved the game as
\* it was when the close was requested, or later (main.cjs, requestCheckpoint).  While
\* restore runs there is no game yet: what it loaded may still give way to an older save.
ClosedIsSaved ==
  \A id \in Requests :
    <<id, TRUE>> \in answers =>
      files["primary"].version = CurrentVersion /\ files["primary"].tick + 1 >= asked[id]

\* A window asked to close closes, whatever becomes of its page, of the storage service
\* and of the requests (the timer of requestCheckpoint).
ClosingEnds == awaited # {} ~> session = "off"

\* A game that is started again goes on from the save, when there is one.
OwnSavesAreRestored ==
  [][session = "restoring" /\ session' = "playing" /\ Readable("primary")
       => savedTick' >= files["primary"].tick]_saves
=============================================================================
