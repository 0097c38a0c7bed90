----------------------------- MODULE RunEvidence -----------------------------
(***************************************************************************)
(* The evidence commands leave: every command of the CLI that ends writes  *)
(* a run manifest with the Git fingerprints of the project and the engine  *)
(* (run-manifest.ts), game status indexes the latest run that fits them    *)
(* (project-state.ts), and game validate says whether that index is still  *)
(* of this worktree (validate.ts).                                         *)
(*                                                                         *)
(* A project has one file that Git tracks and one that it does not, each   *)
(* with a content by number; the engine is a number.  What the commands    *)
(* write is ignored by Git, as the starter has it.  Bounds: commands of    *)
(* one project, no two of which end in the same millisecond.               *)
(***************************************************************************)
EXTENDS Integers, Sequences, FiniteSets

CONSTANTS
  Terminals,    \* where commands run, one at a time in each
  MaxCommands,  \* how many are started
  MaxChanges,   \* how often the project or the engine is changed
  InGit         \* whether the project is in a Git repository

ASSUME EvidenceBounds == MaxCommands \in Nat \ {0} /\ MaxChanges \in Nat /\ InGit \in BOOLEAN

VARIABLES
  worktree,  \* [commit, tracked, loose, engine]: HEAD, both contents (0: no file), the engine
  history,   \* what every commit holds of the tracked file
  changes,   \* how often the worktree changed
  started,   \* the commands started so far, which are their runs
  terminals, \* what the command of each terminal is at
  runs,      \* the manifest of each run, in reports/runs
  indexed,   \* .ludivra/project-state.json
  accepted   \* what the last validate that found the index current saw

evidence == <<worktree, history, changes, started, terminals, runs, indexed, accepted>>

NoEvidence == [file |-> "missing"]
TornEvidence == [file |-> "torn"]
AtPrompt == [at |-> "idle"]

-----------------------------------------------------------------------------
(* Fingerprints *)

\* Git's view of the project: the commit, whether there is anything to say, and what the
\* hash is made of: the difference to the commit, and every untracked file.
ProjectFingerprint ==
  IF InGit
  THEN [commit |-> worktree.commit,
        dirty |-> worktree.tracked # history[worktree.commit] \/ worktree.loose # 0,
        hashed |-> <<IF worktree.tracked = history[worktree.commit] THEN 0 ELSE worktree.tracked,
                     worktree.loose>>]
  ELSE [commit |-> 0, dirty |-> FALSE, hashed |-> <<>>]

Fingerprints == [project |-> ProjectFingerprint, engine |-> worktree.engine]

\* Defect: two dirty worktrees on one commit are taken for the same.
RepositoriesMatchByCommit(left, right) == left.commit = right.commit /\ left.dirty = right.dirty

RepositoriesMatch(left, right) ==
  left.commit = right.commit /\ left.dirty = right.dirty /\ left.hashed = right.hashed

SameFingerprints(recorded, seen) ==
  recorded.engine = seen.engine /\ RepositoriesMatch(recorded.project, seen.project)

\* What is recorded of a run as it ends.
Manifest(status, finished) ==
  [file |-> "whole", status |-> status, repositories |-> Fingerprints, on |-> worktree, finished |-> finished]

-----------------------------------------------------------------------------

\* A project whose first run has been recorded.
EvidenceInit ==
  /\ worktree = [commit |-> 2, tracked |-> 1, loose |-> 1, engine |-> 1]
  /\ history = <<2, 1>>
  /\ changes = 0 /\ started = 1
  /\ terminals = [t \in Terminals |-> AtPrompt]
  /\ runs = [r \in 1..MaxCommands |-> IF r = 1 THEN Manifest("passed", 0) ELSE NoEvidence]
  /\ indexed = NoEvidence
  /\ accepted = AtPrompt

Change(tree) ==
  /\ changes < MaxChanges /\ changes' = changes + 1
  /\ tree # worktree /\ worktree' = tree
  /\ UNCHANGED <<started, terminals, runs, indexed, accepted>>

EditProject ==
  /\ \E content \in 1..2 : \/ Change([worktree EXCEPT !.tracked = content])
                           \/ Change([worktree EXCEPT !.loose = content])
  /\ UNCHANGED history

EditEngine == Change([worktree EXCEPT !.engine = 3 - @]) /\ UNCHANGED history

Commit ==
  /\ InGit
  /\ history' = history \o <<worktree.tracked>>
  /\ Change([worktree EXCEPT !.commit = Len(history')])

\* Going back to a commit, which Git allows when nothing that is tracked would be lost.
Checkout ==
  /\ InGit /\ worktree.tracked = history[worktree.commit]
  /\ \E commit \in 1..Len(history) :
       Change([worktree EXCEPT !.commit = commit, !.tracked = history[commit]])
  /\ UNCHANGED history

-----------------------------------------------------------------------------
(* Commands *)

Operations == {"simulate", "status", "validate", "report"}

Proceed(t, command) == terminals' = [terminals EXCEPT ![t] = command]

EndedAs(command, status) == [at |-> "ended", operation |-> command.operation, run |-> command.run, status |-> status]

TreeStays == UNCHANGED <<worktree, history, changes>>

StartCommand(t) ==
  /\ terminals[t] = AtPrompt /\ started < MaxCommands
  /\ started' = started + 1
  /\ \E operation \in Operations :
       Proceed(t, [at |-> "started", operation |-> operation, run |-> started'])
  /\ TreeStays /\ UNCHANGED <<runs, indexed, accepted>>

Begun(t, operation) == terminals[t].at = "started" /\ terminals[t].operation = operation

\* Any other command passes, reports an error or throws one; a throw is an error as well.
Simulate(t) ==
  /\ Begun(t, "simulate")
  /\ \E status \in {"passed", "failed"} : Proceed(t, EndedAs(terminals[t], status))
  /\ TreeStays /\ UNCHANGED <<started, runs, indexed, accepted>>

\* A report needs the manifest of the run it is about.
ReportRun(t) ==
  /\ Begun(t, "report")
  /\ \E r \in 1..MaxCommands :
       Proceed(t, EndedAs(terminals[t], IF runs[r].file = "whole" THEN "passed" ELSE "failed"))
  /\ TreeStays /\ UNCHANGED <<started, runs, indexed, accepted>>

\* game status looks at the worktree before it reads the manifests.
LookAtWorktree(t) ==
  /\ Begun(t, "status")
  /\ Proceed(t, [at |-> "looked", operation |-> "status", run |-> terminals[t].run, seen |-> Fingerprints])
  /\ TreeStays /\ UNCHANGED <<started, runs, indexed, accepted>>

WholeRuns == {r \in 1..MaxCommands : runs[r].file = "whole"}

\* The latest run of the same worktree; a manifest that does not parse is left out.
LatestCompatible(seen) ==
  LET compatible == {r \in WholeRuns : SameFingerprints(runs[r].repositories, seen)} IN
  {r \in compatible : \A other \in compatible : runs[other].finished <= runs[r].finished}

\* The index is written in place.
WriteIndex(t) ==
  /\ terminals[t].at = "looked"
  /\ LET command == terminals[t]
         latest == LatestCompatible(command.seen)
     IN Proceed(t, [at |-> "indexing", operation |-> "status", run |-> command.run,
                 state |-> [file |-> "whole", repositories |-> command.seen, listed |-> WholeRuns,
                            latest |-> latest, status |-> {runs[r].status : r \in latest}]])
  /\ indexed' = TornEvidence
  /\ TreeStays /\ UNCHANGED <<started, runs, accepted>>

EndIndex(t) ==
  /\ terminals[t].at = "indexing"
  /\ indexed' = terminals[t].state
  /\ Proceed(t, EndedAs(terminals[t], "passed"))
  /\ TreeStays /\ UNCHANGED <<started, runs, accepted>>

\* game validate reads the index before it looks at the worktree.  An index that is not
\* there, or not whole, is an error.
ReadIndex(t) ==
  /\ Begun(t, "validate")
  /\ Proceed(t, IF indexed.file = "whole"
             THEN [at |-> "comparing", operation |-> "validate", run |-> terminals[t].run, state |-> indexed]
             ELSE EndedAs(terminals[t], "failed"))
  /\ TreeStays /\ UNCHANGED <<started, runs, indexed, accepted>>

CompareIndex(t) ==
  /\ terminals[t].at = "comparing"
  /\ LET state == terminals[t].state
         stale == ~SameFingerprints(state.repositories, Fingerprints)
     IN /\ Proceed(t, EndedAs(terminals[t], IF stale THEN "failed" ELSE "passed"))
        /\ accepted' = IF stale THEN accepted ELSE [at |-> "judged", on |-> worktree, state |-> state]
  /\ TreeStays /\ UNCHANGED <<started, runs, indexed>>

\* The end of every command: the fingerprints as they are now, and the manifest they are in.
WriteManifest(t) ==
  /\ terminals[t].at = "ended"
  /\ LET command == terminals[t] IN
     /\ Proceed(t, [at |-> "recording", run |-> command.run,
                 manifest |-> Manifest(command.status, Cardinality({r \in 1..MaxCommands : runs[r] # NoEvidence}))])
     /\ runs' = [runs EXCEPT ![command.run] = TornEvidence]
  /\ TreeStays /\ UNCHANGED <<started, indexed, accepted>>

EndManifest(t) ==
  /\ terminals[t].at = "recording"
  /\ runs' = [runs EXCEPT ![terminals[t].run] = terminals[t].manifest]
  /\ Proceed(t, AtPrompt)
  /\ TreeStays /\ UNCHANGED <<started, indexed, accepted>>

\* A manifest that is against its schema or that the disk refuses makes the command fail,
\* and none is left; a command that is killed leaves what it wrote.
LeaveNoManifest(t) ==
  /\ terminals[t] # AtPrompt
  /\ Proceed(t, AtPrompt)
  /\ TreeStays /\ UNCHANGED <<started, runs, indexed, accepted>>

EvidenceNext ==
  \/ EditProject \/ EditEngine \/ Commit \/ Checkout
  \/ \E t \in Terminals :
       \/ StartCommand(t) \/ Simulate(t) \/ ReportRun(t)
       \/ LookAtWorktree(t) \/ WriteIndex(t) \/ EndIndex(t)
       \/ ReadIndex(t) \/ CompareIndex(t)
       \/ WriteManifest(t) \/ EndManifest(t) \/ LeaveNoManifest(t)

EvidenceSpec == EvidenceInit /\ [][EvidenceNext]_evidence

-----------------------------------------------------------------------------
(* Properties *)

\* An index that validate takes for current names a run that was recorded on the very files
\* that are there, with the status it ended with, and no later run that had been recorded on
\* them; and it names one if there was one.  A project outside of Git has no such evidence.
AcceptedEvidenceIsOfThisWorktree ==
  InGit /\ accepted # AtPrompt =>
    LET state == accepted.state IN
    /\ \A r \in state.latest : runs[r].on = accepted.on /\ state.status = {runs[r].status}
    /\ \A r \in state.listed :
         runs[r].on = accepted.on => \E l \in state.latest : runs[r].finished <= runs[l].finished
=============================================================================
