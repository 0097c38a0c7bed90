---------------------------- MODULE RegionStorage ----------------------------
(***************************************************************************)
(* kernel/src/region_storage.cpp: region files replaced one by one, under  *)
(* an intent journal when a transaction names several of them.             *)
(*                                                                         *)
(* One handle owns the root directory and runs one call at a time.  Every  *)
(* system call that changes the directory is a step of its own, so a crash *)
(* or an I/O error can fall between any two of them.  A directory entry,   *)
(* once renamed or removed, is taken to survive a crash; the bytes of a    *)
(* file survive a power loss only if they were synchronised.               *)
(***************************************************************************)
EXTENDS Integers

CONSTANTS
  Keys,           \* region keys; their order is the order of StoredRegionKey
  Values,         \* the contents of a region record
  Absent,         \* no file; also a region that a transaction does not name
  Torn,           \* a file whose checksum does not match its bytes
  Journal,        \* journal.ldwj, beside the region files
  Synchronises,   \* TRUE: synchronize_file calls fsync (macOS, Linux); FALSE: #else
  StatFailures    \* TRUE: std::filesystem::exists may fail with an error code

Formats == {"v0", "v1"}

Stored == [format : Formats, value : Values]

Paths == Keys \union {Journal}

\* The regions a journal or a call carries: Absent for a region it does not name.
Batches == [Keys -> Values \union {Absent}]

ASSUME KeysAssumption == Keys \subseteq Int /\ Keys # {} /\ Journal \notin Keys
ASSUME ValuesAssumption == Absent \notin Values /\ Torn \notin Values /\ Absent # Torn
ASSUME StoredAssumption == {Absent, Torn} \intersect (Stored \union Batches) = {}
ASSUME PlatformAssumption == Synchronises \in BOOLEAN /\ StatFailures \in BOOLEAN

VARIABLES
  file,       \* file[k]: the region file of k: a record, Absent or Torn
  journal,    \* the journal file: a transaction, Absent or Torn
  temporary,  \* the paths whose ".tmp" file exists
  unflushed,  \* the ".tmp" files whose bytes are not synchronised
  exposed,    \* the renamed files whose bytes are not synchronised
  op,         \* the public call in progress, or "none"
  pc,         \* the system call it is about to make
  request,    \* the regions passed to the call in progress
  work,       \* the regions of that call still to be written
  target,     \* the path write_atomically is replacing
  discarded,  \* recover found and removed journal.ldwj.tmp
  result      \* what the last call returned; "running" until it does, "crashed" if it never did

vars == <<file, journal, temporary, unflushed, exposed, op, pc, request, work,
          target, discarded, result>>

disk == <<file, journal, temporary, unflushed, exposed>>

Operations == {"none", "write", "compact", "migrate", "begin", "transaction",
               "commit", "recover"}

Steps == {"idle", "check", "stage", "sync", "rename", "load", "erase", "scan", "probe"}

Results == {"none", "region_missing", "journal_pending", "journal_incomplete",
            "checksum_mismatch", "write_not_atomic", "running", "crashed"}

Named(batch) == {k \in Keys : batch[k] # Absent}

Transactions == {b \in Batches : Named(b) # {}}

Nothing == [k \in Keys |-> Absent]

Single(key, value) == [k \in Keys |-> IF k = key THEN value ELSE Absent]

Without(batch, key) == [batch EXCEPT ![key] = Absent]

\* std::map<StoredRegionKey, ...> and the journal hold regions in key order.
IsFirst(key, batch) == key \in Named(batch) /\ \A k \in Named(batch) : key <= k

\* encode_region always writes the current format.
Encoded(value) == [format |-> "v1", value |-> value]

TypeOK ==
  /\ file \in [Keys -> Stored \union {Absent, Torn}]
  /\ journal \in Transactions \union {Absent, Torn}
  /\ temporary \subseteq Paths
  /\ unflushed \subseteq Paths
  /\ exposed \subseteq Paths
  /\ op \in Operations
  /\ pc \in Steps
  /\ request \in Batches
  /\ work \in Batches
  /\ target \in Paths
  /\ discarded \in BOOLEAN
  /\ result \in Results

\* Any directory a game may leave behind: legacy records, damaged files, leftovers.
Init ==
  /\ file \in [Keys -> Stored \union {Absent, Torn}]
  /\ journal \in Transactions \union {Absent, Torn}
  /\ temporary \in SUBSET Paths
  /\ unflushed = {}
  /\ exposed = {}
  /\ op = "none"
  /\ pc = "idle"
  /\ request = Nothing
  /\ work = Nothing
  /\ target = Journal
  /\ discarded = FALSE
  /\ result = "none"

-----------------------------------------------------------------------------
(* Calls, and how they end.                                                *)

Call(name, step, batch) ==
  /\ op = "none"
  /\ op' = name
  /\ pc' = step
  /\ request' = batch
  /\ work' = batch
  /\ result' = "running"
  /\ UNCHANGED discarded

Return(outcome) ==
  /\ op' = "none"
  /\ pc' = "idle"
  /\ request' = Nothing
  /\ work' = Nothing
  /\ target' = Journal
  /\ discarded' = FALSE
  /\ result' = outcome

\* A call that ends before it opens any file.
AnswerAtOnce(outcome) ==
  /\ op = "none"
  /\ Return(outcome)
  /\ UNCHANGED disk

WriteRegion(key, value) ==
  /\ Call("write", "stage", Single(key, value))
  /\ target' = key
  /\ UNCHANGED disk

BeginTransaction(batch) ==
  /\ Call("begin", "check", batch)
  /\ UNCHANGED <<disk, target>>

\* Defect: the transaction is applied with no journal behind it.
WriteTransactionUnlogged(batch) ==
  /\ Call("transaction", "stage", batch)
  /\ \E key \in Keys : IsFirst(key, batch) /\ target' = key
  /\ UNCHANGED disk

WriteTransaction(batch) ==
  /\ Call("transaction", "check", batch)
  /\ UNCHANGED <<disk, target>>

CommitPendingTransaction ==
  /\ Call("commit", "load", Nothing)
  /\ UNCHANGED <<disk, target>>

Recover ==
  /\ Call("recover", "scan", Nothing)
  /\ UNCHANGED <<disk, target>>

\* What read_file and decode_region answer for a region that has no valid record.
ReadError(key) ==
  IF file[key] = Absent THEN "region_missing" ELSE "checksum_mismatch"

CompactRegion(key) ==
  \/ /\ file[key] \in Stored
     /\ Call("compact", "stage", Single(key, file[key].value))
     /\ target' = key
     /\ UNCHANGED disk
  \/ /\ file[key] \notin Stored
     /\ AnswerAtOnce(ReadError(key))

MigrateRegion(key) ==
  \/ /\ file[key] \in Stored
     /\ file[key].format = "v0"
     /\ Call("migrate", "stage", Single(key, file[key].value))
     /\ target' = key
     /\ UNCHANGED disk
  \/ /\ file[key] \in Stored
     /\ file[key].format = "v1"
     /\ AnswerAtOnce("none")
  \/ /\ file[key] \notin Stored
     /\ AnswerAtOnce(ReadError(key))

-----------------------------------------------------------------------------
(* The steps of a call.                                                    *)

\* begin_transaction: a journal or its leftover refuses the transaction, the leftover only
\* when exists() does not fail on it, as nothing looks at that error.
CheckJournalIsAbsent ==
  /\ pc = "check"
  /\ \/ /\ journal # Absent
        /\ Return("journal_pending")
     \/ /\ journal = Absent
        /\ Journal \in temporary
        /\ Return("journal_incomplete")
     \/ /\ journal = Absent
        /\ Journal \notin temporary \/ StatFailures
        /\ target' = Journal
        /\ pc' = "stage"
        /\ UNCHANGED <<op, request, work, discarded, result>>
  /\ UNCHANGED disk

\* write_atomically: open with trunc, write, flush.
StageTemporary ==
  /\ pc = "stage"
  /\ temporary' = temporary \union {target}
  /\ unflushed' = unflushed \union {target}
  /\ pc' = "sync"
  /\ UNCHANGED <<file, journal, exposed, op, request, work, target, discarded, result>>

\* Defect: the rename follows the flush with no fsync in between.
SkipSynchronize ==
  /\ pc = "sync"
  /\ pc' = "rename"
  /\ UNCHANGED <<disk, op, request, work, target, discarded, result>>

SynchronizeTemporary ==
  /\ pc = "sync"
  /\ unflushed' = IF Synchronises THEN unflushed \ {target} ELSE unflushed
  /\ pc' = "rename"
  /\ UNCHANGED <<file, journal, temporary, exposed, op, request, work, target,
                 discarded, result>>

\* Rename moves the bytes, synchronised or not, from the ".tmp" file to the target.
MoveTemporary ==
  /\ temporary' = temporary \ {target}
  /\ unflushed' = unflushed \ {target}
  /\ exposed' = IF target \in unflushed THEN exposed \union {target}
                                        ELSE exposed \ {target}

RenameJournal ==
  /\ pc = "rename"
  /\ target = Journal
  /\ MoveTemporary
  /\ journal' = work
  /\ \/ /\ op = "begin"
        /\ Return("none")
     \/ /\ op = "transaction"
        /\ pc' = "load"
        /\ UNCHANGED <<op, request, work, target, discarded, result>>
  /\ UNCHANGED file

\* Defect: the loop ends after its first region.
RenameOneRegion ==
  /\ pc = "rename"
  /\ target # Journal
  /\ MoveTemporary
  /\ file' = [file EXCEPT ![target] = Encoded(work[target])]
  /\ \/ /\ op \in {"write", "compact", "migrate"}
        /\ Return("none")
     \/ /\ op \in {"transaction", "commit", "recover"}
        /\ pc' = "erase"
        /\ UNCHANGED <<op, request, work, target, discarded, result>>
  /\ UNCHANGED journal

\* The loop of commit_pending_transaction goes on with the next region in key order.
RenameRegion ==
  /\ pc = "rename"
  /\ target # Journal
  /\ MoveTemporary
  /\ file' = [file EXCEPT ![target] = Encoded(work[target])]
  /\ \/ /\ op \in {"write", "compact", "migrate"}
        /\ Return("none")
     \/ /\ op \in {"transaction", "commit", "recover"}
        /\ work' = Without(work, target)
        /\ \/ /\ Named(work') = {}
              /\ pc' = "erase"
              /\ UNCHANGED target
           \/ /\ \E key \in Keys : IsFirst(key, work') /\ target' = key
              /\ pc' = "stage"
        /\ UNCHANGED <<op, request, discarded, result>>
  /\ UNCHANGED journal

\* commit_pending_transaction reads back the journal it is about to apply.
LoadJournal ==
  /\ pc = "load"
  /\ \/ /\ journal = Absent
        /\ Return("region_missing")
     \/ /\ journal = Torn
        /\ Return("checksum_mismatch")
     \/ /\ journal \in Transactions
        /\ work' = journal
        /\ \E key \in Keys : IsFirst(key, journal) /\ target' = key
        /\ pc' = "stage"
        /\ UNCHANGED <<op, request, discarded, result>>
  /\ UNCHANGED disk

\* Defect: the applied journal is left behind.
KeepJournal ==
  /\ pc = "erase"
  /\ Return("none")
  /\ UNCHANGED disk

EraseJournal ==
  /\ pc = "erase"
  /\ journal' = Absent
  /\ exposed' = exposed \ {Journal}
  /\ Return("none")
  /\ UNCHANGED <<file, temporary, unflushed>>

\* Defect: the leftover is reported but not removed.
ScanWithoutRemoving ==
  /\ pc = "scan"
  /\ discarded' = (Journal \in temporary)
  /\ pc' = "probe"
  /\ UNCHANGED <<disk, op, request, work, target, result>>

\* recover removes the temporary of a journal that was never renamed.
ScanTemporary ==
  /\ pc = "scan"
  /\ discarded' = (Journal \in temporary)
  /\ temporary' = temporary \ {Journal}
  /\ unflushed' = unflushed \ {Journal}
  /\ pc' = "probe"
  /\ UNCHANGED <<file, journal, exposed, op, request, work, target, result>>

NoJournalFound == Return(IF discarded THEN "journal_incomplete" ELSE "none")

ProbeJournal ==
  /\ pc = "probe"
  /\ \/ /\ journal = Absent
        /\ NoJournalFound
     \/ /\ journal # Absent
        /\ pc' = "load"
        /\ UNCHANGED <<op, request, work, target, discarded, result>>
  /\ UNCHANGED disk

-----------------------------------------------------------------------------
(* Faults.                                                                 *)

\* Defect: a failed rename is taken for success.
RenameErrorIgnored ==
  /\ pc \in {"rename"}
  /\ Return("none")
  /\ UNCHANGED disk

\* The call in hand fails. A failed open leaves no ".tmp" file, a failed write does.
SystemCallFails ==
  /\ pc \in {"stage", "sync", "rename", "load", "erase", "scan"}
  /\ \/ UNCHANGED <<temporary, unflushed>>
     \/ /\ pc = "stage"
        /\ temporary' = temporary \union {target}
        /\ unflushed' = unflushed \union {target}
  /\ Return(IF pc = "load" THEN "region_missing" ELSE "write_not_atomic")
  /\ UNCHANGED <<file, journal, exposed>>

\* exists(path, error) answers false when it fails: begin_transaction looks at the
\* error code, recover returns before it does.
ExistsFails ==
  /\ StatFailures
  /\ \/ /\ pc = "check"
        /\ Return("journal_incomplete")
     \/ /\ pc = "probe"
        /\ NoJournalFound
  /\ UNCHANGED disk

\* The process dies at any point. With the power, unsynchronised bytes may go too.
Crash ==
  /\ \E lost \in SUBSET exposed :
       /\ file' = [k \in Keys |-> IF k \in lost THEN Torn ELSE file[k]]
       /\ journal' = IF Journal \in lost THEN Torn ELSE journal
       /\ exposed' = exposed \ lost
  /\ unflushed' = {}
  /\ UNCHANGED temporary
  /\ Return("crashed")

-----------------------------------------------------------------------------

Start ==
  \/ \E key \in Keys, value \in Values : WriteRegion(key, value)
  \/ \E batch \in Transactions : BeginTransaction(batch) \/ WriteTransaction(batch)
  \/ CommitPendingTransaction
  \/ Recover
  \/ \E key \in Keys : CompactRegion(key) \/ MigrateRegion(key)

Continue ==
  \/ CheckJournalIsAbsent
  \/ StageTemporary
  \/ SynchronizeTemporary
  \/ RenameJournal
  \/ RenameRegion
  \/ LoadJournal
  \/ EraseJournal
  \/ ScanTemporary
  \/ ProbeJournal

Fault == SystemCallFails \/ ExistsFails \/ Crash

Next == Start \/ Continue \/ Fault

Spec == Init /\ [][Next]_vars

-----------------------------------------------------------------------------
(* What the store promises.                                                *)

Renaming == {"stage", "sync", "rename"}

RegionCalls == {"write", "compact", "migrate"}

LoggedCalls == {"transaction", "commit", "recover"}

\* The call is replaying a journal, its first regions already in place.
Applying == op \in LoggedCalls /\ pc \in Renaming \union {"erase"} /\ target # Journal

\* The journal names the region that the running write replaces.
Superseded == journal \in Transactions /\ Named(request) \intersect Named(journal) # {}

(* The inductive invariant: where a call stands determines what the journal
   and the files it has passed already hold. *)
CallsMatchSteps ==
  /\ op = "none" <=> pc = "idle"
  /\ op = "none" => target = Journal
  /\ pc = "check" => op \in {"begin", "transaction"} /\ target = Journal
  /\ pc \in {"scan", "probe"} => op = "recover"
  /\ pc = "load" => op \in LoggedCalls
  /\ pc = "erase" => op \in LoggedCalls /\ target # Journal
  /\ op \in {"begin", "transaction"} => request \in Transactions
  /\ op \in {"commit", "recover"} => Named(request) = {}

JournalIsNew ==
  /\ pc \in {"check"} \union Renaming /\ target = Journal =>
       op \in {"begin", "transaction"} /\ work = request
  /\ pc \in Renaming /\ target = Journal => journal = Absent

RegionCallsNameOne ==
  pc \in Renaming /\ op \in RegionCalls =>
    /\ target \in Keys
    /\ work = request
    /\ Named(request) = {target}
    /\ op # "write" => file[target] \in Stored /\ file[target].value = request[target]

AppliedSoFar ==
  Applying =>
    /\ journal \in Transactions
    /\ \A k \in Keys : work[k] \in {journal[k], Absent}
    /\ \A k \in Named(journal) \ Named(work) : file[k] = Encoded(journal[k])
    /\ pc # "erase" => target \in Named(work)
    /\ pc = "erase" => Named(work) = {}

LoggedIsRequested == op = "transaction" /\ (pc = "load" \/ Applying) => journal = request

LeftoverIsCleared == op = "recover" /\ pc # "scan" => Journal \notin temporary

BytesAreSynchronised ==
  Synchronises => exposed = {} /\ (pc = "rename" => target \notin unflushed)

StoreInvariant ==
  /\ CallsMatchSteps
  /\ JournalIsNew
  /\ RegionCallsNameOne
  /\ AppliedSoFar
  /\ LoggedIsRequested
  /\ LeftoverIsCleared
  /\ BytesAreSynchronised

(* ADR 0023, "arquivo temporario, sincronizacao, renomeacao": whatever fails or
   crashes, and even if the power goes, no file that could be read becomes
   unreadable. *)
NeverTears ==
  [][/\ \A k \in Keys : file'[k] = Torn => file[k] = Torn
     /\ journal' = Torn => journal = Torn]_vars

(* A logged intent leaves the directory only when every region it names holds
   what it says, through any number of crashes and failed recoveries. *)
IntentOutlivesFaults ==
  [][(journal \in Transactions /\ journal' # journal) =>
       /\ journal' = Absent
       /\ \A k \in Named(journal) : file[k] = Encoded(journal[k])]_vars

(* A call that answers "none" has stored all it was given: the regions it named,
   or for begin_transaction the journal; and write_transaction leaves no journal. *)
AcknowledgedIsStored ==
  [][op # "none" /\ op' = "none" /\ result' = "none" =>
       /\ op = "begin" => journal' = request
       /\ op # "begin" => \A k \in Named(request) : file'[k] = Encoded(request[k])
       /\ op = "transaction" => journal' = Absent]_vars

(* When recover reports success, with or without a discarded temporary, nothing
   is left that would make begin_transaction refuse the next transaction. *)
RecoverySettles ==
  [][op = "recover" /\ op' = "none" /\ result' \in {"none", "journal_incomplete"} =>
       journal' = Absent /\ Journal \notin temporary']_vars

(* The refinement: overlaid with its journal, the directory is a world that
   changes only by whole requests. A write to a region that a logged transaction
   names is not a request the store honours: recovery replaces it. *)
World ==
  [k \in Keys |->
     IF journal \in Transactions /\ k \in Named(journal) THEN journal[k]
     ELSE IF file[k] \in Stored THEN file[k].value ELSE file[k]]

Asked ==
  IF \/ op = "write" /\ ~Superseded
     \/ op \in {"begin", "transaction"} /\ pc \in {"check"} \union Renaming /\ target = Journal
  THEN request ELSE Absent

Abstract == INSTANCE AtomicRegions WITH world <- World, asked <- Asked

(* region_storage.hpp: a transaction "first becomes an intent journal, then each
   region is replaced atomically, and recovery replays the complete intent". *)
ImplementsAtomicRegions == Abstract!Spec

(* Calls run to their end, an opened root is recovered again and again (every
   configure_region_storage does), and faults stop at some point. *)
FairSpec ==
  /\ Spec
  /\ WF_vars(Continue)
  /\ SF_vars(Recover)
  /\ <>[][~Fault]_vars

(* Under FairSpec every logged transaction is applied and its journal erased. *)
LoggedIsEventuallyApplied == journal \in Transactions ~> journal = Absent

=============================================================================
