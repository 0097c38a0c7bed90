# Ludivra: specifications

TLA+ modules for the parts of Ludivra where order, failure and restarts decide
whether a game is correct: the region store on disk, the deterministic runtime, the
world and the network room of the kernel; the sessions, saves and presentation of its
hosts; and the commands that validate, build, play and record a game. Each module is
translated from the source it names in `PROJECT.json` (`map` gives the lines of every
definition), is checked by TLC on small instances, and, where it says so below, is the
subject of theorems that hold for every value of its constants.

    tlc -config MCRuntime.cfg MCRuntime.tla        # a run
    tlapm RuntimeProofs.tla                        # the proofs of a module

## 1. The system

Ludivra is a game platform: a C++ kernel that runs a game's Lua rules
deterministically, hosts (browser, Electron, CLI) that drive it through a C ABI
or WASM, and tools that author and compile content.

    peers --inputs--> LoopbackRoom --submit/step--> Runtime --deltas--> RegionStorage --> disk
      ^                    |                          |  ^                                  ^
      | snapshots, deltas  |                 commands |  | handlers, timers, chart          |
      +--- RoomBridge -----+                          v  |                     storage commands
           ChunkSync             integers, timers, streams, presentation events
           Transport                                  |
                 page: handles, frames, renderer, sounds, diagnostics, checkpoint manager
                                                      |
                 Electron: storage, Steam, updates, close        CLI: validate, build, forge,
                                                                 simulate, replay, capture, status

| Component | State | Operations | What makes it correct |
|---|---|---|---|
| Region storage (`kernel/src/region_storage.cpp`) | region files, `journal.ldwj`, `.tmp` leftovers | `write_region`, `compact_region`, `migrate_region`, `begin_transaction`, `commit_pending_transaction`, `write_transaction`, `recover` | changes by whole requests across crashes and I/O errors; a logged intent is never lost; nothing readable is torn |
| Runtime kernel (`runtime.cpp`, `logical_timers.cpp`, ...) | tick, hash, integers, random positions, timers, statechart, pending inputs, events, replay frames, regions and their references | `submit_input`, `step`, `save`, `load_save`, `replay`, `verify_replay`, drains, `configure_region_storage` | replays re-execute to the same hash; a failed tick leaves no frame and loses no input; timers keep time; references are what the disk holds |
| Statechart, archive codec | active path, history; none | `dispatch`, `advance`; encode, decode | what is saved is what is loaded |
| Loopback room (`network_session.cpp`) | peers with their inputs, next host sequence, the host runtime | `connect`, `disconnect`, `reconnect`, `submit_input`, `advance`, host migration | an accepted input is committed, once, in one order, through failures and migration |
| World runtime (`world_runtime.cpp`, `world_jobs.cpp`, ...) | chunk states, jobs, a simulation detail per chunk | `request`, `set_simulation_lod`, `advance` | every requested chunk gets resident; results in one total order. Only the kernel's tests drive it: no C ABI reaches it |
| Room bridge (`room-bridge.ts`) | handshakes, tick and hash samples, reports on their way | handlers with awaits in them, `predict`, `publishSnapshot`, `advance` | divergence is reported and corrected; a peer is not taken back in time |
| Chunk sync (`chunk-sync.ts`) | a bounded queue per peer, revisions | publish, acknowledge, resend, receive | a peer ends with the newest revision of every chunk; a delta is forgotten only when applied, or refused for a damaged fingerprint |
| Transports (`webrtc-transport.ts`, `steam-transport.ts`) | channels, packets in flight | send, deliver, close | the reliable channel is in order while it is open |
| Desktop checkpoints (`desktop-checkpoint.ts`, `storage.cjs`, `main.cjs`) | save, backup, cloud copy; write chain; close requests | restore, autosave, checkpoint, close | some save is readable at all times; closing ends, and does not lose what was played |
| Desktop services (`updates.cjs`, `steam.cjs`) | pending checks; packets | check, send, poll | each check is answered once, by its first event; packets in order |
| Browser host (`main.ts`, `renderer-three`, `audio-feedback.ts`, `host-diagnostics.ts`) | frame, accumulator, visuals, templates, loops, failures | load, frame, drain, present, unload | what plays is what the last event said; no failure goes unlisted |
| Runtime handles (`runtime-web`) | handles, rooms, queues | create, step, drain, load, destroy | nothing freed is used; drains neither lose nor repeat records |
| Control session (`control-client.ts`, `process-runner.ts`) | request in flight, worker | request, response, timeout, close | an answer settles its own request; close leaves no worker |
| Scenario harness and worker (`scenario-harness.ts`, `control-worker.ts`) | runtime, timeline, captures, evidence | scenario steps, assertions, replay | evidence is of one moment and its replay verifies |
| Artifact cache (`artifact-cache.ts`, `build-runner.ts`) | outputs, entries, `latest.json`, flushes | ensure, record, watch | a hit is of the inputs its key names |
| Forges (`content-forge.ts`, `audio-forge.ts`, `asset-forge.ts`, `visual-forge.ts`) | bodies and their notes, indexes, jobs | compile, reuse, validate, approve | what is reused is current; what is approved has passed |
| Project documents (`content-compiler`, `validate.ts`, UI) | documents, pack | validate, build, play | what validates builds and plays |
| Workspace validation (`validate.ts`) | marks of a walk | visit packages and targets | a cycle is found, and nothing else is called one |
| Run evidence (`run-manifest.ts`, `project-state.ts`) | manifests, index | run, index, validate | evidence is attributed to the tree that produced it |
| Storage commands (`commands/storage.ts`) | region files, journal | recover, compact, migrate | promised regions survive stops |
| Raster capture (`raster-capture.ts`, `capture.cjs`) | bundle, window, baselines | capture, compare, update | a baseline is a frame somebody approved, not the window before it was painted |
| Lua sandbox, reference solvers, authoring, contracts, tools | | | see `PROJECT.json`, components |

How they interact: everything in the kernel is called, never threaded. A call runs to
its end before the next one; `Runtime` owns its timers, statechart, random streams and,
when configured, a `RegionStorage`; `LoopbackRoom` owns a `Runtime`. So the interleavings
in the kernel are not of threads but of *calls* (which may fail half-way and be retried)
and of *crashes* between the file-system calls of the region store. Real concurrency is
in the hosts and the CLI: handlers that wait in an await, the page and the main process
of Electron, a worker beside its harness, two flushes of a watch session, commands in two
terminals, and an author who edits meanwhile.

What is hard is listed line by line under `hazards` in `PROJECT.json`: partial failure (a
transaction, a tick, an advance or a compile that stops after some of its effects), crash
recovery (journal, checkpoints, storage commands), retries and late answers, state that a
load must reset, limits (queues, buffers, packets), state read before an await and used
after it, and unreliable delivery.

## 2. Plan

1. `AtomicRegions`, `RegionStorage`: **done**, checked and proved.
2. `RuntimeCore`, `Runtime`: **done**, checked and proved.
3. `LoopbackRoom`, over the `RuntimeCore` runtime: **done**, checked and proved.
4. `WorldRuntime`: **done**, checked and proved. Streaming windows and the entity
   partition of `regional_world.cpp` would extend it.
5. `Transport`, `ChunkSync`, `RoomBridge`, `NetworkSession`, refining `ChunkReplicas`:
   **done**, checked and proved.
6. `DesktopCheckpoint`, `DesktopServices`: **done**, checked and proved.
7. `ControlSession`, `StorageTool`, `RasterCapture`: **done**, checked and proved.
8. `RegionalRuntime`: **done**, checked and proved.
9. `GameHost` with `SceneRenderer`, `AudioFeedback`, `HostDiagnostics`; `RuntimeHandles`;
   `ArtifactCache`, `ProjectForges`, `VisualForge`; `ScenarioWorker`; `WorkspaceGraph`;
   `RunEvidence`; `ProjectDocuments` with `ContentCompiler` and `UserInterface`: **done**,
   checked and proved. All composed in `GameProject`.

Every safety property a run checks is a theorem. Next: the hierarchy of a statechart
(`RuntimeCore` has one function from an active state and an input to another) and gameplay
reloaded between two frames.

## 3. Modules

| Module | Models | State / actions |
|---|---|---|
| `AtomicRegions` | what `region_storage.hpp` promises: a map from regions to values that changes by one whole request | `world`, `asked`; `Ask`, `Apply`, `Drop` |
| `RegionStorage` | `region_storage.cpp`, one step per system call that changes the directory | files, journal, `.tmp` files and which bytes are synchronised; the call in progress. Calls (`WriteRegion`, ...), their steps (`StageTemporary`, `RenameJournal`, ...), faults (`SystemCallFails`, `ExistsFails`, `Crash`) |
| `RuntimeCore` | `commit_tick`, `apply_commands`, timers, chart dispatch, `save`, `load_save`, `verify_replay` as functions from a runtime to an error and a runtime | a record: `tick`, `hash`, `integers`, `draws`, `timers`, `chart`, `pending`, `events`, `nextSequence`, `initial`, `frames` |
| `Runtime` | one runtime and its host | `SubmitInput`, `Step`, `DrainEvents`, `Save`, `LoadSave`, `Restart` |
| `RegionalRuntime` | the regions of a runtime: `configure_region_storage`, `restore_region_references`, `apply_region_deltas`, and the halves of a tick that call it | files, journal, loaded regions, references, deltas for the host; `Configure`, `FireTimers`, `HandleInputs`, `SaveRegions`, `LoadRegions`, `EndProcess` |
| `LoopbackRoom` | `network_session.cpp` over `RuntimeCore` | `Connect`, `Disconnect`, `Reconnect`, `SubmitInput`, `AdvanceRoom`, `PrepareHostMigration`, `AdoptHostMigration` |
| `WorldRuntime` | `world_runtime.cpp` with its job queue and chunk states | `Request`, `SetSimulationDetail`, `Advance` |
| `Transport` | WebRTC and Steam carriers | one queue per direction, a bag of inputs; `Open`, `Close`, losses |
| `ChunkReplicas` | what chunk sync promises | `Commit`, one replica moving |
| `ChunkSync` | `HostedChunkSync`, `RemoteChunkSync` | `Publish`, `Resend`, acknowledgements, `RefuseDelta`, `ApplyDelta`, `StartApply`, `EndApply` |
| `RoomBridge` | `HostedRoomBridge`, `RemoteRoomClientBridge`, handlers split where they wait | `Advance`, `ReceiveHandshake`, `ReceiveInput`, `ReceiveHashReport`, `PublishSnapshot`, `Predict`, `LoadSnapshot`, `LoadFails`, `ReportMismatch`, `LoadAfterReport`, `ReportFails` |
| `NetworkSession` | the two over one carrier per peer | `HostReceives`, `PeerReceives` |
| `DesktopCheckpoint` | page, main process and disk, one file operation per step | `RestoreBest`, `Autosave`, `BeginCheckpoint`, `WriteStep`, `RequestClose`, `Timeout`, `ProcessDies`, `PowerLoss` |
| `DesktopServices` | update checks; Steam packets | `CheckForUpdates`, `UpdaterSays`, `CheckTimesOut`; `SteamSend`, `SteamRead` |
| `HostDiagnostics`, `AudioFeedback`, `SceneRenderer`, `GameHost` | the page that plays a game | frames from `StartFrame` to `EndFrame`, arrivals, `Unload` |
| `RuntimeHandles` | the objects of `runtime-web` | `CreateRuntime`, `StepRuntime`, `Drain`, `LoadArchive`, `CreateNetworkRoom`, `DestroyRuntime` |
| `ArtifactCache` | cache and watch sessions, with edits meanwhile, and artefacts a bundle embeds that no key names | `Edit`, `Recook`, `Start`, `Ensure`, `ToolEnds`, `Record`, `Stop` |
| `ProjectForges`, `VisualForge` | packs, sounds, models; characters and their approval | `Forge`, `WriteBody`, `WriteNote`, `StopForge`; `BeginCompile`, `ValidateVisual`, `FinalizeVisual` |
| `ControlSession` | a client, its process runner and the worker | `Ask`, `ReceiveResponse`, `RequestTimesOut`, `Escalate`, `WorkerExits` |
| `ScenarioWorker` | what the requests of a scenario do | `LoadScenario`, `PlayStep`, `InspectAtEnd`, `JudgeAssertion`, `WriteEvidence`, `ReplayEvidence` |
| `StorageTool` | `storage recover`, `compact`, `migrate` | `BeginRecover`, `BeginRewrite`, `WriteRegion`, `StopTool` |
| `ContentCompiler`, `UserInterface` | the rules of documents, as operators | |
| `ProjectDocuments` | the commands that read them | `Author`, `Validate`, `BuildContent`, `Play` |
| `WorkspaceGraph` | the walks of `validate --scope engine` | `Visit` and its return |
| `RunEvidence` | manifests, index and fingerprints | `StartCommand`, `LookAtWorktree`, `WriteIndex`, `CompareIndex`, `WriteManifest`, `Commit`, `Checkout` |
| `RasterCapture` | `game capture --raster` | `BuildBundle`, `Inspect`, `TakeFrame`, `JudgeFrame`, `WriteBaseline` |
| `GameProject` | the parts around the kernel, one beside the other | `subject` chooses the part a behaviour is about |
| `MC*` | instances for TLC | values of constants, scripts; a sound project and ones that differ from it in one place (`MCProjects`), 78 workspaces |
| `RuntimeCoreProofs` | lemmas about a runtime's record: what its handlers, commands and ticks keep | |
| `RuntimeProofs` | theorems about `Runtime` | |
| `KernelProofs` | theorems about `LoopbackRoom`, on top of the lemmas about its host's runtime, and about `WorldRuntime` | |
| `NetworkSessionProofs` | theorems about `NetworkSession` | |
| `HostProofs` | theorems about `RegionStorage`, `RegionalRuntime`, `GameHost`, `RuntimeHandles`, `DesktopCheckpoint`, `DesktopServices` | |
| `BuildProofs` | theorems about `ArtifactCache`, `ProjectForges`, `VisualForge`, `WorkspaceGraph`, `ProjectDocuments` | |
| `CommandLineProofs` | theorems about `ControlSession`, `ScenarioWorker`, `RunEvidence`, `StorageTool`, `RasterCapture` | |
| `FoldLemmas` | what a fold over a sequence comes to, for any operator | |

Why `RuntimeCore` has no variables: `verify_replay` runs a *second* `Runtime`, and
a room owns one. As functions, the same definition of a tick serves the runtime,
the replay that judges it, and the room.

Why one `GameProject`: its parts meet in files and messages, and each module describes
the meeting from its own side (the pack of `ProjectForges` is that of `ProjectDocuments`,
the answers of `ControlSession` those of `ScenarioWorker`). They write nothing in common,
so a behaviour is about one of them and their states add up instead of multiplying.
Its fairness and its deadlock setting are those of its parts.

Definitions whose comment starts with "Defect:" are not the code: each is one
plausible bug in the definition next to it, and each property is known to fail
when that bug takes the definition's place (`mutants` in `PROJECT.json`).

### What is abstracted

* A region record is a format and a value, a damaged one is `Torn`. A directory
  entry survives a crash once renamed or removed; bytes survive a power loss only
  if they were synchronised. Argument checks that refuse a call before it touches
  the disk are left out; so are failures to create the root directory, which end a
  call the same way as the failures of its first step.
* `state_hash_` is the sequence of what was mixed into it, so equal hashes mean
  equal histories: collisions are not modelled. In `RegionalRuntime` the hash of a
  region is the region; in the forges and caches a key is the version it hashes.
* A random stream is the number of draws made from it; a handler sees it as a coin
  that depends on that position. One stream stands for all.
* Lua is external. Its handlers are constants: functions of what the sandbox lets a
  script read, to draws, commands and success. The instruction budget, an error in
  the script and an invalid command are all "a handler that fails".
* The statechart replies to an event with a move, a stay or a failure; how it
  selects a transition is for a module of its own. Its traces are left out.
* `RuntimeCore` has no region storage: a region delta is refused, one of the failing
  commands. `RegionalRuntime` has the regions and of the rest of a tick only whether
  its halves fail; its store is what `AtomicRegions` promises plus the journal that a
  failed transaction leaves.
* A chunk's content is a function of its identity and is left out; its place is
  one number that orders like dimension and coordinates. Chunk states that last no
  longer than a call, and those that nobody enters, are left out.
* In the room, ids of clients are positions in `clients_`, which never shrinks;
  admission errors that change nothing are left out. In the bridge, the room has one
  state per tick, so a peer's hash is right or wrong.
* A packet is its kind and the fields its receiver decides upon; the content of a chunk
  is its revision.
* A desktop save is its tick and format; a picture is the version of the game it
  shows and its scale; a document is its identifiers and references, with its schema a
  Boolean; text is the key it is looked up by.

## 4. Runs

| Run | Instance | What it shows |
|---|---|---|
| `region_storage` | 2 regions, 2 contents, fsync, stat failures | Nothing readable is torn; a logged intent survives; an acknowledged call is stored; the store implements `AtomicRegions`. The initial states are *all* directories: legacy and damaged records, leftovers of both kinds |
| `region_recovery` | 2 regions, 1 content, fair | When faults stop, every logged transaction is applied; a recovery that reports success leaves nothing that would refuse the next transaction |
| `region_stat_failure` | as above, stat may fail | Violated: finding 1 |
| `region_no_fsync` | no fsync | Violated: finding 2 |
| `runtime` | 3 actions, 2 timers, 2 chart states, 3 ticks, 2 failures, 1 save | Clean replays verify, hashes determine saved state, timers keep time, failed ticks keep their inputs |
| `runtime_failed_tick` | the same | Violated: finding 3 |
| `room` | 2 peers, 2 actions, 3 submissions, 2 ticks, 2 failures | No accepted input is lost, clean rooms commit each once, envelopes leave nothing behind |
| `room_retry` | the same | Violated: finding 4 |
| `world` | 3 chunks, two of two generators in one place, 2 steps per tick, 10 ticks, fair | No chunk is left without its job, the order of requests is irrelevant, simulated chunks keep their cadence, every requested chunk becomes resident |
| `network` | 1 peer, 2 chunks with 2 commits, queue of 1, 3 ticks, 2 faults, fair; games that wait in apply or not | A revision leaves the queue only when applied, or refused for a fingerprint that alone was damaged; replicas implement `ChunkReplicas`; loads go forward except where a handler waited; divergence is corrected though loads may fail; pending deltas are settled |
| `project` | one subject per behaviour, see below | One property per part: saves stay readable, closed games are saved and closing ends; loops follow events, failures are listed; handles and services; reuse is current in the cache, the forges and the visual forge; control sessions settle; storage promises are kept; clean documents build and play; cycles are found exactly; evidence is of this worktree and of one moment; baselines are approved; region references hold |
| `desktop_restore` | 1 tick, 1 autosave, 1 close | Violated: finding 5 |

Why these bounds are enough to be interesting. Two regions are the least a
transaction can tear, and two contents the least that tells an old region from a
new one; the region runs bound nothing else. In `runtime`, the script of
`MCRuntime.tla` reaches every branch of a tick: an integer that overflows
(-1..1), a presentation buffer (2) and an input queue (2) that fill up, timers of
one and two ticks that re-arm one another, a draw whose outcome changes what a
timer does, a chart that moves on an event and on elapsed time, and failing
handlers before and after draws. Three ticks let a timer of two ticks expire and
the tick after it be replayed; two failures give a retry that fails again. In
`room`, a host queue (2) smaller than what two peers can submit makes `advance`
fail half-way, and one presentation event per move makes a tick fail after its
inputs were submitted. In `world`, three chunks with two steps a tick make jobs wait,
and finish in the same tick or apart; ten ticks are more than the longest cadence (8).
In `network`, a queue of one makes publishing refuse and supersede, two commits make a
delta of an older revision late, two packets in flight let one be lost behind another,
two faults close a carrier and damage what follows, and a history of two ticks makes
samples expire. Peers share nothing but the queue limits, which each has for itself.

In `project`: one checkpoint and one request have every race of the chain, the timeout and
the window (the inductive invariant was checked with two requests as well); two sounds, one
of them a loop that is fetched; frames that leave a tick to the next one, are timed and hear
of host events, without sound events or visuals; two visuals of one asset; two rooms of a
runtime with its three queues; two families, one built from the other and embedding artefacts
outside its key, with two flushes that overlap; three revisions, so that a revert meets what
an earlier one left; three requests, so that a late answer meets its successor; two terminals
with three commands and one change of the worktree; three versions and two captures, of two
scales; two regions with two chunks and two generators. The projects and workspaces are
enumerated: each differs from a sound one where a rule has something to find, in the order of
declarations too, and every dependency relation of three packages is among the workspaces.

Bounds on behaviours are constants with `Max` in their names, `LastRequest`, `LongestGap`
and `RegionCount`. The others (`TickLimit`, `MaxPendingInputs`, `MaxPresentationEvents`,
`MaxInteger`, `MaxClients`, `MaxClientInputs`, `HistoryTicks`, `MaxPendingDeltas`,
`MaximumRecorded`, `TicksPerFrame`, `HeadlessWidth`, `HeadlessButton`) are limits and
sizes of the code, made small. Variables commented "history" are read by no action of
the code.

The deadlock check is off in `project` and `desktop_restore` alone: a build, a capture
and a session end, and bounded edits and commands run out.

### Fairness

`FairSpec` of `RegionStorage` assumes that

* a call that was started goes on (`WF_vars(Continue)`): the calls are synchronous;
* an opened root is recovered again and again (`SF_vars(Recover)`): `recover` is
  called by every writable `configure_region_storage`, which a game runs when it
  starts; strong, since it is only enabled between calls;
* faults stop at some point: no recovery can end if the power goes during each.

`WorldRuntime` assumes `WF_vars(Advance)`: the owner of a world advances it once per
tick. That requests end bounds the wait of a chunk: generations go before meshings.

`NetworkSession` assumes that packets of an open carrier arrive and awaited promises
settle (weak: they stay enabled), that a peer opens its carrier again and the host
publishes a snapshot when it can, which a game does each tick, and that it calls
`resend` again and again (strong: a queue at its limit disables it for a while).

`DesktopFairness` is that a timer fires (`Timeout`) and that an approved window closes
(`Quit`): nothing else has to happen for closing to end.

Nothing forces a game to start any other call. The runtime and the room have no
liveness property: whether they go on depends on the game.

## 5. What is proved

`HostProofs` about the region store, for any set of integer keys and any values, for any starting
directory:

* `TypeCorrect`, `StoreInvariantHolds`: `TypeOK /\ StoreInvariant` is inductive.
  `StoreInvariant` is needed because none of the promises is inductive: that erasing
  the journal is safe depends on how far the loop over its regions has come. It
  says, for each program counter, what the call may assume: a call about to rename
  a journal found none (`JournalIsNew`), a call replaying one has in place every
  region it has passed (`AppliedSoFar`), bytes are synchronised before the rename
  (`BytesAreSynchronised`).
* `FilesNeverTear`, `LoggedIntentsSurvive`, assuming `Synchronises`: without fsync
  the first is false (finding 2), and so is the second.
* `AcknowledgementsAreStored`: no assumption.
* `RecoveryLeavesNothing`, assuming `~StatFailures`: otherwise false (finding 1).
* `RefinesAtomicRegions`, assuming `Synchronises`: under the mapping `World` (files
  overlaid with the journal) and `Asked` (the request that has not reached its
  commit point), the rename of the journal is `Apply`, replaying and erasing it
  stutters, and an error or a crash before the rename is `Drop`. A write to a
  region that a logged transaction names is not a request of the abstract store:
  recovery replaces it.

`RuntimeProofs` and `RuntimeCoreProofs`, for every script, chart, limit and pattern of failures:

* `FramesAlwaysCountTicks`: every replay has one frame per tick since the state it
  starts from. The inductive invariant, `ReplayInvariant`, adds that the runtime and
  the archive a host keeps are records with the fields the code gives them.
* `FailedTicksKeepInputs`: an error, wherever it comes from, counts no tick, records
  no frame, restores the chart and keeps the pending inputs.
* `RuntimeTypeCorrect`, `TimersKeepTheirTime`, `HashesDetermineState`, `CleanReplaysVerify`,
  assuming of handlers only that they leave in their buffer what their calls can
  (`HandlersAssumption`). `RuntimeInvariant` follows every handler and command through the
  folds of a tick: the fields stay in their ranges (`GoodRuntime`, `GoodSave`); as long as no
  step failed, the marks of a hash tell the integers and what each timer has left (`Told`),
  its last mark the rest (`EndsIn`), and executing the frames again gives this hash
  (`Executes`). That the second execution takes each
  tick as the first did is a simulation: two runtimes a save does not tell apart
  (`Alike`), the second with fewer events waiting, take a tick alike (`TickAlike`),
  because sorting what is sorted changes nothing (`RankedIsOrdered`).

`KernelProofs` about the room, for any actions, clients, limits, gameplay and failures:

* `RoomIsSound`: the inductive `RoomInvariant`. Each accepted input is counted where it is
  (`Balanced`): in the replay of the host, which is counted by what its hash has mixed in, in
  the host's queue, in its peer's, or among the discarded. The host's committed and pending
  inputs are in the order of their sequences, below the next one (`Sequenced`); without a
  failed advance the host's queue is empty between calls; an envelope satisfies all of it with
  nothing queued (`GoodEnvelope`). The step that matters is `AdvanceRoom`: the queues are
  flattened to one sequence, sorted and handed over as far as there is room, and that
  neither changes how often an action occurs is proved from bijections (the queues of a room
  and their sorted sequence are the same set of places). What a tick commits is exactly the
  host's pending inputs, by the lemmas about `CommitTick` in `RuntimeCoreProofs`.
* `InputsAreNeverLost`, `CleanRoomsCommitOnce`, `EnvelopesAreSettled` and `RoomTypeCorrect`
  follow from it.

`KernelProofs` about the world, for any finite set of chunks, in any places, any budget and
any lengths of jobs:

* `JobsAlwaysMatchChunks`: a chunk being generated or meshed has one job and others
  have none. The inductive invariant, `WorldInvariant`, adds that sequences are
  distinct and below `nextSequence`, without which two jobs of one place might share a
  rank and the meshings of one tick a sequence.
* `OrderIsAlwaysTotal`, `WorldTypeCorrect`, `UpdatesAlwaysKeepCadence`: from the same
  invariant.
* `SubmissionOrderNeverMatters`: what happened is a re-execution of its history with the
  requests of each tick in the order of identities. By a simulation: two worlds with the
  same jobs in the same order, whatever their sequences (`Similar`), do the same in a tick.
  Requests keep them so: jobs of different places are told apart by kind and place, and two
  of one place, which the proviso keeps out of one tick's requests, by the ticks they were
  requested in.
  `OrderInvariant` relates the world to the re-execution of `asked`; `RequestedInOrder`
  says that a set of chunks is requested in the order of identities, whatever it is.

`NetworkSessionProofs`, for any peers, chunks, queue limits and faults:

* `SettledIsAlwaysApplied`: what was published and is no longer pending was applied, or was
  refused though it came whole, for the fingerprint beside it (`misread`). Not inductive by
  itself: an acknowledgement on its way must be about something applied or misread
  (`Acknowledged`), a delta on its way about something offered, no older than the replica
  when applying is in order (`InFlight`), and what is pending is what was offered last
  (`QueuesAreOffers`).
* `LoadsAlwaysGoForward`: a step takes a peer back behind what it was restored to only when a
  handler that waited ends. `BridgeInvariant` says why: the snapshots on their way come in
  the order of their ticks, none before what the peer was restored to, nor before the ticks
  its waiting handlers hold (`Behind`), none beyond the host's. Carriers that close leave
  nothing on its way, and a damaged packet is a delta (`SessionInvariant`).
* `RefinesChunkReplicas`: `[Next]_vars` implies a step of `ChunkReplicas` or a stutter,
  from the same invariant, which bounds what a delta can say.

`FoldLemmas`, for any operator (`Op`, a constant of the module): `FoldOfNothing`,
`FoldOfMore` (the fold of `Append(seq, e)` is one more step), `FoldStaysIn` (what every step
keeps, the fold keeps), `FoldIsProgress` (the fold is the last of the values the steps go
through), `FoldOfIdle`. This is the induction over data the other modules need: a theorem
about any operator cannot be used by the provers, a module instantiated with one can.

`HostProofs` about the hosts:

* `SavesStayReadable` and `ClosedGamesAreSaved`, for any numbers of ticks, checkpoints and
  requests, assuming `MaxSavedTick >= 1`. The primary is a save to keep before and after the
  rename, and the archive that replaces it is one as soon as the service was asked to write
  it; the inductive `SavesAreKept` says so for each point the writer can be at, with the
  backup from the moment it is copied. An archive is made when its request is at the head of
  the chain, of a game that only goes on while its page lives, and a request is answered
  after its write has ended.
* `LoopsStayTrue`, for any sounds: a loop plays at most once and, once settled, exactly when
  its last event was a play. `SoundsInvariant` adds that an active loop has one source and no
  other has any, that nothing is known of a loop while files load or the context is locked,
  and that nothing stays deferred afterwards.
* `FailuresStayListed`, for any length of the list: what a player misses has its diagnostic,
  or the list is full. `ListedInvariant` has one part per cause (`EndIsShown`,
  `SilenceIsShown`, `MethodIsShown`, `AssetsAreShown`); that every step shows more
  (`ShowsMore`) is what they rest on, since an asset may fail long after its visual came.
* `HandlesStaySound`, for any rooms and queues: memory holds the runtime and its live rooms
  (`MemoryIsTrue`); what was drained and what waits are the consecutive events since the
  last load (`Drainable`).
* `ReferencesStayTrue`, for any places, pieces, payloads and generators. `RegionsInvariant`
  adds that regions loaded are regions referred to, that a journal is of touched regions
  only, and that while a tick goes on its reports are about regions referred to. The attempt
  to prove `ReferencesHold` as it was first stated failed for a reason: deltas reported and
  not drained outlive a `configure_region_storage` that drops or re-reads references, and
  then tell of regions that are no longer what the runtime refers to. The property says now
  what is true, and the run has a second payload to tell the two apart.
* `ServicesAnswer`, for any numbers of checks and packets: until a check is answered it has
  learned nothing and can still be, by an event and by its timeout (`ChecksAreTrue`); what
  was received and what is in the queue decode to what arrived (`InboxIsTrue`).

`BuildProofs`:

* `ReuseIsCurrent`, for any families, dependencies, flushes and revisions: an entry whose
  build nothing disturbed has outputs of its key (`EntriesAreTrue`), because such a build
  is alone and the outputs in its key are those it runs on (`BuildsAreTrue`). It says nothing
  of artefacts outside the keys, which `Recook` changes and outputs embed.
* `ForgesStayCurrent`: a note that can be read, where no run writes, is about the body beside
  it and in the place of its key (`NotesAreTrue`), through stops as well. This holds as long
  as nothing is `spoiled`: a stop that left a readable note beside what it is not about, and
  a model edited while it was cooked, are the exceptions the property names.
* `WhatIsApprovedHasPassed`: the character a command is about is there, and what a job was
  judged by is recorded with the quality it had (`ApprovedIsJudged`).
* `WhatIsCleanBuilds`, for any workspaces: a cycle is reported exactly when some packages
  (or targets) have none that could come first. `Walks` says of the depth-first walk that
  calls are nested along dependencies, that what is visited needs nothing unvisited, and that
  of what is visited somebody can always come first.
* `ValidDocumentsAreSound`, for any list of projects read as the readers of the code read
  them (`WellRead`, in `ProjectsAssumption`: lists are lists, a prefab has an identifier, a
  project without charts has no chart). The commands are simple: what each found is what it
  finds in the project it looked at (`DocumentsInvariant`). The rest is about what they
  compute. Graphs without faults are trees from their roots (`TreesAreGrown`): where no cycle
  was found the way up from a node ends after at most as many steps as there are nodes, and
  back down each of these steps is a generation of the root. What compiles is kept in the
  pack as it was (`CompiledGraphsAreSound`), what validates builds without faults
  (`ValidProjectsBuild`) and plays (`ValidProjectsPlay`), and rendering has one node for each
  state and input with the actions in a ring (`RenderingIsFaithful`).

`CommandLineProofs`:

* `EverySessionIsSettled`: every answer on its way is that of the request it names
  (`Answered`), and a worker that was seen to exit is gone, so what a client takes off
  `pending` by its identifier is the request that was answered, however late.
* `EvidenceStaysOfOneMoment`, for any steps, ticks and conditions: a worker's timeline,
  frames, projection and counts tell of the same ticks (`IsTold`), its state too as long as
  no tick failed under a step (a failing tick ends the scenario: `FailingLeaves`), an
  inspection is of a worker at one moment, and as long as there are no diagnostics it is of
  the end of the scenario. That its archive verifies is by induction over the frames.
* `EvidenceIsOfThisWorktree`, for any terminals, commands and commits: a manifest is of the
  worktree it was recorded on (`RunsAreTrue`); an index that was made for some worktree stays
  right about it, whatever is recorded or committed later (`IndexIsOf`), and worktrees with
  the same fingerprints are the same (`SameFingerprintsSameTree`).
* `EveryPromiseIsKept`: while a recovery runs, what it has passed is in its file and what it
  has left is in the journal, and no other command runs over a journal.
* `EveryBaselineIsApproved`: two frames that agree are what the page drew, or both missed the
  repaint and are the blank window (`WindowIsFramed`), and one about to be written is of the
  scale that was asked for, in a capture that asked for the update and was found valid.

Folds stay opaque where what they compute is irrelevant to the fields a theorem is
about, and lemmas say which fields each part replaces. The theorems rest on the
`ASSUME`s of the modules (evaluated by TLC in the runs), on the definitions and on the
library's facts about sequences, finite sets and well-founded relations.

Only model-checked: all liveness (fairness and ENABLED are outside the prover's reach):
`LoggedIsEventuallyApplied`, `RequestedBecomesResident`, `DivergenceIsCorrected`,
`PendingIsSettled` and `ClosingEnds`.

## 6. Findings

1. `recover` asks `exists(journal, error)` and returns success when it answers false
   before it looks at `error` (`region_storage.cpp:441`): a failing stat leaves the
   journal where it is under an answer that reports none.
2. Outside macOS and Linux `synchronize_file` does nothing
   (`region_storage.cpp:321`), while ADR 0023 promises synchronisation before the
   rename and CI builds Windows: a power loss can leave a renamed region torn.
3. A tick that fails has already advanced timers, applied their handlers' commands,
   made its draws and mixed its transitions (`runtime.cpp:431`); `architecture.md`
   says such a tick is discarded whole.
4. `advance` submits the ordered inputs and, when the step fails, leaves them with
   the peers too (`network_session.cpp:120`): a retry commits them twice, while the
   test at `kernel_test.cpp:954` says the host commits them once.
5. `desktop-checkpoint.ts:26` takes only archives of version 1 for candidates and the
   kernel writes version 6 (`state_archive.cpp:15`): a game never restores its own
   saves, begins at tick 0, and its autosaves replace first the save, then the backup.

The passing properties are stated around the findings: `CleanReplayVerifies`,
`HashDeterminesState`, `TimersKeepTime` and `CleanRoomCommitsOnce` speak of sessions
without a failed step, `EvidenceIsOfOneMoment` of state and archive only where no tick failed
under a step of the scenario (finding 3), and `SavedIsReadable` of files a reader could read,
not of what `restore` chooses.

### Not findings, but worth knowing

Kernel.

* ADR 0019 says that a different order of submission keeps the world's hash;
  `SubmissionOrderIsIrrelevant` needs the proviso that no tick requests two generators'
  chunks of one place. A tick whose clock has stopped at its limit still runs jobs but
  delivers no simulation updates; choosing a chunk's detail anew restarts its clock.
* An input whose handler always fails stays pending for ever (`runtime.cpp:550`), and a
  full presentation buffer fails the tick (`:667`). `verify_replay` re-executes all frames
  with the last gameplay loaded (`:87`). A failed tick clears the region deltas of the
  tick before it, drained or not (`:507`).
* A save refers to regions by content, so once a later tick writes one of them the save
  is refused (`region_identity_mismatch`), after a crash too, although ADR 0023 says that
  at most the last transaction is lost; the replay of a session that started from
  references and wrote one of those regions never verifies. Timers' deltas stay on disk
  and in the references when the tick then fails. A save made while a transaction waits
  for `recover` may be refused after it. Configuring swallows `journal_incomplete`,
  though ADR 0023 forbids silent recovery, and drops references from later saves.

Network.

* Records that arrive out of order are `NETWORK_PAYLOAD_INVALID`, and a mismatch is then
  neither reported nor corrected (`room-bridge.ts:429`). Handlers that wait repeat the
  report; a `send` that rejects prevents the load.
* A delta of which only the fingerprint was damaged is refused, but acknowledged with the
  fingerprint recomputed from what arrived, which is the host's: the host forgets it as if it
  were applied (`chunk-sync.ts:293`, `:270`), though ADR 0038:39 has an acknowledgement
  follow the apply.
* A peer whose runtime rejects an archive stays where it is until the next snapshot
  (`room-bridge.ts:433`); one that rejects them all is never corrected, which the bound on
  faults excludes.
* A restarted peer with the same id is never sent what its predecessor acknowledged, and
  late joiners get no earlier deltas. One peer's full queue refuses `publish` for all.
  `advance` rejects when one carrier is closed although the tick was committed. Steam
  carries reliable packets of 1 MiB, a snapshot may have 4 MiB; a packet larger than its
  reader asks for stays at the head of the queue and blocks those behind it.

Desktop.

* When writing a restored candidate back fails, an older one is loaded
  (`desktop-checkpoint.ts:58`). The backup is copied in place. A checkpoint that fails
  closes the window as well, and requests made before restore has ended are lost to the
  2-second timeout.
* An update error after its 30 seconds has no listener and is thrown in the main process;
  a `checkForUpdates` that throws leaves listeners and timer behind.

Page.

* A loop asked for while its sound loads starts when loading ends, even if stopped
  meanwhile (`audio-feedback.ts:90`). The list of failures is capped at 200 and has only the
  first failed sound; an unknown effect is only a console warning. Templates that failed
  are cached for good; `setColor` before the asset arrives ends the loop of frames.
* The trace has what was asked even when the renderer refused it.

Command line.

* Content: `simulate` and `replay` ignore the diagnostics of the pack they build; a build
  whose scene graph fails replaces the good pack by one without a graph; a build does not
  check documents against their schemas (`README.md:395` says "compiles the validated
  JSONC"). Validate does not compile charts, sees no clash of content and scene ids, and
  accepts policies the headless renderer then refuses (a first breakpoint wider than 1280,
  touch targets above 56).
* Validate of the engine: an unparsable `package.json` loses every other diagnostic.
* Forges: stopped between pack and note, then reverted, the wrong pack is reused
  (`content-forge.ts:184`); a torn sound is reused when its note was written; an asset is
  copied later than it was hashed; a torn manifest breaks even `--force`.
* Visual forge: `validate` and `finalize` judge the entry in the index, so after a failed
  recompile a job can be approved under the key of a compile that failed (`:598`, `:916`).
* Cache: the key of the web bundle names the project's sources and two indexes
  (`artifact-cache.ts:259`), but the bundle also embeds `.ludivra/assets-index.json` with the
  cooked assets and `.ludivra/content-pack.json` (`vite.config.ts:135`, `:209`): when only
  these change, an undisturbed hit reuses a bundle that embeds the earlier ones, though
  ADR 0013:47 says deleting the cache changes only how long a build takes.
* Cache: inputs edited during a build (`artifact-cache.ts:351`), flushes that overlap
  (`build-runner.ts:170`), and a dependent built against half-built outputs record under a
  key what is not of that key; a torn entry throws until it is cleared.
* Control: `replay` ignores the answer to `load_scenario`; writing to a worker that died is
  an uncaught EPIPE until its exit is seen; the evidence of a failing scenario may have
  metrics of another moment than its inspection, and after a tick that failed behind its
  timers a state that is ahead of view and timeline and an archive that does not verify.
* Evidence: fingerprints are taken when a run ends; `game status` writes a passed manifest
  itself, so that a second `status` after a failed run names that one; a project outside
  Git has null fingerprints that always match.
* Capture: two pictures in a row that miss the repaint, which is only asked for and given
  150 ms, agree, and the blank window is approved (`capture.cjs:66`), though the comment
  there says that two identical frames prove the raster settled.
* Capture: the page is inspected before it is photographed; a torn baseline cannot be
  replaced by `--update-baseline`; the bundle is a directory of the engine, which another
  project's build replaces; ADR 0015:59 puts the effective profile and method into the
  path, the code the requested profile and a constant.

Where one of these touches a property of `project`, the property names the exception in
its statement and comment, as `ForgedIsCurrent` does with the note that a stop leaves beside a
body it is not about.

## 7. Not modelled

* The streaming windows and the entity partition of the world, the statechart's own
  algorithm, gameplay reloaded between frames, and content packs in a runtime.
* A snapshot whose archive loads to another tick or hash than its header says
  (`room-bridge.ts:439`), and packets other than deltas that are damaged.
* In the hosts: errors `main.ts` throws at the start, a record of the kernel the page does
  not understand while a frame drains (`runtime-web/src/index.ts:854`, `:878`; what the
  handles do then is in `RuntimeHandles`), capture mode, the suspended audio context,
  achievements and overlay of Steam, WebRTC signalling, re-activation on macOS, the smoke
  mode.
* In the CLI: `runProcess` and the dev server, options and reports, layout and pixels.
* The byte format of archives and packs, the numeric reference solvers and the world
  generator, visual and audio authoring, generated bindings, schemas and examples: they
  hold no state that outlives a call, or only transform data. A model of them would be
  their arithmetic again.
* Two commands of the forges, the capture or the storage tool at once on one project:
  nothing in the code keeps them apart, and their modules are about one at a time.
