----------------------------- MODULE WorldRuntime -----------------------------
(***************************************************************************)
(* kernel/src/world_runtime.cpp: chunks that are generated and meshed by   *)
(* cooperative jobs under a budget of steps per tick, with results applied *)
(* in a declared order, and a simulation detail per chunk whose updates    *)
(* carry the logical time that passed.                                     *)
(*                                                                         *)
(* A chunk is an element of Chunks, and Chunks are ordered as the identity *)
(* of a chunk is; Place is its dimension and coordinates, which chunks of  *)
(* different generators share.  Content is a pure function of the identity *)
(* and is left out, as are the states REQUESTED and READY_FOR_MESH, which  *)
(* a chunk passes through inside one call, and the other kinds of jobs,    *)
(* which nothing schedules.                                                *)
(***************************************************************************)
EXTENDS Integers, FiniteSets, SequencesExt

CONSTANTS
  Chunks,           \* chunk identities, as integers in the order of ChunkIdentity
  Place,            \* Place[c]: where the chunk is
  JobStepsPerTick,  \* WorldRuntimeConfig.job_steps_per_tick
  GenerationSteps,  \* WorldRuntimeConfig.generation_steps
  MeshSteps,        \* WorldRuntimeConfig.mesh_steps
  TickLimit,        \* the largest tick (2^64 - 1 in the code), where the clock stops
  Simulated,        \* the chunks the game selects a simulation detail for
  LastRequest       \* bound on the ticks in which the game requests chunks

ASSUME ChunksAssumption ==
  /\ Chunks \subseteq Int /\ IsFiniteSet(Chunks)
  /\ Place \in [Chunks -> Int]
  /\ Simulated \subseteq Chunks

\* request refuses any other configuration.
ASSUME ConfigAssumption ==
  /\ JobStepsPerTick \in Nat \ {0}
  /\ GenerationSteps \in Nat \ {0} /\ MeshSteps \in Nat \ {0}
  /\ TickLimit \in Nat /\ LastRequest \in 0..TickLimit

VARIABLES
  tick,        \* tick_
  world,       \* the registered chunks, the pending jobs and next_sequence_
  simulation,  \* the SimulationLodScheduler: a detail and its last tick, per chunk
  asked        \* history: <<t, c>> when chunk c was requested at tick t

vars == <<tick, world, simulation, asked>>

ChunkStates == {"unloaded", "generating", "meshing", "resident"}

Details == {"active", "simplified", "aggregated", "unloaded"}

\* How many ticks a detail waits for; "unloaded" waits for ever.
Cadence == [active |-> 1, simplified |-> 2, aggregated |-> 8]

Jobs == [kind : {"generate", "mesh"}, chunk : Chunks, sequence : Nat \ {0},
         remaining : (1..GenerationSteps) \union (1..MeshSteps)]

NewWorld ==
  [state |-> [c \in Chunks |-> "unloaded"], pending |-> {}, nextSequence |-> 1]

Init ==
  /\ tick = 0
  /\ world = NewWorld
  /\ simulation = [c \in Chunks |-> [detail |-> "none", last |-> 0]]
  /\ asked = {}

-----------------------------------------------------------------------------
(* Requests *)

Job(kind, chunk, sequence, steps) ==
  [kind |-> kind, chunk |-> chunk, sequence |-> sequence, remaining |-> steps]

RequestIn(w, c) ==
  [w EXCEPT !.state[c] = "generating",
            !.pending = @ \union {Job("generate", c, w.nextSequence, GenerationSteps)},
            !.nextSequence = @ + 1]

\* Defect: a chunk that is known already is requested again.
RequestAgain(c) ==
  /\ tick <= LastRequest
  /\ world' = RequestIn(world, c)
  /\ asked' = asked \union {<<tick, c>>}
  /\ UNCHANGED <<tick, simulation>>

\* A chunk the registry knows, in whatever state, cannot be requested.
Request(c) ==
  /\ tick <= LastRequest
  /\ world.state[c] = "unloaded"
  /\ world' = RequestIn(world, c)
  /\ asked' = asked \union {<<tick, c>>}
  /\ UNCHANGED <<tick, simulation>>

\* set_simulation_lod: the detail's time starts at the present tick.
SetSimulationDetail(c, detail) ==
  /\ world.state[c] # "unloaded"
  /\ simulation' = [simulation EXCEPT ![c] = [detail |-> detail, last |-> tick]]
  /\ UNCHANGED <<tick, world, asked>>

-----------------------------------------------------------------------------
(* WorldRuntime::advance *)

\* Defect: results of one kind are taken in the order they were submitted in.
BeforeBySubmission(i, j) ==
  \/ i.kind = "generate" /\ j.kind = "mesh"
  \/ i.kind = j.kind /\ i.sequence < j.sequence

\* The order of pending jobs and of their results: kind, place and sequence.
Before(i, j) ==
  \/ i.kind = "generate" /\ j.kind = "mesh"
  \/ /\ i.kind = j.kind
     /\ \/ Place[i.chunk] < Place[j.chunk]
        \/ Place[i.chunk] = Place[j.chunk] /\ i.sequence < j.sequence

Rank(jobs, j) == Cardinality({i \in jobs : Before(i, j)})

\* Each of the first JobStepsPerTick jobs gets one step.
Worked(w) == {j \in w.pending : Rank(w.pending, j) < JobStepsPerTick}

Finished(w) == {j \in Worked(w) : j.remaining = 1}

Yielding(w) == {[j EXCEPT !.remaining = @ - 1] : j \in Worked(w) \ Finished(w)}

\* apply's test of the chunk a result is for.
Applies(w, j) ==
  w.state[j.chunk] = IF j.kind = "generate" THEN "generating" ELSE "meshing"

\* Results are applied in order up to the first that does not apply. (A chunk has
\* one job at a time, so no result of a commit depends on another.)
AppliedResults(w) ==
  {j \in Finished(w) : \A i \in Finished(w) : i = j \/ Before(i, j) => Applies(w, i)}

Generated(w) == {j \in AppliedResults(w) : j.kind = "generate"}

\* Defect: a generated chunk is left to be meshed by nobody.
MeshJobsForgotten(w) == {}

\* The jobs that applying the results schedules, numbered in that order.
MeshJobs(w) ==
  {Job("mesh", j.chunk, w.nextSequence + Rank(Generated(w), j), MeshSteps) :
     j \in Generated(w)}

\* A generated chunk goes on to be meshed, a meshed one is resident.
AdvanceIn(w) ==
  [state |-> [c \in Chunks |->
                IF \E j \in AppliedResults(w) : j.chunk = c
                THEN IF w.state[c] = "generating" THEN "meshing" ELSE "resident"
                ELSE w.state[c]],
   pending |-> (w.pending \ Worked(w)) \union Yielding(w) \union MeshJobs(w),
   nextSequence |-> w.nextSequence + Cardinality(Generated(w))]

TickAfter(t) == IF t = TickLimit THEN t ELSE t + 1

\* Defect: a detail whose cadence is just reached waits one tick more.
UpdatedLate(record, now) ==
  IF record.detail \in DOMAIN Cadence /\ now - record.last > Cadence[record.detail]
  THEN [record EXCEPT !.last = now] ELSE record

\* SimulationLodScheduler::advance: an update delivers the ticks since the last one.
Updated(record, now) ==
  IF record.detail \in DOMAIN Cadence /\ now - record.last >= Cadence[record.detail]
  THEN [record EXCEPT !.last = now] ELSE record

Advance ==
  /\ tick' = TickAfter(tick)
  /\ world' = AdvanceIn(world)
  /\ simulation' = [c \in Chunks |-> Updated(simulation[c], tick')]
  /\ UNCHANGED asked

Next ==
  \/ \E c \in Chunks : Request(c)
  \/ \E c \in Simulated, detail \in Details : SetSimulationDetail(c, detail)
  \/ Advance

Spec == Init /\ [][Next]_vars

\* The owner of a world advances it once per tick of the game.
FairSpec == Spec /\ WF_vars(Advance)

-----------------------------------------------------------------------------
(* Correctness *)

\* The fields stay in their types: in particular no tick passes the clock's limit
\* and no pending job has used up its steps.
TypeOK ==
  /\ tick \in 0..TickLimit
  /\ world.state \in [Chunks -> ChunkStates]
  /\ world.pending \subseteq Jobs
  /\ world.nextSequence \in Nat \ {0}
  /\ simulation \in [Chunks -> [detail : Details \union {"none"}, last : 0..TickLimit]]

JobsOf(c) == {j \in world.pending : j.chunk = c}

\* A chunk being generated has exactly one job pending, a generation; one being
\* meshed exactly one meshing; a resident or unknown chunk none. So every result
\* finds its chunk in the state it needs, and advance never reports a chunk error.
JobsMatchChunks ==
  \A c \in Chunks :
    IF world.state[c] \in {"generating", "meshing"}
    THEN \E j \in world.pending : JobsOf(c) = {j} /\ Applies(world, j)
    ELSE JobsOf(c) = {}

\* ADR 0019, "ordenado por chave deterministica": no two pending jobs compare equal,
\* so sorting them has one outcome, also for chunks of two generators in one place.
OrderIsTotal ==
  \A i, j \in world.pending : i # j => Before(i, j) \/ Before(j, i)

\* A world with the chunks of a tick requested in the order of their identities.
RequestAll(w, chunks) ==
  [state |-> [c \in Chunks |-> IF c \in chunks THEN "generating" ELSE w.state[c]],
   pending |-> w.pending \union
     {Job("generate", c, w.nextSequence + Cardinality({d \in chunks : d < c}), GenerationSteps) :
        c \in chunks},
   nextSequence |-> w.nextSequence + Cardinality(chunks)]

AskedAt(requests, t) == {c \in Chunks : <<t, c>> \in requests}

Reexecute(requests, w, t) ==
  RequestAll(IF t = 0 THEN w ELSE AdvanceIn(w), AskedAt(requests, t))

Ticks(n) == [i \in 1..n |-> i - 1]

\* The world re-executed from its history.
Reexecuted ==
  FoldLeft(LAMBDA w, t : Reexecute(asked, w, t), NewWorld, Ticks(tick + 1))

\* ADR 0019, "uma ordem diferente de submissao preserva o mesmo hash de mundo": at
\* every tick the chunks are what they would be had the requests of each tick come
\* in another order, provided that no tick requests two generators' chunks of one
\* place (and as long as the clock, by which the history is kept, has not stopped).
SubmissionOrderIsIrrelevant ==
  /\ tick < TickLimit
  /\ \A a, b \in asked : a[1] = b[1] /\ Place[a[2]] = Place[b[2]] => a = b
  => world.state = Reexecuted.state

\* Outside a tick, a simulated chunk is never as much as its cadence behind: an
\* update comes in the very tick that completes it, whatever the detail was before.
UpdatesKeepCadence ==
  \A c \in Chunks :
    simulation[c].detail \in DOMAIN Cadence =>
      tick - simulation[c].last \in 0..(Cadence[simulation[c].detail] - 1)

\* Every requested chunk becomes resident, although generations are always served
\* before meshings and lower places before higher ones.
RequestedBecomesResident ==
  \A c \in Chunks : world.state[c] = "generating" ~> world.state[c] = "resident"

=============================================================================
