------------------------------- MODULE Runtime -------------------------------
(***************************************************************************)
(* One Runtime behind the C ABI, and the host that drives it: it submits   *)
(* inputs, steps, drains presentation events, keeps one save, loads it,    *)
(* and may lose its process and start again.  Every call runs to its end   *)
(* before the next one, so each is one action.                             *)
(*                                                                         *)
(* The state of the runtime and what a call does to it are in RuntimeCore. *)
(***************************************************************************)
EXTENDS RuntimeCore

CONSTANTS
  NoSave,        \* the host has kept no save yet
  MaxTick,       \* bound on the ticks of a behaviour
  MaxFaults,     \* bound on the steps that return an error
  MaxSequence,   \* bound on the sequences the host gives to inputs
  MaxEvents      \* bound on the presentation events numbered before a load

ASSUME BoundsAssumption ==
  /\ MaxTick \in Nat /\ MaxFaults \in Nat /\ MaxSequence \in Nat \ {0}
  /\ MaxEvents \in Nat

VARIABLES
  runtime,   \* the Runtime object
  saved,     \* the last archive the host kept, or NoSave
  result,    \* what the last step returned
  faults     \* history: failed steps since the replay began, and in all of this
             \* timeline; a save carries the count of the timeline it was taken in

vars == <<runtime, saved, result, faults>>

Inputs == [sequence : 1..MaxSequence, action : Actions]

Init ==
  /\ runtime = NewRuntime
  /\ saved = NoSave
  /\ result = "none"
  /\ faults = [replay |-> 0, timeline |-> 0]

\* Runtime::submit_input, within its limit.
SubmitInput(input) ==
  /\ SubmitInputTo(runtime, input).error = "none"
  /\ runtime' = SubmitInputTo(runtime, input).runtime
  /\ UNCHANGED <<saved, result, faults>>

\* Runtime::step(1); step(n) is n of these, up to the first that fails.
Step ==
  LET stepped == CommitTick(runtime)
  IN /\ runtime.tick < MaxTick
     /\ faults.timeline < MaxFaults
     /\ runtime' = stepped.runtime
     /\ result' = stepped.error
     /\ faults' = IF stepped.error = "none" THEN faults
                  ELSE [replay |-> faults.replay + 1, timeline |-> faults.timeline + 1]
     /\ UNCHANGED saved

\* presentation_events and clear_presentation_events: the host takes the batch.
DrainEvents ==
  /\ runtime.events # <<>>
  /\ runtime' = [runtime EXCEPT !.events = <<>>]
  /\ UNCHANGED <<saved, result, faults>>

\* Runtime::save: pending inputs and presentation events are not part of it.
Save ==
  /\ saved' = [archive |-> SaveOf(runtime), faults |-> faults.timeline]
  /\ UNCHANGED <<runtime, result, faults>>

\* Runtime::load_save, refused while inputs are pending.
LoadSave ==
  /\ saved # NoSave
  /\ runtime.nextSequence <= MaxEvents
  /\ LoadSaveInto(runtime, saved.archive).error = "none"
  /\ runtime' = LoadSaveInto(runtime, saved.archive).runtime
  /\ faults' = [replay |-> 0, timeline |-> saved.faults]
  /\ UNCHANGED <<saved, result>>

\* The host process ends; a new one builds its runtime and loads the save, if any.
Restart ==
  /\ runtime' = IF saved = NoSave THEN NewRuntime
                ELSE LoadSaveInto(NewRuntime, saved.archive).runtime
  /\ result' = "none"
  /\ faults' = [replay |-> 0, timeline |-> IF saved = NoSave THEN 0 ELSE saved.faults]
  /\ UNCHANGED saved

Next ==
  \/ \E input \in Inputs : SubmitInput(input)
  \/ Step
  \/ DrainEvents
  \/ Save
  \/ LoadSave
  \/ Restart

Spec == Init /\ [][Next]_vars

-----------------------------------------------------------------------------
(* Correctness *)

\* The fields of the runtime stay in their ranges: no integer leaves the 64-bit
\* range, and neither the input queue nor the event buffer outgrows its limit.
TypeOK ==
  /\ runtime.tick \in Nat
  /\ runtime.integers \in [Keys -> MinInteger..MaxInteger]
  /\ runtime.draws \in Nat
  /\ runtime.timers \in [Timers -> Nat]
  /\ runtime.chart \in [active : ChartStates, ticks : Nat]
  /\ runtime.pending \in Seq(Inputs)
  /\ Len(runtime.pending) <= MaxPendingInputs
  /\ Len(runtime.events) <= MaxPresentationEvents
  /\ runtime.frames \in Seq(Seq(Inputs))
  /\ faults \in [replay : Nat, timeline : Nat]

\* A replay has one frame for every tick since the state it starts from: failed
\* ticks leave none behind, whatever loads and restarts there were.
FramesCountTicks == runtime.tick = runtime.initial.tick + Len(runtime.frames)

\* A session in which no step failed since its start, or since its last load,
\* gives a replay that verify_replay accepts: re-executing the frames in a fresh
\* runtime meets the same tick and the same hash.
CleanReplayVerifies ==
  faults.replay = 0 => VerifyReplay(ReplayOf(runtime)) = "none"

\* Two points of clean timelines with equal hashes have equal saved state, so a
\* hash comparison is enough to tell that a loaded save is the state it names.
HashDeterminesState ==
  /\ saved # NoSave
  /\ saved.faults = 0 /\ faults.timeline = 0
  /\ saved.archive.hash = runtime.hash
  => SaveOf(runtime) = saved.archive

\* The position in the history of the last time timer t was started.
LastStart(t) ==
  LET starts == {i \in DOMAIN runtime.hash :
                   runtime.hash[i][1] = "start" /\ runtime.hash[i][2] = t}
  IN CHOOSE i \in starts : \A j \in starts : j <= i

\* The handlers of tick n run before "n" is mixed: a timer started there has its
\* first full tick after it.
TicksSince(i) == Cardinality({j \in DOMAIN runtime.hash : j > i /\ runtime.hash[j][1] = "tick"})

\* A timer fires in exactly the tick it was started for: while it runs, the ticks
\* it has left and the ticks committed since it was started add up to its length,
\* not counting the tick whose handlers, or expiring timers, started it.
TimersKeepTime ==
  faults.timeline = 0 =>
    \A t \in Timers :
      runtime.timers[t] # 0 =>
        LET i == LastStart(t)
        IN runtime.timers[t] + TicksSince(i) = runtime.hash[i][3] + 1

\* A step that fails commits nothing that is counted as a tick, keeps the chart
\* and the replay, and keeps every pending input for the next attempt.
FailedTickKeepsInputs ==
  [][faults'.replay > faults.replay =>
       /\ runtime'.tick = runtime.tick
       /\ runtime'.frames = runtime.frames
       /\ runtime'.chart = runtime.chart
       /\ runtime'.pending \in {runtime.pending, SortedInputs(runtime.pending)}]_vars

\* architecture.md, 7.5: a tick in which a handler exceeds its budget or a command
\* is invalid is discarded whole, so a failed step leaves the saved state as it was.
FailedTickIsDiscarded ==
  [][faults'.replay > faults.replay => SaveOf(runtime') = SaveOf(runtime)]_vars

=============================================================================
