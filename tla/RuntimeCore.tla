----------------------------- MODULE RuntimeCore -----------------------------
(***************************************************************************)
(* kernel/src/runtime.cpp as operators on the state of one Runtime object: *)
(* submit_input, step, save, load_save, replay and verify_replay.          *)
(*                                                                         *)
(* The C++ class verifies a replay by running a second Runtime, and a room *)
(* drives a Runtime it owns; both reuse these operators, so a step is one  *)
(* function from a state to an error and a state.                          *)
(*                                                                         *)
(* Data is abstracted.  state_hash_ is the sequence of what was mixed into *)
(* it, so two hashes are equal exactly when their histories are; a random  *)
(* stream is the number of draws made from it; value_milli is part of the  *)
(* action.  The Lua module is external: OnInput, OnTimer and OnEvent are   *)
(* its handlers, as functions of what the kernel lets them read.  The      *)
(* runtime has no region storage configured, so a region delta is refused. *)
(* Statechart traces, which nothing in the kernel reads back, are left out.*)
(***************************************************************************)
EXTENDS Integers, Sequences, FiniteSets, SequencesExt

CONSTANTS
  Actions,                \* action ids of logical inputs
  Keys,                   \* keys of the integer state
  Timers,                 \* keys of the declared timers
  ChartStates,            \* states of the installed statechart
  InitialChartState,      \* the state it is installed in
  MaxPendingInputs,       \* RuntimeConfig.max_pending_inputs
  MaxPresentationEvents,  \* contract::maximum_presentation_events
  MinInteger,             \* the range of an integer state (64-bit in the code)
  MaxInteger,
  Elapsed,                \* the event of StatechartRuntime::advance
  OnInput,                \* Lua on_input: OnInput[action][view]
  OnTimer,                \* Lua on_timer: OnTimer[timer][view]
  OnEvent,                \* the chart and its Lua handlers: OnEvent[action][state][view]
  OnElapsed               \* its after_ticks transitions: OnElapsed[state][ticks][view]

ASSUME ActionsAssumption == Actions \subseteq Nat /\ Elapsed \notin Actions
ASSUME TimersAssumption == Timers \subseteq Nat /\ IsFiniteSet(Timers)
ASSUME ChartAssumption == InitialChartState \in ChartStates
ASSUME LimitsAssumption ==
  /\ MaxPendingInputs \in Nat \ {0}
  /\ MaxPresentationEvents \in Nat
  /\ MinInteger \in Int /\ MaxInteger \in Nat /\ MinInteger <= 0

-----------------------------------------------------------------------------
(* The state of a Runtime *)

\* An input is ordered by its sequence and then by its action.
InputBefore(left, right) ==
  \/ left.sequence < right.sequence
  \/ left.sequence = right.sequence /\ left.action < right.action

\* Each member goes to the place that as many come no later; equal ones stay in order.
Sorted(seq, Before(_, _)) ==
  LET place == [i \in DOMAIN seq |->
                  Cardinality({j \in DOMAIN seq :
                                 Before(seq[j], seq[i]) \/ (seq[j] = seq[i] /\ j <= i)})]
  IN [k \in DOMAIN seq |-> seq[CHOOSE i \in DOMAIN seq : place[i] = k]]

SortedInputs(inputs) == Sorted(inputs, InputBefore)

\* What save() stores, and what a replay starts from. A timer that is not running
\* has 0 ticks left: Lua refuses to start one with 0.
InitialSave ==
  [tick |-> 0, hash |-> <<>>, integers |-> [k \in Keys |-> 0], draws |-> 0,
   timers |-> [t \in Timers |-> 0],
   chart |-> [active |-> InitialChartState, ticks |-> 0]]

\* The constructor, with gameplay loaded and the statechart installed.
NewRuntime ==
  [tick |-> 0, hash |-> <<>>, integers |-> [k \in Keys |-> 0], draws |-> 0,
   timers |-> [t \in Timers |-> 0],
   chart |-> [active |-> InitialChartState, ticks |-> 0],
   pending |-> <<>>, events |-> <<>>, nextSequence |-> 1,
   initial |-> InitialSave, frames |-> <<>>]

Outcome(error, runtime) == [error |-> error, runtime |-> runtime]

Mix(runtime, mark) == [runtime EXCEPT !.hash = Append(@, mark)]

\* What a handler may read: the committed integers, which timers run, and a draw
\* that depends on the stream's position; never the commands queued so far.
View(runtime, draws) ==
  [integers |-> runtime.integers,
   running |-> {t \in Timers : runtime.timers[t] # 0},
   coin |-> draws % 2]

Views == [integers : [Keys -> MinInteger..MaxInteger], running : SUBSET Timers, coin : {0, 1}]

\* What a handler may leave in the command buffer; a timer is never started with 0 ticks.
Commands ==
  [kind : {"add_integer"}, id : Keys, value : Int]
    \union [kind : {"start_timer"}, id : Timers, value : Nat \ {0}]
    \union [kind : {"cancel_timer"}, id : Timers, value : {0}]
    \union [kind : {"present", "set_region_delta"}, id : Nat, value : {0}]

Replies == [ok : BOOLEAN, draws : Nat, commands : Seq(Commands)]

ChartReplies ==
  [outcome : {"stayed", "unhandled", "failed"}, draws : Nat, commands : Seq(Commands)]
    \union [outcome : {"moved"}, draws : Nat, commands : Seq(Commands), to : ChartStates]

ASSUME HandlersAssumption ==
  /\ \A a \in Actions, v \in Views : OnInput[a][v] \in Replies
  /\ \A t \in Timers, v \in Views : OnTimer[t][v] \in Replies
  /\ \A a \in Actions, s \in ChartStates, v \in Views : OnEvent[a][s][v] \in ChartReplies
  /\ \A s \in ChartStates : \A n \in DOMAIN OnElapsed[s] :
       \A v \in Views : OnElapsed[s][n][v] \in ChartReplies

-----------------------------------------------------------------------------
(* Runtime::apply_commands *)

AddInteger(runtime, command) ==
  LET sum == runtime.integers[command.id] + command.value
  IN IF sum \notin MinInteger..MaxInteger
     THEN Outcome("integer_overflow", runtime)
     ELSE Outcome("none", Mix([runtime EXCEPT !.integers[command.id] = sum],
                              <<"integer", command.id, sum>>))

StartTimer(runtime, command) ==
  Outcome("none", Mix([runtime EXCEPT !.timers[command.id] = command.value],
                      <<"start", command.id, command.value>>))

CancelTimer(runtime, command) ==
  Outcome("none", IF runtime.timers[command.id] = 0 THEN runtime
                  ELSE Mix([runtime EXCEPT !.timers[command.id] = 0],
                           <<"cancel", command.id>>))

\* Play, stop or spawn: one presentation event, numbered for the host.
Present(runtime, command) ==
  IF Len(runtime.events) >= MaxPresentationEvents
  THEN Outcome("presentation_limit", runtime)
  ELSE Outcome("none",
         Mix([runtime EXCEPT !.events = Append(@, [id |-> command.id,
                                                   sequence |-> runtime.nextSequence]),
                             !.nextSequence = @ + 1],
             <<"present", command.id>>))

ApplyTo(runtime, command) ==
  CASE command.kind = "add_integer"      -> AddInteger(runtime, command)
    [] command.kind = "start_timer"      -> StartTimer(runtime, command)
    [] command.kind = "cancel_timer"     -> CancelTimer(runtime, command)
    [] command.kind = "present"          -> Present(runtime, command)
    [] command.kind = "set_region_delta" -> Outcome("none", runtime)

ApplyCommand(outcome, command) ==
  IF outcome.error # "none" THEN outcome ELSE ApplyTo(outcome.runtime, command)

\* The first command that fails, or else a region delta without region storage.
CommandError(commands, applied) ==
  IF applied.error = "none" /\ \E i \in DOMAIN commands : commands[i].kind = "set_region_delta"
  THEN "region_storage_unconfigured" ELSE applied.error

\* The copies made for the commands replace the state only if nothing failed.
CommitCommands(runtime, commands, applied) ==
  IF CommandError(commands, applied) # "none"
  THEN Outcome(CommandError(commands, applied), runtime)
  ELSE Outcome("none", [runtime EXCEPT !.integers = applied.runtime.integers,
                                       !.timers = applied.runtime.timers,
                                       !.events = applied.runtime.events,
                                       !.nextSequence = applied.runtime.nextSequence,
                                       !.hash = applied.runtime.hash])

\* The commands applied in order to copies, up to the first that fails.
CommandsApplied(runtime, commands) ==
  FoldLeft(ApplyCommand, Outcome("none", runtime), commands)

ApplyCommands(runtime, commands) ==
  CommitCommands(runtime, commands, CommandsApplied(runtime, commands))

-----------------------------------------------------------------------------
(* Handlers fill one command buffer; a failing handler stops the ones after it. *)
(* What they change at once, whether or not the tick is committed in the end, is *)
(* the random streams, the statechart and the hash of its transitions.           *)

Handling(runtime) ==
  [error |-> "none", commands |-> <<>>, draws |-> runtime.draws,
   chart |-> runtime.chart, hash |-> runtime.hash]

Handled(handling, reply) ==
  [handling EXCEPT !.error = IF reply.ok THEN "none" ELSE "script_failure",
                   !.draws = @ + reply.draws,
                   !.commands = @ \o reply.commands]

\* The commands of handlers that all succeeded are applied; of the others, none.
Applied(runtime, handling) ==
  IF handling.error # "none" THEN Outcome(handling.error, runtime)
  ELSE ApplyCommands(runtime, handling.commands)

HandleTimer(runtime, handling, timer) ==
  IF handling.error # "none" THEN handling
  ELSE Handled(handling, OnTimer[timer][View(runtime, handling.draws)])

\* LogicalTimerStore::advance: the timers that expire, and the store after it.
Expired(timers) == {t \in Timers : timers[t] = 1}

\* Defect: timers wait for two ticks to remain instead of one.
AdvanceTimersLate(timers) ==
  [t \in Timers |-> IF timers[t] <= 1 THEN timers[t] ELSE timers[t] - 1]

AdvanceTimers(timers) == [t \in Timers |-> IF timers[t] = 0 THEN 0 ELSE timers[t] - 1]

TimerBefore(left, right) == left < right

\* The handlers of the timers in expired, in the order of their keys.
TimersHandled(runtime, expired) ==
  FoldLeft(LAMBDA handling, timer : HandleTimer(runtime, handling, timer),
           Handling(runtime), Sorted(SetToSeq(expired), TimerBefore))

AfterTimers(runtime, handling) ==
  Applied([runtime EXCEPT !.draws = handling.draws], handling)

\* The store has advanced whatever the handlers of the expired timers then do.
FireTimers(advanced, expired) == AfterTimers(advanced, TimersHandled(advanced, expired))

FireExpiredTimers(runtime) ==
  FireTimers([runtime EXCEPT !.timers = AdvanceTimers(@)], Expired(runtime.timers))

\* What the chart does with an event, or with the ticks spent in its state.
ChartReply(event, chart, view) ==
  CASE event # Elapsed -> OnEvent[event][chart.active][view]
    [] event = Elapsed /\ chart.ticks \in DOMAIN OnElapsed[chart.active] ->
         OnElapsed[chart.active][chart.ticks][view]
    [] OTHER -> [outcome |-> "stayed", draws |-> 0, commands |-> <<>>]

\* execute_statechart_result: a chosen transition is mixed at once; an unhandled
\* event changes nothing but the draws its guards made.
TakeTransition(handling, event, reply) ==
  Handled(IF reply.outcome # "moved" THEN handling
          ELSE [handling EXCEPT
                  !.chart = [active |-> reply.to, ticks |-> 0],
                  !.hash = Append(@, <<"transition", event, handling.chart.active, reply.to>>)],
          [ok |-> reply.outcome # "failed", draws |-> reply.draws,
           commands |-> reply.commands])

\* statechart_.advance or .dispatch, and the handlers of the transition it chose.
RunStatechart(runtime, handling, event) ==
  TakeTransition(handling, event,
                 ChartReply(event, handling.chart, View(runtime, handling.draws)))

CallOnInput(runtime, handling, action) ==
  IF handling.error # "none" THEN handling
  ELSE Handled(handling, OnInput[action][View(runtime, handling.draws)])

HandleInput(runtime, handling, input) ==
  IF handling.error # "none" THEN handling
  ELSE CallOnInput(runtime, RunStatechart(runtime, handling, input.action), input.action)

\* The elapsed-time event first, then every pending input in order.
ChartAdvanced(runtime) ==
  RunStatechart(runtime, [Handling(runtime) EXCEPT !.chart.ticks = @ + 1], Elapsed)

InputsHandled(runtime) ==
  FoldLeft(LAMBDA handling, input : HandleInput(runtime, handling, input),
           ChartAdvanced(runtime), runtime.pending)

AfterInputs(runtime, handling) ==
  Applied([runtime EXCEPT !.draws = handling.draws, !.chart = handling.chart,
                          !.hash = handling.hash], handling)

-----------------------------------------------------------------------------
(* Runtime::commit_tick *)

\* Success: the tick advances, its frame is recorded and its inputs are gone.
Confirm(runtime) ==
  [runtime EXCEPT
     !.tick = @ + 1,
     !.frames = Append(@, runtime.pending),
     !.hash = Append(@, <<"tick", runtime.tick + 1, runtime.pending, runtime.timers,
                          runtime.draws, runtime.chart>>),
     !.pending = <<>>]

\* Defect: the frame pushed before the commands were applied is not popped.
FinishKeepingFrame(chart, applied) ==
  IF applied.error = "none" THEN Outcome("none", Confirm(applied.runtime))
  ELSE Outcome(applied.error, [applied.runtime EXCEPT !.chart = chart,
                                                      !.frames = Append(@, applied.runtime.pending)])

\* A failed tick restores the statechart, and only the statechart.
Finish(chart, applied) ==
  IF applied.error = "none" THEN Outcome("none", Confirm(applied.runtime))
  ELSE Outcome(applied.error, [applied.runtime EXCEPT !.chart = chart])

\* Pending inputs are sorted in place, and stay sorted if the tick then fails.
CommitSorted(runtime) == Finish(runtime.chart, AfterInputs(runtime, InputsHandled(runtime)))

CommitInputs(fired) ==
  IF fired.error # "none" THEN fired
  ELSE CommitSorted([fired.runtime EXCEPT !.pending = SortedInputs(@)])

\* Timers first, then the inputs of the tick.
CommitTick(runtime) == CommitInputs(FireExpiredTimers(runtime))

SubmitInputTo(runtime, input) ==
  IF Len(runtime.pending) >= MaxPendingInputs
  THEN Outcome("input_limit", runtime)
  ELSE Outcome("none", [runtime EXCEPT !.pending = Append(@, input)])

-----------------------------------------------------------------------------
(* Saves and replays *)

SaveOf(runtime) ==
  [tick |-> runtime.tick, hash |-> runtime.hash, integers |-> runtime.integers,
   draws |-> runtime.draws, timers |-> runtime.timers, chart |-> runtime.chart]

\* Defect: the running timers of the runtime survive the load.
LoadSaveKeepingTimers(runtime, save) ==
  IF runtime.pending # <<>> THEN Outcome("pending_inputs", runtime)
  ELSE Outcome("none", [runtime EXCEPT !.tick = save.tick, !.hash = save.hash,
                                       !.integers = save.integers, !.draws = save.draws,
                                       !.chart = save.chart, !.initial = save,
                                       !.frames = <<>>, !.events = <<>>])

\* Defect: the recorded frames of the abandoned session survive the load.
LoadSaveKeepingFrames(runtime, save) ==
  IF runtime.pending # <<>> THEN Outcome("pending_inputs", runtime)
  ELSE Outcome("none", [runtime EXCEPT !.tick = save.tick, !.hash = save.hash,
                                       !.integers = save.integers, !.draws = save.draws,
                                       !.timers = save.timers, !.chart = save.chart,
                                       !.initial = save, !.events = <<>>])

\* A load keeps the numbering of presentation events and drops the events.
LoadSaveInto(runtime, save) ==
  IF runtime.pending # <<>> THEN Outcome("pending_inputs", runtime)
  ELSE Outcome("none", [runtime EXCEPT !.tick = save.tick, !.hash = save.hash,
                                       !.integers = save.integers, !.draws = save.draws,
                                       !.timers = save.timers, !.chart = save.chart,
                                       !.initial = save, !.frames = <<>>,
                                       !.events = <<>>])

ReplayOf(runtime) ==
  [initial |-> runtime.initial, tick |-> runtime.tick, hash |-> runtime.hash,
   frames |-> runtime.frames]

\* One frame of verify_replay: its inputs, one step, and the events are dropped.
AcceptFrame(stepped) ==
  Outcome(IF stepped.error = "none" THEN "none" ELSE "replay_mismatch",
          [stepped.runtime EXCEPT !.events = <<>>])

VerifyFrame(outcome, frame) ==
  CASE outcome.error # "none" -> outcome
    [] outcome.error = "none" /\ Len(frame) > MaxPendingInputs ->
         Outcome("replay_mismatch", outcome.runtime)
    [] OTHER -> AcceptFrame(CommitTick([outcome.runtime EXCEPT !.pending = frame]))

Agreement(end, replay) ==
  IF end.error = "none" /\ end.runtime.tick = replay.tick /\ end.runtime.hash = replay.hash
  THEN "none" ELSE "replay_mismatch"

VerifyReplay(replay) ==
  Agreement(FoldLeft(VerifyFrame, LoadSaveInto(NewRuntime, replay.initial), replay.frames),
            replay)

-----------------------------------------------------------------------------
(* What a hash records *)

TakeTick(inputs, mark) == IF mark[1] = "tick" THEN inputs \o mark[3] ELSE inputs

\* The inputs committed in the timeline of a hash, oldest first.
CommittedInputs(hash) == FoldLeft(TakeTick, <<>>, hash)

=============================================================================
