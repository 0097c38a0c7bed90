---------------------------- MODULE ScenarioWorker ----------------------------
(***************************************************************************)
(* What a scenario does and what it leaves: control-worker.ts steps the    *)
(* runtime and writes the timeline, scenario-harness.ts makes the requests *)
(* of the scenario, judges its assertions and writes the evidence, and     *)
(* game replay verifies the archive among it.                              *)
(*                                                                         *)
(* A request and its answer are one step here; how they travel is          *)
(* ControlSession.  The game counts: every "add" and, by a timer, every    *)
(* second tick is one more, and its statechart takes every "add".  A value *)
(* stands for the integers and the hash of a state.  A tick may fail, as   *)
(* in RuntimeCore, and the one of "refused" does.                          *)
(***************************************************************************)
EXTENDS Integers, SequencesExt

CONSTANTS
  MaxSteps,  \* how many steps a scenario has
  MaxWait    \* the longest wait_for, in ticks

ASSUME ScenarioBounds == MaxSteps \in Nat /\ MaxWait \in Nat

VARIABLES
  gameplay,   \* the version of the gameplay in the project
  hosted,     \* the worker, or Unloaded: its runtime, counters, timeline and projection
  at,         \* what the harness does next
  performed,  \* the steps of the scenario that were made, with their answers
  gathered,   \* what the harness has: [inspection, metrics, captures, diagnostics, forced]
  archived,   \* the replay archive of the evidence, once it is written
  verified    \* what game replay said of it

scenario == <<gameplay, hosted, at, performed, gathered, archived, verified>>

Unloaded == [tick |-> 0, value |-> 0, pending |-> <<>>, frames |-> <<>>, version |-> 0,
             actions |-> 0, stepped |-> 0, timeline |-> <<>>, projection |-> [tick |-> 0, value |-> 0]]

Unasked == [load |-> "none", answer |-> "none"]

\* No archive: nothing reaches what it says.
NoReplay == [frames |-> <<>>, reached |-> -1]

NoInspection == [tick |-> 0, value |-> 0, view |-> <<>>, timeline |-> <<>>, replay |-> NoReplay]

-----------------------------------------------------------------------------
(* The worker *)

Loaded(w) == w.version # 0

Adds(inputs) == FoldLeft(LAMBDA so, i : IF i = "add" THEN so + 1 ELSE so, 0, inputs)

\* What the timers that expire at this tick add.
Due(tick, version) == IF tick % 2 = 0 THEN version ELSE 0

\* The value after a tick with these inputs.
Counted(value, tick, inputs, version) == value + Adds(inputs) + Due(tick, version)

TimelineEntry(kind, tick, delta) == [kind |-> kind, tick |-> tick, delta |-> delta]

\* One tick that is committed: the traces, the difference, the events, and the frame, in
\* this order, all at the tick that was reached.
Stepped(w) ==
  LET tick == w.tick + 1
      value == Counted(w.value, tick, w.pending, w.version)
      heard == [i \in 1..Adds(w.pending) |-> TimelineEntry("statechart", tick, 0)]
      diff == IF value = w.value THEN <<>> ELSE <<TimelineEntry("diff", tick, value - w.value)>>
      events == [i \in 1..Adds(w.pending) |-> TimelineEntry("event", tick, 0)]
  IN [w EXCEPT !.tick = tick, !.value = value, !.pending = <<>>,
               !.frames = Append(@, [inputs |-> w.pending, value |-> value]),
               !.stepped = @ + 1,
               !.timeline = @ \o heard \o diff \o events \o <<TimelineEntry("frame", tick, 0)>>,
               !.projection = [tick |-> tick, value |-> value]]

\* What a tick that fails leaves: all as it was, when the handler of a timer threw, or the
\* commands of the timers, committed before the inputs and the statechart failed.
Failed(w) == {w, [w EXCEPT !.value = @ + Due(w.tick + 1, w.version)]}

\* An action is written down and submitted before its tick is tried.
Acted(w, action) ==
  [w EXCEPT !.actions = @ + 1, !.timeline = Append(@, TimelineEntry("input", w.tick, 0)),
            !.pending = Append(@, action)]

Satisfied(w, condition) ==
  IF condition.of = "tick" THEN w.tick >= condition.is ELSE w.value = condition.is

\* Ticks until the condition holds or there were enough.
Awaited(w, condition, most) ==
  FoldLeft(LAMBDA so, n : IF Satisfied(so, condition) THEN so ELSE Stepped(so),
           w, [n \in 1..most |-> n])

Inspection(w) ==
  [tick |-> w.tick, value |-> w.value, view |-> w.projection, timeline |-> w.timeline,
   replay |-> [frames |-> w.frames, reached |-> w.value]]

Metrics(w) == [actions |-> w.actions, stepped |-> w.stepped, entries |-> Len(w.timeline)]

\* A replay runs on the gameplay that is loaded, from the start, and has to come to the
\* tick and the hash of the archive.
Verifies(version, replay) ==
  LET after[n \in 0..Len(replay.frames)] ==
        IF n = 0 THEN 0 ELSE Counted(after[n - 1], n, replay.frames[n].inputs, version)
  IN /\ \A n \in DOMAIN replay.frames : replay.frames[n].value = after[n]
     /\ replay.reached = after[Len(replay.frames)]

Given(status, w) == [status |-> status, worker |-> w]

\* What the worker may answer a step of the scenario with, and what it is then.
Answers(w, step) ==
  CASE step.operation = "act" /\ step.action = "unknown" -> {Given("FAIL", w)}
    [] step.operation = "act" /\ step.action # "unknown" ->
         LET given == Acted(w, step.action) IN
         {Given("TICK_FAILED", left) : left \in Failed(given)}
           \union (IF step.action = "refused" THEN {} ELSE {Given("PASS", Stepped(given))})
    [] step.operation = "wait_for" ->
         LET Then(n) == Awaited(w, step.condition, n)
             tried == {n \in 0..(step.most - 1) : ~Satisfied(Then(n), step.condition)}
         IN {Given(IF Satisfied(Then(step.most), step.condition) THEN "PASS" ELSE "FAIL", Then(step.most))}
              \union UNION {{Given("TICK_FAILED", left) : left \in Failed(Then(n))} : n \in tried}
    [] OTHER -> {Given("PASS", w)}

-----------------------------------------------------------------------------
(* The harness *)

Steps ==
  {[operation |-> "act", action |-> a] : a \in {"add", "refused", "unknown"}}
    \union {[operation |-> "wait_for", condition |-> [of |-> of, is |-> 2], most |-> most] :
              of \in {"tick", "value"}, most \in {1, MaxWait}}
    \union {[operation |-> o] : o \in {"inspect", "capture", "metrics"}}

ScenarioInit ==
  /\ gameplay = 1
  /\ hosted = Unloaded
  /\ at = "load"
  /\ performed = <<>>
  /\ \E forced \in BOOLEAN :
       gathered = [inspection |-> NoInspection, metrics |-> <<>>, captures |-> 0, diagnostics |-> 0, forced |-> forced]
  /\ archived = NoReplay
  /\ verified = Unasked

Rest == UNCHANGED <<gameplay, archived, verified>>

LoadScenario ==
  /\ at = "load"
  /\ hosted' = [Unloaded EXCEPT !.version = gameplay]
  /\ at' = "steps"
  /\ UNCHANGED <<performed, gathered>> /\ Rest

\* A step that does not pass is the last one.
PlayStep ==
  /\ at = "steps" /\ Len(performed) < MaxSteps
  /\ \E step \in Steps : \E answer \in Answers(hosted, step) :
       LET passed == answer.status = "PASS"
       IN /\ hosted' = answer.worker
          /\ performed' = Append(performed, [step |-> step, status |-> answer.status])
          /\ at' = IF passed THEN "steps" ELSE "inspect"
          /\ gathered' =
               [gathered EXCEPT
                  !.inspection = IF step.operation = "inspect" THEN Inspection(hosted) ELSE @,
                  !.metrics = IF step.operation = "metrics" THEN Metrics(hosted) ELSE @,
                  !.captures = IF step.operation = "capture" THEN @ + 1 ELSE @,
                  !.diagnostics = IF passed THEN @ ELSE @ + 1]
  /\ Rest

\* Defect: an inspection the scenario asked for itself is not made again.
InspectAtEndOnce ==
  /\ at = "steps" \/ at = "inspect"
  /\ at' = "assert"
  /\ \E faults \in 0..1 : gathered' = [gathered EXCEPT
       !.inspection = IF @ = NoInspection THEN Inspection(hosted) ELSE @,
       !.metrics = Metrics(hosted),
       !.captures = IF gathered.forced /\ @ = 0 THEN 1 ELSE @,
       !.diagnostics = @ + faults]
  /\ UNCHANGED <<hosted, performed>> /\ Rest

\* The scenario is over, at its end or where it stopped: what the worker holds now is the
\* evidence, and game capture has a picture of it when the scenario took none.  Its
\* UI may be against its contracts, which UserInterface tells apart.
InspectAtEnd ==
  /\ at = "steps" \/ at = "inspect"
  /\ at' = "assert"
  /\ \E faults \in 0..1 : gathered' = [gathered EXCEPT
       !.inspection = Inspection(hosted),
       !.metrics = Metrics(hosted),
       !.captures = IF gathered.forced /\ @ = 0 THEN 1 ELSE @,
       !.diagnostics = @ + faults]
  /\ UNCHANGED <<hosted, performed>> /\ Rest

\* An assertion is about the inspection: a value, or that its replay verifies.
JudgeAssertion ==
  /\ at = "assert"
  /\ \E expected \in 0..2 :
       LET holds == gathered.inspection.value = expected
                      /\ Verifies(hosted.version, gathered.inspection.replay)
       IN gathered' = [gathered EXCEPT !.diagnostics = IF holds THEN @ ELSE @ + 1]
  /\ at' = "write"
  /\ UNCHANGED <<hosted, performed>> /\ Rest

\* A request that is refused where it must not be, is not answered in time or finds the
\* worker gone ends the scenario; what was gathered before stays.
RequestThrows ==
  /\ at \in {"load", "steps", "inspect", "assert"}
  /\ at' = "write"
  /\ gathered' = [gathered EXCEPT !.diagnostics = @ + 1]
  /\ UNCHANGED <<hosted, performed>> /\ Rest

WriteEvidence ==
  /\ at = "write" /\ at' = "written"
  /\ archived' = gathered.inspection.replay
  /\ UNCHANGED <<gameplay, hosted, performed, gathered, verified>>

EditGameplay ==
  /\ at = "written" /\ gameplay = 1 /\ gameplay' = 2
  /\ UNCHANGED <<hosted, at, performed, gathered, archived, verified>>

\* game replay asks for the archive whatever load_scenario answered: a load that failed
\* left a runtime with its gameplay, or none.
ReplayEvidence ==
  /\ at = "written" /\ verified = Unasked
  /\ \E loaded \in {"passed", "failed late", "failed early"} :
       verified' = [load |-> loaded,
                    answer |-> IF loaded # "failed early" /\ Verifies(gameplay, archived) THEN "PASS" ELSE "FAIL"]
  /\ UNCHANGED <<gameplay, hosted, at, performed, gathered, archived>>

ScenarioNext ==
  \/ LoadScenario \/ PlayStep \/ InspectAtEnd \/ JudgeAssertion \/ RequestThrows
  \/ WriteEvidence \/ EditGameplay \/ ReplayEvidence

ScenarioSpec == ScenarioInit /\ [][ScenarioNext]_scenario

-----------------------------------------------------------------------------
(* Properties *)

\* The ticks a timeline has, what its differences add up to, and the actions of the steps.
TicksOf(timeline) ==
  FoldLeft(LAMBDA so, e : IF e.kind = "frame" THEN Append(so, e.tick) ELSE so, <<>>, timeline)

DeltaOf(timeline) == FoldLeft(LAMBDA so, e : so + e.delta, 0, timeline)

ActsOf(made) ==
  FoldLeft(LAMBDA so, p : IF p.step.operation = "act" THEN so + 1 ELSE so, 0, made)

\* No tick failed under a step.
NoTickFailed(made) == \A n \in DOMAIN made : made[n].status # "TICK_FAILED"

\* What a run that left evidence tells of the game explains itself, whether it passed or
\* failed: the timeline has every tick once and in order, its differences add up to the
\* view, which is of the tick, and the archive has a frame for each.  Unless a tick failed
\* under a step, the state is that of the view, and the archive, executed again, comes to
\* it, as game replay says unless the gameplay has changed or could not be loaded.  (A tick
\* that failed may have left what its timers did: the state is then ahead of the view, the
\* timeline and the archive, which does not verify.)
\* Where there are no diagnostics, that is the state the scenario ended in: all its steps
\* passed, its metrics are of this state, and capture has a picture.
EvidenceIsOfOneMoment ==
  at = "written" =>
    LET i == gathered.inspection
    IN /\ i # NoInspection =>
            /\ TicksOf(i.timeline) = [n \in 1..i.tick |-> n]
            /\ DeltaOf(i.timeline) = i.view.value
            /\ i.view.tick = i.tick /\ Len(i.replay.frames) = i.tick
            /\ NoTickFailed(performed) =>
                 /\ i.view.value = i.value /\ Verifies(1, i.replay)
                 /\ gameplay = 1 /\ verified.load = "passed" => verified.answer = "PASS"
       /\ gathered.diagnostics = 0 =>
            /\ i = Inspection(hosted) /\ gathered.metrics = Metrics(hosted)
            /\ \A n \in DOMAIN performed : performed[n].status = "PASS"
            /\ gathered.metrics.stepped = i.tick
            /\ gathered.metrics.actions = ActsOf(performed)
            /\ gathered.forced => gathered.captures > 0
=============================================================================
