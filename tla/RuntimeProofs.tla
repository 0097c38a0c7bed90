---------------------------- MODULE RuntimeProofs ----------------------------
(***************************************************************************)
(* What a Runtime keeps over every call, for every gameplay script,        *)
(* statechart, limit and bound.                                            *)
(*                                                                         *)
(* RuntimeCoreProofs says what one tick does to a runtime.  On top of it   *)
(* are two invariants of a runtime and its host: that the frames recorded  *)
(* count the ticks, and that the frames, executed again, come to the same  *)
(* state; for that a runtime that a save does not tell from another must   *)
(* repeat a tick alike.                                                    *)
(***************************************************************************)
EXTENDS Runtime, RuntimeCoreProofs

-----------------------------------------------------------------------------
(* Theorems *)

\* What FramesCountTicks needs to be inductive: the fields it names are there, and
\* every state a replay may start from has a natural number of ticks behind it.
ReplayInvariant ==
  /\ IsRuntime(runtime)
  /\ runtime.initial.tick \in Nat
  /\ \E S : runtime.frames \in Seq(S)
  /\ saved # NoSave => saved.archive.tick \in Nat
  /\ FramesCountTicks

\* A new runtime has recorded no frame and counted no tick.
THEOREM ReplayInvariantInitially == Init => ReplayInvariant
<1> SUFFICES ASSUME Init PROVE ReplayInvariant
  OBVIOUS
<1>1. /\ IsRuntime(runtime) /\ runtime.tick = 0 /\ runtime.initial.tick = 0
      /\ runtime.frames = <<>> /\ saved = NoSave
  BY NewRuntimeReplay DEF Init
<1>2. Len(<<>>) = 0 /\ \E S : <<>> \in Seq(S)
  BY EmptySequence
<1> QED BY <1>1, <1>2 DEF ReplayInvariant, FramesCountTicks

\* Every call, whether it succeeds or fails, keeps the frames in step with the ticks
\* and the runtime well formed: the induction step of the two theorems below.
THEOREM ReplayInvariantSteps == ReplayInvariant /\ [Next]_vars => ReplayInvariant'
<1> SUFFICES ASSUME ReplayInvariant, [Next]_vars
             PROVE  ReplayInvariant'
  OBVIOUS
<1> USE DEF ReplayInvariant, FramesCountTicks
<1>1. ASSUME NEW input \in Inputs, SubmitInput(input)
      PROVE  ReplayInvariant'
  <2> DEFINE s == [runtime EXCEPT !.pending = Append(runtime.pending, input)]
  <2>1. runtime' \in {runtime, s} /\ saved' = saved
    BY <1>1 DEF SubmitInput, SubmitInputTo, Outcome
  <2>2. /\ IsRuntime(s) /\ s.tick = runtime.tick /\ s.frames = runtime.frames
        /\ s.initial = runtime.initial
    BY DEF IsRuntime, Fields
  <2> HIDE DEF s
  <2> QED BY <2>1, <2>2
<1>2. CASE Step
  <2> DEFINE s == CommitTick(runtime)
  <2>1. runtime' = s.runtime /\ saved' = saved
    BY <1>2 DEF Step
  <2>2. Confirmed(runtime, SortedInputs(runtime.pending), s.runtime) \/ Failed(runtime, s.runtime)
    BY TickDecides
  <2> HIDE DEF s
  <2>3. CASE Failed(runtime, s.runtime)
    BY <2>1, <2>3 DEF Failed
  <2>4. CASE Confirmed(runtime, SortedInputs(runtime.pending), s.runtime)
    <3> DEFINE frame == SortedInputs(runtime.pending)
    <3>1. runtime'.frames = Append(runtime.frames, frame)
      BY <2>1, <2>4 DEF Confirmed
    <3>2. PICK S : runtime.frames \in Seq(S)
      OBVIOUS
    <3>3. /\ \E T : runtime'.frames \in Seq(T)
          /\ Len(runtime'.frames) = Len(runtime.frames) + 1
      <4> HIDE DEF frame
      <4> QED BY <3>1, <3>2, AppendCounts
    <3>4. Len(runtime.frames) \in Nat
      BY <3>2
    <3>5. /\ IsRuntime(runtime') /\ runtime'.tick = runtime.tick + 1
          /\ runtime'.initial = runtime.initial
      BY <2>1, <2>4 DEF Confirmed
    <3> QED BY <2>1, <3>3, <3>4, <3>5
  <2> QED BY <2>2, <2>3, <2>4
<1>3. CASE DrainEvents
  <2> DEFINE s == [runtime EXCEPT !.events = <<>>]
  <2>1. runtime' = s /\ saved' = saved
    BY <1>3 DEF DrainEvents
  <2>2. /\ IsRuntime(s) /\ s.tick = runtime.tick /\ s.frames = runtime.frames
        /\ s.initial = runtime.initial
    BY DEF IsRuntime, Fields
  <2> HIDE DEF s
  <2> QED BY <2>1, <2>2
<1>4. CASE Save
  <2>1. runtime' = runtime /\ saved'.archive.tick = runtime.tick
    BY <1>4 DEF Save, SaveOf
  <2>2. runtime.tick \in Nat
    <3>1. PICK S : runtime.frames \in Seq(S)
      OBVIOUS
    <3>2. Len(runtime.frames) \in Nat
      BY <3>1
    <3> QED BY <3>2
  <2> QED BY <2>1, <2>2
<1>5. CASE LoadSave
  <2>1. /\ saved # NoSave /\ saved' = saved
        /\ LoadSaveInto(runtime, saved.archive).error = "none"
        /\ runtime' = LoadSaveInto(runtime, saved.archive).runtime
    BY <1>5 DEF LoadSave
  <2>2. /\ IsRuntime(runtime') /\ runtime'.tick = saved.archive.tick
        /\ runtime'.initial = saved.archive /\ runtime'.frames = <<>>
    BY <2>1, LoadStartsReplay
  <2> QED BY <2>1, <2>2, EmptySequence
<1>6. CASE Restart
  <2>1. saved' = saved
    BY <1>6 DEF Restart
  <2>2. CASE saved = NoSave
    <3>1. runtime' = NewRuntime
      BY <1>6, <2>2 DEF Restart
    <3>2. /\ IsRuntime(runtime') /\ runtime'.tick = 0 /\ runtime'.initial.tick = 0
          /\ runtime'.frames = <<>>
      <4> HIDE DEF ReplayInvariant, FramesCountTicks
      <4> QED BY <3>1, NewRuntimeReplay
    <3> QED BY <2>1, <2>2, <3>2, EmptySequence
  <2>3. CASE saved # NoSave
    <3>1. runtime' = LoadSaveInto(NewRuntime, saved.archive).runtime
      BY <1>6, <2>3 DEF Restart
    <3>2. /\ IsRuntime(runtime') /\ runtime'.tick = saved.archive.tick
          /\ runtime'.initial = saved.archive /\ runtime'.frames = <<>>
      <4> HIDE DEF ReplayInvariant, FramesCountTicks
      <4> QED BY <3>1, RestartLoads
    <3> QED BY <2>1, <2>3, <3>2, EmptySequence
  <2> QED BY <2>2, <2>3
<1>7. CASE UNCHANGED vars
  BY <1>7 DEF vars
<1> QED BY <1>1, <1>2, <1>3, <1>4, <1>5, <1>6, <1>7 DEF Next

\* Every replay has one frame for each tick since the state it starts from, for
\* every gameplay script and however steps fail: FramesCountTicks of Runtime.tla.
THEOREM FramesAlwaysCountTicks == Spec => []FramesCountTicks
<1>1. Init => ReplayInvariant
  BY ReplayInvariantInitially
<1>2. ReplayInvariant /\ [Next]_vars => ReplayInvariant'
  BY ReplayInvariantSteps
<1>3. ReplayInvariant => FramesCountTicks
  BY DEF ReplayInvariant
<1> QED BY <1>1, <1>2, <1>3, PTL DEF Spec

-----------------------------------------------------------------------------
(* What a failed step leaves behind *)

FaultsCounted == faults.replay \in Nat

LEMMA FaultsStayCounted == FaultsCounted /\ [Next]_vars => FaultsCounted'
<1> SUFFICES ASSUME FaultsCounted, [Next]_vars
             PROVE  FaultsCounted'
  OBVIOUS
<1> USE DEF FaultsCounted
<1>1. ASSUME NEW input \in Inputs, SubmitInput(input)
      PROVE  FaultsCounted'
  BY <1>1 DEF SubmitInput
<1>2. CASE Step
  BY <1>2 DEF Step
<1>3. CASE DrainEvents
  BY <1>3 DEF DrainEvents
<1>4. CASE Save
  BY <1>4 DEF Save
<1>5. CASE LoadSave
  BY <1>5 DEF LoadSave
<1>6. CASE Restart
  BY <1>6 DEF Restart
<1>7. CASE UNCHANGED vars
  BY <1>7 DEF vars
<1> QED BY <1>1, <1>2, <1>3, <1>4, <1>5, <1>6, <1>7 DEF Next

\* Only a step that returns an error adds to the faults of a replay.
LEMMA OnlyFailedStepsCount ==
  ASSUME FaultsCounted, [Next]_vars, faults'.replay > faults.replay
  PROVE  Step /\ CommitTick(runtime).error # "none"
<1> USE DEF FaultsCounted
<1>1. ASSUME NEW input \in Inputs, SubmitInput(input)
      PROVE  FALSE
  BY <1>1 DEF SubmitInput
<1>2. CASE Step
  BY <1>2 DEF Step
<1>3. ~DrainEvents
  BY DEF DrainEvents
<1>4. ~Save
  BY DEF Save
<1>5. ~LoadSave
  BY DEF LoadSave
<1>6. ~Restart
  BY DEF Restart
<1>7. ~UNCHANGED vars
  BY DEF vars
<1> QED BY <1>1, <1>2, <1>3, <1>4, <1>5, <1>6, <1>7 DEF Next

\* A step that fails, in whatever handler or command, counts no tick, records no
\* frame, puts the chart back and loses no input: FailedTickKeepsInputs of Runtime.tla.
THEOREM FailedTicksKeepInputs == Spec => FailedTickKeepsInputs
<1> DEFINE Kept == /\ runtime'.tick = runtime.tick
                   /\ runtime'.frames = runtime.frames
                   /\ runtime'.chart = runtime.chart
                   /\ runtime'.pending \in {runtime.pending, SortedInputs(runtime.pending)}
           Known == ReplayInvariant /\ FaultsCounted
<1>1. Init => Known
  BY ReplayInvariantInitially DEF Init, FaultsCounted
<1>2. Known /\ [Next]_vars => Known'
  BY ReplayInvariantSteps, FaultsStayCounted
<1>3. Known /\ [Next]_vars => [faults'.replay > faults.replay => Kept]_vars
  <2> SUFFICES ASSUME Known, [Next]_vars, faults'.replay > faults.replay
               PROVE  Kept
    OBVIOUS
  <2>1. Step /\ CommitTick(runtime).error # "none"
    BY OnlyFailedStepsCount
  <2>2. IsRuntime(runtime)
    BY DEF ReplayInvariant
  <2>3. Failed(runtime, CommitTick(runtime).runtime)
    BY <2>1, <2>2, TickDecides
  <2>4. runtime' = CommitTick(runtime).runtime
    BY <2>1 DEF Step
  <2> QED BY <2>3, <2>4 DEF Failed
<1> HIDE DEF Known, Kept
<1>4. Spec => [][faults'.replay > faults.replay => Kept]_vars
  BY <1>1, <1>2, <1>3, PTL DEF Spec
<1> QED BY <1>4 DEF FailedTickKeepsInputs, Kept

-----------------------------------------------------------------------------
(* What a hash tells of a timer *)

\* The ticks a timer has are those it was last started for.
LEMMA TimerIsTold ==
  ASSUME NEW t, Timer(runtime.timers[t], runtime.hash, 1, t), IsSeq(runtime.hash)
  PROVE  LET i == LastStart(t)
         IN runtime.timers[t] + TicksSince(i) = runtime.hash[i][3] + 1
<1> DEFINE hash == runtime.hash
<1>1. PICK n \in Nat : DOMAIN hash = 1..n
  BY SeqGrows
<1>2. PICK i \in DOMAIN hash :
        /\ IsStart(hash[i], t)
        /\ \A j \in DOMAIN hash : IsStart(hash[j], t) => j <= i
        /\ runtime.timers[t] + Cardinality(TicksAfter(hash, i)) = hash[i][3] + 1
  BY DEF Timer
<1> DEFINE starts == {j \in DOMAIN hash : hash[j][1] = "start" /\ hash[j][2] = t}
<1>3. i \in starts /\ \A j \in starts : j <= i
  BY <1>2 DEF IsStart
<1>4. \A j \in starts : (\A l \in starts : l <= j) => j = i
  BY <1>1, <1>3
<1>5. (CHOOSE j \in starts : \A l \in starts : l <= j) = i
  <2> HIDE DEF starts
  <2> QED BY <1>3, <1>4
<1>6. LastStart(t) = i
  BY <1>5 DEF LastStart
<1>7. TicksSince(i) = Cardinality(TicksAfter(hash, i))
  BY DEF TicksSince, TicksAfter
<1> QED BY <1>2, <1>6, <1>7

-----------------------------------------------------------------------------
(* Two runtimes that a save does not tell apart, the second with no more events *)

Alike(r, s) ==
  /\ s.tick = r.tick /\ s.hash = r.hash /\ s.integers = r.integers /\ s.draws = r.draws
  /\ s.timers = r.timers /\ s.chart = r.chart
  /\ Len(s.events) <= Len(r.events)

LEMMA IntegersAlike ==
  ASSUME NEW r, GoodRuntime(r), NEW s, GoodRuntime(s), Alike(r, s), NEW integers, NEW hash
  PROVE  Alike(SetIntegers(r, integers, hash), SetIntegers(s, integers, hash))
BY DEF SetIntegers, Alike, GoodRuntime, IsRuntime, Fields

LEMMA TimersAlike ==
  ASSUME NEW r, GoodRuntime(r), NEW s, GoodRuntime(s), Alike(r, s), NEW timers, NEW hash
  PROVE  Alike(SetTimers(r, timers, hash), SetTimers(s, timers, hash))
BY DEF SetTimers, Alike, GoodRuntime, IsRuntime, Fields

LEMMA EventsAlike ==
  ASSUME NEW r, GoodRuntime(r), NEW s, GoodRuntime(s), Alike(r, s),
         NEW events, NEW others, Len(others) <= Len(events), NEW next, NEW other, NEW hash
  PROVE  Alike(SetEvents(r, events, next, hash), SetEvents(s, others, other, hash))
BY DEF SetEvents, Alike, GoodRuntime, IsRuntime, Fields

\* A command that succeeds for one succeeds for the other.
LEMMA CommandAlike ==
  ASSUME NEW r, GoodRuntime(r), NEW s, GoodRuntime(s), Alike(r, s), NEW c \in Commands,
         ApplyTo(r, c).error = "none"
  PROVE  ApplyTo(s, c).error = "none" /\ Alike(ApplyTo(r, c).runtime, ApplyTo(s, c).runtime)
<1>1. s.integers = r.integers /\ s.timers = r.timers /\ s.hash = r.hash
  BY DEF Alike
<1>2. CASE c.kind = "add_integer"
  <2> DEFINE sum == r.integers[c.id] + c.value
             integers == [r.integers EXCEPT ![c.id] = sum]
             hash == Append(r.hash, <<"integer", c.id, sum>>)
  <2>1. ApplyTo(r, c) = IF sum \notin MinInteger..MaxInteger THEN Outcome("integer_overflow", r)
                        ELSE Outcome("none", SetIntegers(r, integers, hash))
    BY <1>2, AddIntegerIs
  <2>2. ApplyTo(s, c) = IF sum \notin MinInteger..MaxInteger THEN Outcome("integer_overflow", s)
                        ELSE Outcome("none", SetIntegers(s, integers, hash))
    BY <1>1, <1>2, AddIntegerIs
  <2> HIDE DEF sum, integers, hash
  <2>3. /\ ApplyTo(r, c).runtime = SetIntegers(r, integers, hash)
        /\ ApplyTo(s, c).error = "none" /\ ApplyTo(s, c).runtime = SetIntegers(s, integers, hash)
    BY <2>1, <2>2 DEF Outcome
  <2> QED BY <2>3, IntegersAlike
<1>3. CASE c.kind = "start_timer"
  <2> DEFINE timers == [r.timers EXCEPT ![c.id] = c.value]
             hash == Append(r.hash, <<"start", c.id, c.value>>)
  <2>1. ApplyTo(r, c) = Outcome("none", SetTimers(r, timers, hash))
    BY <1>3, StartTimerIs
  <2>2. ApplyTo(s, c) = Outcome("none", SetTimers(s, timers, hash))
    BY <1>1, <1>3, StartTimerIs
  <2> HIDE DEF timers, hash
  <2> QED BY <2>1, <2>2, TimersAlike DEF Outcome
<1>4. CASE c.kind = "cancel_timer"
  <2> DEFINE timers == [r.timers EXCEPT ![c.id] = 0]
             hash == Append(r.hash, <<"cancel", c.id>>)
             left == r.timers[c.id]
  <2>1. ApplyTo(r, c) = Outcome("none", IF left = 0 THEN r ELSE SetTimers(r, timers, hash))
    BY <1>4, CancelTimerIs
  <2>2. ApplyTo(s, c) = Outcome("none", IF left = 0 THEN s ELSE SetTimers(s, timers, hash))
    BY <1>1, <1>4, CancelTimerIs
  <2> HIDE DEF timers, hash, left
  <2>3. Alike(SetTimers(r, timers, hash), SetTimers(s, timers, hash))
    BY TimersAlike
  <2> QED BY <2>1, <2>2, <2>3 DEF Outcome
<1>5. CASE c.kind = "present"
  <2> DEFINE events == Append(r.events, [id |-> c.id, sequence |-> r.nextSequence])
             others == Append(s.events, [id |-> c.id, sequence |-> s.nextSequence])
             hash == Append(r.hash, <<"present", c.id>>)
             next == r.nextSequence + 1
             other == s.nextSequence + 1
  <2>1. ApplyTo(r, c) =
          IF Len(r.events) >= MaxPresentationEvents THEN Outcome("presentation_limit", r)
          ELSE Outcome("none", SetEvents(r, events, next, hash))
    BY <1>5, PresentIs
  <2>2. ApplyTo(s, c) =
          IF Len(s.events) >= MaxPresentationEvents THEN Outcome("presentation_limit", s)
          ELSE Outcome("none", SetEvents(s, others, other, hash))
    BY <1>1, <1>5, PresentIs
  <2>3. /\ Len(s.events) <= Len(r.events) /\ Len(s.events) \in Nat /\ Len(r.events) \in Nat
        /\ Len(events) = Len(r.events) + 1 /\ Len(others) = Len(s.events) + 1
    BY SeqGrows DEF Alike, GoodRuntime
  <2> HIDE DEF events, others, hash, next, other
  <2>4. Len(others) <= Len(events)
    BY <2>3
  <2>5. ~(Len(r.events) >= MaxPresentationEvents) /\ ~(Len(s.events) >= MaxPresentationEvents)
    BY <2>1, <2>3, LimitsAssumption DEF Outcome
  <2>6. /\ ApplyTo(r, c).runtime = SetEvents(r, events, next, hash)
        /\ ApplyTo(s, c).error = "none"
        /\ ApplyTo(s, c).runtime = SetEvents(s, others, other, hash)
    BY <2>1, <2>2, <2>5 DEF Outcome
  <2>7. Alike(SetEvents(r, events, next, hash), SetEvents(s, others, other, hash))
    BY <2>4, EventsAlike
  <2> QED BY <2>6, <2>7
<1>6. CASE c.kind = "set_region_delta"
  BY <1>6, RegionDeltaIs DEF Outcome
<1> QED BY <1>2, <1>3, <1>4, <1>5, <1>6, CommandKinds

LEMMA CommandsAlike ==
  ASSUME NEW r, GoodRuntime(r), NEW s, GoodRuntime(s), Alike(r, s), NEW commands \in Seq(Commands),
         CommandsApplied(r, commands).error = "none"
  PROVE  /\ CommandsApplied(s, commands).error = "none"
         /\ Alike(CommandsApplied(r, commands).runtime, CommandsApplied(s, commands).runtime)
<1> DEFINE base == Outcome("none", r)
           other == Outcome("none", s)
           Both(o, q) == /\ GoodRuntime(o.runtime) /\ GoodRuntime(q.runtime)
                         /\ o.error = "none" => q.error = "none" /\ Alike(o.runtime, q.runtime)
<1>1. PICK n \in Nat : n = Len(commands) /\ DOMAIN commands = 1..n
  OBVIOUS
<1>2. PICK f : Outcomes!IsProgress(f, 0, base, commands, n) /\ CommandsApplied(r, commands) = f[n]
  BY <1>1, CommandsAppliedIsFolded, Outcomes!FoldIsProgress
<1>3. PICK g : Outcomes!IsProgress(g, 0, other, commands, n) /\ CommandsApplied(s, commands) = g[n]
  BY <1>1, CommandsAppliedIsFolded, Outcomes!FoldIsProgress
<1>4. f[0] = base /\ \A i \in Nat : i + 1 <= n => f[i + 1] = Applying(0, f[i], commands[i + 1])
  <2> HIDE DEF base
  <2>1. n \in Nat
    BY <1>1
  <2> QED BY ONLY <1>2, <2>1, Outcomes!ProgressSteps, SMTT(30)
<1>5. g[0] = other /\ \A i \in Nat : i + 1 <= n => g[i + 1] = Applying(0, g[i], commands[i + 1])
  <2> HIDE DEF other
  <2>1. n \in Nat
    BY <1>1
  <2> QED BY ONLY <1>3, <2>1, Outcomes!ProgressSteps, SMTT(30)
<1>6. Both(base, other)
  BY DEF Outcome
<1>7. ASSUME NEW o, NEW q, Both(o, q), NEW c \in Commands
      PROVE  Both(ApplyCommand(o, c), ApplyCommand(q, c))
  <2>1. /\ GoodRuntime(ApplyCommand(o, c).runtime)
    <3>1. GoodRuntime(ApplyTo(o.runtime, c).runtime)
      BY <1>7, CommandKeeps
    <3> QED BY <1>7, <3>1 DEF ApplyCommand
  <2>2. /\ GoodRuntime(ApplyCommand(q, c).runtime)
    <3>1. GoodRuntime(ApplyTo(q.runtime, c).runtime)
      BY <1>7, CommandKeeps
    <3> QED BY <1>7, <3>1 DEF ApplyCommand
  <2>3. ASSUME ApplyCommand(o, c).error = "none"
        PROVE  /\ ApplyCommand(q, c).error = "none"
               /\ Alike(ApplyCommand(o, c).runtime, ApplyCommand(q, c).runtime)
    <3>1. o.error = "none" /\ ApplyCommand(o, c) = ApplyTo(o.runtime, c)
      BY <2>3 DEF ApplyCommand
    <3>2. q.error = "none" /\ ApplyCommand(q, c) = ApplyTo(q.runtime, c)
      BY <1>7, <3>1 DEF ApplyCommand
    <3>3. GoodRuntime(o.runtime) /\ GoodRuntime(q.runtime) /\ Alike(o.runtime, q.runtime)
      BY <1>7, <3>1
    <3> QED BY <2>3, <3>1, <3>2, <3>3, CommandAlike
  <2> QED BY <2>1, <2>2, <2>3
<1> HIDE DEF Both, base, other
<1> DEFINE Reached == {i \in Nat : i <= n => Both(f[i], g[i])}
<1>8. 0 \in Reached
  BY <1>4, <1>5, <1>6
<1>9. ASSUME NEW i \in Nat, i \in Reached PROVE i + 1 \in Reached
  <2> SUFFICES ASSUME i + 1 <= n PROVE Both(f[i + 1], g[i + 1])
    OBVIOUS
  <2>1. /\ f[i + 1] = ApplyCommand(f[i], commands[i + 1])
        /\ g[i + 1] = ApplyCommand(g[i], commands[i + 1])
    BY <1>4, <1>5 DEF Applying
  <2>2. commands[i + 1] \in Commands /\ i <= n
    <3> HIDE DEF Reached
    <3> QED BY <1>1
  <2> QED BY <1>7, <1>9, <2>1, <2>2
<1> HIDE DEF Reached
<1>10. Nat \subseteq Reached
  BY <1>8, <1>9, Outcomes!Induction
<1>11. Both(f[n], g[n])
  BY <1>10 DEF Reached
<1> QED BY <1>2, <1>3, <1>11 DEF Both

LEMMA ApplyAlike ==
  ASSUME NEW r, GoodRuntime(r), NEW s, GoodRuntime(s), Alike(r, s), NEW commands \in Seq(Commands),
         ApplyCommands(r, commands).error = "none"
  PROVE  /\ ApplyCommands(s, commands).error = "none"
         /\ Alike(ApplyCommands(r, commands).runtime, ApplyCommands(s, commands).runtime)
<1> DEFINE first == CommandsApplied(r, commands)
           second == CommandsApplied(s, commands)
<1>1. /\ CommandError(commands, first) = "none" /\ first.error = "none"
      /\ ApplyCommands(r, commands) = Outcome("none", WithCommitted(r, first.runtime))
  BY ApplyCommandsIs DEF Outcome
<1>2. second.error = "none" /\ Alike(first.runtime, second.runtime)
  BY <1>1, CommandsAlike
<1>3. GoodRuntime(first.runtime) /\ GoodRuntime(second.runtime)
  BY CommandsKeep
<1>4. \/ CommandError(commands, second) # "none"
      \/ ApplyCommands(s, commands) = Outcome("none", WithCommitted(s, second.runtime))
  BY ApplyCommandsIs
<1> HIDE DEF first, second
<1>5. CommandError(commands, second) = "none"
  BY <1>1, <1>2 DEF CommandError
<1>6. Alike(WithCommitted(r, first.runtime), WithCommitted(s, second.runtime))
  BY <1>2, <1>3, CommittedIsGood DEF Alike
<1> QED BY <1>1, <1>4, <1>5, <1>6 DEF Outcome

LEMMA AppliedAlike ==
  ASSUME NEW r, GoodRuntime(r), NEW s, GoodRuntime(s), Alike(r, s), NEW h, GoodHandling(h),
         Applied(r, h).error = "none"
  PROVE  Applied(s, h).error = "none" /\ Alike(Applied(r, h).runtime, Applied(s, h).runtime)
<1>1. h.error = "none"
  BY DEF Applied, Outcome
<1>2. Applied(r, h) = ApplyCommands(r, h.commands) /\ Applied(s, h) = ApplyCommands(s, h.commands)
  BY <1>1 DEF Applied
<1>3. h.commands \in Seq(Commands)
  BY DEF GoodHandling
<1> QED BY <1>2, <1>3, ApplyAlike

-----------------------------------------------------------------------------
(* Handlers that cannot tell the two apart do the same *)

LEMMA ViewsAlike ==
  ASSUME NEW r, NEW s, Alike(r, s)
  PROVE  Handling(r) = Handling(s) /\ \A draws : View(r, draws) = View(s, draws)
BY DEF Alike, Handling, View

LEMMA TimersHandledAlike ==
  ASSUME NEW r, NEW s, Alike(r, s), NEW timers
  PROVE  TimersHandled(r, Expired(timers)) = TimersHandled(s, Expired(timers))
<1> DEFINE seq == Sorted(SetToSeq(Expired(timers)), TimerBefore)
<1>1. seq \in Seq(Timers)
  BY ExpiredAreTimers
<1> HIDE DEF seq
<1>2. PICK n \in Nat : DOMAIN seq = 1..n
  BY <1>1
<1>3. \A h, t : Ringing(r, h, t) = Ringing(s, h, t)
  BY ViewsAlike DEF Ringing, HandleTimer
<1>4. \A base : Rings!Folded(r, base, seq) = Rings!Folded(s, base, seq)
  BY <1>2, <1>3, Rings!FoldOfSame
<1> QED BY <1>4, ViewsAlike, TimersHandledIsFolded DEF seq

LEMMA StatechartAlike ==
  ASSUME NEW r, NEW s, Alike(r, s), NEW h, NEW event
  PROVE  RunStatechart(r, h, event) = RunStatechart(s, h, event)
<1>1. View(r, h.draws) = View(s, h.draws)
  BY ViewsAlike
<1> QED BY <1>1 DEF RunStatechart

LEMMA InputAlike ==
  ASSUME NEW r, NEW s, Alike(r, s), NEW h, NEW input
  PROVE  HandleInput(r, h, input) = HandleInput(s, h, input)
<1> DEFINE g == RunStatechart(r, h, input.action)
<1>1. g = RunStatechart(s, h, input.action)
  BY StatechartAlike
<1>2. HandleInput(r, h, input) = IF h.error # "none" THEN h ELSE CallOnInput(r, g, input.action)
  BY DEF HandleInput
<1>3. HandleInput(s, h, input) = IF h.error # "none" THEN h ELSE CallOnInput(s, g, input.action)
  BY <1>1 DEF HandleInput
<1> HIDE DEF g
<1>4. View(r, g.draws) = View(s, g.draws)
  BY ViewsAlike
<1>5. CallOnInput(r, g, input.action) = CallOnInput(s, g, input.action)
  BY <1>4 DEF CallOnInput
<1> QED BY <1>2, <1>3, <1>5

LEMMA InputsHandledAlike ==
  ASSUME NEW r, GoodRuntime(r), NEW s, Alike(r, s), s.pending = r.pending
  PROVE  InputsHandled(r) = InputsHandled(s)
<1>1. PICK n \in Nat : DOMAIN r.pending = 1..n
  BY DEF GoodRuntime
<1>2. \A h, input : Taking(r, h, input) = Taking(s, h, input)
  BY InputAlike DEF Taking
<1>3. \A base : Takes!Folded(r, base, r.pending) = Takes!Folded(s, base, r.pending)
  BY <1>1, <1>2, Takes!FoldOfSame
<1>4. ChartAdvanced(r) = ChartAdvanced(s)
  <2>1. Handling(r) = Handling(s)
    BY ViewsAlike
  <2> QED BY <2>1, StatechartAlike DEF ChartAdvanced
<1> QED BY <1>3, <1>4, InputsHandledIsFolded

LEMMA FiringAlike ==
  ASSUME NEW r, GoodRuntime(r), NEW s, GoodRuntime(s), Alike(r, s),
         FireExpiredTimers(r).error = "none"
  PROVE  /\ FireExpiredTimers(s).error = "none"
         /\ Alike(FireExpiredTimers(r).runtime, FireExpiredTimers(s).runtime)
<1> DEFINE timers == AdvanceTimers(r.timers)
           expired == Expired(r.timers)
           first == SetTimers(r, timers, r.hash)
           second == SetTimers(s, timers, s.hash)
           h == TimersHandled(first, expired)
           drawn == [first EXCEPT !.draws = h.draws]
           other == [second EXCEPT !.draws = h.draws]
<1>1. s.timers = r.timers /\ s.hash = r.hash /\ IsRuntime(r) /\ IsRuntime(s)
      /\ IsSeq(r.hash) /\ IsSeq(s.hash) /\ timers \in Stores
  BY TimersAdvance DEF Alike, GoodRuntime, GoodState
<1>2. [r EXCEPT !.timers = AdvanceTimers(@)] = first /\ [s EXCEPT !.timers = AdvanceTimers(@)] = second
  <2>1. [r EXCEPT !.timers = AdvanceTimers(@)] = [r EXCEPT !.timers = timers]
        /\ [s EXCEPT !.timers = AdvanceTimers(@)] = [s EXCEPT !.timers = timers]
    BY <1>1
  <2> HIDE DEF timers
  <2> QED BY <1>1, <2>1 DEF SetTimers, IsRuntime, Fields
<1> HIDE DEF timers
<1>3. GoodRuntime(first) /\ GoodRuntime(second)
  BY <1>1, WithTimers
<1>4. Alike(first, second)
  BY <1>1, TimersAlike
<1> HIDE DEF first, second
<1>5. h = TimersHandled(second, expired) /\ GoodHandling(h)
  BY <1>3, <1>4, TimersHandledAlike, TimersHandledIsGood
<1>6. FireExpiredTimers(r) = Applied(drawn, h) /\ FireExpiredTimers(s) = Applied(other, h)
  BY <1>1, <1>2, <1>5 DEF FireExpiredTimers, FireTimers, AfterTimers
<1> HIDE DEF h
<1>7. GoodRuntime(drawn) /\ GoodRuntime(other) /\ Alike(drawn, other)
  <2>1. h.draws \in Nat
    BY <1>5 DEF GoodHandling
  <2>2. GoodRuntime(drawn) /\ GoodRuntime(other)
    BY <1>3, <2>1, DrawsAreMade
  <2>3. Alike(drawn, other)
    <3>1. IsRuntime(first) /\ IsRuntime(second)
      BY <1>3 DEF GoodRuntime
    <3> QED BY ONLY <1>4, <3>1 DEF Alike, IsRuntime, Fields
  <2> QED BY <2>2, <2>3
<1> HIDE DEF drawn, other
<1> QED BY <1>5, <1>6, <1>7, AppliedAlike

LEMMA InputsAlike ==
  ASSUME NEW r, GoodRuntime(r), NEW s, GoodRuntime(s), Alike(r, s), s.pending = r.pending,
         AfterInputs(r, InputsHandled(r)).error = "none"
  PROVE  LET first == AfterInputs(r, InputsHandled(r))
             second == AfterInputs(s, InputsHandled(s))
         IN second.error = "none" /\ Alike(first.runtime, second.runtime)
<1> DEFINE h == InputsHandled(r)
           drawn == [r EXCEPT !.draws = h.draws, !.chart = h.chart, !.hash = h.hash]
           other == [s EXCEPT !.draws = h.draws, !.chart = h.chart, !.hash = h.hash]
<1>1. GoodHandling(h) /\ InputsHandled(s) = h
  BY InputsHandledIsGood, InputsHandledAlike
<1>2. AfterInputs(r, h) = Applied(drawn, h) /\ AfterInputs(s, h) = Applied(other, h)
  BY DEF AfterInputs
<1> HIDE DEF h
<1>3. GoodRuntime(drawn) /\ GoodRuntime(other)
  BY <1>1, HandlingIsTaken
<1>4. Alike(drawn, other)
  BY DEF Alike, GoodRuntime, IsRuntime, Fields
<1> HIDE DEF drawn, other
<1>5. Applied(drawn, h).error = "none"
  BY <1>2 DEF h
<1>6. Applied(other, h).error = "none" /\ Alike(Applied(drawn, h).runtime, Applied(other, h).runtime)
  BY <1>1, <1>3, <1>4, <1>5, AppliedAlike
<1> QED BY <1>1, <1>2, <1>6 DEF h

LEMMA ConfirmAlike ==
  ASSUME NEW r, GoodRuntime(r), NEW s, GoodRuntime(s), Alike(r, s), s.pending = r.pending
  PROVE  Alike(Confirm(r), Confirm(s))
<1> DEFINE mark == <<"tick", r.tick + 1, r.pending, r.timers, r.draws, r.chart>>
           hash == Append(r.hash, mark)
           next == r.tick + 1
<1>1. Confirm(r) = [r EXCEPT !.tick = next, !.frames = Append(r.frames, r.pending),
                             !.hash = hash, !.pending = <<>>]
  BY DEF Confirm
<1>2. Confirm(s) = [s EXCEPT !.tick = next, !.frames = Append(s.frames, s.pending),
                             !.hash = hash, !.pending = <<>>]
  BY DEF Confirm, Alike
<1> HIDE DEF hash, next
<1>3. IsRuntime(r) /\ IsRuntime(s)
  BY DEF GoodRuntime
<1>4. /\ Confirm(r).tick = next /\ Confirm(r).hash = hash /\ Confirm(r).integers = r.integers
      /\ Confirm(r).draws = r.draws /\ Confirm(r).timers = r.timers
      /\ Confirm(r).chart = r.chart /\ Confirm(r).events = r.events
  BY <1>1, <1>3 DEF IsRuntime, Fields
<1>5. /\ Confirm(s).tick = next /\ Confirm(s).hash = hash /\ Confirm(s).integers = s.integers
      /\ Confirm(s).draws = s.draws /\ Confirm(s).timers = s.timers
      /\ Confirm(s).chart = s.chart /\ Confirm(s).events = s.events
  BY <1>2, <1>3 DEF IsRuntime, Fields
<1> QED BY <1>4, <1>5 DEF Alike

\* A tick that is committed is committed again by a runtime alike, given its sorted inputs.
LEMMA TickAlike ==
  ASSUME NEW r, GoodRuntime(r), NEW s, GoodRuntime(s), Alike(r, s),
         s.pending = SortedInputs(r.pending), CommitTick(r).error = "none"
  PROVE  /\ CommitTick(s).error = "none"
         /\ Alike(CommitTick(r).runtime, CommitTick(s).runtime)
<1> DEFINE fired == FireExpiredTimers(r)
           fired2 == FireExpiredTimers(s)
           sorted == [fired.runtime EXCEPT !.pending = SortedInputs(@)]
           sorted2 == [fired2.runtime EXCEPT !.pending = SortedInputs(@)]
           applied == AfterInputs(sorted, InputsHandled(sorted))
           applied2 == AfterInputs(sorted2, InputsHandled(sorted2))
<1>1. fired.error = "none"
  BY DEF CommitTick, CommitInputs
<1>2. /\ fired2.error = "none" /\ Alike(fired.runtime, fired2.runtime)
      /\ GoodRuntime(fired.runtime) /\ GoodRuntime(fired2.runtime)
      /\ fired.runtime.pending = r.pending /\ fired2.runtime.pending = s.pending
  <2>1. IsRuntime(r) /\ IsRuntime(s)
    BY DEF GoodRuntime
  <2> QED BY <1>1, <2>1, FiringAlike, FiringKeeps, TimersKeepReplay DEF SameReplay
<1>3. CommitTick(r) = Finish(sorted.chart, applied) /\ CommitTick(s) = Finish(sorted2.chart, applied2)
  BY <1>1, <1>2 DEF CommitTick, CommitInputs, CommitSorted
<1> HIDE DEF fired, fired2
<1>4. /\ GoodRuntime(sorted) /\ GoodRuntime(sorted2) /\ Alike(sorted, sorted2)
      /\ sorted2.pending = sorted.pending
  <2>1. r.pending \in Seq(LogicalInputs)
    BY DEF GoodRuntime
  <2>2. SortedInputs(SortedInputs(r.pending)) = SortedInputs(r.pending)
    BY <2>1, SortedInputsAreInputs
  <2> QED BY <1>2, <2>2, PendingIsSorted DEF Alike
<1> HIDE DEF sorted, sorted2
<1>5. applied.error = "none" /\ CommitTick(r).runtime = Confirm(applied.runtime)
  BY <1>3 DEF Finish, Outcome
<1>6. applied2.error = "none" /\ Alike(applied.runtime, applied2.runtime)
  BY <1>4, <1>5, InputsAlike
<1>7. CommitTick(s).error = "none" /\ CommitTick(s).runtime = Confirm(applied2.runtime)
  BY <1>3, <1>6 DEF Finish, Outcome
<1>8. /\ GoodRuntime(applied.runtime) /\ GoodRuntime(applied2.runtime)
      /\ applied.runtime.pending = sorted.pending /\ applied2.runtime.pending = sorted2.pending
  <2>1. IsRuntime(sorted) /\ IsRuntime(sorted2)
    BY <1>4 DEF GoodRuntime
  <2> QED BY <1>4, <2>1, InputsKeep, InputsKeepReplay DEF SameReplay
<1> HIDE DEF applied, applied2
<1>9. Alike(Confirm(applied.runtime), Confirm(applied2.runtime))
  BY <1>4, <1>6, <1>8, ConfirmAlike
<1> QED BY <1>5, <1>7, <1>9

-----------------------------------------------------------------------------
(* The re-execution of a replay *)

Verifying(c, outcome, frame) == VerifyFrame(outcome, frame)

Verifies == INSTANCE FoldLemmas WITH Op <- Verifying

\* The frames of a runtime, executed again from where its replay starts.
Executed(initial, frames) == Verifies!Folded(0, LoadSaveInto(NewRuntime, initial), frames)

LEMMA VerifyReplayIs ==
  ASSUME NEW replay
  PROVE  VerifyReplay(replay) = Agreement(Executed(replay.initial, replay.frames), replay)
<1>1. FoldLeft(VerifyFrame, LoadSaveInto(NewRuntime, replay.initial), replay.frames)
        = Executed(replay.initial, replay.frames)
  BY Zenon DEF Executed, FoldLeft, Verifies!Folded, Verifies!FoldLeft, MapThenFoldSet,
    Verifies!MapThenFoldSet, Max, Verifies!Max, Verifying
<1> QED BY <1>1 DEF VerifyReplay

\* That comes to the same saved state, without an error.
Executes(r) ==
  LET end == Executed(r.initial, r.frames)
  IN /\ end.error = "none" /\ GoodRuntime(end.runtime)
     /\ end.runtime.events = <<>> /\ SaveOf(end.runtime) = SaveOf(r)

LEMMA NothingExecutes ==
  ASSUME NEW r, GoodSave(r.initial), r.frames = <<>>, SaveOf(r) = r.initial
  PROVE  Executes(r)
<1> DEFINE start == LoadSaveInto(NewRuntime, r.initial)
<1>1. /\ start.error = "none" /\ GoodRuntime(start.runtime)
      /\ start.runtime.events = <<>> /\ SaveOf(start.runtime) = r.initial
  BY NewRuntimeIsGood, LoadIsGood
<1> HIDE DEF start
<1>2. Executed(r.initial, r.frames) = start
  BY Verifies!FoldOfNothing DEF Executed, start
<1> QED BY <1>1, <1>2 DEF Executes

\* One more committed tick.
LEMMA TickExecutes ==
  ASSUME NEW r, GoodRuntime(r), r.frames \in Seq(Seq(LogicalInputs)), Executes(r),
         CommitTick(r).error = "none"
  PROVE  Executes(CommitTick(r).runtime)
<1> DEFINE s == CommitTick(r).runtime
           frame == SortedInputs(r.pending)
           end == Executed(r.initial, r.frames)
           start == LoadSaveInto(NewRuntime, r.initial)
           q == [end.runtime EXCEPT !.pending = frame]
           tick == CommitTick(q)
           next == [tick.runtime EXCEPT !.events = <<>>]
<1>1. frame \in Seq(LogicalInputs) /\ Len(frame) = Len(r.pending) /\ Len(r.pending) <= MaxPendingInputs
  BY SortedInputsAreInputs DEF GoodRuntime
<1>2. s.initial = r.initial /\ s.frames = Append(r.frames, frame)
  <2>1. IsRuntime(r)
    BY DEF GoodRuntime
  <2> QED BY <2>1, TickDecides DEF Confirmed
<1>3. GoodRuntime(s)
  BY TickKeeps
<1> HIDE DEF frame
<1>4. Executed(s.initial, s.frames) = VerifyFrame(end, frame)
  <2>1. Verifies!Folded(0, start, Append(r.frames, frame))
          = Verifying(0, Verifies!Folded(0, start, r.frames), frame)
    <3> HIDE DEF start
    <3> QED BY <1>1, Verifies!FoldOfMore
  <2> QED BY <1>2, <2>1 DEF Executed, Verifying
<1> HIDE DEF s
<1>5. /\ end.error = "none" /\ GoodRuntime(end.runtime)
      /\ end.runtime.events = <<>> /\ SaveOf(end.runtime) = SaveOf(r)
  BY DEF Executes
<1> HIDE DEF end
<1>6. VerifyFrame(end, frame) = AcceptFrame(tick)
  <2>1. ~(Len(frame) > MaxPendingInputs)
    <3>1. Len(frame) \in Nat
      BY <1>1
    <3> QED BY <1>1, <3>1, LimitsAssumption
  <2>2. ~(end.error # "none") /\ ~(end.error = "none" /\ Len(frame) > MaxPendingInputs)
    BY <1>5, <2>1
  <2> QED BY <2>2, Zenon DEF VerifyFrame
<1>7. GoodRuntime(q) /\ q.pending = frame /\ Alike(r, q)
  <2>1. /\ IsRuntime(q) /\ q.tick = end.runtime.tick /\ q.hash = end.runtime.hash
        /\ q.integers = end.runtime.integers /\ q.draws = end.runtime.draws
        /\ q.timers = end.runtime.timers /\ q.chart = end.runtime.chart
        /\ q.events = end.runtime.events /\ q.pending = frame
        /\ q.nextSequence = end.runtime.nextSequence
    BY <1>5 DEF GoodRuntime, IsRuntime, Fields
  <2>2. /\ end.runtime.tick = r.tick /\ end.runtime.hash = r.hash
        /\ end.runtime.integers = r.integers /\ end.runtime.draws = r.draws
        /\ end.runtime.timers = r.timers /\ end.runtime.chart = r.chart
    BY <1>5 DEF SaveOf
  <2> HIDE DEF q
  <2>3. GoodRuntime(q)
    BY <1>1, <1>5, <2>1 DEF GoodRuntime, GoodState
  <2>4. Len(q.events) <= Len(r.events)
    <3>1. Len(r.events) \in Nat
      BY SeqGrows DEF GoodRuntime
    <3> QED BY <1>5, <2>1, <3>1, NothingIsSeq
  <2> QED BY <2>1, <2>2, <2>3, <2>4 DEF Alike
<1> HIDE DEF q
<1>8. tick.error = "none" /\ Alike(s, tick.runtime) /\ GoodRuntime(tick.runtime)
  BY <1>7, TickAlike, TickKeeps DEF frame, s
<1> HIDE DEF tick
<1>9. AcceptFrame(tick) = Outcome("none", next)
  BY <1>8 DEF AcceptFrame
<1>10. GoodRuntime(next) /\ next.events = <<>> /\ SaveOf(next) = SaveOf(s)
  <2>1. /\ IsRuntime(next) /\ next.tick = tick.runtime.tick /\ next.hash = tick.runtime.hash
        /\ next.integers = tick.runtime.integers /\ next.draws = tick.runtime.draws
        /\ next.timers = tick.runtime.timers /\ next.chart = tick.runtime.chart
        /\ next.events = <<>> /\ next.pending = tick.runtime.pending
        /\ next.nextSequence = tick.runtime.nextSequence
    BY <1>8 DEF GoodRuntime, IsRuntime, Fields
  <2> HIDE DEF next
  <2>2. IsSeq(<<>>) /\ Len(<<>>) <= MaxPresentationEvents
    BY NothingIsSeq, LimitsAssumption
  <2>3. GoodRuntime(next)
    BY <1>8, <2>1, <2>2 DEF GoodRuntime, GoodState
  <2> QED BY <1>8, <2>1, <2>3 DEF SaveOf, Alike
<1> HIDE DEF next
<1>11. Executed(s.initial, s.frames) = Outcome("none", next)
  BY <1>4, <1>6, <1>9
<1>12. Executes(s)
  BY <1>10, <1>11 DEF Executes, Outcome
<1> QED BY <1>12 DEF s

-----------------------------------------------------------------------------
(* The invariant of a Runtime and its host *)

\* What this host submits is an input as the kernel takes them.
LEMMA InputsAreLogical ==
  /\ Inputs \subseteq LogicalInputs
  /\ Seq(Inputs) \subseteq Seq(LogicalInputs)
  /\ Seq(Seq(Inputs)) \subseteq Seq(Seq(LogicalInputs))
<1>1. Inputs \subseteq LogicalInputs
  BY BoundsAssumption DEF Inputs, LogicalInputs
<1>2. ASSUME NEW S, NEW T, S \subseteq T
      PROVE  Seq(S) \subseteq Seq(T)
  BY <1>2
<1> QED BY <1>1, <1>2

\* What a runtime, and the archive kept of one, are in a timeline without a failed step.
Clean(x) == Told(x, 1) /\ EndsIn(x)

RuntimeInvariant ==
  /\ GoodRuntime(runtime) /\ runtime.pending \in Seq(Inputs)
  /\ runtime.frames \in Seq(Seq(Inputs)) /\ GoodSave(runtime.initial)
  /\ faults \in [replay : Nat, timeline : Nat]
  /\ saved # NoSave => GoodSave(saved.archive) /\ saved.faults \in Nat
  /\ faults.timeline = 0 => Clean(runtime)
  /\ saved # NoSave /\ saved.faults = 0 => Clean(saved.archive)
  /\ faults.replay = 0 => Executes(runtime)

\* Two good states that a save does not tell apart.
LEMMA SameIsClean ==
  ASSUME NEW x, NEW y, y.tick = x.tick, y.hash = x.hash, y.integers = x.integers,
         y.draws = x.draws, y.timers = x.timers, y.chart = x.chart, Clean(x)
  PROVE  Clean(y)
<1>1. EndsIn(y)
  BY DEF Clean, EndsIn
<1>2. Told(y, 1)
  BY DEF Clean, Told
<1> QED BY <1>1, <1>2 DEF Clean

LEMMA LoadedIsClean ==
  ASSUME NEW save, NEW s, SaveOf(s) = save, Clean(save)
  PROVE  Clean(s)
<1>1. /\ s.tick = save.tick /\ s.hash = save.hash /\ s.integers = save.integers
      /\ s.draws = save.draws /\ s.timers = save.timers /\ s.chart = save.chart
  BY DEF SaveOf
<1> QED BY <1>1, SameIsClean

\* Taking inputs and draining events change nothing the invariant is about.
LEMMA SameExecutes ==
  ASSUME NEW r, NEW s, Executes(r), s.initial = r.initial, s.frames = r.frames,
         SaveOf(s) = SaveOf(r)
  PROVE  Executes(s)
BY DEF Executes

\* A new runtime is good, and its empty replay executes.
THEOREM RuntimeInvariantInitially == Init => RuntimeInvariant
<1> SUFFICES ASSUME Init PROVE RuntimeInvariant
  OBVIOUS
<1>1. runtime = NewRuntime /\ saved = NoSave /\ faults = [replay |-> 0, timeline |-> 0]
  BY DEF Init
<1>2. GoodRuntime(runtime) /\ GoodSave(runtime.initial) /\ Clean(runtime)
  BY <1>1, NewRuntimeIsGood DEF Clean
<1>3. runtime.frames \in Seq(Seq(Inputs)) /\ runtime.pending \in Seq(Inputs)
  BY <1>1, NewRuntimeIsGood, EmptySequence
<1>4. Executes(runtime)
  BY <1>1, NewRuntimeIsGood, NothingExecutes
<1>5. faults \in [replay : Nat, timeline : Nat]
  BY <1>1
<1> QED BY <1>1, <1>2, <1>3, <1>4, <1>5 DEF RuntimeInvariant

\* Every call keeps it: a committed tick is re-executed alike, a failed one is counted.
THEOREM RuntimeInvariantSteps == RuntimeInvariant /\ [Next]_vars => RuntimeInvariant'
<1> SUFFICES ASSUME RuntimeInvariant, [Next]_vars
             PROVE  RuntimeInvariant'
  OBVIOUS
<1>0. /\ GoodRuntime(runtime) /\ IsRuntime(runtime) /\ runtime.pending \in Seq(Inputs)
      /\ runtime.frames \in Seq(Seq(Inputs)) /\ GoodSave(runtime.initial)
      /\ faults \in [replay : Nat, timeline : Nat]
  BY DEF RuntimeInvariant, GoodRuntime
<1>1. ASSUME NEW input \in Inputs, SubmitInput(input)
      PROVE  RuntimeInvariant'
  <2> DEFINE s == [runtime EXCEPT !.pending = Append(runtime.pending, input)]
  <2>1. /\ runtime' = s /\ ~(Len(runtime.pending) >= MaxPendingInputs)
        /\ saved' = saved /\ faults' = faults
    BY <1>1 DEF SubmitInput, SubmitInputTo, Outcome
  <2>2. /\ IsRuntime(s) /\ s.tick = runtime.tick /\ s.hash = runtime.hash
        /\ s.integers = runtime.integers /\ s.draws = runtime.draws
        /\ s.timers = runtime.timers /\ s.chart = runtime.chart
        /\ s.events = runtime.events /\ s.nextSequence = runtime.nextSequence
        /\ s.frames = runtime.frames /\ s.initial = runtime.initial
        /\ s.pending = Append(runtime.pending, input)
    BY <1>0 DEF IsRuntime, Fields
  <2> HIDE DEF s
  <2>3. /\ s.pending \in Seq(Inputs) /\ s.pending \in Seq(LogicalInputs)
        /\ Len(s.pending) <= MaxPendingInputs
    <3>1. s.pending \in Seq(Inputs) /\ Len(runtime.pending) \in Nat
          /\ Len(s.pending) = Len(runtime.pending) + 1
      BY <1>0, <2>2
    <3> QED BY <2>1, <3>1, InputsAreLogical, LimitsAssumption
  <2>4. GoodRuntime(s)
    BY <1>0, <2>2, <2>3 DEF GoodRuntime, GoodState
  <2>5. SaveOf(s) = SaveOf(runtime)
    BY <2>2 DEF SaveOf
  <2>6. Clean(runtime) => Clean(s)
    BY <2>2, SameIsClean
  <2>7. Executes(runtime) => Executes(s)
    BY <2>2, <2>5, SameExecutes
  <2> QED BY <1>0, <2>1, <2>2, <2>3, <2>4, <2>6, <2>7 DEF RuntimeInvariant
<1>2. CASE Step
  <2> DEFINE tick == CommitTick(runtime)
             s == tick.runtime
  <2>1. /\ runtime' = s /\ saved' = saved
        /\ faults' = IF tick.error = "none" THEN faults
                     ELSE [replay |-> faults.replay + 1, timeline |-> faults.timeline + 1]
    BY <1>2 DEF Step
  <2>2. GoodRuntime(s) /\ s.pending \in Seq(Inputs)
    <3>1. SortedInputs(runtime.pending) \in Seq(Inputs)
      BY <1>0, InputsAreLogical, SortedInputsAreInputs
    <3> QED BY <1>0, <3>1, TickKeeps, EmptySequence
  <2>3. CASE tick.error = "none"
    <3>1. /\ s.initial = runtime.initial
          /\ s.frames = Append(runtime.frames, SortedInputs(runtime.pending))
      BY <1>0, <2>3, TickDecides DEF Confirmed
    <3>2. s.frames \in Seq(Seq(Inputs))
      <4> DEFINE frame == SortedInputs(runtime.pending)
                 Frames == Seq(Inputs)
      <4>1. frame \in Frames /\ runtime.frames \in Seq(Frames)
        BY <1>0, InputsAreLogical, SortedInputsAreInputs
      <4> HIDE DEF frame, Frames
      <4>2. Append(runtime.frames, frame) \in Seq(Frames)
        BY <4>1
      <4> QED BY <3>1, <4>2 DEF frame, Frames
    <3>3. Clean(runtime) => Clean(s)
      BY <1>0, <2>3, TickKeeps DEF Clean
    <3>4. Executes(runtime) => Executes(s)
      BY <1>0, <2>3, InputsAreLogical, TickExecutes
    <3> HIDE DEF s, tick
    <3> QED BY <1>0, <2>1, <2>2, <2>3, <3>1, <3>2, <3>3, <3>4 DEF RuntimeInvariant
  <2>4. CASE tick.error # "none"
    <3>1. s.initial = runtime.initial /\ s.frames = runtime.frames
      BY <1>0, <2>4, TickDecides DEF Failed
    <3> HIDE DEF s, tick
    <3>2. /\ faults' \in [replay : Nat, timeline : Nat]
          /\ faults'.replay # 0 /\ faults'.timeline # 0
      BY <1>0, <2>1, <2>4
    <3> QED BY <1>0, <2>1, <2>2, <3>1, <3>2 DEF RuntimeInvariant
  <2> QED BY <2>3, <2>4
<1>3. CASE DrainEvents
  <2> DEFINE s == [runtime EXCEPT !.events = <<>>]
  <2>1. runtime' = s /\ saved' = saved /\ faults' = faults
    BY <1>3 DEF DrainEvents
  <2>2. /\ IsRuntime(s) /\ s.tick = runtime.tick /\ s.hash = runtime.hash
        /\ s.integers = runtime.integers /\ s.draws = runtime.draws
        /\ s.timers = runtime.timers /\ s.chart = runtime.chart
        /\ s.events = <<>> /\ s.nextSequence = runtime.nextSequence
        /\ s.frames = runtime.frames /\ s.initial = runtime.initial
        /\ s.pending = runtime.pending
    BY <1>0 DEF IsRuntime, Fields
  <2> HIDE DEF s
  <2>3. IsSeq(<<>>) /\ Len(<<>>) <= MaxPresentationEvents
    BY NothingIsSeq, LimitsAssumption
  <2>4. GoodRuntime(s)
    BY <1>0, <2>2, <2>3 DEF GoodRuntime, GoodState
  <2>5. SaveOf(s) = SaveOf(runtime)
    BY <2>2 DEF SaveOf
  <2>6. Clean(runtime) => Clean(s)
    BY <2>2, SameIsClean
  <2>7. Executes(runtime) => Executes(s)
    BY <2>2, <2>5, SameExecutes
  <2> QED BY <1>0, <2>1, <2>2, <2>4, <2>6, <2>7 DEF RuntimeInvariant
<1>4. CASE Save
  <2>1. /\ runtime' = runtime /\ faults' = faults
        /\ saved'.archive = SaveOf(runtime) /\ saved'.faults = faults.timeline
    BY <1>4 DEF Save
  <2>2. GoodSave(SaveOf(runtime)) /\ (Clean(runtime) => Clean(SaveOf(runtime)))
    BY <1>0, SaveIsGood DEF Clean
  <2> QED BY <1>0, <2>1, <2>2 DEF RuntimeInvariant
<1>5. ASSUME NEW r, GoodRuntime(r), saved # NoSave,
             runtime' = LoadSaveInto(r, saved.archive).runtime, r.pending = <<>>,
             faults' = [replay |-> 0, timeline |-> saved.faults], saved' = saved
      PROVE  RuntimeInvariant'
  <2> DEFINE save == saved.archive
             s == LoadSaveInto(r, save).runtime
  <2>1. GoodSave(save) /\ saved.faults \in Nat /\ (saved.faults = 0 => Clean(save))
    BY <1>5 DEF RuntimeInvariant
  <2>2. /\ GoodRuntime(s) /\ SaveOf(s) = save
        /\ s.events = <<>> /\ s.frames = <<>> /\ s.initial = save /\ s.pending = <<>>
    BY <1>5, <2>1, LoadIsGood
  <2>3. runtime' = s
    BY <1>5
  <2> HIDE DEF s
  <2>4. Clean(save) => Clean(s)
    BY <2>2, LoadedIsClean
  <2>5. Executes(s)
    BY <2>1, <2>2, NothingExecutes
  <2>6. s.frames \in Seq(Seq(Inputs)) /\ s.pending \in Seq(Inputs)
    BY <2>2, EmptySequence
  <2> HIDE DEF save
  <2>7. /\ faults'.replay = 0 /\ faults'.timeline = saved.faults
        /\ faults' \in [replay : Nat, timeline : Nat]
    BY <1>5, <2>1
  <2> QED BY <1>5, <2>1, <2>2, <2>3, <2>4, <2>5, <2>6, <2>7 DEF RuntimeInvariant, save
<1>6. CASE LoadSave
  <2>1. /\ saved # NoSave /\ saved' = saved
        /\ runtime' = LoadSaveInto(runtime, saved.archive).runtime
        /\ LoadSaveInto(runtime, saved.archive).error = "none"
        /\ faults' = [replay |-> 0, timeline |-> saved.faults]
    BY <1>6 DEF LoadSave
  <2>2. runtime.pending = <<>>
    BY <2>1 DEF LoadSaveInto, Outcome
  <2> QED BY <1>0, <1>5, <2>1, <2>2
<1>7. CASE Restart
  <2>1. CASE saved = NoSave
    <3>1. /\ runtime' = NewRuntime /\ saved' = saved
          /\ faults' = [replay |-> 0, timeline |-> 0]
      BY <1>7, <2>1 DEF Restart
    <3>2. /\ GoodRuntime(NewRuntime) /\ GoodSave(NewRuntime.initial) /\ Clean(NewRuntime)
          /\ NewRuntime.frames \in Seq(Seq(Inputs)) /\ NewRuntime.pending \in Seq(Inputs)
      BY NewRuntimeIsGood, EmptySequence DEF Clean
    <3>3. Executes(NewRuntime)
      BY NewRuntimeIsGood, NothingExecutes
    <3>4. faults' \in [replay : Nat, timeline : Nat]
      BY <3>1
    <3> QED BY <2>1, <3>1, <3>2, <3>3, <3>4 DEF RuntimeInvariant
  <2>2. CASE saved # NoSave
    <3>1. /\ runtime' = LoadSaveInto(NewRuntime, saved.archive).runtime /\ saved' = saved
          /\ faults' = [replay |-> 0, timeline |-> saved.faults]
      BY <1>7, <2>2 DEF Restart
    <3> QED BY <1>5, <2>2, <3>1, NewRuntimeIsGood
  <2> QED BY <2>1, <2>2
<1>8. CASE UNCHANGED vars
  BY <1>8 DEF RuntimeInvariant, vars
<1> QED BY <1>1, <1>2, <1>3, <1>4, <1>6, <1>7, <1>8 DEF Next

LEMMA RuntimeInvariantHolds == Spec => []RuntimeInvariant
BY RuntimeInvariantInitially, RuntimeInvariantSteps, PTL DEF Spec

\* No call leaves a field out of its range: no integer overflows, and neither the
\* input queue nor the event buffer outgrows its limit, whatever the handlers ask for.
THEOREM RuntimeTypeCorrect == Spec => []TypeOK
<1>1. RuntimeInvariant => TypeOK
  BY DEF RuntimeInvariant, GoodRuntime, GoodState, TypeOK, Integers, Stores, Charts
<1> QED BY <1>1, RuntimeInvariantHolds, PTL

\* A session without a failed step gives a replay that verify_replay accepts: the
\* frames, executed again from the state they start from, meet the tick and the hash.
THEOREM CleanReplaysVerify == Spec => []CleanReplayVerifies
<1>1. RuntimeInvariant => CleanReplayVerifies
  <2> SUFFICES ASSUME RuntimeInvariant, faults.replay = 0
               PROVE  VerifyReplay(ReplayOf(runtime)) = "none"
    BY DEF CleanReplayVerifies
  <2> DEFINE end == Executed(runtime.initial, runtime.frames)
             replay == ReplayOf(runtime)
  <2>1. end.error = "none" /\ SaveOf(end.runtime) = SaveOf(runtime)
    BY DEF RuntimeInvariant, Executes
  <2>2. /\ replay.initial = runtime.initial /\ replay.frames = runtime.frames
        /\ replay.tick = runtime.tick /\ replay.hash = runtime.hash
    BY DEF ReplayOf
  <2> HIDE DEF end, replay
  <2>3. end.runtime.tick = runtime.tick /\ end.runtime.hash = runtime.hash
    BY <2>1 DEF SaveOf
  <2>4. VerifyReplay(replay) = Agreement(end, replay)
    BY <2>2, VerifyReplayIs DEF end
  <2>5. Agreement(end, replay) = "none"
    BY <2>1, <2>2, <2>3 DEF Agreement
  <2> QED BY <2>4, <2>5 DEF replay
<1> QED BY <1>1, RuntimeInvariantHolds, PTL

\* One hash, without failed steps behind it, names one state.
LEMMA SameHash ==
  ASSUME NEW x, NEW y, GoodState(x), GoodState(y), Clean(x), Clean(y), x.hash = y.hash
  PROVE  /\ x.tick = y.tick /\ x.integers = y.integers /\ x.draws = y.draws
         /\ x.timers = y.timers /\ x.chart = y.chart
<1>1. /\ x.tick = y.tick /\ x.draws = y.draws /\ x.timers = y.timers /\ x.chart = y.chart
  BY DEF Clean, EndsIn
<1>2. x.integers = y.integers
  <2>1. ASSUME NEW k \in Keys PROVE x.integers[k] = y.integers[k]
    <3>1. /\ IsSeq(x.hash) /\ Integer(x.integers[k], x.hash, k)
          /\ Integer(y.integers[k], x.hash, k)
      BY DEF Clean, Told, TellsIntegers, GoodState
    <3> QED BY <3>1, IntegerIsTold
  <2>2. x.integers \in [Keys -> MinInteger..MaxInteger] /\ y.integers \in [Keys -> MinInteger..MaxInteger]
    BY DEF GoodState, Integers
  <2> QED BY <2>1, <2>2
<1> QED BY <1>1, <1>2

\* A hash comparison is enough: of two points of clean timelines, the same hash means
\* the same saved state.
THEOREM HashesDetermineState == Spec => []HashDeterminesState
<1>1. RuntimeInvariant => HashDeterminesState
  <2> SUFFICES ASSUME RuntimeInvariant, saved # NoSave, saved.faults = 0, faults.timeline = 0,
                      saved.archive.hash = runtime.hash
               PROVE  SaveOf(runtime) = saved.archive
    BY DEF HashDeterminesState
  <2> DEFINE save == saved.archive
  <2>1. /\ GoodSave(save) /\ GoodRuntime(runtime) /\ Clean(save) /\ Clean(runtime)
        /\ save.hash = runtime.hash
    BY DEF RuntimeInvariant
  <2> HIDE DEF save
  <2>2. GoodState(save) /\ GoodState(runtime)
    BY <2>1 DEF GoodSave, GoodRuntime
  <2>3. /\ runtime.tick = save.tick /\ runtime.integers = save.integers
        /\ runtime.draws = save.draws /\ runtime.timers = save.timers
        /\ runtime.chart = save.chart
    BY <2>1, <2>2, SameHash
  <2>4. SaveOf(runtime) = save
    BY <2>1, <2>3, SameSaves
  <2> QED BY <2>4 DEF save
<1> QED BY <1>1, RuntimeInvariantHolds, PTL

\* A timer that runs has exactly the ticks left that it was started for, less those
\* committed since, across saves, loads and restarts.
THEOREM TimersKeepTheirTime == Spec => []TimersKeepTime
<1>1. RuntimeInvariant => TimersKeepTime
  <2> SUFFICES ASSUME RuntimeInvariant, faults.timeline = 0, NEW t \in Timers,
                      runtime.timers[t] # 0
               PROVE  LET i == LastStart(t)
                      IN runtime.timers[t] + TicksSince(i) = runtime.hash[i][3] + 1
    BY DEF TimersKeepTime
  <2>1. IsSeq(runtime.hash) /\ Timer(runtime.timers[t], runtime.hash, 1, t)
    BY DEF RuntimeInvariant, Clean, Told, TellsTimers, GoodRuntime, GoodState
  <2> QED BY <2>1, TimerIsTold
<1> QED BY <1>1, RuntimeInvariantHolds, PTL

=============================================================================
