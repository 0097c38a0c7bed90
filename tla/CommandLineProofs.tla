------------------------------ MODULE CommandLineProofs ------------------------------
(*************************************************************************)
(* Theorems about the commands of the command line: the session with the *)
(* worker (ControlSession), what a scenario does there and leaves (Scenario-*)
(* Worker), the evidence of every command (RunEvidence), the storage tools*)
(* (StorageTool) and the raster captures (RasterCapture).                *)
(*************************************************************************)
EXTENDS ControlSession, ScenarioWorker, RunEvidence, StorageTool, RasterCapture,
  FiniteSetTheorems, SequenceTheorems, TLAPS

-----------------------------------------------------------------------------
(* The session with the worker *)

ControlOperations == {"health", "load_scenario", "act", "wait_for", "inspect", "metrics",
               "verify_replay", "shutdown"}
Requests == [id : Nat, operation : ControlOperations]
ControlAnswers == [id : Nat, to : Nat, status : {"PASS", "FAIL"}]

ControlTypes ==
  /\ script \in Seq(ControlOperations)
  /\ requestSequence \in Nat
  /\ pending \subseteq Requests
  /\ stdin \in Seq(Requests)
  /\ stdout \in Seq(ControlAnswers)

\* An answer is of the request it names.
Answered(answers) == \A i \in DOMAIN answers : answers[i].to = answers[i].id

\* The worker is spawned by the first step of a session, and seen to exit after it did.
WorkerIsKnown ==
  /\ phase = "off" => worker = "none"
  /\ exited => worker = "gone"

ControlInvariant == ControlTypes /\ Answered(stdout) /\ WorkerIsKnown /\ SessionIsSettled

-----------------------------------------------------------------------------
LEMMA NothingToAsk ==
  <<>> \in Seq(ControlOperations)
BY DEF ControlOperations

LEMMA HeadsAndTails ==
  ASSUME NEW S, NEW s \in Seq(S), s # <<>>
  PROVE  Head(s) \in S /\ Tail(s) \in Seq(S)
OBVIOUS

LEMMA TailsAreAnswered ==
  ASSUME NEW s \in Seq(ControlAnswers), s # <<>>, Answered(s)
  PROVE  Head(s).to = Head(s).id /\ Answered(Tail(s))
<1>1. 1 \in DOMAIN s /\ Head(s) = s[1]
  OBVIOUS
<1>2. \A i \in DOMAIN Tail(s) : i + 1 \in DOMAIN s /\ Tail(s)[i] = s[i + 1]
  OBVIOUS
<1> QED BY <1>1, <1>2 DEF Answered

LEMMA WritingKeepsTypes ==
  ASSUME ControlTypes, NEW operation \in ControlOperations, Written(operation)
  PROVE  requestSequence' \in Nat /\ pending' \subseteq Requests /\ stdin' \in Seq(Requests)
<1>1. [id |-> requestSequence + 1, operation |-> operation] \in Requests
  BY DEF ControlTypes, Requests
<1> QED BY <1>1 DEF ControlTypes, Written

\* A request that is rejected leaves less to ask and closes nothing.
LEMMA RejectedKeepsTypes ==
  ASSUME NEW operation, Rejected(operation), ControlTypes
  PROVE  script' \in Seq(ControlOperations) /\ (phase' \in {"off", "closed"} => phase' = phase)
<1>1. script' = <<>> /\ phase' \in {"terminating", "leaving", phase}
  BY DEF Rejected
<1> QED BY <1>1, NothingToAsk

LEMMA RemainingIsAsked ==
  ASSUME ControlTypes, NEW operation, NEW status
  PROVE  Remaining(operation, status) \in Seq(ControlOperations)
<1>1. <<"inspect", "metrics", "verify_replay">> \in Seq(ControlOperations)
  BY DEF ControlOperations
<1> QED BY <1>1, NothingToAsk DEF ControlTypes, Remaining

LEMMA ControlStartsInvariant ==
  ControlInit => ControlInvariant
<1> SUFFICES ASSUME ControlInit PROVE ControlInvariant
  OBVIOUS
<1>1. script \in Seq(ControlOperations)
  <2>1. <<"load_scenario", "act", "wait_for", "inspect", "metrics", "verify_replay">> \in Seq(ControlOperations)
    BY DEF ControlOperations
  <2>2. <<"load_scenario", "verify_replay">> \in Seq(ControlOperations)
    BY DEF ControlOperations
  <2> QED BY <2>1, <2>2 DEF ControlInit
<1> QED BY <1>1 DEF ControlInit, ControlInvariant, ControlTypes, Answered, WorkerIsKnown, SessionIsSettled

LEMMA StepKeepsControl ==
  ControlInvariant /\ [ControlNext]_controlled => ControlInvariant'
<1> SUFFICES ASSUME ControlInvariant, [ControlNext]_controlled PROVE ControlInvariant'
  OBVIOUS
<1> USE DEF ControlInvariant
<1>1. CASE StartWorker
  <2>1. requestSequence' \in Nat /\ pending' \subseteq Requests /\ stdin' \in Seq(Requests)
    BY <1>1, WritingKeepsTypes DEF StartWorker, ControlOperations
  <2> QED BY <1>1, <2>1 DEF StartWorker, ControlTypes, Answered, WorkerIsKnown, SessionIsSettled
<1>2. CASE Ask
  <2>1. Head(script) \in ControlOperations /\ script' \in Seq(ControlOperations)
    BY <1>2, HeadsAndTails DEF Ask, ControlTypes
  <2>2. requestSequence' \in Nat /\ pending' \subseteq Requests /\ stdin' \in Seq(Requests)
    BY <1>2, <2>1, WritingKeepsTypes DEF Ask
  <2> QED BY <1>2, <2>1, <2>2 DEF Ask, ControlTypes, Answered, WorkerIsKnown, SessionIsSettled
<1>3. CASE BeginClose
  <2>1. requestSequence' \in Nat /\ pending' \subseteq Requests /\ stdin' \in Seq(Requests)
    <3>1. CASE exited
      BY <1>3, <3>1 DEF BeginClose, ControlTypes
    <3>2. CASE ~exited
      <4>1. "shutdown" \in ControlOperations /\ Written("shutdown")
        BY <1>3, <3>2 DEF BeginClose, ControlOperations
      <4> QED BY <4>1, WritingKeepsTypes
    <3> QED BY <3>1, <3>2
  <2>2. /\ phase' = IF exited THEN "closed" ELSE "shutting down"
        /\ script' = <<>> /\ UNCHANGED <<stdout, worker, exited, commands>>
    BY <1>3 DEF BeginClose
  <2>3. ControlTypes'
    BY <2>1, <2>2, NothingToAsk DEF ControlTypes
  <2> QED BY <2>2, <2>3 DEF Answered, WorkerIsKnown, SessionIsSettled
<1>4. CASE ReceiveResponse
  <2> DEFINE answer == Head(stdout)
             settled == SettledBy(answer)
  <2>1. stdout' \in Seq(ControlAnswers) /\ Answered(stdout') /\ answer.to = answer.id
    BY <1>4, HeadsAndTails, TailsAreAnswered DEF ReceiveResponse, ControlTypes
  <2>2. pending' \subseteq Requests
    BY <1>4 DEF ReceiveResponse, ControlTypes
  <2>3. script' \in Seq(ControlOperations)
    BY <1>4, RemainingIsAsked DEF ReceiveResponse, ControlTypes
  <2>4. phase' \in {phase, "leaving"}
    BY <1>4 DEF ReceiveResponse
  <2>5. \A record \in commands' : record.to = record.id
    <3>1. commands' = commands \union
            {[id |-> r.id, operation |-> r.operation, to |-> answer.to, status |-> answer.status]
             : r \in settled}
      BY <1>4 DEF ReceiveResponse
    <3>2. \A r \in settled : r.id = answer.to
      BY <2>1 DEF SettledBy
    <3> QED BY <3>1, <3>2 DEF SessionIsSettled
  <2> QED BY <1>4, <2>1, <2>2, <2>3, <2>4, <2>5
          DEF ReceiveResponse, ControlTypes, WorkerIsKnown, SessionIsSettled
<1>5. CASE RequestTimesOut
  <2>1. PICK request \in pending : pending' = pending \ {request} /\ Rejected(request.operation)
    BY <1>5 DEF RequestTimesOut
  <2>2. script' \in Seq(ControlOperations) /\ (phase' \in {"off", "closed"} => phase' = phase)
    BY <2>1, RejectedKeepsTypes
  <2> QED BY <1>5, <2>1, <2>2 DEF RequestTimesOut, ControlTypes, Answered, WorkerIsKnown, SessionIsSettled
<1>6. CASE SeeExit
  <2>1. script' \in {<<>>, script}
    BY <1>6 DEF SeeExit
  <2>2. phase' \in {"closed", phase}
    BY <1>6 DEF SeeExit
  <2>3. pending' = {} /\ worker = "gone"
        /\ UNCHANGED <<requestSequence, stdin, stdout, worker, commands>>
    BY <1>6 DEF SeeExit
  <2>4. ControlTypes'
    BY <2>1, <2>3, NothingToAsk DEF ControlTypes
  <2> QED BY <2>2, <2>3, <2>4 DEF Answered, WorkerIsKnown, SessionIsSettled
<1>7. CASE Escalate
  BY <1>7 DEF Escalate, ControlTypes, Answered, WorkerIsKnown, SessionIsSettled
<1>8. CASE Killed \/ WorkerExits
  BY <1>8 DEF Killed, WorkerExits, ControlTypes, Answered, WorkerIsKnown, SessionIsSettled
<1>9. CASE Interrupt
  BY <1>9 DEF Interrupt, ControlTypes, Answered, WorkerIsKnown, SessionIsSettled
<1>10. CASE EndCommand
  BY <1>10 DEF EndCommand, ControlTypes, Answered, WorkerIsKnown, SessionIsSettled
<1>11. CASE HandleRequest
  <2>1. PICK after \in RuntimesAfter(Head(stdin).operation) :
          stdout' = Append(stdout, [id |-> Head(stdin).id, to |-> Head(stdin).id, status |-> after[2]])
    BY <1>11 DEF HandleRequest
  <2>2. Head(stdin) \in Requests /\ stdin' \in Seq(Requests)
    BY <1>11, HeadsAndTails DEF HandleRequest, ControlTypes
  <2>3. after[2] \in {"PASS", "FAIL"}
    BY DEF RuntimesAfter
  <2>4. stdout' \in Seq(ControlAnswers)
    BY <2>1, <2>2, <2>3 DEF ControlTypes, Requests, ControlAnswers
  <2>5. Answered(stdout')
    BY <2>1 DEF ControlTypes, Answered
  <2> QED BY <1>11, <2>2, <2>4, <2>5 DEF HandleRequest, ControlTypes, WorkerIsKnown, SessionIsSettled
<1>12. CASE UNCHANGED controlled
  BY <1>12 DEF controlled, ControlTypes, Answered, WorkerIsKnown, SessionIsSettled
<1> QED BY <1>1, <1>2, <1>3, <1>4, <1>5, <1>6, <1>7, <1>8, <1>9, <1>10, <1>11, <1>12 DEF ControlNext

-----------------------------------------------------------------------------
\* In every session, whatever is late, crashes or is interrupted, commands.json has only
\* answers to the requests they are listed with, and a client that is closed left no worker.
THEOREM EverySessionIsSettled ==
  ControlSpec => []SessionIsSettled
<1>1. ControlInvariant => SessionIsSettled
  BY DEF ControlInvariant
<1> QED BY <1>1, ControlStartsInvariant, StepKeepsControl, PTL DEF ControlSpec

-----------------------------------------------------------------------------
(* Scenarios *)

\* What the folds of the worker do with what is next: an input, an entry of the timeline, a
\* step that was made, and a tick that a wait_for tries.
Adding(c, so, i) == IF i = "add" THEN so + 1 ELSE so

Framing(c, so, e) == IF e.kind = "frame" THEN Append(so, e.tick) ELSE so

Summing(c, so, e) == so + e.delta

Acting(c, so, p) == IF p.step.operation = "act" THEN so + 1 ELSE so

Awaiting(condition, so, n) ==
  IF Satisfied(so, condition) THEN so ELSE Stepped(so)

Addings == INSTANCE FoldLemmas WITH Op <- Adding
Framings == INSTANCE FoldLemmas WITH Op <- Framing
Summings == INSTANCE FoldLemmas WITH Op <- Summing
Actings == INSTANCE FoldLemmas WITH Op <- Acting
Awaitings == INSTANCE FoldLemmas WITH Op <- Awaiting

LEMMA AddsIsFold ==
  ASSUME NEW inputs
  PROVE  Adds(inputs) = Addings!Folded(0, 0, inputs)
BY Zenon DEF Adds, FoldLeft, Addings!Folded, Addings!FoldLeft, MapThenFoldSet,
             Addings!MapThenFoldSet, Max, Addings!Max, Adding

LEMMA TicksIsFold ==
  ASSUME NEW timeline
  PROVE  TicksOf(timeline) = Framings!Folded(0, <<>>, timeline)
BY Zenon DEF TicksOf, FoldLeft, Framings!Folded, Framings!FoldLeft, MapThenFoldSet,
             Framings!MapThenFoldSet, Max, Framings!Max, Framing

LEMMA DeltaIsFold ==
  ASSUME NEW timeline
  PROVE  DeltaOf(timeline) = Summings!Folded(0, 0, timeline)
BY Zenon DEF DeltaOf, FoldLeft, Summings!Folded, Summings!FoldLeft, MapThenFoldSet,
             Summings!MapThenFoldSet, Max, Summings!Max, Summing

LEMMA ActsIsFold ==
  ASSUME NEW made
  PROVE  ActsOf(made) = Actings!Folded(0, 0, made)
BY Zenon DEF ActsOf, FoldLeft, Actings!Folded, Actings!FoldLeft, MapThenFoldSet,
             Actings!MapThenFoldSet, Max, Actings!Max, Acting

LEMMA AwaitedIsFold ==
  ASSUME NEW w, NEW condition, NEW most
  PROVE  Awaited(w, condition, most) = Awaitings!Folded(condition, w, [n \in 1..most |-> n])
BY Zenon DEF Awaited, FoldLeft, Awaitings!Folded, Awaitings!FoldLeft, MapThenFoldSet,
             Awaitings!MapThenFoldSet, Max, Awaitings!Max, Awaiting

-----------------------------------------------------------------------------
Inputs == {"add", "refused"}

Entries == [kind : {"input", "statechart", "diff", "event", "frame"}, tick : Nat, delta : Int]

Timelines == Seq(Entries)

Replays == Seq([inputs : Seq(Inputs), value : Int])

Workers == [tick : Nat, value : Int, pending : Seq(Inputs), frames : Replays, version : {0, 1},
            actions : Nat, stepped : Nat, timeline : Timelines,
            projection : [tick : Nat, value : Int]]

\* Every frame follows from the one before it.
Follows(played, frames) ==
  \A n \in DOMAIN frames :
    frames[n].value = Counted(IF n = 1 THEN 0 ELSE frames[n - 1].value, n, frames[n].inputs, played)

Reached(frames) == IF frames = <<>> THEN 0 ELSE frames[Len(frames)].value

\* A worker whose parts agree.
IsTold(w) ==
  /\ w \in Workers
  /\ TicksOf(w.timeline) = [n \in 1..w.tick |-> n]
  /\ DeltaOf(w.timeline) = w.value
  /\ w.projection = [tick |-> w.tick, value |-> w.value]
  /\ Len(w.frames) = w.tick /\ w.stepped = w.tick
  /\ Follows(w.version, w.frames)
  /\ w.value = Reached(w.frames)

\* A worker as a tick that failed may leave it: its value is ahead of what it tells.
IsLeft(w) == w \in Workers /\ \E told \in Workers : IsTold(told) /\ w = [told EXCEPT !.value = w.value]

LEMMA AddsIsANumber ==
  ASSUME NEW inputs \in Seq(Inputs)
  PROVE  Adds(inputs) \in Nat
<1>1. \A so \in Nat, i \in Inputs : Adding(0, so, i) \in Nat
  BY DEF Adding
<1>2. Addings!Folded(0, 0, inputs) \in Nat
  <2> DEFINE T == Nat
  <2>1. 0 \in T /\ \A so \in T, i \in Inputs : Adding(0, so, i) \in T
    BY <1>1
  <2> HIDE DEF T
  <2>2. Addings!Folded(0, 0, inputs) \in T
    BY <2>1, Addings!FoldStaysIn
  <2> QED BY <2>2 DEF T
<1> QED BY <1>2, AddsIsFold

LEMMA CountedIsANumber ==
  ASSUME NEW value \in Int, NEW tick \in Nat, NEW inputs \in Seq(Inputs), NEW played \in {0, 1}
  PROVE  Due(tick, played) \in Int /\ Counted(value, tick, inputs, played) \in Int
<1>1. Due(tick, played) \in Int
  BY DEF Due
<1> QED BY <1>1, AddsIsANumber DEF Counted

\* A replay that follows frame by frame verifies.
LEMMA FollowingVerifies ==
  ASSUME NEW played, NEW frames \in Replays, Follows(played, frames)
  PROVE  Verifies(played, [frames |-> frames, reached |-> Reached(frames)])
<1>1. PICK n \in Nat : n = Len(frames) /\ DOMAIN frames = 1..n
  BY DEF Replays
<1> DEFINE Is(after) == after = [i \in 0..n |->
             IF i = 0 THEN 0 ELSE Counted(after[i - 1], i, frames[i].inputs, played)]
           after == CHOOSE a : Is(a)
           given == [i \in 0..n |-> IF i = 0 THEN 0 ELSE frames[i].value]
<1>2. given = [i \in 0..n |->
                IF i = 0 THEN 0 ELSE Counted(given[i - 1], i, frames[i].inputs, played)]
  <2>1. ASSUME NEW i \in 1..n
        PROVE  /\ given[i - 1] = IF i = 1 THEN 0 ELSE frames[i - 1].value
               /\ frames[i].value = Counted(IF i = 1 THEN 0 ELSE frames[i - 1].value, i, frames[i].inputs, played)
    <3>1. i \in DOMAIN frames /\ i - 1 \in 0..n
      BY <1>1
    <3> QED BY <3>1 DEF Follows
  <2> QED BY <2>1
<1>3. Is(after)
  <2>1. Is(given)
    BY <1>2
  <2> HIDE DEF Is, given
  <2> QED BY <2>1
<1> DEFINE Same == {i \in Nat : i <= n => after[i] = given[i]}
<1>4. 0 \in Same
  <2> HIDE DEF after
  <2>1. after[0] = 0
    BY <1>3
  <2> QED BY <2>1
<1>5. ASSUME NEW i \in Nat, i \in Same PROVE i + 1 \in Same
  <2> SUFFICES ASSUME i + 1 <= n PROVE after[i + 1] = given[i + 1]
    OBVIOUS
  <2> HIDE DEF after, given
  <2>1. i + 1 \in 0..n /\ i + 1 # 0 /\ (i + 1) - 1 = i
    OBVIOUS
  <2>2. after[i + 1] = Counted(after[i], i + 1, frames[i + 1].inputs, played)
    BY <1>3, <2>1
  <2>3. given[i + 1] = Counted(given[i], i + 1, frames[i + 1].inputs, played)
    BY <1>2, <2>1
  <2> QED BY <1>5, <2>2, <2>3
<1> HIDE DEF Same
<1>6. Nat \subseteq Same
  BY <1>4, <1>5, Addings!Induction
<1>7. \A i \in DOMAIN frames : frames[i].value = after[i]
  <2> HIDE DEF after, given
  <2>1. \A i \in 1..n : i \in Nat /\ i <= n
    OBVIOUS
  <2>2. \A i \in 1..n : after[i] = given[i]
    BY <1>6, <2>1 DEF Same
  <2>3. \A i \in 1..n : given[i] = frames[i].value
    BY DEF given
  <2> QED BY <1>1, <2>2, <2>3
<1>8. Reached(frames) = after[n]
  <2>1. n \in 0..n /\ (frames = <<>> <=> n = 0)
    BY <1>1 DEF Replays
  <2>2. after[n] = given[n]
    <3> HIDE DEF after, given
    <3> QED BY <1>1, <1>6 DEF Same
  <2> QED BY <1>1, <2>1, <2>2 DEF Reached
<1> DEFINE replay == [frames |-> frames, reached |-> Reached(frames)]
<1>9. Verifies(played, replay) <=>
        (\A i \in DOMAIN frames : frames[i].value = after[i]) /\ Reached(frames) = after[n]
  BY <1>1 DEF Verifies
<1> QED BY <1>7, <1>8, <1>9

\* What a timeline has more of.
LEMMA OthersAddNoTicks ==
  ASSUME NEW timeline \in Timelines, NEW more \in Timelines,
         \A i \in DOMAIN more : more[i].kind # "frame"
  PROVE  TicksOf(timeline \o more) = TicksOf(timeline)
<1>1. \A i \in DOMAIN more : Framing(0, TicksOf(timeline), more[i]) = TicksOf(timeline)
  BY DEF Framing
<1>2. TicksOf(timeline) = Framings!Folded(0, <<>>, timeline)
  BY TicksIsFold
<1>3. Framings!Folded(0, <<>>, timeline \o more) = TicksOf(timeline)
  BY <1>1, <1>2, Framings!FoldOfIdle DEF Timelines
<1> QED BY <1>3, TicksIsFold

LEMMA FramesAddTheirTick ==
  ASSUME NEW timeline \in Timelines, NEW entry \in Entries, entry.kind = "frame"
  PROVE  TicksOf(Append(timeline, entry)) = Append(TicksOf(timeline), entry.tick)
<1>1. Framings!Folded(0, <<>>, Append(timeline, entry))
        = Framing(0, Framings!Folded(0, <<>>, timeline), entry)
  BY Framings!FoldOfMore DEF Timelines
<1> QED BY <1>1, TicksIsFold DEF Framing

LEMMA OthersAddNoDelta ==
  ASSUME NEW timeline \in Timelines, NEW more \in Timelines, DeltaOf(timeline) \in Int,
         \A i \in DOMAIN more : more[i].delta = 0
  PROVE  DeltaOf(timeline \o more) = DeltaOf(timeline)
<1>1. \A i \in DOMAIN more : Summing(0, DeltaOf(timeline), more[i]) = DeltaOf(timeline)
  BY DEF Summing
<1>2. DeltaOf(timeline) = Summings!Folded(0, 0, timeline)
  BY DeltaIsFold
<1>3. Summings!Folded(0, 0, timeline \o more) = DeltaOf(timeline)
  BY <1>1, <1>2, Summings!FoldOfIdle DEF Timelines
<1> QED BY <1>3, DeltaIsFold

LEMMA EntriesAddTheirDelta ==
  ASSUME NEW timeline \in Timelines, NEW entry \in Entries
  PROVE  DeltaOf(Append(timeline, entry)) = DeltaOf(timeline) + entry.delta
<1>1. Summings!Folded(0, 0, Append(timeline, entry))
        = Summing(0, Summings!Folded(0, 0, timeline), entry)
  BY Summings!FoldOfMore DEF Timelines
<1> QED BY <1>1, DeltaIsFold DEF Summing

\* What a tick writes: its traces, the difference, its events, and the frame.
Entered(kind, some, tick) == [i \in 1..some |-> TimelineEntry(kind, tick, 0)]

Wrote(timeline, tick, some, diff) ==
  timeline \o Entered("statechart", some, tick) \o diff \o Entered("event", some, tick)
           \o <<TimelineEntry("frame", tick, 0)>>

LEMMA TickIsWritten ==
  ASSUME NEW timeline \in Timelines, NEW tick \in Nat, NEW some \in Nat, NEW delta \in Int,
         DeltaOf(timeline) \in Int, NEW diff,
         (delta = 0 /\ diff = <<>>) \/ diff = <<TimelineEntry("diff", tick, delta)>>
  PROVE  /\ Wrote(timeline, tick, some, diff) \in Timelines
         /\ TicksOf(Wrote(timeline, tick, some, diff)) = Append(TicksOf(timeline), tick)
         /\ DeltaOf(Wrote(timeline, tick, some, diff)) = DeltaOf(timeline) + delta
<1> DEFINE heard == Entered("statechart", some, tick)
           events == Entered("event", some, tick)
           frame == TimelineEntry("frame", tick, 0)
           one == timeline \o heard
           two == one \o diff
           three == two \o events
           then == Wrote(timeline, tick, some, diff)
<1>1. /\ heard \in Timelines /\ \A i \in DOMAIN heard : heard[i].kind # "frame" /\ heard[i].delta = 0
      /\ events \in Timelines /\ \A i \in DOMAIN events : events[i].kind # "frame" /\ events[i].delta = 0
  <2>1. /\ TimelineEntry("statechart", tick, 0) \in Entries
        /\ TimelineEntry("statechart", tick, 0).kind # "frame"
        /\ TimelineEntry("statechart", tick, 0).delta = 0
        /\ TimelineEntry("event", tick, 0) \in Entries
        /\ TimelineEntry("event", tick, 0).kind # "frame"
        /\ TimelineEntry("event", tick, 0).delta = 0
    BY DEF Entries, TimelineEntry
  <2>2. \A e \in Entries : [i \in 1..some |-> e] \in Seq(Entries)
    OBVIOUS
  <2> QED BY <2>1, <2>2 DEF Timelines, Entered
<1>2. /\ diff \in Timelines /\ \A i \in DOMAIN diff : diff[i].kind # "frame"
      /\ frame \in Entries /\ frame.kind = "frame" /\ frame.tick = tick /\ frame.delta = 0
  <2>1. /\ TimelineEntry("diff", tick, delta) \in Entries
        /\ TimelineEntry("diff", tick, delta).kind # "frame"
        /\ TimelineEntry("frame", tick, 0) \in Entries
    BY DEF Entries, TimelineEntry
  <2>2. /\ <<>> \in Seq(Entries) /\ \A e \in Entries : <<e>> \in Seq(Entries)
        /\ \A e \in Entries : \A i \in DOMAIN <<e>> : <<e>>[i] = e
    OBVIOUS
  <2>3. frame \in Entries /\ frame.kind = "frame" /\ frame.tick = tick /\ frame.delta = 0
    BY <2>1 DEF TimelineEntry
  <2>4. diff \in Seq(Entries) /\ \A i \in DOMAIN diff : diff[i].kind # "frame"
    <3>1. CASE diff = <<>>
      BY <3>1
    <3>2. CASE diff = <<TimelineEntry("diff", tick, delta)>>
      BY <2>1, <2>2, <3>2
    <3> QED BY <3>1, <3>2
  <2> QED BY <2>3, <2>4 DEF Timelines
<1> HIDE DEF heard, events, frame
<1>3. one \in Timelines /\ TicksOf(one) = TicksOf(timeline) /\ DeltaOf(one) = DeltaOf(timeline)
  <2>1. one \in Timelines
    BY <1>1 DEF Timelines
  <2> QED BY <1>1, <2>1, OthersAddNoTicks, OthersAddNoDelta
<1> HIDE DEF one
<1>4. two \in Timelines /\ TicksOf(two) = TicksOf(timeline)
  <2>1. two \in Timelines
    BY <1>2, <1>3 DEF Timelines
  <2> QED BY <1>2, <1>3, <2>1, OthersAddNoTicks
<1>5. DeltaOf(two) = DeltaOf(timeline) + delta
  <2>1. CASE delta = 0 /\ diff = <<>>
    <3>1. two = one
      BY <1>3, <2>1 DEF Timelines
    <3> QED BY <1>3, <2>1, <3>1
  <2>2. CASE diff = <<TimelineEntry("diff", tick, delta)>>
    <3> DEFINE entry == TimelineEntry("diff", tick, delta)
    <3>1. entry \in Entries /\ entry.delta = delta
      BY DEF Entries, TimelineEntry
    <3> HIDE DEF entry
    <3>2. two = Append(one, entry)
      BY <1>3, <2>2, <3>1 DEF Timelines, entry
    <3>3. DeltaOf(Append(one, entry)) = DeltaOf(one) + entry.delta
      BY <1>3, <3>1, EntriesAddTheirDelta
    <3> QED BY <1>3, <3>1, <3>2, <3>3
  <2> QED BY <2>1, <2>2
<1> HIDE DEF two
<1>6. three \in Timelines /\ TicksOf(three) = TicksOf(timeline) /\ DeltaOf(three) = DeltaOf(timeline) + delta
  <2>1. three \in Timelines
    BY <1>1, <1>4 DEF Timelines
  <2>2. DeltaOf(two) \in Int
    BY <1>5
  <2> QED BY <1>1, <1>4, <1>5, <2>1, <2>2, OthersAddNoTicks, OthersAddNoDelta
<1> HIDE DEF three
<1>7. then = Append(three, frame) /\ then \in Timelines
  <2>1. then = three \o <<frame>>
    BY DEF three, two, one, heard, events, frame, Wrote
  <2>2. \A s \in Seq(Entries), e \in Entries : s \o <<e>> = Append(s, e) /\ Append(s, e) \in Seq(Entries)
    OBVIOUS
  <2> QED BY <1>2, <1>6, <2>1, <2>2 DEF Timelines
<1> HIDE DEF then
<1>8. TicksOf(then) = Append(TicksOf(timeline), tick)
  BY <1>2, <1>6, <1>7, FramesAddTheirTick
<1>9. DeltaOf(then) = DeltaOf(timeline) + delta
  <2>1. DeltaOf(Append(three, frame)) = DeltaOf(three) + frame.delta
    BY <1>2, <1>6, EntriesAddTheirDelta
  <2>2. DeltaOf(three) + 0 = DeltaOf(timeline) + delta
    BY ONLY <1>6, DeltaOf(timeline) \in Int, delta \in Int
  <2> QED BY ONLY <1>2, <1>7, <2>1, <2>2
<1> QED BY <1>7, <1>8, <1>9 DEF then

\* A replay with one more frame that follows.
LEMMA FramesFollow ==
  ASSUME NEW played \in {0, 1}, NEW frames \in Replays, Follows(played, frames),
         NEW inputs \in Seq(Inputs), NEW value \in Int,
         value = Counted(Reached(frames), Len(frames) + 1, inputs, played)
  PROVE  LET then == Append(frames, [inputs |-> inputs, value |-> value]) IN
         /\ then \in Replays /\ Len(then) = Len(frames) + 1
         /\ Follows(played, then) /\ Reached(then) = value
<1> DEFINE frame == [inputs |-> inputs, value |-> value]
           then == Append(frames, frame)
<1>1. PICK n \in Nat : n = Len(frames) /\ DOMAIN frames = 1..n /\ (frames = <<>> <=> n = 0)
  BY DEF Replays
<1>2. /\ then \in Replays /\ Len(then) = n + 1 /\ DOMAIN then = 1..(n + 1)
      /\ then[n + 1] = frame /\ \A i \in 1..n : then[i] = frames[i]
  BY <1>1 DEF Replays
<1>3. frame.inputs = inputs /\ frame.value = value
  OBVIOUS
<1> HIDE DEF then, frame
<1>4. Follows(played, then)
  <2> SUFFICES ASSUME NEW i \in 1..(n + 1)
               PROVE  then[i].value = Counted(IF i = 1 THEN 0 ELSE then[i - 1].value, i, then[i].inputs, played)
    BY <1>2 DEF Follows
  <2>1. CASE i \in 1..n
    <3>1. i # 1 => then[i - 1] = frames[i - 1]
      BY <1>2, <2>1
    <3>2. then[i] = frames[i]
      BY <1>2, <2>1
    <3>3. frames[i].value = Counted(IF i = 1 THEN 0 ELSE frames[i - 1].value, i, frames[i].inputs, played)
      BY <1>1, <2>1 DEF Follows
    <3> QED BY <3>1, <3>2, <3>3
  <2>2. CASE i = n + 1
    <3>1. (IF i = 1 THEN 0 ELSE then[i - 1].value) = Reached(frames)
      BY <1>1, <1>2, <2>2 DEF Reached
    <3> QED BY <1>1, <1>2, <1>3, <2>2, <3>1
  <2> QED BY <2>1, <2>2
<1>5. Reached(then) = value
  <2>1. then # <<>>
    BY <1>2
  <2> QED BY <1>2, <1>3, <2>1 DEF Reached
<1> QED BY <1>1, <1>2, <1>4, <1>5 DEF then, frame

LEMMA SteppingTells ==
  ASSUME NEW w, IsTold(w)
  PROVE  /\ IsTold(Stepped(w)) /\ Stepped(w).version = w.version
         /\ Stepped(w).actions = w.actions
<1> DEFINE tick == w.tick + 1
           value == Counted(w.value, tick, w.pending, w.version)
           some == Adds(w.pending)
           heard == Entered("statechart", some, tick)
           diff == IF value = w.value THEN <<>> ELSE <<TimelineEntry("diff", tick, value - w.value)>>
           events == Entered("event", some, tick)
           frame == TimelineEntry("frame", tick, 0)
           frames == Append(w.frames, [inputs |-> w.pending, value |-> value])
           timeline == w.timeline \o heard \o diff \o events \o <<frame>>
<1>1. /\ w.tick \in Nat /\ w.value \in Int /\ w.pending \in Seq(Inputs) /\ w.frames \in Replays
      /\ w.version \in {0, 1} /\ w.actions \in Nat /\ w.stepped \in Nat /\ w.timeline \in Timelines
  BY DEF IsTold, Workers
<1>2. tick \in Nat /\ value \in Int /\ some \in Nat
  <2>1. tick \in Nat
    BY <1>1
  <2> HIDE DEF tick
  <2> QED BY <1>1, <2>1, CountedIsANumber, AddsIsANumber
<1>3. /\ timeline \in Timelines /\ TicksOf(timeline) = Append(TicksOf(w.timeline), tick)
      /\ DeltaOf(timeline) = DeltaOf(w.timeline) + (value - w.value)
  <2> HIDE DEF tick, value, some
  <2> DEFINE delta == value - w.value
  <2>1. delta \in Int /\ DeltaOf(w.timeline) \in Int
    BY <1>1, <1>2 DEF IsTold
  <2>2. (delta = 0 /\ diff = <<>>) \/ diff = <<TimelineEntry("diff", tick, delta)>>
    BY <1>1, <1>2
  <2>3. timeline = Wrote(w.timeline, tick, some, diff)
    BY DEF Wrote
  <2> HIDE DEF delta, diff, timeline
  <2>4. /\ timeline \in Timelines /\ TicksOf(timeline) = Append(TicksOf(w.timeline), tick)
        /\ DeltaOf(timeline) = DeltaOf(w.timeline) + delta
    BY <1>1, <1>2, <2>1, <2>2, <2>3, TickIsWritten
  <2> QED BY <2>4 DEF delta
<1>4. Stepped(w) = [w EXCEPT !.tick = tick, !.value = value, !.pending = <<>>, !.frames = frames,
                             !.stepped = w.stepped + 1, !.timeline = timeline,
                             !.projection = [tick |-> tick, value |-> value]]
  BY DEF Stepped, Entered
<1>5. /\ frames \in Replays /\ Len(frames) = Len(w.frames) + 1
      /\ Follows(w.version, frames) /\ Reached(frames) = value
  <2>1. value = Counted(Reached(w.frames), Len(w.frames) + 1, w.pending, w.version)
    BY DEF IsTold
  <2> HIDE DEF value
  <2> QED BY <1>1, <1>2, <2>1, FramesFollow DEF IsTold
<1> HIDE DEF tick, value, frames, timeline
<1>6. Stepped(w) = [tick |-> tick, value |-> value, pending |-> <<>>, frames |-> frames,
                    version |-> w.version, actions |-> w.actions, stepped |-> w.stepped + 1,
                    timeline |-> timeline, projection |-> [tick |-> tick, value |-> value]]
  BY <1>4 DEF IsTold, Workers
<1>7. <<>> \in Seq(Inputs)
  OBVIOUS
<1>8. Stepped(w) \in Workers
  BY <1>1, <1>2, <1>3, <1>5, <1>6, <1>7 DEF Workers
<1>9. TicksOf(timeline) = [n \in 1..tick |-> n]
  <2>1. TicksOf(w.timeline) = [n \in 1..w.tick |-> n]
    BY DEF IsTold
  <2>2. Append([n \in 1..w.tick |-> n], w.tick + 1) = [n \in 1..(w.tick + 1) |-> n]
    BY <1>1
  <2> QED BY <1>3, <2>1, <2>2 DEF tick
<1>10. DeltaOf(timeline) = value
  BY <1>1, <1>2, <1>3 DEF IsTold
<1>11. Len(frames) = tick /\ w.stepped + 1 = tick
  BY <1>5 DEF IsTold, tick
<1>12. IsTold(Stepped(w))
  BY <1>5, <1>6, <1>8, <1>9, <1>10, <1>11 DEF IsTold
<1> QED BY <1>6, <1>12

LEMMA AwaitingTells ==
  ASSUME NEW w, IsTold(w), NEW condition, NEW most \in Nat
  PROVE  /\ IsTold(Awaited(w, condition, most)) /\ Awaited(w, condition, most).version = w.version
         /\ Awaited(w, condition, most).actions = w.actions
<1> DEFINE T == {v \in Workers : IsTold(v) /\ v.version = w.version /\ v.actions = w.actions}
           ticks == [n \in 1..most |-> n]
<1>1. w \in T
  BY DEF IsTold
<1>2. ASSUME NEW so \in T, NEW n \in Nat
      PROVE  Awaiting(condition, so, n) \in T
  <2>1. Stepped(so) \in T
    BY SteppingTells DEF IsTold
  <2> HIDE DEF T
  <2> QED BY <2>1 DEF Awaiting
<1>3. ticks \in Seq(Nat)
  OBVIOUS
<1> HIDE DEF T, ticks
<1>4. Awaitings!Folded(condition, w, ticks) \in T
  BY <1>1, <1>2, <1>3, Awaitings!FoldStaysIn
<1>5. Awaited(w, condition, most) \in T
  BY <1>4, AwaitedIsFold DEF ticks
<1> QED BY <1>5 DEF T

LEMMA ActingTells ==
  ASSUME NEW w, IsTold(w), NEW action \in Inputs
  PROVE  /\ IsTold(Acted(w, action)) /\ Acted(w, action).version = w.version
         /\ Acted(w, action).actions = w.actions + 1
<1> DEFINE entry == TimelineEntry("input", w.tick, 0)
           timeline == Append(w.timeline, entry)
           asked == Append(w.pending, action)
<1>1. /\ w.tick \in Nat /\ w.value \in Int /\ w.pending \in Seq(Inputs) /\ w.frames \in Replays
      /\ w.version \in {0, 1} /\ w.actions \in Nat /\ w.stepped \in Nat /\ w.timeline \in Timelines
      /\ w.projection \in [tick : Nat, value : Int]
  BY DEF IsTold, Workers
<1>2. entry \in Entries /\ entry.kind # "frame" /\ entry.delta = 0
  BY <1>1 DEF Entries, TimelineEntry
<1>3. timeline \in Timelines /\ asked \in Seq(Inputs) /\ timeline = w.timeline \o <<entry>>
      /\ <<entry>> \in Timelines /\ \A i \in DOMAIN <<entry>> : <<entry>>[i] = entry
  <2> HIDE DEF entry
  <2> QED BY <1>1, <1>2 DEF Timelines
<1>4. Acted(w, action) = [w EXCEPT !.actions = w.actions + 1, !.timeline = timeline, !.pending = asked]
  BY DEF Acted
<1> HIDE DEF entry, timeline, asked
<1>5. Acted(w, action) = [tick |-> w.tick, value |-> w.value, pending |-> asked, frames |-> w.frames,
                          version |-> w.version, actions |-> w.actions + 1, stepped |-> w.stepped,
                          timeline |-> timeline, projection |-> w.projection]
  BY <1>4 DEF IsTold, Workers
<1>6. Acted(w, action) \in Workers
  BY <1>1, <1>3, <1>5 DEF Workers
<1>7. TicksOf(timeline) = TicksOf(w.timeline)
  BY <1>1, <1>2, <1>3, OthersAddNoTicks
<1>8. DeltaOf(timeline) = DeltaOf(w.timeline)
  <2>1. DeltaOf(w.timeline) \in Int
    BY <1>1 DEF IsTold
  <2> QED BY <1>1, <1>2, <1>3, <2>1, OthersAddNoDelta
<1>9. IsTold(Acted(w, action))
  BY <1>5, <1>6, <1>7, <1>8 DEF IsTold
<1> QED BY <1>5, <1>9

\* Before it is loaded, and as it is loaded, a worker has told nothing.
LEMMA NothingIsTold ==
  ASSUME NEW played \in {0, 1}
  PROVE  /\ IsTold([Unloaded EXCEPT !.version = played])
         /\ [Unloaded EXCEPT !.version = played].version = played
         /\ [Unloaded EXCEPT !.version = played].actions = 0
<1> DEFINE w == [Unloaded EXCEPT !.version = played]
<1>1. w = [tick |-> 0, value |-> 0, pending |-> <<>>, frames |-> <<>>, version |-> played,
           actions |-> 0, stepped |-> 0, timeline |-> <<>>, projection |-> [tick |-> 0, value |-> 0]]
  BY DEF Unloaded
<1> HIDE DEF w
<1>2. <<>> \in Seq(Inputs) /\ <<>> \in Replays /\ <<>> \in Timelines
  BY DEF Replays, Timelines
<1>3. w \in Workers
  BY <1>1, <1>2 DEF Workers
<1>4. TicksOf(<<>>) = <<>> /\ DeltaOf(<<>>) = 0
  BY TicksIsFold, DeltaIsFold, Framings!FoldOfNothing, Summings!FoldOfNothing
<1>5. <<>> = [n \in 1..0 |-> n]
  OBVIOUS
<1>6. Follows(played, <<>>) /\ Reached(<<>>) = 0 /\ Len(<<>>) = 0
  BY DEF Follows, Reached
<1>7. IsTold(w)
  BY <1>1, <1>3, <1>4, <1>5, <1>6 DEF IsTold
<1> QED BY <1>1, <1>7 DEF w

LEMMA FailingLeaves ==
  ASSUME NEW w, IsTold(w), NEW left \in Failed(w)
  PROVE  IsLeft(left) /\ left.version = w.version
<1>1. /\ w.tick \in Nat /\ w.value \in Int /\ w.version \in {0, 1} /\ w \in Workers
  BY DEF IsTold, Workers
<1>2. PICK value \in Int : left = [w EXCEPT !.value = value]
  <2>1. w = [w EXCEPT !.value = w.value]
    BY <1>1 DEF Workers
  <2>2. w.value + Due(w.tick + 1, w.version) \in Int
    BY <1>1 DEF Due
  <2> QED BY <1>1, <2>1, <2>2 DEF Failed
<1>3. left \in Workers /\ left.value = value /\ left.version = w.version
  BY <1>1, <1>2 DEF Workers
<1> QED BY <1>1, <1>2, <1>3 DEF IsLeft

LEMMA ToldIsLeft ==
  ASSUME NEW w, IsTold(w)
  PROVE  IsLeft(w)
<1>1. w \in Workers /\ w = [w EXCEPT !.value = w.value]
  BY DEF IsTold, Workers
<1> QED BY <1>1 DEF IsLeft

LEMMA AnswersTell ==
  ASSUME NEW w, IsTold(w), NEW step \in Steps, NEW answer \in Answers(w, step)
  PROVE  /\ IsLeft(answer.worker) /\ answer.worker.version = w.version
         /\ answer.status \in {"PASS", "FAIL", "TICK_FAILED"}
         /\ answer.status # "TICK_FAILED" => IsTold(answer.worker)
         /\ answer.status = "PASS" =>
              answer.worker.actions = w.actions + (IF step.operation = "act" THEN 1 ELSE 0)
<1>0. w.actions \in Nat
  BY DEF IsTold, Workers
<1>1. CASE step.operation = "act"
  <2>1. step.action \in {"add", "refused", "unknown"}
    BY <1>1 DEF Steps
  <2>2. CASE step.action = "unknown"
    <3>1. answer = Given("FAIL", w)
      BY <1>1, <2>2 DEF Answers
    <3> QED BY <3>1, ToldIsLeft DEF Given
  <2>3. CASE step.action # "unknown"
    <3> DEFINE given == Acted(w, step.action)
    <3>1. IsTold(given) /\ given.version = w.version /\ given.actions = w.actions + 1
      BY <2>1, <2>3, ActingTells DEF Inputs
    <3>2. IsTold(Stepped(given)) /\ Stepped(given).version = w.version
          /\ Stepped(given).actions = w.actions + 1
      <4> HIDE DEF given
      <4> QED BY <3>1, SteppingTells
    <3>3. answer = Given("PASS", Stepped(given)) \/ \E left \in Failed(given) : answer = Given("TICK_FAILED", left)
      BY <1>1, <2>3 DEF Answers
    <3> HIDE DEF given
    <3>4. CASE answer = Given("PASS", Stepped(given))
      BY <1>1, <3>2, <3>4, ToldIsLeft DEF Given
    <3>5. CASE \E left \in Failed(given) : answer = Given("TICK_FAILED", left)
      BY <3>1, <3>5, FailingLeaves DEF Given
    <3> QED BY <3>3, <3>4, <3>5
  <2> QED BY <2>2, <2>3
<1>2. CASE step.operation = "wait_for"
  <2>1. step.most \in Nat
    BY <1>2, ScenarioBounds DEF Steps
  <2> DEFINE Then(n) == Awaited(w, step.condition, n)
  <2>2. \A n \in Nat : IsTold(Then(n)) /\ Then(n).version = w.version /\ Then(n).actions = w.actions
    BY AwaitingTells
  <2>3. \/ \E status \in {"PASS", "FAIL"} : answer = Given(status, Then(step.most))
        \/ \E n \in 0..(step.most - 1) : \E left \in Failed(Then(n)) : answer = Given("TICK_FAILED", left)
    BY <1>2 DEF Answers
  <2> HIDE DEF Then
  <2>4. CASE \E status \in {"PASS", "FAIL"} : answer = Given(status, Then(step.most))
    BY <1>0, <1>2, <2>1, <2>2, <2>4, ToldIsLeft DEF Given
  <2>5. CASE \E n \in 0..(step.most - 1) : \E left \in Failed(Then(n)) : answer = Given("TICK_FAILED", left)
    <3>1. PICK n \in 0..(step.most - 1) : \E left \in Failed(Then(n)) : answer = Given("TICK_FAILED", left)
      BY <2>5
    <3>2. n \in Nat
      BY <2>1
    <3> QED BY <2>2, <3>1, <3>2, FailingLeaves DEF Given
  <2> QED BY <2>3, <2>4, <2>5
<1>3. CASE step.operation # "act" /\ step.operation # "wait_for"
  <2>1. answer = Given("PASS", w)
    BY <1>3 DEF Answers
  <2> QED BY <1>0, <1>3, <2>1, ToldIsLeft DEF Given
<1> QED BY <1>1, <1>2, <1>3

-----------------------------------------------------------------------------
Made == [step : Steps, status : {"PASS", "FAIL", "TICK_FAILED"}]

ScenarioTypes ==
  /\ gameplay \in {1, 2} /\ (at # "written" => gameplay = 1 /\ verified = Unasked)
  /\ IsLeft(hosted) /\ (NoTickFailed(performed) => IsTold(hosted))
  /\ (at \in {"steps", "inspect", "assert"} => hosted.version = 1)
  /\ performed \in Seq(Made) /\ (at = "load" => performed = <<>>)
  /\ at = "steps" => NoTickFailed(performed)
  /\ gathered = [inspection |-> gathered.inspection, metrics |-> gathered.metrics,
                 captures |-> gathered.captures, diagnostics |-> gathered.diagnostics,
                 forced |-> gathered.forced]
  /\ gathered.captures \in Nat /\ gathered.diagnostics \in Nat

\* An inspection is of a worker at one moment, and not of one that a failed tick left unless
\* one did.
InspectionIsTold ==
  gathered.inspection # NoInspection =>
    \E w \in Workers :
      /\ IsLeft(w) /\ w.version = 1 /\ gathered.inspection = Inspection(w)
      /\ NoTickFailed(performed) => IsTold(w)

\* As long as there are no diagnostics, all steps passed, and the last inspection is of the end.
PassedSoFar ==
  gathered.diagnostics = 0 =>
    /\ hosted.actions = ActsOf(performed)
    /\ \A n \in DOMAIN performed : performed[n].status = "PASS"
    /\ at \in {"assert", "write", "written"} =>
         /\ gathered.inspection = Inspection(hosted) /\ gathered.metrics = Metrics(hosted)
         /\ gathered.forced => gathered.captures > 0

ReplayIsTold ==
  /\ at = "written" => archived = gathered.inspection.replay
  /\ gameplay = 1 /\ verified.load = "passed" /\ gathered.inspection # NoInspection
       /\ NoTickFailed(performed) => verified.answer = "PASS"

ScenarioInvariant == ScenarioTypes /\ InspectionIsTold /\ PassedSoFar /\ ReplayIsTold

LEMMA ScenarioStartsTold ==
  ASSUME ScenarioInit
  PROVE  ScenarioInvariant
<1>1. IsTold(Unloaded) /\ Unloaded.actions = 0
  <2>1. Unloaded = [Unloaded EXCEPT !.version = 0]
    BY DEF Unloaded
  <2> QED BY <2>1, NothingIsTold
<1>2. ActsOf(<<>>) = 0
  BY ActsIsFold, Actings!FoldOfNothing
<1>3. PICK forced \in BOOLEAN :
        gathered = [inspection |-> NoInspection, metrics |-> <<>>, captures |-> 0,
                    diagnostics |-> 0, forced |-> forced]
  BY DEF ScenarioInit
<1>4. ScenarioTypes
  <2>1. <<>> \in Seq(Made)
    OBVIOUS
  <2>2. IsLeft(Unloaded)
    BY <1>1, ToldIsLeft
  <2> QED BY <1>1, <1>3, <2>1, <2>2 DEF ScenarioInit, ScenarioTypes
<1>5. InspectionIsTold
  BY <1>3 DEF InspectionIsTold
<1>6. PassedSoFar
  BY <1>1, <1>2, <1>3 DEF ScenarioInit, PassedSoFar
<1>7. ReplayIsTold
  BY DEF ScenarioInit, ReplayIsTold, Unasked
<1> QED BY <1>4, <1>5, <1>6, <1>7 DEF ScenarioInvariant

LEMMA PlayingTells ==
  ASSUME ScenarioInvariant, PlayStep
  PROVE  ScenarioInvariant'
<1>1. /\ at = "steps" /\ UNCHANGED <<gameplay, archived, verified>>
      /\ hosted.version = 1 /\ IsTold(hosted) /\ performed \in Seq(Made) /\ NoTickFailed(performed)
  BY DEF ScenarioInvariant, ScenarioTypes, PlayStep, Rest
<1> DEFINE Plays(step, answer) ==
             /\ hosted' = answer.worker
             /\ performed' = Append(performed, [step |-> step, status |-> answer.status])
             /\ at' = IF answer.status = "PASS" THEN "steps" ELSE "inspect"
             /\ gathered' =
                  [gathered EXCEPT
                     !.inspection = IF step.operation = "inspect" THEN Inspection(hosted) ELSE @,
                     !.metrics = IF step.operation = "metrics" THEN Metrics(hosted) ELSE @,
                     !.captures = IF step.operation = "capture" THEN @ + 1 ELSE @,
                     !.diagnostics = IF answer.status = "PASS" THEN @ ELSE @ + 1]
<1>2. PICK step \in Steps : \E answer \in Answers(hosted, step) : Plays(step, answer)
  BY DEF PlayStep
<1>11. PICK answer \in Answers(hosted, step) : Plays(step, answer)
  BY <1>2
<1> DEFINE made == [step |-> step, status |-> answer.status]
<1>3. /\ IsLeft(answer.worker) /\ answer.worker.version = 1
      /\ answer.status \in {"PASS", "FAIL", "TICK_FAILED"}
      /\ answer.status # "TICK_FAILED" => IsTold(answer.worker)
      /\ answer.status = "PASS" =>
           answer.worker.actions = hosted.actions + (IF step.operation = "act" THEN 1 ELSE 0)
  BY <1>1, AnswersTell
<1>4. /\ hosted' = answer.worker /\ performed' = Append(performed, made)
      /\ at' = IF answer.status = "PASS" THEN "steps" ELSE "inspect"
      /\ gathered' =
           [inspection |-> IF step.operation = "inspect" THEN Inspection(hosted) ELSE gathered.inspection,
            metrics |-> IF step.operation = "metrics" THEN Metrics(hosted) ELSE gathered.metrics,
            captures |-> IF step.operation = "capture" THEN gathered.captures + 1 ELSE gathered.captures,
            diagnostics |-> IF answer.status = "PASS" THEN gathered.diagnostics ELSE gathered.diagnostics + 1,
            forced |-> gathered.forced]
  BY <1>11 DEF ScenarioInvariant, ScenarioTypes
<1>5. made \in Made /\ made.status = answer.status /\ made.step = step
  BY <1>3 DEF Made
<1> HIDE DEF made
<1>0. NoTickFailed(performed') <=> answer.status # "TICK_FAILED"
  <2>1. PICK k \in Nat : k = Len(performed) /\ DOMAIN performed = 1..k
    BY <1>1
  <2>2. /\ DOMAIN performed' = 1..(k + 1) /\ performed'[k + 1] = made
        /\ \A n \in 1..k : performed'[n] = performed[n]
    BY <1>1, <1>4, <1>5, <2>1
  <2>3. \A n \in 1..(k + 1) : n \in 1..k \/ n = k + 1
    OBVIOUS
  <2>4. k + 1 \in 1..(k + 1)
    OBVIOUS
  <2> QED BY <1>1, <1>5, <2>1, <2>2, <2>3, <2>4 DEF NoTickFailed
<1>6. ScenarioTypes'
  <2>1. performed' \in Seq(Made)
    BY <1>1, <1>4, <1>5
  <2>2. at' \in {"steps", "inspect"} /\ (at' = "steps" => answer.status = "PASS")
    BY <1>4
  <2>3. gathered'.captures \in Nat /\ gathered'.diagnostics \in Nat
    BY <1>4 DEF ScenarioInvariant, ScenarioTypes
  <2> QED BY <1>0, <1>1, <1>3, <1>4, <2>1, <2>2, <2>3 DEF ScenarioInvariant, ScenarioTypes
<1>7. InspectionIsTold'
  <2>1. CASE step.operation = "inspect"
    <3>1. hosted \in Workers /\ IsLeft(hosted) /\ gathered'.inspection = Inspection(hosted)
      BY <1>1, <1>4, <2>1, ToldIsLeft DEF IsTold
    <3> QED BY <1>1, <3>1 DEF InspectionIsTold
  <2>2. CASE step.operation # "inspect"
    <3>1. gathered'.inspection = gathered.inspection
      BY <1>4, <2>2
    <3> QED BY <1>1, <3>1 DEF ScenarioInvariant, InspectionIsTold
  <2> QED BY <2>1, <2>2
<1>8. PassedSoFar'
  <2>1. CASE answer.status = "PASS"
    <3>1. ActsOf(performed') = Acting(0, ActsOf(performed), made)
      <4>1. Actings!Folded(0, 0, Append(performed, made))
              = Acting(0, Actings!Folded(0, 0, performed), made)
        BY <1>1, <1>5, Actings!FoldOfMore
      <4> QED BY <1>4, <4>1, ActsIsFold
    <3>2. /\ gathered'.diagnostics = gathered.diagnostics /\ at' = "steps"
          /\ hosted'.actions = hosted.actions + (IF step.operation = "act" THEN 1 ELSE 0)
      BY <1>3, <1>4, <2>1
    <3>3. gathered.diagnostics = 0 => hosted'.actions = ActsOf(performed')
      <4>1. hosted.actions \in Nat
        BY <1>1 DEF IsTold, Workers
      <4> QED BY <1>5, <3>1, <3>2, <4>1 DEF ScenarioInvariant, PassedSoFar, Acting
    <3>4. gathered.diagnostics = 0 => \A n \in DOMAIN performed' : performed'[n].status = "PASS"
      BY <1>1, <1>4, <1>5, <2>1 DEF ScenarioInvariant, PassedSoFar
    <3> QED BY <3>2, <3>3, <3>4 DEF PassedSoFar
  <2>2. CASE answer.status # "PASS"
    <3>1. gathered'.diagnostics = gathered.diagnostics + 1 /\ gathered.diagnostics \in Nat
      BY <1>4, <2>2 DEF ScenarioInvariant, ScenarioTypes
    <3> QED BY <3>1 DEF PassedSoFar
  <2> QED BY <2>1, <2>2
<1>9. ReplayIsTold'
  <2>1. at' # "written"
    BY <1>4
  <2> QED BY <1>1, <2>1 DEF ScenarioInvariant, ScenarioTypes, ReplayIsTold, Unasked
<1> QED BY <1>6, <1>7, <1>8, <1>9 DEF ScenarioInvariant

LEMMA InspectingTells ==
  ASSUME ScenarioInvariant, InspectAtEnd
  PROVE  ScenarioInvariant'
<1>1. PICK faults \in 0..1 : gathered' = [gathered EXCEPT
        !.inspection = Inspection(hosted), !.metrics = Metrics(hosted),
        !.captures = IF gathered.forced /\ @ = 0 THEN 1 ELSE @, !.diagnostics = @ + faults]
  BY DEF InspectAtEnd
<1>2. /\ at \in {"steps", "inspect"} /\ at' = "assert"
      /\ UNCHANGED <<hosted, performed, gameplay, archived, verified>>
      /\ hosted \in Workers /\ IsLeft(hosted) /\ hosted.version = 1
      /\ NoTickFailed(performed) => IsTold(hosted)
      /\ gathered.captures \in Nat /\ gathered.diagnostics \in Nat
  BY DEF InspectAtEnd, Rest, ScenarioInvariant, ScenarioTypes, IsLeft
<1>3. /\ gathered' = [inspection |-> gathered'.inspection, metrics |-> gathered'.metrics,
                      captures |-> gathered'.captures, diagnostics |-> gathered'.diagnostics,
                      forced |-> gathered'.forced]
      /\ gathered'.inspection = Inspection(hosted) /\ gathered'.metrics = Metrics(hosted)
      /\ gathered'.captures = (IF gathered.forced /\ gathered.captures = 0 THEN 1 ELSE gathered.captures)
      /\ gathered'.diagnostics = gathered.diagnostics + faults /\ gathered'.forced = gathered.forced
  <2>1. gathered = [inspection |-> gathered.inspection, metrics |-> gathered.metrics,
                    captures |-> gathered.captures, diagnostics |-> gathered.diagnostics,
                    forced |-> gathered.forced]
    BY DEF ScenarioInvariant, ScenarioTypes
  <2> QED BY <1>1, <2>1
<1>4. /\ gathered'.captures \in Nat /\ gathered'.diagnostics \in Nat
      /\ gathered'.forced => gathered'.captures > 0
      /\ gathered'.diagnostics = 0 => gathered.diagnostics = 0
  BY <1>2, <1>3
<1>5. ScenarioTypes'
  BY <1>2, <1>3, <1>4 DEF ScenarioInvariant, ScenarioTypes
<1>6. InspectionIsTold'
  BY <1>2, <1>3 DEF InspectionIsTold
<1>7. PassedSoFar'
  BY <1>2, <1>3, <1>4 DEF ScenarioInvariant, PassedSoFar
<1>8. ReplayIsTold'
  BY <1>2 DEF ScenarioInvariant, ScenarioTypes, ReplayIsTold, Unasked
<1> QED BY <1>5, <1>6, <1>7, <1>8 DEF ScenarioInvariant

\* What is told of a finding adds a diagnostic or none.
LEMMA FindingsTell ==
  ASSUME ScenarioInvariant, NEW more \in 0..1,
         gathered' = [gathered EXCEPT !.diagnostics = @ + more],
         at' = "write", at \in {"assert"} \/ (more = 1 /\ at \in {"load", "steps", "inspect"}),
         UNCHANGED <<hosted, performed, gameplay, archived, verified>>
  PROVE  ScenarioInvariant'
<1>1. /\ gathered.diagnostics \in Nat
      /\ gathered = [inspection |-> gathered.inspection, metrics |-> gathered.metrics,
                     captures |-> gathered.captures, diagnostics |-> gathered.diagnostics,
                     forced |-> gathered.forced]
  BY DEF ScenarioInvariant, ScenarioTypes
<1>2. gathered' = [inspection |-> gathered.inspection, metrics |-> gathered.metrics,
                   captures |-> gathered.captures, diagnostics |-> gathered.diagnostics + more,
                   forced |-> gathered.forced]
  BY <1>1
<1>3. /\ gathered'.inspection = gathered.inspection /\ gathered'.metrics = gathered.metrics
      /\ gathered'.captures = gathered.captures /\ gathered'.forced = gathered.forced
      /\ gathered'.diagnostics = gathered.diagnostics + more
  BY <1>2
<1>4. ScenarioTypes'
  BY <1>1, <1>2, <1>3 DEF ScenarioInvariant, ScenarioTypes
<1>5. InspectionIsTold'
  BY <1>3 DEF ScenarioInvariant, InspectionIsTold
<1>6. PassedSoFar'
  BY <1>1, <1>3 DEF ScenarioInvariant, PassedSoFar
<1>7. ReplayIsTold'
  BY DEF ScenarioInvariant, ReplayIsTold
<1> QED BY <1>4, <1>5, <1>6, <1>7 DEF ScenarioInvariant

LEMMA ArchivesVerify ==
  ASSUME ScenarioInvariant, at = "written", gathered.inspection # NoInspection, NoTickFailed(performed)
  PROVE  Verifies(1, archived)
<1>1. archived = gathered.inspection.replay
  BY DEF ScenarioInvariant, ReplayIsTold
<1>2. PICK w \in Workers : IsTold(w) /\ w.version = 1 /\ gathered.inspection = Inspection(w)
  BY DEF ScenarioInvariant, InspectionIsTold
<1>3. /\ archived = [frames |-> w.frames, reached |-> Reached(w.frames)]
      /\ w.frames \in Replays /\ Follows(1, w.frames)
  BY <1>1, <1>2 DEF Inspection, IsTold, Workers
<1> QED BY <1>3, FollowingVerifies

LEMMA ReplayingTells ==
  ASSUME ScenarioInvariant, ReplayEvidence
  PROVE  ScenarioInvariant'
<1>1. PICK loaded \in {"passed", "failed late", "failed early"} :
        verified' = [load |-> loaded,
                     answer |-> IF loaded # "failed early" /\ Verifies(gameplay, archived)
                                THEN "PASS" ELSE "FAIL"]
  BY DEF ReplayEvidence
<1>2. at = "written" /\ UNCHANGED <<gameplay, hosted, at, performed, gathered, archived>>
  BY DEF ReplayEvidence
<1>3. gameplay = 1 /\ loaded = "passed" /\ gathered.inspection # NoInspection
        /\ NoTickFailed(performed) => verified'.answer = "PASS"
  BY <1>1, <1>2, ArchivesVerify
<1>4. ReplayIsTold'
  BY <1>1, <1>2, <1>3 DEF ScenarioInvariant, ReplayIsTold
<1> QED BY <1>2, <1>4 DEF ScenarioInvariant, ScenarioTypes, InspectionIsTold, PassedSoFar

LEMMA StepKeepsScenario ==
  ASSUME ScenarioInvariant, [ScenarioNext]_scenario
  PROVE  ScenarioInvariant'
<1>1. CASE LoadScenario
  <2>1. /\ hosted' = [Unloaded EXCEPT !.version = 1] /\ at = "load" /\ at' = "steps"
        /\ UNCHANGED <<performed, gathered, gameplay, archived, verified>>
    BY <1>1 DEF LoadScenario, Rest, ScenarioInvariant, ScenarioTypes
  <2>2. IsTold(hosted') /\ hosted'.version = 1 /\ hosted'.actions = 0
    BY <2>1, NothingIsTold
  <2>3. performed = <<>> /\ ActsOf(<<>>) = 0
    BY <2>1, ActsIsFold, Actings!FoldOfNothing DEF ScenarioInvariant, ScenarioTypes
  <2>4. IsLeft(hosted') /\ NoTickFailed(performed)
    BY <2>2, <2>3, ToldIsLeft DEF NoTickFailed
  <2> QED BY <2>1, <2>2, <2>3, <2>4 DEF ScenarioInvariant, ScenarioTypes, InspectionIsTold, PassedSoFar, ReplayIsTold
<1>2. CASE JudgeAssertion
  <2>1. PICK expected \in 0..2 :
          gathered' = [gathered EXCEPT !.diagnostics =
                         IF gathered.inspection.value = expected
                              /\ Verifies(hosted.version, gathered.inspection.replay)
                         THEN @ ELSE @ + 1]
    BY <1>2 DEF JudgeAssertion
  <2>2. gathered.diagnostics \in Nat
    BY DEF ScenarioInvariant, ScenarioTypes
  <2>3. PICK more \in 0..1 : gathered' = [gathered EXCEPT !.diagnostics = @ + more]
    <3>1. CASE gathered' = [gathered EXCEPT !.diagnostics = @]
      <4>1. gathered' = [gathered EXCEPT !.diagnostics = @ + 0] /\ 0 \in 0..1
        BY <2>2, <3>1
      <4> QED BY <4>1
    <3>2. CASE gathered' = [gathered EXCEPT !.diagnostics = @ + 1]
      <4>1. 1 \in 0..1
        OBVIOUS
      <4> QED BY <3>2, <4>1
    <3> QED BY <2>1, <3>1, <3>2
  <2>4. at = "assert" /\ at' = "write" /\ UNCHANGED <<hosted, performed, gameplay, archived, verified>>
    BY <1>2 DEF JudgeAssertion, Rest
  <2> QED BY <2>3, <2>4, FindingsTell
<1>3. CASE RequestThrows
  BY <1>3, FindingsTell DEF RequestThrows, Rest
<1>4. CASE WriteEvidence
  BY <1>4 DEF WriteEvidence, ScenarioInvariant, ScenarioTypes, InspectionIsTold, PassedSoFar,
              ReplayIsTold, Unasked
<1>5. CASE EditGameplay
  BY <1>5 DEF EditGameplay, ScenarioInvariant, ScenarioTypes, InspectionIsTold, PassedSoFar, ReplayIsTold
<1>6. CASE UNCHANGED scenario
  BY <1>6 DEF scenario, ScenarioInvariant, ScenarioTypes, InspectionIsTold, PassedSoFar, ReplayIsTold
<1> QED BY <1>1, <1>2, <1>3, <1>4, <1>5, <1>6, PlayingTells, InspectingTells, ReplayingTells
        DEF ScenarioNext

\* However a scenario goes and wherever it stops, the timeline, the view and the frames of
\* the evidence are of one moment; so is the state, and the archive, executed again, comes to
\* it, unless a tick failed under a step (control-worker.ts, applyStep; scenario-harness.ts,
\* runScenario; runtime.cpp, step_once, which keeps what the timers of such a tick did).
THEOREM EvidenceStaysOfOneMoment ==
  ScenarioSpec => []EvidenceIsOfOneMoment
<1>1. ScenarioInvariant => EvidenceIsOfOneMoment
  <2> SUFFICES ASSUME ScenarioInvariant, at = "written" PROVE EvidenceIsOfOneMoment
    BY DEF EvidenceIsOfOneMoment
  <2> DEFINE i == gathered.inspection
  <2>1. ASSUME i # NoInspection
        PROVE  /\ TicksOf(i.timeline) = [n \in 1..i.tick |-> n]
               /\ DeltaOf(i.timeline) = i.view.value
               /\ i.view.tick = i.tick /\ Len(i.replay.frames) = i.tick
               /\ NoTickFailed(performed) => i.view.value = i.value /\ Verifies(1, i.replay)
    <3>1. PICK w \in Workers : IsLeft(w) /\ i = Inspection(w) /\ (NoTickFailed(performed) => IsTold(w))
      BY <2>1 DEF ScenarioInvariant, InspectionIsTold
    <3>2. PICK told \in Workers : IsTold(told) /\ w = [told EXCEPT !.value = w.value]
      BY <3>1 DEF IsLeft
    <3>3. /\ w.timeline = told.timeline /\ w.tick = told.tick
          /\ w.projection = told.projection /\ w.frames = told.frames
      BY <3>2 DEF Workers
    <3>4. /\ i.timeline = w.timeline /\ i.tick = w.tick /\ i.value = w.value
          /\ i.view = w.projection /\ i.replay.frames = w.frames
      BY <3>1 DEF Inspection
    <3>5. /\ TicksOf(told.timeline) = [n \in 1..told.tick |-> n]
          /\ DeltaOf(told.timeline) = told.projection.value
          /\ told.projection.tick = told.tick /\ Len(told.frames) = told.tick
      BY <3>2 DEF IsTold
    <3>6. ASSUME NoTickFailed(performed)
          PROVE  i.view.value = i.value /\ Verifies(1, i.replay)
      <4>1. w.projection.value = w.value
        BY <3>1, <3>6 DEF IsTold
      <4>2. Verifies(1, i.replay)
        BY <2>1, <3>6, ArchivesVerify DEF ScenarioInvariant, ReplayIsTold
      <4> QED BY <3>4, <4>1, <4>2
    <3> HIDE DEF i
    <3> QED BY <3>3, <3>4, <3>5, <3>6
  <2>2. ASSUME gathered.diagnostics = 0
        PROVE  /\ i = Inspection(hosted) /\ gathered.metrics = Metrics(hosted)
               /\ \A n \in DOMAIN performed : performed[n].status = "PASS"
               /\ gathered.metrics.stepped = i.tick
               /\ gathered.metrics.actions = ActsOf(performed)
               /\ gathered.forced => gathered.captures > 0
    <3>0. NoTickFailed(performed)
      BY <2>2 DEF ScenarioInvariant, PassedSoFar, NoTickFailed
    <3>1. /\ i = Inspection(hosted) /\ gathered.metrics = Metrics(hosted)
          /\ hosted.actions = ActsOf(performed) /\ hosted.stepped = hosted.tick
          /\ \A n \in DOMAIN performed : performed[n].status = "PASS"
          /\ gathered.forced => gathered.captures > 0
      BY <2>2, <3>0 DEF ScenarioInvariant, PassedSoFar, ScenarioTypes, IsTold
    <3>2. Inspection(hosted).tick = hosted.tick /\ Metrics(hosted).stepped = hosted.stepped
          /\ Metrics(hosted).actions = hosted.actions
      BY DEF Inspection, Metrics
    <3> QED BY <3>1, <3>2
  <2>3. gameplay = 1 /\ verified.load = "passed" /\ i # NoInspection /\ NoTickFailed(performed)
          => verified.answer = "PASS"
    BY DEF ScenarioInvariant, ReplayIsTold
  <2> HIDE DEF i
  <2> QED BY <2>1, <2>2, <2>3 DEF EvidenceIsOfOneMoment, i
<1> QED BY <1>1, ScenarioStartsTold, StepKeepsScenario, PTL DEF ScenarioSpec

-----------------------------------------------------------------------------
(* Run evidence *)

Contents == {1, 2}

Worktrees == [commit : Nat, tracked : Contents, loose : Contents, engine : Contents]

Kept(tree, commits) == tree \in Worktrees /\ tree.commit \in DOMAIN commits

\* The fingerprints of a worktree other than the one there is.
FingerprintsOf(tree, commits) ==
  [project |-> [commit |-> tree.commit,
                dirty |-> tree.tracked # commits[tree.commit] \/ tree.loose # 0,
                hashed |-> <<IF tree.tracked = commits[tree.commit] THEN 0 ELSE tree.tracked,
                             tree.loose>>],
   engine |-> tree.engine]

IsOf(made, commits) ==
  Kept(made.on, commits) /\ made.repositories = FingerprintsOf(made.on, commits)

Whole(all) == {r \in 1..MaxCommands : all[r].file = "whole"}

Noted(all) == {r \in 1..MaxCommands : all[r] # NoEvidence}

\* What an index says of the worktree it was made on stays true, as no run is recorded twice.
IndexIsOf(state, tree, all, commits) ==
  /\ Kept(tree, commits) /\ state.repositories = FingerprintsOf(tree, commits)
  /\ state.listed \subseteq Whole(all)
  /\ \A r \in state.latest :
       r \in state.listed /\ all[r].on = tree /\ state.status = {all[r].status}
  /\ \A r \in state.listed :
       all[r].on = tree => \E l \in state.latest : all[r].finished <= all[l].finished

IndexIsTrue(state, all, commits) ==
  state.file = "whole" /\ \E tree \in Worktrees : IndexIsOf(state, tree, all, commits)

\* A manifest is of the worktree it was recorded on, and no two ended at the same time.
RunsAreTrue ==
  /\ runs = [r \in 1..MaxCommands |-> runs[r]]
  /\ \A r \in 1..MaxCommands :
       \/ runs[r] = NoEvidence \/ runs[r] = TornEvidence
       \/ /\ r \in Whole(runs) /\ IsOf(runs[r], history)
          /\ runs[r].finished \in Nat /\ runs[r].finished < Cardinality(Noted(runs))
  /\ \A r, s \in Whole(runs) : runs[r].finished = runs[s].finished => r = s
  /\ \A r \in 1..MaxCommands : r > started => runs[r] = NoEvidence

\* What a command has in hand, and that its run is not recorded yet.
CommandIsTrue(c, all, commits, count) ==
  \/ c = AtPrompt
  \/ /\ c.at \in {"started", "looked", "indexing", "comparing", "ended"}
     /\ c.run \in 1..count /\ all[c.run] = NoEvidence
     /\ c.at = "looked" =>
          \E tree \in Worktrees : Kept(tree, commits) /\ c.seen = FingerprintsOf(tree, commits)
     /\ c.at \in {"indexing", "comparing"} => IndexIsTrue(c.state, all, commits)
  \/ /\ c.at = "recording" /\ c.run \in 1..count /\ all[c.run] = TornEvidence
     /\ c.manifest.file = "whole" /\ IsOf(c.manifest, commits)
     /\ c.manifest.finished \in Nat /\ c.manifest.finished < Cardinality(Noted(all))
     /\ \A r \in Whole(all) : all[r].finished # c.manifest.finished

CommandsAreApart ==
  \A t, u \in Terminals : t # u /\ terminals[t] # AtPrompt /\ terminals[u] # AtPrompt =>
    /\ terminals[t].run # terminals[u].run
    /\ terminals[t].at = "recording" /\ terminals[u].at = "recording" =>
         terminals[t].manifest.finished # terminals[u].manifest.finished

CommandsAreTrue ==
  /\ terminals = [t \in Terminals |-> terminals[t]]
  /\ \A t \in Terminals : CommandIsTrue(terminals[t], runs, history, started)
  /\ CommandsAreApart

WorktreeIsKept ==
  Kept(worktree, history) /\ history \in Seq(Contents) /\ started \in 1..MaxCommands

IndexesAreTrue ==
  /\ indexed \in {NoEvidence, TornEvidence} \/ IndexIsTrue(indexed, runs, history)
  /\ accepted # AtPrompt => IndexIsOf(accepted.state, accepted.on, runs, history)

EvidenceInvariant ==
  InGit => WorktreeIsKept /\ RunsAreTrue /\ CommandsAreTrue /\ IndexesAreTrue

\* Two worktrees with the same fingerprints hold the same.
LEMMA SameFingerprintsSameTree ==
  ASSUME NEW commits, NEW a, NEW b, Kept(a, commits), Kept(b, commits),
         SameFingerprints(FingerprintsOf(a, commits), FingerprintsOf(b, commits))
  PROVE  a = b
<1>1. a.commit = b.commit /\ a.engine = b.engine
  BY DEF SameFingerprints, RepositoriesMatch, FingerprintsOf
<1>2. <<IF a.tracked = commits[a.commit] THEN 0 ELSE a.tracked, a.loose>>
        = <<IF b.tracked = commits[b.commit] THEN 0 ELSE b.tracked, b.loose>>
  BY DEF SameFingerprints, RepositoriesMatch, FingerprintsOf
<1>3. a.loose = b.loose
  BY <1>2
<1>4. a.tracked = b.tracked
  BY <1>1, <1>2 DEF Kept, Worktrees, Contents
<1> QED BY <1>1, <1>3, <1>4 DEF Kept, Worktrees

\* Commits are only added.
Grown(commits, more) ==
  \A c \in DOMAIN commits : c \in DOMAIN more /\ more[c] = commits[c]

LEMMA TreesStayKept ==
  ASSUME NEW commits, NEW more, Grown(commits, more), NEW tree, Kept(tree, commits)
  PROVE  Kept(tree, more) /\ FingerprintsOf(tree, more) = FingerprintsOf(tree, commits)
BY DEF Grown, Kept, FingerprintsOf

LEMMA IndexStaysOf ==
  ASSUME NEW commits, NEW more, Grown(commits, more), NEW all, NEW then,
         \A r \in Whole(all) : r \in Whole(then) /\ then[r] = all[r],
         NEW state, NEW tree, IndexIsOf(state, tree, all, commits)
  PROVE  IndexIsOf(state, tree, then, more)
<1>1. Kept(tree, more) /\ state.repositories = FingerprintsOf(tree, more)
  BY TreesStayKept DEF IndexIsOf
<1>2. state.listed \subseteq Whole(then) /\ \A r \in state.listed : then[r] = all[r]
  BY DEF IndexIsOf
<1>3. \A r \in state.latest : r \in state.listed
  BY DEF IndexIsOf
<1> QED BY <1>1, <1>2, <1>3 DEF IndexIsOf

LEMMA IndexStaysTrue ==
  ASSUME NEW commits, NEW more, Grown(commits, more), NEW all, NEW then,
         \A r \in Whole(all) : r \in Whole(then) /\ then[r] = all[r],
         NEW state, IndexIsTrue(state, all, commits)
  PROVE  IndexIsTrue(state, then, more)
BY IndexStaysOf DEF IndexIsTrue

\* A command that does nothing keeps what it has in hand, whatever others do.
LEMMA CommandStaysTrue ==
  ASSUME NEW commits, NEW more, Grown(commits, more), NEW all, NEW then,
         \A r \in Whole(all) : r \in Whole(then) /\ then[r] = all[r],
         NEW count \in Nat, NEW later \in Nat, count <= later,
         Cardinality(Noted(all)) \in Nat, Cardinality(Noted(then)) \in Nat,
         Cardinality(Noted(all)) <= Cardinality(Noted(then)),
         NEW c, CommandIsTrue(c, all, commits, count),
         c # AtPrompt => then[c.run] = all[c.run],
         c # AtPrompt /\ c.at = "recording" =>
           \A r \in Whole(then) : then[r].finished # c.manifest.finished
  PROVE  CommandIsTrue(c, then, more, later)
<1>1. CASE c = AtPrompt
  BY <1>1 DEF CommandIsTrue
<1>2. CASE c # AtPrompt /\ c.at = "recording"
  <2>1. IsOf(c.manifest, more)
    BY <1>2, TreesStayKept DEF CommandIsTrue, IsOf
  <2> QED BY <1>2, <2>1 DEF CommandIsTrue
<1>3. CASE c # AtPrompt /\ c.at # "recording"
  <2>1. c.at = "looked" =>
          \E tree \in Worktrees : Kept(tree, more) /\ c.seen = FingerprintsOf(tree, more)
    BY <1>3, TreesStayKept DEF CommandIsTrue
  <2>2. c.at \in {"indexing", "comparing"} => IndexIsTrue(c.state, then, more)
    BY <1>3, IndexStaysTrue DEF CommandIsTrue
  <2> QED BY <1>3, <2>1, <2>2 DEF CommandIsTrue
<1> QED BY <1>1, <1>2, <1>3

\* Of the whole manifests that fit, one is the latest.
LEMMA LatestIsThere ==
  ASSUME NEW all, NEW chosen, chosen \subseteq Whole(all), chosen # {},
         NEW most \in Nat, \A r \in chosen : all[r].finished \in Nat /\ all[r].finished < most
  PROVE  \E l \in chosen : \A r \in chosen : all[r].finished <= all[l].finished
<1> DEFINE Left == {most - all[r].finished : r \in chosen}
<1>1. Left \subseteq Nat /\ Left # {}
  OBVIOUS
<1>2. PICK x \in Left : \A y \in Left : x <= y
  <2> HIDE DEF Left
  <2> QED BY <1>1, Addings!LeastMember
<1>3. PICK l \in chosen : x = most - all[l].finished
  BY <1>2
<1>4. \A r \in chosen : most - all[l].finished <= most - all[r].finished
  BY <1>2, <1>3
<1> QED BY <1>3, <1>4

LEMMA NotedIsFinite ==
  ASSUME NEW all
  PROVE  IsFiniteSet(Noted(all)) /\ Cardinality(Noted(all)) \in Nat
<1>1. IsFiniteSet(1..MaxCommands)
  BY EvidenceBounds, FS_Interval
<1> QED BY <1>1, FS_Subset, FS_CardinalityType DEF Noted

AllIsTrue == WorktreeIsKept /\ RunsAreTrue /\ CommandsAreTrue /\ IndexesAreTrue

LEMMA FingerprintsAreOfTheWorktree ==
  ASSUME InGit, AllIsTrue
  PROVE  Fingerprints = FingerprintsOf(worktree, history) /\ Kept(worktree, history)
BY DEF AllIsTrue, WorktreeIsKept, Fingerprints, ProjectFingerprint, FingerprintsOf

\* A command that records nothing disturbs no other.
LEMMA ProceedingKeepsCommands ==
  ASSUME AllIsTrue, TreeStays, UNCHANGED runs, NEW t \in Terminals, NEW c, Proceed(t, c),
         started' \in started..MaxCommands,
         c # AtPrompt =>
           /\ CommandIsTrue(c, runs, history, started') /\ c.at # "recording"
           /\ \/ terminals[t] # AtPrompt /\ c.run = terminals[t].run
              \/ c.run > started
  PROVE  WorktreeIsKept' /\ RunsAreTrue' /\ CommandsAreTrue'
<1>1. WorktreeIsKept' /\ started' >= started /\ started \in 1..MaxCommands
  BY EvidenceBounds DEF AllIsTrue, WorktreeIsKept, TreeStays
<1>2. RunsAreTrue'
  BY <1>1 DEF AllIsTrue, RunsAreTrue, TreeStays
<1>3. /\ terminals' = [u \in Terminals |-> IF u = t THEN c ELSE terminals[u]]
      /\ terminals'[t] = c
  BY DEF AllIsTrue, CommandsAreTrue, Proceed
<1>4. Grown(history, history)
  BY DEF Grown
<1>5. ASSUME NEW u \in Terminals
      PROVE  CommandIsTrue(terminals'[u], runs, history, started')
  <2>1. CASE u = t
    BY <1>3, <2>1 DEF CommandIsTrue
  <2>2. CASE u # t
    <3>1. CommandIsTrue(terminals[u], runs, history, started) /\ terminals'[u] = terminals[u]
      BY <1>3, <2>2 DEF AllIsTrue, CommandsAreTrue
    <3>2. terminals[u] # AtPrompt /\ terminals[u].at = "recording" =>
            \A r \in Whole(runs) : runs[r].finished # terminals[u].manifest.finished
      BY <3>1 DEF CommandIsTrue
    <3>3. started \in Nat /\ started' \in Nat /\ started <= started'
      BY <1>1
    <3>4. CommandIsTrue(terminals[u], runs, history, started')
      BY <1>4, <3>1, <3>2, <3>3, NotedIsFinite, CommandStaysTrue
    <3> QED BY <3>1, <3>4
  <2> QED BY <2>1, <2>2
<1>6. \A u \in Terminals : terminals[u] # AtPrompt => terminals[u].run \in 1..started
  BY DEF AllIsTrue, CommandsAreTrue, CommandIsTrue
<1>7. CommandsAreApart'
  <2> SUFFICES ASSUME NEW u \in Terminals, NEW v \in Terminals, u # v,
                      terminals'[u] # AtPrompt, terminals'[v] # AtPrompt
               PROVE  /\ terminals'[u].run # terminals'[v].run
                      /\ terminals'[u].at = "recording" /\ terminals'[v].at = "recording" =>
                           terminals'[u].manifest.finished # terminals'[v].manifest.finished
    BY DEF CommandsAreApart
  <2>1. CASE u # t /\ v # t
    BY <1>3, <2>1 DEF AllIsTrue, CommandsAreTrue, CommandsAreApart
  <2>2. CASE u = t
    <3>1. terminals'[v] = terminals[v] /\ terminals[v].run \in 1..started
      BY <1>3, <1>6, <2>2
    <3>2. CASE terminals[t] # AtPrompt /\ c.run = terminals[t].run
      <4>1. terminals[t].run # terminals[v].run
        BY <2>2, <3>1, <3>2 DEF AllIsTrue, CommandsAreTrue, CommandsAreApart
      <4> QED BY <1>3, <2>2, <3>1, <3>2, <4>1
    <3>3. CASE c.run > started
      BY <1>1, <1>3, <2>2, <3>1, <3>3
    <3> QED BY <1>3, <2>2, <3>2, <3>3
  <2>3. CASE v = t
    <3>1. terminals'[u] = terminals[u] /\ terminals[u].run \in 1..started
      BY <1>3, <1>6, <2>3
    <3>2. CASE terminals[t] # AtPrompt /\ c.run = terminals[t].run
      <4>1. terminals[t].run # terminals[u].run
        BY <2>3, <3>1, <3>2 DEF AllIsTrue, CommandsAreTrue, CommandsAreApart
      <4> QED BY <1>3, <2>3, <3>1, <3>2, <4>1
    <3>3. CASE c.run > started
      BY <1>1, <1>3, <2>3, <3>1, <3>3
    <3> QED BY <1>3, <2>3, <3>2, <3>3
  <2> QED BY <2>1, <2>2, <2>3
<1>8. terminals' = [u \in Terminals |-> terminals'[u]]
  BY <1>3
<1> QED BY <1>1, <1>2, <1>5, <1>7, <1>8 DEF CommandsAreTrue, TreeStays

LEMMA IndexesStayTrue ==
  ASSUME AllIsTrue, UNCHANGED <<indexed, accepted>>, Grown(history, history'),
         \A r \in Whole(runs) : r \in Whole(runs') /\ runs'[r] = runs[r]
  PROVE  IndexesAreTrue'
<1>1. indexed' \in {NoEvidence, TornEvidence} \/ IndexIsTrue(indexed', runs', history')
  BY IndexStaysTrue DEF AllIsTrue, IndexesAreTrue
<1>2. accepted' # AtPrompt => IndexIsOf(accepted'.state, accepted'.on, runs', history')
  BY IndexStaysOf DEF AllIsTrue, IndexesAreTrue
<1> QED BY <1>1, <1>2 DEF IndexesAreTrue

LEMMA EvidenceStartsTrue ==
  ASSUME EvidenceInit
  PROVE  EvidenceInvariant
<1> SUFFICES ASSUME InGit PROVE AllIsTrue
  BY DEF EvidenceInvariant, AllIsTrue
<1>1. WorktreeIsKept
  BY EvidenceBounds DEF EvidenceInit, WorktreeIsKept, Kept, Worktrees, Contents
<1>2. Fingerprints = FingerprintsOf(worktree, history)
  BY DEF Fingerprints, ProjectFingerprint, FingerprintsOf
<1>3. RunsAreTrue
  <2>1. runs = [r \in 1..MaxCommands |-> IF r = 1 THEN Manifest("passed", 0) ELSE NoEvidence]
    BY DEF EvidenceInit
  <2>2. 1 \in 1..MaxCommands /\ runs[1] = Manifest("passed", 0)
    BY <2>1, EvidenceBounds
  <2>3. runs[1].file = "whole" /\ runs[1].finished = 0 /\ IsOf(runs[1], history)
    BY <1>1, <1>2, <2>2 DEF Manifest, IsOf, WorktreeIsKept
  <2>4. runs[1] # NoEvidence
    BY <2>3 DEF NoEvidence
  <2>5. Noted(runs) = {1}
    BY <2>1, <2>2, <2>4 DEF Noted
  <2>6. Cardinality(Noted(runs)) = 1
    BY <2>5, FS_Singleton
  <2>7. Whole(runs) = {1}
    BY <2>1, <2>2, <2>3 DEF Whole, NoEvidence
  <2>8. \A r \in 1..MaxCommands : r # 1 => runs[r] = NoEvidence
    BY <2>1
  <2>9. started = 1
    BY DEF EvidenceInit
  <2>10. runs = [r \in 1..MaxCommands |-> runs[r]]
    BY <2>1
  <2>11. \A r \in 1..MaxCommands :
           \/ runs[r] = NoEvidence \/ runs[r] = TornEvidence
           \/ /\ r \in Whole(runs) /\ IsOf(runs[r], history)
              /\ runs[r].finished \in Nat /\ runs[r].finished < Cardinality(Noted(runs))
    BY <2>3, <2>6, <2>7, <2>8
  <2>12. \A r \in 1..MaxCommands : r > started => runs[r] = NoEvidence
    BY <2>8, <2>9
  <2> QED BY <2>7, <2>10, <2>11, <2>12 DEF RunsAreTrue
<1>4. CommandsAreTrue
  BY DEF EvidenceInit, CommandsAreTrue, CommandsAreApart, CommandIsTrue
<1>5. IndexesAreTrue
  BY DEF EvidenceInit, IndexesAreTrue
<1> QED BY <1>1, <1>3, <1>4, <1>5 DEF AllIsTrue

LEMMA WholeManifestsAreTrue ==
  ASSUME AllIsTrue, NEW r \in Whole(runs)
  PROVE  /\ r \in 1..MaxCommands /\ IsOf(runs[r], history) /\ runs[r].finished \in Nat
         /\ runs[r].finished < Cardinality(Noted(runs))
<1>1. r \in 1..MaxCommands /\ runs[r].file = "whole"
  BY DEF Whole
<1>2. runs[r] # NoEvidence /\ runs[r] # TornEvidence
  BY <1>1 DEF NoEvidence, TornEvidence
<1> QED BY <1>1, <1>2 DEF AllIsTrue, RunsAreTrue

\* What the worktree becomes changes nothing that was recorded.
LEMMA ChangesKeepEvidence ==
  ASSUME InGit, AllIsTrue, EditProject \/ EditEngine \/ Commit \/ Checkout
  PROVE  AllIsTrue'
<1>1. /\ Kept(worktree, history) /\ history \in Seq(Contents)
      /\ UNCHANGED <<started, terminals, runs, indexed, accepted>>
  BY DEF AllIsTrue, WorktreeIsKept, EditProject, EditEngine, Commit, Checkout, Change
<1>2. Kept(worktree', history') /\ history' \in Seq(Contents) /\ Grown(history, history')
  <2>1. CASE EditProject
    BY <1>1, <2>1 DEF EditProject, Change, Kept, Worktrees, Contents, Grown
  <2>2. CASE EditEngine
    BY <1>1, <2>2 DEF EditEngine, Change, Kept, Worktrees, Contents, Grown
  <2>3. CASE Commit
    <3>1. worktree.tracked \in Contents /\ history' = Append(history, worktree.tracked)
      BY <1>1, <2>3 DEF Commit, Kept, Worktrees
    <3>2. /\ history' \in Seq(Contents) /\ Len(history') = Len(history) + 1
          /\ \A c \in DOMAIN history : c \in DOMAIN history' /\ history'[c] = history[c]
          /\ Len(history') \in DOMAIN history' /\ Len(history') \in Nat
      BY <1>1, <3>1
    <3>3. worktree' = [worktree EXCEPT !.commit = Len(history')]
      BY <2>3 DEF Commit, Change
    <3>4. worktree' \in Worktrees /\ worktree'.commit = Len(history')
      BY <1>1, <3>2, <3>3 DEF Kept, Worktrees
    <3> QED BY <3>2, <3>4 DEF Kept, Grown
  <2>4. CASE Checkout
    <3>1. PICK c \in 1..Len(history) :
            worktree' = [worktree EXCEPT !.commit = c, !.tracked = history[c]]
      BY <2>4 DEF Checkout, Change
    <3>2. c \in Nat /\ c \in DOMAIN history /\ history[c] \in Contents
      BY <1>1
    <3>3. history' = history
      BY <2>4 DEF Checkout
    <3> QED BY <1>1, <3>1, <3>2, <3>3 DEF Kept, Worktrees, Grown
  <2> QED BY <2>1, <2>2, <2>3, <2>4
<1>3. IndexesAreTrue'
  BY <1>1, <1>2, IndexesStayTrue
<1>4. RunsAreTrue'
  <2>1. \A r \in Whole(runs) : IsOf(runs[r], history')
    BY <1>2, WholeManifestsAreTrue, TreesStayKept DEF IsOf
  <2>2. runs' = runs /\ started' = started
    BY <1>1
  <2> QED BY <2>1, <2>2 DEF AllIsTrue, RunsAreTrue
<1>5. CommandsAreTrue'
  <2>1. started \in Nat
    BY DEF AllIsTrue, WorktreeIsKept
  <2>2. ASSUME NEW t \in Terminals
        PROVE  CommandIsTrue(terminals[t], runs, history', started)
    <3>1. CommandIsTrue(terminals[t], runs, history, started)
      BY DEF AllIsTrue, CommandsAreTrue
    <3>2. terminals[t] # AtPrompt /\ terminals[t].at = "recording" =>
            \A r \in Whole(runs) : runs[r].finished # terminals[t].manifest.finished
      BY <3>1 DEF CommandIsTrue
    <3>3. Cardinality(Noted(runs)) \in Nat /\ started <= started
      BY <2>1, NotedIsFinite
    <3>4. Cardinality(Noted(runs)) <= Cardinality(Noted(runs))
      BY <3>3
    <3> QED BY <1>2, <2>1, <3>1, <3>2, <3>3, <3>4, CommandStaysTrue
  <2>3. terminals' = terminals /\ runs' = runs /\ started' = started
    BY <1>1
  <2> QED BY <2>2, <2>3 DEF AllIsTrue, CommandsAreTrue, CommandsAreApart
<1>6. WorktreeIsKept'
  BY <1>1, <1>2 DEF AllIsTrue, WorktreeIsKept
<1> QED BY <1>3, <1>4, <1>5, <1>6 DEF AllIsTrue

\* What is compared with the fingerprints of the manifests, and the latest that fits.
LEMMA IndexIsMadeTrue ==
  ASSUME InGit, AllIsTrue, NEW seen, NEW tree \in Worktrees, Kept(tree, history),
         seen = FingerprintsOf(tree, history), NEW state, state.file = "whole",
         state.repositories = seen, state.listed = WholeRuns, state.latest = LatestCompatible(seen),
         state.status = {runs[r].status : r \in LatestCompatible(seen)}
  PROVE  IndexIsTrue(state, runs, history)
<1> DEFINE Fit == {r \in WholeRuns : SameFingerprints(runs[r].repositories, seen)}
<1>1. WholeRuns = Whole(runs)
  BY DEF WholeRuns, Whole
<1>2. \A r \in Whole(runs) : /\ IsOf(runs[r], history) /\ runs[r].finished \in Nat
                             /\ runs[r].finished < Cardinality(Noted(runs))
  BY WholeManifestsAreTrue
<1>3. \A r \in Fit : runs[r].on = tree
  BY <1>1, <1>2, SameFingerprintsSameTree DEF IsOf
<1>4. \A r \in Whole(runs) : runs[r].on = tree => r \in Fit
  BY <1>1, <1>2 DEF IsOf, SameFingerprints, RepositoriesMatch
<1>5. \A r \in LatestCompatible(seen) :
        r \in Fit /\ \A other \in Fit : runs[other].finished <= runs[r].finished
  BY DEF LatestCompatible
<1>6. \A r \in Fit : (\A other \in Fit : runs[other].finished <= runs[r].finished)
                       => r \in LatestCompatible(seen)
  BY DEF LatestCompatible
<1>7. Fit \subseteq Whole(runs)
  BY <1>1
<1> HIDE DEF Fit
<1>8. Fit # {} => \E l \in LatestCompatible(seen) : \A r \in Fit : runs[r].finished <= runs[l].finished
  <2> SUFFICES ASSUME Fit # {}
               PROVE  \E l \in Fit : \A r \in Fit : runs[r].finished <= runs[l].finished
    BY <1>6
  <2> QED BY <1>2, <1>7, NotedIsFinite, LatestIsThere
<1>9. \A r \in state.listed :
        runs[r].on = tree => \E l \in state.latest : runs[r].finished <= runs[l].finished
  BY <1>1, <1>4, <1>8
<1>10. ASSUME NEW r \in LatestCompatible(seen)
       PROVE  state.status = {runs[r].status}
  <2>1. \A l \in LatestCompatible(seen) : runs[l].finished = runs[r].finished
    BY <1>2, <1>5, <1>7
  <2>2. \A l \in LatestCompatible(seen) : l = r
    BY <1>5, <1>7, <2>1 DEF AllIsTrue, RunsAreTrue
  <2> QED BY <2>2
<1>11. \A r \in state.latest :
         r \in state.listed /\ runs[r].on = tree /\ state.status = {runs[r].status}
  BY <1>1, <1>3, <1>5, <1>7, <1>10
<1>12. state.listed \subseteq Whole(runs) /\ state.repositories = FingerprintsOf(tree, history)
  BY <1>1
<1>13. IndexIsOf(state, tree, runs, history)
  BY <1>9, <1>11, <1>12 DEF IndexIsOf
<1> QED BY <1>13 DEF IndexIsTrue

\* A command before it records: it starts, runs, looks at the worktree, makes or reads the
\* index, or ends without a manifest.
LEMMA CommandsKeepEvidence ==
  ASSUME InGit, AllIsTrue, NEW t \in Terminals,
         \/ StartCommand(t) \/ Simulate(t) \/ ReportRun(t) \/ LookAtWorktree(t)
         \/ WriteIndex(t) \/ EndIndex(t) \/ ReadIndex(t) \/ CompareIndex(t) \/ LeaveNoManifest(t)
  PROVE  AllIsTrue'
<1>1. /\ CommandIsTrue(terminals[t], runs, history, started) /\ started \in 1..MaxCommands
      /\ started \in Nat
  BY EvidenceBounds DEF AllIsTrue, CommandsAreTrue, WorktreeIsKept
<1>2. Grown(history, history)
  BY DEF Grown
<1>3. /\ Fingerprints = FingerprintsOf(worktree, history) /\ worktree \in Worktrees
      /\ Kept(worktree, history)
  BY FingerprintsAreOfTheWorktree DEF Kept
<1>4. ASSUME UNCHANGED <<worktree, history, runs, indexed, accepted>>
      PROVE  IndexesAreTrue'
  BY <1>2, <1>4, IndexesStayTrue
<1>5. CASE StartCommand(t)
  <2>1. PICK operation \in Operations :
          Proceed(t, [at |-> "started", operation |-> operation, run |-> started'])
    BY <1>5 DEF StartCommand
  <2> DEFINE c == [at |-> "started", operation |-> operation, run |-> started']
  <2>2. /\ started' = started + 1 /\ started' \in started..MaxCommands /\ started' \in 1..started'
        /\ runs[started'] = NoEvidence /\ TreeStays /\ UNCHANGED <<runs, indexed, accepted>>
    BY <1>1, <1>5, EvidenceBounds DEF StartCommand, AllIsTrue, RunsAreTrue
  <2>3. CommandIsTrue(c, runs, history, started') /\ c.at # "recording" /\ c.run > started
    BY <1>1, <2>2 DEF CommandIsTrue
  <2>4. Proceed(t, c)
    BY <2>1
  <2> HIDE DEF c
  <2>5. WorktreeIsKept' /\ RunsAreTrue' /\ CommandsAreTrue'
    BY <2>2, <2>3, <2>4, ProceedingKeepsCommands
  <2> QED BY <1>4, <2>2, <2>5 DEF AllIsTrue, TreeStays
<1>6. CASE Simulate(t) \/ ReportRun(t)
  <2>1. PICK status : Proceed(t, EndedAs(terminals[t], status))
    BY <1>6 DEF Simulate, ReportRun
  <2>2. /\ terminals[t].at = "started" /\ TreeStays
        /\ UNCHANGED <<started, runs, indexed, accepted>>
    BY <1>6 DEF Simulate, ReportRun, Begun
  <2> DEFINE c == EndedAs(terminals[t], status)
  <2>3. terminals[t] # AtPrompt /\ c.at = "ended" /\ c.run = terminals[t].run
    BY <2>2 DEF AtPrompt, EndedAs
  <2> HIDE DEF c
  <2>4. CommandIsTrue(c, runs, history, started') /\ started' \in started..MaxCommands
    BY <1>1, <2>2, <2>3, EvidenceBounds DEF CommandIsTrue
  <2>5. Proceed(t, c)
    BY <2>1 DEF c
  <2>6. WorktreeIsKept' /\ RunsAreTrue' /\ CommandsAreTrue'
    BY <2>2, <2>3, <2>4, <2>5, ProceedingKeepsCommands
  <2> QED BY <1>4, <2>2, <2>6 DEF AllIsTrue, TreeStays
<1>7. CASE LookAtWorktree(t)
  <2> DEFINE c == [at |-> "looked", operation |-> "status", run |-> terminals[t].run, seen |-> Fingerprints]
  <2>1. /\ terminals[t].at = "started" /\ TreeStays /\ Proceed(t, c)
        /\ UNCHANGED <<started, runs, indexed, accepted>>
    BY <1>7 DEF LookAtWorktree, Begun
  <2>2. terminals[t] # AtPrompt
    BY <2>1 DEF AtPrompt
  <2>4. c.at = "looked" /\ c.run = terminals[t].run /\ c.seen = Fingerprints
    OBVIOUS
  <2> HIDE DEF c
  <2>5. CommandIsTrue(c, runs, history, started') /\ started' \in started..MaxCommands
    BY <1>1, <1>3, <2>1, <2>2, <2>4, EvidenceBounds DEF CommandIsTrue
  <2>6. WorktreeIsKept' /\ RunsAreTrue' /\ CommandsAreTrue'
    BY <2>1, <2>2, <2>4, <2>5, ProceedingKeepsCommands
  <2> QED BY <1>4, <2>1, <2>6 DEF AllIsTrue, TreeStays
<1>8. CASE WriteIndex(t)
  <2> DEFINE seen == terminals[t].seen
             state == [file |-> "whole", repositories |-> seen, listed |-> WholeRuns,
                       latest |-> LatestCompatible(seen),
                       status |-> {runs[r].status : r \in LatestCompatible(seen)}]
             c == [at |-> "indexing", operation |-> "status", run |-> terminals[t].run, state |-> state]
  <2>1. /\ terminals[t].at = "looked" /\ Proceed(t, c) /\ indexed' = TornEvidence
        /\ TreeStays /\ UNCHANGED <<started, runs, accepted>>
    BY <1>8 DEF WriteIndex
  <2>2. terminals[t] # AtPrompt
    BY <2>1 DEF AtPrompt
  <2>3. PICK tree \in Worktrees : Kept(tree, history) /\ seen = FingerprintsOf(tree, history)
    BY <1>1, <2>1, <2>2 DEF CommandIsTrue
  <2>4. IndexIsTrue(state, runs, history)
    BY <2>3, IndexIsMadeTrue
  <2>5. c.at = "indexing" /\ c.run = terminals[t].run /\ c.state = state
    OBVIOUS
  <2> HIDE DEF c, state, seen
  <2>6. CommandIsTrue(c, runs, history, started') /\ started' \in started..MaxCommands
    BY <1>1, <2>1, <2>2, <2>4, <2>5, EvidenceBounds DEF CommandIsTrue
  <2>7. WorktreeIsKept' /\ RunsAreTrue' /\ CommandsAreTrue'
    BY <2>1, <2>2, <2>5, <2>6, ProceedingKeepsCommands
  <2>8. IndexesAreTrue'
    BY <2>1 DEF AllIsTrue, IndexesAreTrue, TreeStays
  <2> QED BY <2>7, <2>8 DEF AllIsTrue
<1>9. CASE EndIndex(t)
  <2> DEFINE c == EndedAs(terminals[t], "passed")
  <2>1. /\ terminals[t].at = "indexing" /\ Proceed(t, c) /\ indexed' = terminals[t].state
        /\ TreeStays /\ UNCHANGED <<started, runs, accepted>>
    BY <1>9 DEF EndIndex
  <2>2. terminals[t] # AtPrompt /\ c.at = "ended" /\ c.run = terminals[t].run
    BY <2>1 DEF AtPrompt, EndedAs
  <2> HIDE DEF c
  <2>3. CommandIsTrue(c, runs, history, started') /\ started' \in started..MaxCommands
    BY <1>1, <2>1, <2>2, EvidenceBounds DEF CommandIsTrue
  <2>4. WorktreeIsKept' /\ RunsAreTrue' /\ CommandsAreTrue'
    BY <2>1, <2>2, <2>3, ProceedingKeepsCommands
  <2>5. IndexIsTrue(terminals[t].state, runs, history)
    BY <1>1, <2>1, <2>2 DEF CommandIsTrue
  <2>6. IndexesAreTrue'
    BY <2>1, <2>5 DEF AllIsTrue, IndexesAreTrue, TreeStays
  <2> QED BY <2>4, <2>6 DEF AllIsTrue
<1>10. CASE ReadIndex(t)
  <2>1. /\ terminals[t].at = "started" /\ TreeStays /\ UNCHANGED <<started, runs, indexed, accepted>>
    BY <1>10 DEF ReadIndex, Begun
  <2>2. terminals[t] # AtPrompt
    BY <2>1 DEF AtPrompt
  <2>3. started' \in started..MaxCommands
    BY <1>1, <2>1, EvidenceBounds
  <2>4. PICK c : /\ Proceed(t, c) /\ c.at # "recording" /\ c.run = terminals[t].run
                 /\ CommandIsTrue(c, runs, history, started')
    <3>1. CASE indexed.file = "whole"
      <4> DEFINE c == [at |-> "comparing", operation |-> "validate", run |-> terminals[t].run,
                    state |-> indexed]
      <4>2. c.at = "comparing" /\ c.run = terminals[t].run /\ c.state = indexed
        OBVIOUS
      <4>3. Proceed(t, c)
        BY <1>10, <3>1 DEF ReadIndex
      <4>4. IndexIsTrue(indexed, runs, history)
        BY <3>1 DEF AllIsTrue, IndexesAreTrue, NoEvidence, TornEvidence
      <4> HIDE DEF c
      <4>5. CommandIsTrue(c, runs, history, started')
        BY <1>1, <2>1, <2>2, <4>2, <4>4 DEF CommandIsTrue
      <4> QED BY <4>2, <4>3, <4>5
    <3>2. CASE indexed.file # "whole"
      <4> DEFINE c == EndedAs(terminals[t], "failed")
      <4>1. c.at = "ended" /\ c.run = terminals[t].run
        BY DEF EndedAs
      <4>2. Proceed(t, c)
        BY <1>10, <3>2 DEF ReadIndex
      <4> HIDE DEF c
      <4>3. CommandIsTrue(c, runs, history, started')
        BY <1>1, <2>1, <2>2, <4>1 DEF CommandIsTrue
      <4> QED BY <4>1, <4>2, <4>3
    <3> QED BY <3>1, <3>2
  <2>5. WorktreeIsKept' /\ RunsAreTrue' /\ CommandsAreTrue'
    BY <2>1, <2>2, <2>3, <2>4, ProceedingKeepsCommands
  <2> QED BY <1>4, <2>1, <2>5 DEF AllIsTrue, TreeStays
<1>11. CASE CompareIndex(t)
  <2>1. PICK status : /\ terminals[t].at = "comparing" /\ Proceed(t, EndedAs(terminals[t], status))
                      /\ TreeStays /\ UNCHANGED <<started, runs, indexed>>
    BY <1>11 DEF CompareIndex
  <2> DEFINE c == EndedAs(terminals[t], status)
  <2>2. terminals[t] # AtPrompt /\ c.at = "ended" /\ c.run = terminals[t].run /\ Proceed(t, c)
    BY <2>1 DEF AtPrompt, EndedAs
  <2> HIDE DEF c
  <2>3. CommandIsTrue(c, runs, history, started') /\ started' \in started..MaxCommands
    BY <1>1, <2>1, <2>2, EvidenceBounds DEF CommandIsTrue
  <2>4. WorktreeIsKept' /\ RunsAreTrue' /\ CommandsAreTrue'
    BY <2>1, <2>2, <2>3, ProceedingKeepsCommands
  <2>5. IndexesAreTrue'
    <3> DEFINE state == terminals[t].state
    <3>1. PICK tree \in Worktrees : IndexIsOf(state, tree, runs, history)
      BY <1>1, <2>1, <2>2 DEF CommandIsTrue, IndexIsTrue
    <3>2. CASE accepted' = accepted
      BY <1>4, <2>1, <3>2 DEF TreeStays
    <3>3. CASE /\ SameFingerprints(state.repositories, Fingerprints)
               /\ accepted' = [at |-> "judged", on |-> worktree, state |-> state]
      <4>1. tree = worktree
        BY <1>3, <3>1, <3>3, SameFingerprintsSameTree DEF IndexIsOf
      <4> QED BY <2>1, <3>1, <3>3, <4>1 DEF AllIsTrue, IndexesAreTrue, TreeStays
    <3> QED BY <1>11, <3>2, <3>3 DEF CompareIndex
  <2> QED BY <2>4, <2>5 DEF AllIsTrue
<1>12. CASE LeaveNoManifest(t)
  <2>1. /\ Proceed(t, AtPrompt) /\ TreeStays /\ UNCHANGED <<started, runs, indexed, accepted>>
        /\ started' \in started..MaxCommands
    BY <1>1, <1>12, EvidenceBounds DEF LeaveNoManifest
  <2>2. WorktreeIsKept' /\ RunsAreTrue' /\ CommandsAreTrue'
    BY <2>1, ProceedingKeepsCommands
  <2> QED BY <1>4, <2>1, <2>2 DEF AllIsTrue, TreeStays
<1> QED BY <1>5, <1>6, <1>7, <1>8, <1>9, <1>10, <1>11, <1>12

\* The end of a command begins to write its manifest.
LEMMA WritingKeepsEvidence ==
  ASSUME InGit, AllIsTrue, NEW t \in Terminals, WriteManifest(t)
  PROVE  AllIsTrue'
<1> DEFINE run == terminals[t].run
           m == Manifest(terminals[t].status, Cardinality(Noted(runs)))
           c == [at |-> "recording", run |-> run, manifest |-> m]
<1>1. /\ terminals[t].at = "ended" /\ terminals' = [terminals EXCEPT ![t] = c]
      /\ runs' = [runs EXCEPT ![run] = TornEvidence]
      /\ TreeStays /\ UNCHANGED <<started, indexed, accepted>>
  BY DEF WriteManifest, Proceed, Noted
<1>2. /\ CommandIsTrue(terminals[t], runs, history, started) /\ started \in 1..MaxCommands
      /\ started \in Nat /\ terminals[t] # AtPrompt
  BY <1>1, EvidenceBounds DEF AllIsTrue, CommandsAreTrue, WorktreeIsKept, AtPrompt
<1>3. run \in 1..started /\ run \in 1..MaxCommands /\ runs[run] = NoEvidence
  BY <1>1, <1>2, EvidenceBounds DEF CommandIsTrue
<1>4. /\ m.file = "whole" /\ m.finished = Cardinality(Noted(runs)) /\ IsOf(m, history)
      /\ m.on = worktree
  BY FingerprintsAreOfTheWorktree DEF Manifest, IsOf
<1>5. c.at = "recording" /\ c.run = run /\ c.manifest = m /\ c # AtPrompt
  BY DEF AtPrompt
<1> HIDE DEF c, m, run
<1>6. /\ runs' = [r \in 1..MaxCommands |-> IF r = run THEN TornEvidence ELSE runs[r]]
      /\ runs'[run] = TornEvidence /\ \A r \in 1..MaxCommands : r # run => runs'[r] = runs[r]
  BY <1>1, <1>3 DEF AllIsTrue, RunsAreTrue
<1>7. NoEvidence # TornEvidence /\ NoEvidence.file # "whole" /\ TornEvidence.file # "whole"
  BY DEF NoEvidence, TornEvidence
<1>8. Noted(runs') = Noted(runs) \union {run} /\ run \notin Noted(runs)
  BY <1>3, <1>6, <1>7 DEF Noted
<1>9. /\ Cardinality(Noted(runs')) = Cardinality(Noted(runs)) + 1
      /\ Cardinality(Noted(runs)) \in Nat /\ Cardinality(Noted(runs')) \in Nat
  BY <1>8, NotedIsFinite, FS_AddElement
<1>10. Whole(runs') = Whole(runs) /\ \A r \in Whole(runs) : runs'[r] = runs[r]
  BY <1>3, <1>6, <1>7 DEF Whole
<1>11. Grown(history, history) /\ UNCHANGED <<worktree, history>>
  BY <1>1 DEF Grown, TreeStays
<1>12. WorktreeIsKept' /\ IndexesAreTrue'
  BY <1>1, <1>10, <1>11, IndexesStayTrue DEF AllIsTrue, WorktreeIsKept
<1>13. RunsAreTrue'
  <2>1. ASSUME NEW r \in 1..MaxCommands
        PROVE  \/ runs'[r] = NoEvidence \/ runs'[r] = TornEvidence
               \/ /\ r \in Whole(runs') /\ IsOf(runs'[r], history')
                  /\ runs'[r].finished \in Nat /\ runs'[r].finished < Cardinality(Noted(runs'))
    <3>1. CASE r \in Whole(runs)
      BY <1>9, <1>10, <1>11, <3>1, WholeManifestsAreTrue
    <3>2. CASE r \notin Whole(runs)
      BY <1>6, <3>2 DEF AllIsTrue, RunsAreTrue
    <3> QED BY <3>1, <3>2
  <2>2. \A r \in 1..MaxCommands : r > started' => runs'[r] = NoEvidence
    BY <1>1, <1>2, <1>3, <1>6 DEF AllIsTrue, RunsAreTrue
  <2>3. \A r, s \in Whole(runs') : runs'[r].finished = runs'[s].finished => r = s
    BY <1>10 DEF AllIsTrue, RunsAreTrue
  <2>4. runs' = [r \in 1..MaxCommands |-> runs'[r]]
    BY <1>6
  <2> QED BY <2>1, <2>2, <2>3, <2>4 DEF RunsAreTrue
<1>14. /\ terminals' = [u \in Terminals |-> IF u = t THEN c ELSE terminals[u]] /\ terminals'[t] = c
       /\ \A u \in Terminals : u # t => terminals'[u] = terminals[u]
  BY <1>1 DEF AllIsTrue, CommandsAreTrue
<1>15. \A u \in Terminals : u # t /\ terminals[u] # AtPrompt => terminals[u].run # run
  BY <1>2 DEF AllIsTrue, CommandsAreTrue, CommandsAreApart, run
<1>16. \A r \in Whole(runs') : runs'[r].finished # m.finished
  BY <1>4, <1>9, <1>10, WholeManifestsAreTrue
<1>17. ASSUME NEW u \in Terminals
       PROVE  CommandIsTrue(terminals'[u], runs', history', started')
  <2>1. CASE u = t
    <3>1. c.run \in 1..started /\ runs'[c.run] = TornEvidence /\ c.manifest.file = "whole"
      BY <1>3, <1>4, <1>5, <1>6
    <3>2. IsOf(c.manifest, history) /\ \A r \in Whole(runs') : runs'[r].finished # c.manifest.finished
      BY <1>4, <1>5, <1>16
    <3>3. c.manifest.finished \in Nat /\ c.manifest.finished < Cardinality(Noted(runs'))
      BY <1>4, <1>5, <1>9
    <3>4. CommandIsTrue(c, runs', history, started)
      BY <1>5, <3>1, <3>2, <3>3 DEF CommandIsTrue
    <3> QED BY <1>1, <1>11, <1>14, <2>1, <3>4
  <2>2. CASE u # t
    <3>1. CommandIsTrue(terminals[u], runs, history, started) /\ terminals'[u] = terminals[u]
      BY <1>14, <2>2 DEF AllIsTrue, CommandsAreTrue
    <3>2. terminals[u] # AtPrompt => runs'[terminals[u].run] = runs[terminals[u].run]
      <4>1. terminals[u] # AtPrompt => terminals[u].run \in 1..started
        BY <3>1 DEF CommandIsTrue
      <4>2. 1..started \subseteq 1..MaxCommands
        BY <1>2, EvidenceBounds
      <4> QED BY <1>6, <1>15, <2>2, <4>1, <4>2
    <3>3. terminals[u] # AtPrompt /\ terminals[u].at = "recording" =>
            \A r \in Whole(runs') : runs'[r].finished # terminals[u].manifest.finished
      BY <1>10, <3>1 DEF CommandIsTrue
    <3>4. /\ Cardinality(Noted(runs)) <= Cardinality(Noted(runs')) /\ started <= started
          /\ \A r \in Whole(runs) : r \in Whole(runs') /\ runs'[r] = runs[r]
      BY <1>2, <1>9, <1>10
    <3>5. CommandIsTrue(terminals[u], runs', history, started)
      BY <1>2, <1>9, <1>11, <3>1, <3>2, <3>3, <3>4, CommandStaysTrue
    <3> QED BY <1>1, <1>11, <3>1, <3>5
  <2> QED BY <2>1, <2>2
<1>18. \A u \in Terminals : u # t /\ terminals[u] # AtPrompt /\ terminals[u].at = "recording" =>
         terminals[u].manifest.finished # m.finished
  BY <1>4, <1>9 DEF AllIsTrue, CommandsAreTrue, CommandIsTrue
<1>19. CommandsAreApart'
  BY <1>5, <1>14, <1>15, <1>18 DEF AllIsTrue, CommandsAreTrue, CommandsAreApart
<1>20. terminals' = [u \in Terminals |-> terminals'[u]]
  BY <1>14
<1> QED BY <1>12, <1>13, <1>17, <1>19, <1>20 DEF AllIsTrue, CommandsAreTrue

\* The manifest is whole, and the command is over.
LEMMA RecordingKeepsEvidence ==
  ASSUME InGit, AllIsTrue, NEW t \in Terminals, EndManifest(t)
  PROVE  AllIsTrue'
<1> DEFINE run == terminals[t].run
           m == terminals[t].manifest
<1>1. /\ terminals[t].at = "recording" /\ terminals' = [terminals EXCEPT ![t] = AtPrompt]
      /\ runs' = [runs EXCEPT ![run] = m]
      /\ TreeStays /\ UNCHANGED <<started, indexed, accepted>>
  BY DEF EndManifest, Proceed
<1>2. /\ CommandIsTrue(terminals[t], runs, history, started) /\ started \in 1..MaxCommands
      /\ started \in Nat /\ terminals[t] # AtPrompt
  BY <1>1, EvidenceBounds DEF AllIsTrue, CommandsAreTrue, WorktreeIsKept, AtPrompt
<1>3. /\ run \in 1..started /\ run \in 1..MaxCommands /\ runs[run] = TornEvidence
      /\ m.file = "whole" /\ IsOf(m, history)
      /\ m.finished \in Nat /\ m.finished < Cardinality(Noted(runs))
      /\ \A r \in Whole(runs) : runs[r].finished # m.finished
  BY <1>1, <1>2, EvidenceBounds DEF CommandIsTrue
<1>4. \A u \in Terminals : u # t /\ terminals[u] # AtPrompt =>
        /\ terminals[u].run # run
        /\ terminals[u].at = "recording" => terminals[u].manifest.finished # m.finished
  BY <1>1, <1>2 DEF AllIsTrue, CommandsAreTrue, CommandsAreApart
<1> HIDE DEF m, run
<1>6. /\ runs' = [r \in 1..MaxCommands |-> IF r = run THEN m ELSE runs[r]]
      /\ runs'[run] = m /\ \A r \in 1..MaxCommands : r # run => runs'[r] = runs[r]
  BY <1>1, <1>3 DEF AllIsTrue, RunsAreTrue
<1>7. /\ NoEvidence # TornEvidence /\ NoEvidence.file # "whole" /\ TornEvidence.file # "whole"
      /\ m # NoEvidence
  BY <1>3 DEF NoEvidence, TornEvidence
<1>8. Noted(runs') = Noted(runs)
  BY <1>3, <1>6, <1>7 DEF Noted
<1>9. Cardinality(Noted(runs)) \in Nat
  BY NotedIsFinite
<1>10. /\ Whole(runs') = Whole(runs) \union {run} /\ run \notin Whole(runs)
       /\ \A r \in Whole(runs) : r \in Whole(runs') /\ runs'[r] = runs[r]
  BY <1>3, <1>6, <1>7 DEF Whole
<1>11. Grown(history, history) /\ UNCHANGED <<worktree, history>>
  BY <1>1 DEF Grown, TreeStays
<1>12. WorktreeIsKept' /\ IndexesAreTrue'
  BY <1>1, <1>10, <1>11, IndexesStayTrue DEF AllIsTrue, WorktreeIsKept
<1>13. RunsAreTrue'
  <2>1. ASSUME NEW r \in 1..MaxCommands
        PROVE  \/ runs'[r] = NoEvidence \/ runs'[r] = TornEvidence
               \/ /\ r \in Whole(runs') /\ IsOf(runs'[r], history')
                  /\ runs'[r].finished \in Nat /\ runs'[r].finished < Cardinality(Noted(runs'))
    <3>1. CASE r \in Whole(runs)
      BY <1>8, <1>10, <1>11, <3>1, WholeManifestsAreTrue
    <3>2. CASE r = run
      BY <1>3, <1>6, <1>8, <1>10, <1>11, <3>2
    <3>3. CASE r \notin Whole(runs) /\ r # run
      BY <1>6, <3>3 DEF AllIsTrue, RunsAreTrue
    <3> QED BY <3>1, <3>2, <3>3
  <2>2. \A r \in 1..MaxCommands : r > started' => runs'[r] = NoEvidence
    BY <1>1, <1>2, <1>3, <1>6 DEF AllIsTrue, RunsAreTrue
  <2>3. \A r, s \in Whole(runs') : runs'[r].finished = runs'[s].finished => r = s
    BY <1>3, <1>6, <1>10 DEF AllIsTrue, RunsAreTrue
  <2>4. runs' = [r \in 1..MaxCommands |-> runs'[r]]
    BY <1>6
  <2> QED BY <2>1, <2>2, <2>3, <2>4 DEF RunsAreTrue
<1>14. /\ terminals' = [u \in Terminals |-> IF u = t THEN AtPrompt ELSE terminals[u]]
       /\ terminals'[t] = AtPrompt
       /\ \A u \in Terminals : u # t => terminals'[u] = terminals[u]
  BY <1>1 DEF AllIsTrue, CommandsAreTrue
<1>17. ASSUME NEW u \in Terminals
       PROVE  CommandIsTrue(terminals'[u], runs', history', started')
  <2>1. CASE u = t
    BY <1>14, <2>1 DEF CommandIsTrue
  <2>2. CASE u # t
    <3>1. CommandIsTrue(terminals[u], runs, history, started) /\ terminals'[u] = terminals[u]
      BY <1>14, <2>2 DEF AllIsTrue, CommandsAreTrue
    <3>2. terminals[u] # AtPrompt => runs'[terminals[u].run] = runs[terminals[u].run]
      <4>1. terminals[u] # AtPrompt => terminals[u].run \in 1..started
        BY <3>1 DEF CommandIsTrue
      <4>2. 1..started \subseteq 1..MaxCommands
        BY <1>2, EvidenceBounds
      <4> QED BY <1>4, <1>6, <2>2, <4>1, <4>2
    <3>3. terminals[u] # AtPrompt /\ terminals[u].at = "recording" =>
            \A r \in Whole(runs') : runs'[r].finished # terminals[u].manifest.finished
      BY <1>4, <1>6, <1>10, <2>2, <3>1 DEF CommandIsTrue
    <3>4. Cardinality(Noted(runs)) <= Cardinality(Noted(runs')) /\ started <= started
      BY <1>2, <1>8, <1>9
    <3>5. CommandIsTrue(terminals[u], runs', history, started)
      BY <1>2, <1>8, <1>9, <1>10, <1>11, <3>1, <3>2, <3>3, <3>4, CommandStaysTrue
    <3> QED BY <1>1, <1>11, <3>1, <3>5
  <2> QED BY <2>1, <2>2
<1>19. CommandsAreApart'
  BY <1>14 DEF AllIsTrue, CommandsAreTrue, CommandsAreApart
<1>20. terminals' = [u \in Terminals |-> terminals'[u]]
  BY <1>14
<1> QED BY <1>12, <1>13, <1>17, <1>19, <1>20 DEF AllIsTrue, CommandsAreTrue

\* Whatever is edited, committed, built and checked out while commands of many terminals end,
\* evidence that game validate takes for current names the latest run that was recorded on
\* the very files that are there (validate.ts, project-state.ts and run-manifest.ts).
THEOREM EvidenceIsOfThisWorktree ==
  EvidenceSpec => []AcceptedEvidenceIsOfThisWorktree
<1>1. EvidenceInvariant /\ [EvidenceNext]_evidence => EvidenceInvariant'
  <2> SUFFICES ASSUME EvidenceInvariant, [EvidenceNext]_evidence, InGit
               PROVE  AllIsTrue'
    BY DEF EvidenceInvariant, AllIsTrue
  <2>1. AllIsTrue
    BY DEF EvidenceInvariant, AllIsTrue
  <2>2. CASE EvidenceNext
    BY <2>1, <2>2, ChangesKeepEvidence, CommandsKeepEvidence, WritingKeepsEvidence,
       RecordingKeepsEvidence DEF EvidenceNext
  <2>3. CASE UNCHANGED evidence
    <3>1. UNCHANGED <<worktree, history, changes, started, terminals, runs, indexed, accepted>>
      BY <2>3 DEF evidence
    <3> QED BY <2>1, <3>1 DEF AllIsTrue, WorktreeIsKept, RunsAreTrue, CommandsAreTrue,
                              CommandsAreApart, IndexesAreTrue
  <2> QED BY <2>2, <2>3
<1>2. EvidenceInvariant => AcceptedEvidenceIsOfThisWorktree
  <2> SUFFICES ASSUME EvidenceInvariant, InGit, accepted # AtPrompt
               PROVE  AcceptedEvidenceIsOfThisWorktree
    BY DEF AcceptedEvidenceIsOfThisWorktree
  <2>1. IndexIsOf(accepted.state, accepted.on, runs, history)
    BY DEF EvidenceInvariant, IndexesAreTrue
  <2> QED BY <2>1 DEF IndexIsOf, AcceptedEvidenceIsOfThisWorktree
<1> QED BY <1>1, <1>2, EvidenceStartsTrue, PTL DEF EvidenceSpec

-----------------------------------------------------------------------------
(* Storage commands *)

Values == {Damaged} \union Data

StorageTypes ==
  /\ regions \in [Regions -> [data : Values, version : {0, 1}]]
  /\ DOMAIN intents \subseteq Regions
  /\ \A k \in DOMAIN intents : intents[k] \in Values
  /\ tool \in [doing : {"nothing", "recover", "compact", "migrate"}, left : SUBSET Regions]

\* How far the command that runs has come.
ToolIsOnItsWay ==
  /\ tool.doing = "nothing" => tool.left = {}
  /\ tool.doing = "recover" =>
       /\ tool.left \subseteq DOMAIN intents
       /\ \A k \in DOMAIN intents \ tool.left : regions[k].data = intents[k]
  /\ tool.doing \in {"compact", "migrate"} => DOMAIN intents = {}

StorageInvariant == StorageTypes /\ ToolIsOnItsWay /\ PromisesAreKept

-----------------------------------------------------------------------------
\* A command that has regions left has a first one.
LEMMA FirstLeftIsLeft ==
  ASSUME StorageTypes, tool.left # {}
  PROVE  FirstLeft \in tool.left
<1>1. tool.left \subseteq Nat
  BY StorageAssumption DEF StorageTypes, Regions
<1>2. PICK k \in tool.left : \A other \in tool.left : ~(<<other, k>> \in OpToRel(<, Nat))
  BY <1>1, NatLessThanWellFounded, WFMin
<1>3. \A other \in tool.left : k <= other
  <2> SUFFICES ASSUME NEW other \in tool.left PROVE k <= other
    OBVIOUS
  <2>1. k \in Nat /\ other \in Nat
    BY <1>1
  <2>2. ~(other < k)
    BY <1>2, <2>1 DEF OpToRel
  <2> QED BY <2>1, <2>2
<1> QED BY <1>3 DEF FirstLeft

LEMMA NoJournal == DOMAIN NoIntents = {}
BY DEF NoIntents

LEMMA NoCommand == NoTool.doing = "nothing" /\ NoTool.left = {}
BY DEF NoTool

LEMMA FoundIsAValue ==
  ASSUME StorageTypes, NEW k \in Regions
  PROVE  Found(k) \in Values
BY DEF StorageTypes, Found

\* Without a command anything the journal says is allowed.
LEMMA NoToolIsOnItsWay ==
  ASSUME tool' = NoTool
  PROVE  ToolIsOnItsWay' /\ tool' \in [doing : {"nothing", "recover", "compact", "migrate"},
                                       left : SUBSET Regions]
BY NoCommand DEF ToolIsOnItsWay, NoTool

LEMMA StorageStartsInvariant ==
  StorageInit => StorageInvariant
<1> SUFFICES ASSUME StorageInit PROVE StorageInvariant
  OBVIOUS
<1>1. StorageTypes
  BY NoJournal DEF StorageInit, StorageTypes, Values, NoTool, Data, Damaged
<1>2. ToolIsOnItsWay
  BY NoCommand DEF StorageInit, ToolIsOnItsWay
<1>3. PromisesAreKept
  BY NoJournal DEF StorageInit, PromisesAreKept, Found
<1> QED BY <1>1, <1>2, <1>3 DEF StorageInvariant

LEMMA GamesKeepPromises ==
  StorageInvariant /\ RunGame => StorageInvariant'
<1> SUFFICES ASSUME StorageInvariant, RunGame PROVE StorageInvariant'
  OBVIOUS
<1> USE DEF StorageInvariant
<1>1. PICK touched \in SUBSET Regions :
        \E data \in [touched -> Data], written \in SUBSET touched :
          LET kept == [k \in Regions |-> IF k \in touched THEN data[k] ELSE Found(k)] IN
          /\ promised' = kept
          /\ regions' = [k \in Regions |->
               IF k \in written THEN [data |-> data[k], version |-> 1]
               ELSE IF k \in DOMAIN intents THEN [data |-> intents[k], version |-> 1] ELSE regions[k]]
          /\ intents' \in {data} \union (IF written = touched THEN {NoIntents} ELSE {})
  BY DEF RunGame
<1>2. PICK data \in [touched -> Data], written \in SUBSET touched :
          /\ promised' = [k \in Regions |-> IF k \in touched THEN data[k] ELSE Found(k)]
          /\ regions' = [k \in Regions |->
               IF k \in written THEN [data |-> data[k], version |-> 1]
               ELSE IF k \in DOMAIN intents THEN [data |-> intents[k], version |-> 1] ELSE regions[k]]
          /\ intents' \in {data} \union (IF written = touched THEN {NoIntents} ELSE {})
  BY <1>1
<1>3. tool' = NoTool
  BY DEF RunGame
<1>4. \A k \in Regions :
        /\ regions'[k] \in [data : Values, version : {0, 1}]
        /\ regions'[k].data = IF k \in written THEN data[k] ELSE Found(k)
  <2> SUFFICES ASSUME NEW k \in Regions
               PROVE  /\ regions'[k] \in [data : Values, version : {0, 1}]
                      /\ regions'[k].data = IF k \in written THEN data[k] ELSE Found(k)
    OBVIOUS
  <2>1. CASE k \in written
    <3>1. data[k] \in Values /\ regions'[k] = [data |-> data[k], version |-> 1]
      BY <1>2, <2>1 DEF Values
    <3> QED BY <2>1, <3>1
  <2>2. CASE k \notin written /\ k \in DOMAIN intents
    <3>1. intents[k] \in Values /\ regions'[k] = [data |-> intents[k], version |-> 1]
          /\ Found(k) = intents[k]
      BY <1>2, <2>2 DEF StorageTypes, Found
    <3> QED BY <2>2, <3>1
  <2>3. CASE k \notin written /\ k \notin DOMAIN intents
    BY <1>2, <2>3 DEF StorageTypes, Found
  <2> QED BY <2>1, <2>2, <2>3
<1>5. intents' = data \/ (written = touched /\ intents' = NoIntents)
  BY <1>2
<1>6. DOMAIN intents' \subseteq Regions /\ \A k \in DOMAIN intents' : intents'[k] \in Values
  BY <1>5, NoJournal DEF Values
<1>7. StorageTypes'
  <2>1. regions' \in [Regions -> [data : Values, version : {0, 1}]]
    BY <1>2, <1>4
  <2> QED BY <1>3, <1>6, <2>1, NoToolIsOnItsWay DEF StorageTypes
<1>8. PromisesAreKept'
  <2> SUFFICES ASSUME NEW k \in Regions PROVE Found(k)' = promised'[k]
    BY DEF PromisesAreKept
  <2>1. promised'[k] = IF k \in touched THEN data[k] ELSE Found(k)
    BY <1>2
  <2>2. Found(k)' = IF k \in DOMAIN intents' THEN intents'[k] ELSE regions'[k].data
    BY DEF Found
  <2> QED BY <1>4, <1>5, <2>1, <2>2, NoJournal
<1> QED BY <1>3, <1>7, <1>8, NoToolIsOnItsWay

LEMMA WritesKeepPromises ==
  StorageInvariant /\ WriteRegion => StorageInvariant'
<1> SUFFICES ASSUME StorageInvariant, WriteRegion PROVE StorageInvariant'
  OBVIOUS
<1> USE DEF StorageInvariant
<1> DEFINE k == FirstLeft
           written == [data |-> IF tool.doing = "recover" THEN Found(k) ELSE regions[k].data,
                       version |-> 1]
<1>1. k \in tool.left /\ tool.left \subseteq Regions /\ k \in Regions
  BY FirstLeftIsLeft DEF WriteRegion, StorageTypes
<1>2. /\ regions' = [regions EXCEPT ![k] = written]
      /\ tool' = [tool EXCEPT !.left = @ \ {k}]
      /\ UNCHANGED <<intents, promised>>
  BY DEF WriteRegion
<1> HIDE DEF k
<1>3. written.data = Found(k) /\ written \in [data : Values, version : {0, 1}]
  <2>1. tool.doing # "nothing"
    BY <1>1 DEF ToolIsOnItsWay
  <2>2. CASE tool.doing = "recover"
    BY <1>1, <2>2, FoundIsAValue
  <2>3. CASE tool.doing \in {"compact", "migrate"}
    <3>1. Found(k) = regions[k].data
      BY <2>3 DEF ToolIsOnItsWay, Found
    <3> QED BY <1>1, <2>3, <3>1, FoundIsAValue
  <2> QED BY <2>1, <2>2, <2>3 DEF StorageTypes
<1> HIDE DEF written
<1>4. tool' \in [doing : {"nothing", "recover", "compact", "migrate"}, left : SUBSET Regions]
      /\ tool'.doing = tool.doing /\ tool'.left = tool.left \ {k}
  BY <1>2 DEF StorageTypes
<1>5. StorageTypes'
  BY <1>1, <1>2, <1>3, <1>4 DEF StorageTypes
<1>6. \A other \in Regions : other # k => regions'[other] = regions[other]
  BY <1>2 DEF StorageTypes
<1>7. regions'[k] = written
  BY <1>1, <1>2 DEF StorageTypes
<1>8. ToolIsOnItsWay'
  <2>1. ASSUME tool.doing = "recover", NEW other \in DOMAIN intents \ (tool.left \ {k})
        PROVE  regions'[other].data = intents[other]
    <3>1. CASE other = k
      BY <1>1, <1>3, <1>7, <2>1, <3>1 DEF ToolIsOnItsWay, Found
    <3>2. CASE other # k
      BY <1>6, <2>1, <3>2 DEF ToolIsOnItsWay, StorageTypes
    <3> QED BY <3>1, <3>2
  <2> QED BY <1>2, <1>4, <2>1 DEF ToolIsOnItsWay
<1>9. PromisesAreKept'
  <2> SUFFICES ASSUME NEW other \in Regions PROVE Found(other)' = promised'[other]
    BY DEF PromisesAreKept
  <2>1. Found(other)' = Found(other)
    BY <1>2, <1>3, <1>6, <1>7 DEF Found
  <2> QED BY <1>2, <2>1 DEF PromisesAreKept
<1> QED BY <1>5, <1>8, <1>9

LEMMA StepKeepsStorage ==
  StorageInvariant /\ [StorageNext]_storage => StorageInvariant'
<1> SUFFICES ASSUME StorageInvariant, [StorageNext]_storage PROVE StorageInvariant'
  OBVIOUS
<1>1. CASE RunGame
  BY <1>1, GamesKeepPromises
<1>2. CASE BeginRecover
  <2>1. tool' = NoTool \/ tool' = [doing |-> "recover", left |-> DOMAIN intents]
    BY <1>2 DEF BeginRecover
  <2>2. UNCHANGED <<regions, intents, promised>>
    BY <1>2 DEF BeginRecover
  <2>3. StorageTypes' /\ ToolIsOnItsWay'
    <3>1. CASE tool' = NoTool
      BY <2>2, <3>1, NoToolIsOnItsWay DEF StorageInvariant, StorageTypes
    <3>2. CASE tool' = [doing |-> "recover", left |-> DOMAIN intents]
      BY <2>2, <3>2 DEF StorageInvariant, StorageTypes, ToolIsOnItsWay
    <3> QED BY <2>1, <3>1, <3>2
  <2> QED BY <2>2, <2>3 DEF StorageInvariant, PromisesAreKept, Found
<1>3. CASE BeginRewrite
  <2>1. DOMAIN intents = {} /\ UNCHANGED <<regions, intents, promised>>
    BY <1>3 DEF BeginRewrite
  <2>2. /\ tool' \in [doing : {"nothing", "recover", "compact", "migrate"}, left : SUBSET Regions]
        /\ tool'.doing \in {"compact", "migrate"}
    BY <1>3 DEF BeginRewrite
  <2>3. StorageTypes' /\ ToolIsOnItsWay'
    BY <2>1, <2>2 DEF StorageInvariant, StorageTypes, ToolIsOnItsWay
  <2> QED BY <2>1, <2>3 DEF StorageInvariant, PromisesAreKept, Found
<1>4. CASE WriteRegion
  BY <1>4, WritesKeepPromises
<1>5. CASE EndTool
  <2>1. /\ tool' = NoTool /\ UNCHANGED <<regions, promised>> /\ tool.left = {}
        /\ intents' = IF tool.doing = "recover" THEN NoIntents ELSE intents
    BY <1>5 DEF EndTool
  <2>2. StorageTypes' /\ ToolIsOnItsWay'
    BY <2>1, NoToolIsOnItsWay, NoJournal DEF StorageInvariant, StorageTypes
  <2>3. PromisesAreKept'
    BY <2>1, NoJournal DEF StorageInvariant, ToolIsOnItsWay, PromisesAreKept, Found
  <2> QED BY <2>2, <2>3 DEF StorageInvariant
<1>6. CASE StopTool
  <2>1. tool' = NoTool /\ UNCHANGED <<regions, intents, promised>>
    BY <1>6 DEF StopTool
  <2>2. StorageTypes' /\ ToolIsOnItsWay'
    BY <2>1, NoToolIsOnItsWay DEF StorageInvariant, StorageTypes
  <2> QED BY <2>1, <2>2 DEF StorageInvariant, PromisesAreKept, Found
<1>7. CASE UNCHANGED storage
  BY <1>7 DEF storage, StorageInvariant, StorageTypes, ToolIsOnItsWay, PromisesAreKept, Found
<1> QED BY <1>1, <1>2, <1>3, <1>4, <1>5, <1>6, <1>7 DEF StorageNext

-----------------------------------------------------------------------------
\* Whichever games and commands run, fail or are stopped after any file, what the game
\* promised to keep of a region is found in the journal or in its file.
THEOREM EveryPromiseIsKept ==
  StorageSpec => []PromisesAreKept
<1>1. StorageInvariant => PromisesAreKept
  BY DEF StorageInvariant
<1> QED BY <1>1, StorageStartsInvariant, StepKeepsStorage, PTL DEF StorageSpec

-----------------------------------------------------------------------------
(* Raster captures *)

Pictures == {Absent, Illegible} \union [kind : {"frame"}, version : Nat, scale : Scales]

Pages == [scale : Scales \union {AnyScale}, drawn : Pictures, painted : Pictures,
          failed : BOOLEAN, fetching : BOOLEAN, missed : Nat]

CaptureTypes ==
  /\ version \in Nat /\ bundle \in Nat
  /\ page \in Pages
  /\ baselines \in [Scales -> Pictures]
  /\ DOMAIN approvals = Scales /\ approvals = [s \in Scales |-> approvals[s]]

\* What is known of the window at each point of a capture.
WindowIsFramed ==
  /\ shot \in {"idle", "loading", "ready", "settling", "framed", "approving"}
  /\ shot \in {"idle", "loading", "ready"} => previous = Absent
  /\ shot \in {"ready", "settling", "framed", "approving"} =>
       /\ page.scale \in Scales
       /\ page.drawn = Frame(bundle, page.scale)
       /\ page.painted \in {Boot(page.scale), page.drawn}
  /\ shot = "settling" =>
       \/ previous = Absent
       \/ previous = page.painted /\ (previous = page.drawn \/ page.missed > 0)
  /\ shot \in {"framed", "approving"} =>
       previous = page.drawn \/ (previous = Boot(page.scale) /\ page.missed > 1)
  /\ shot = "approving" => ask.update /\ CaptureValid

CaptureInvariant == CaptureTypes /\ WindowIsFramed /\ BaselinesAreApproved

LEMMA FramesAreNotAbsent ==
  ASSUME NEW v \in Nat, NEW s \in Scales
  PROVE  /\ Frame(v, s) \in Pictures /\ Frame(v, s) # Absent
         /\ Frame(v, s).kind = "frame" /\ Frame(v, s).scale = s
         /\ Boot(s) \in Pictures /\ Boot(s) # Absent /\ Boot(s).scale = s
<1>1. Frame(v, s).kind = "frame" /\ Boot(s).kind = "frame" /\ Absent.kind = "absent"
  BY DEF Frame, Boot, Absent
<1>2. Frame(v, s) \in Pictures /\ Frame(v, s).scale = s /\ Boot(s) \in Pictures
      /\ Boot(s).scale = s
  BY DEF Frame, Boot, Pictures
<1> QED BY <1>1, <1>2

LEMMA CaptureStartsInvariant ==
  CaptureInit => CaptureInvariant
<1> SUFFICES ASSUME CaptureInit PROVE CaptureInvariant
  OBVIOUS
<1>1. CaptureTypes
  BY DEF CaptureInit, CaptureTypes, Pages, Pictures, Closed
<1>2. BaselinesAreApproved
  BY DEF CaptureInit, BaselinesAreApproved, Absent
<1> QED BY <1>1, <1>2 DEF CaptureInit, CaptureInvariant, WindowIsFramed

\* However a capture ends, nothing is left of its window.
LEMMA EndedCapturesLeaveNothing ==
  ASSUME NEW end, EndsAs(end), CaptureTypes, version' \in Nat, bundle' \in Nat, UNCHANGED approvals,
         baselines' \in [Scales -> Pictures]
  PROVE  CaptureTypes' /\ WindowIsFramed'
<1>1. CaptureTypes'
  BY DEF EndsAs, CaptureTypes, Pages, Pictures, Closed
<1>2. WindowIsFramed'
  BY DEF EndsAs, WindowIsFramed
<1> QED BY <1>1, <1>2

LEMMA StepKeepsCapture ==
  CaptureInvariant /\ [CaptureNext]_photographs => CaptureInvariant'
<1> SUFFICES ASSUME CaptureInvariant, [CaptureNext]_photographs PROVE CaptureInvariant'
  OBVIOUS
<1> USE DEF CaptureInvariant
<1>1. CASE EditGame
  <2>1. CaptureTypes' /\ WindowIsFramed'
    BY <1>1 DEF EditGame, CaptureTypes, WindowIsFramed, CaptureValid
  <2> QED BY <1>1, <2>1 DEF EditGame, BaselinesAreApproved
<1>2. CASE BuildBundle
  <2>1. bundle' \in Nat /\ UNCHANGED <<version, baselines, approvals>>
    BY <1>2 DEF BuildBundle, CaptureTypes
  <2>2. CASE shot' = "loading" /\ UNCHANGED <<page, flawed, previous>>
    BY <1>2, <2>1, <2>2 DEF BuildBundle, CaptureTypes, WindowIsFramed, BaselinesAreApproved
  <2>3. CASE EndsAs("failed")
    BY <2>1, <2>3, EndedCapturesLeaveNothing DEF CaptureTypes, BaselinesAreApproved
  <2> QED BY <1>2, <2>2, <2>3 DEF BuildBundle
<1>3. CASE LoadPage
  <2>1. PICK scale \in Scales, failed \in BOOLEAN, fetching \in BOOLEAN :
          page' = [scale |-> scale, drawn |-> Frame(bundle, scale), painted |-> Boot(scale),
                   failed |-> failed, fetching |-> fetching, missed |-> 0]
    BY <1>3 DEF LoadPage
  <2>2. page' \in Pages
    BY <2>1, FramesAreNotAbsent DEF CaptureTypes, Pages
  <2>3. CaptureTypes'
    BY <1>3, <2>2 DEF LoadPage, CaptureTypes
  <2>4. WindowIsFramed'
    BY <1>3, <2>1 DEF LoadPage, WindowIsFramed
  <2> QED BY <1>3, <2>3, <2>4 DEF LoadPage, BaselinesAreApproved
<1>4. CASE FetchEnds
  <2>1. PICK failed \in BOOLEAN : page' = [page EXCEPT !.fetching = FALSE, !.failed = @ \/ failed]
    BY <1>4 DEF FetchEnds
  <2>2. page' \in Pages /\ page'.scale = page.scale /\ page'.drawn = page.drawn
        /\ page'.painted = page.painted /\ page'.missed = page.missed
    BY <2>1 DEF CaptureTypes, Pages
  <2>3. CaptureTypes'
    BY <1>4, <2>2 DEF FetchEnds, CaptureTypes
  <2>4. WindowIsFramed'
    BY <1>4, <2>2 DEF FetchEnds, WindowIsFramed, CaptureValid
  <2> QED BY <1>4, <2>3, <2>4 DEF FetchEnds, BaselinesAreApproved
<1>5. CASE Inspect
  <2>1. CaptureTypes' /\ WindowIsFramed'
    BY <1>5 DEF Inspect, CaptureTypes, WindowIsFramed
  <2> QED BY <1>5, <2>1 DEF Inspect, BaselinesAreApproved
<1>6. CASE TakeFrame
  <2>1. PICK frame \in {page.painted, page.drawn} :
          /\ previous' = frame
          /\ shot' = IF Agrees(frame) THEN "framed" ELSE "settling"
          /\ page' = [page EXCEPT !.painted = frame,
                                  !.missed = IF frame = page.drawn THEN @ ELSE @ + 1]
    BY <1>6 DEF TakeFrame
  <2>2. /\ shot = "settling" /\ page \in Pages /\ page.scale \in Scales
        /\ page.drawn = Frame(bundle, page.scale) /\ page.painted \in {Boot(page.scale), page.drawn}
        /\ UNCHANGED <<version, bundle, ask, flawed, baselines, approvals>>
    BY <1>6 DEF TakeFrame, WindowIsFramed, CaptureTypes
  <2>3. page' \in Pages /\ page'.scale = page.scale /\ page'.drawn = page.drawn
        /\ page'.painted = frame
        /\ page'.missed = (IF frame = page.drawn THEN page.missed ELSE page.missed + 1)
        /\ page.missed \in Nat
    <3>1. /\ page = [scale |-> page.scale, drawn |-> page.drawn, painted |-> page.painted,
                     failed |-> page.failed, fetching |-> page.fetching, missed |-> page.missed]
          /\ page.missed \in Nat /\ page.drawn \in Pictures /\ page.painted \in Pictures
          /\ page.failed \in BOOLEAN /\ page.fetching \in BOOLEAN
      BY <2>2 DEF Pages
    <3> DEFINE missed == IF frame = page.drawn THEN page.missed ELSE page.missed + 1
    <3>2. missed \in Nat /\ frame \in Pictures
      BY <2>1, <3>1
    <3>3. page' = [scale |-> page.scale, drawn |-> page.drawn, painted |-> frame,
                   failed |-> page.failed, fetching |-> page.fetching, missed |-> missed]
      BY <2>1, <3>1
    <3> HIDE DEF missed
    <3>4. page' \in Pages
      BY <2>2, <3>1, <3>2, <3>3 DEF Pages
    <3> QED BY <3>1, <3>3, <3>4 DEF missed
  <2>4. frame # Absent /\ frame \in {Boot(page.scale), page.drawn}
    BY <2>1, <2>2, FramesAreNotAbsent DEF CaptureTypes
  <2>5. Agrees(frame) => frame = page.drawn \/ (frame = Boot(page.scale) /\ page'.missed > 1)
    BY <2>2, <2>3, <2>4 DEF WindowIsFramed, Agrees
  <2>6. CaptureTypes'
    BY <2>2, <2>3 DEF CaptureTypes
  <2>7. WindowIsFramed'
    BY <2>1, <2>2, <2>3, <2>4, <2>5 DEF WindowIsFramed
  <2> QED BY <2>2, <2>6, <2>7 DEF BaselinesAreApproved
<1>7. CASE MissDeadline
  <2>1. CaptureTypes' /\ WindowIsFramed'
    BY <1>7, EndedCapturesLeaveNothing DEF MissDeadline, CaptureTypes
  <2> QED BY <1>7, <2>1 DEF MissDeadline, BaselinesAreApproved
<1>8. CASE JudgeFrame
  <2>1. UNCHANGED <<version, bundle, baselines, approvals>>
    BY <1>8 DEF JudgeFrame
  <2>2. CASE ask.update /\ CaptureValid /\ shot' = "approving" /\ UNCHANGED <<page, flawed, previous>>
    BY <1>8, <2>2 DEF JudgeFrame, CaptureTypes, WindowIsFramed, CaptureValid, BaselinesAreApproved
  <2>3. CASE \E end : EndsAs(end)
    <3>1. CaptureTypes' /\ WindowIsFramed'
      BY <2>1, <2>3, EndedCapturesLeaveNothing DEF CaptureTypes
    <3> QED BY <2>1, <3>1 DEF BaselinesAreApproved
  <2> QED BY <1>8, <2>2, <2>3 DEF JudgeFrame
<1>9. CASE WriteBaseline
  <2>1. /\ shot = "approving" /\ UNCHANGED <<version, bundle>>
        /\ page.scale \in Scales
        /\ previous = Frame(bundle, page.scale) \/ (previous = Boot(page.scale) /\ page.missed > 1)
        /\ ask.update /\ CaptureValid
    BY <1>9 DEF WriteBaseline, WindowIsFramed
  <2> DEFINE approval == [kind |-> "approval", asked |-> ask.update, sound |-> CaptureValid,
                          missed |-> page.missed, frame |-> Frame(bundle, page.scale)]
  <2>2. /\ baselines' = [baselines EXCEPT ![page.scale] = previous]
        /\ approvals' = [approvals EXCEPT ![page.scale] = approval]
    BY <1>9 DEF WriteBaseline
  <2>3. previous \in Pictures /\ previous.scale = page.scale
    BY <2>1, FramesAreNotAbsent DEF CaptureTypes
  <2>4. baselines' \in [Scales -> Pictures]
    BY <2>2, <2>3 DEF CaptureTypes
  <2>5. DOMAIN approvals' = Scales /\ approvals' = [s \in Scales |-> approvals'[s]]
    BY <2>2 DEF CaptureTypes
  <2>6. EndsAs("passed")
    BY <1>9 DEF WriteBaseline
  <2>7. CaptureTypes' /\ WindowIsFramed'
    <3>1. CaptureTypes'
      BY <2>1, <2>4, <2>5, <2>6 DEF EndsAs, CaptureTypes, Pages, Pictures, Closed
    <3> QED BY <2>6, <3>1 DEF EndsAs, WindowIsFramed
  <2>8. BaselinesAreApproved'
    <3> SUFFICES ASSUME NEW s \in Scales, (baselines[s])'.kind = "frame"
                 PROVE  /\ (approvals[s])'.kind = "approval" /\ (approvals[s])'.asked
                        /\ (approvals[s])'.sound
                        /\ (baselines[s])'.scale = s
                        /\ \/ (baselines[s])' = (approvals[s])'.frame
                           \/ (baselines[s])' = Boot(s) /\ (approvals[s])'.missed > 1
      BY DEF BaselinesAreApproved
    <3>1. CASE s = page.scale
      <4>1. (approvals[s])' = approval /\ (baselines[s])' = previous
        BY <2>2, <3>1 DEF CaptureTypes
      <4>2. approval.kind = "approval" /\ approval.asked = ask.update
            /\ approval.sound = CaptureValid /\ approval.frame = Frame(bundle, page.scale)
            /\ approval.missed = page.missed
        OBVIOUS
      <4> QED BY <2>1, <2>3, <3>1, <4>1, <4>2
    <3>2. CASE s # page.scale
      BY <2>2, <3>2 DEF CaptureTypes, BaselinesAreApproved
    <3> QED BY <3>1, <3>2
  <2> QED BY <2>7, <2>8
<1>10. CASE TearBaseline
  <2>1. /\ page.scale \in Scales /\ EndsAs("none") /\ UNCHANGED <<version, bundle, approvals>>
        /\ baselines' = [baselines EXCEPT ![page.scale] = Illegible]
    BY <1>10 DEF TearBaseline, WindowIsFramed
  <2>2. baselines' \in [Scales -> Pictures]
    BY <2>1 DEF CaptureTypes, Pictures
  <2>3. CaptureTypes' /\ WindowIsFramed'
    BY <2>1, <2>2, EndedCapturesLeaveNothing DEF CaptureTypes
  <2>4. BaselinesAreApproved'
    BY <2>1 DEF CaptureTypes, BaselinesAreApproved, Illegible
  <2> QED BY <2>3, <2>4
<1>11. ASSUME NEW s \in Scales, RemoveBaseline(s) PROVE CaptureInvariant'
  <2>1. /\ baselines' = [baselines EXCEPT ![s] = Absent]
        /\ UNCHANGED <<version, bundle, shot, ask, page, flawed, previous, approvals>>
    BY <1>11 DEF RemoveBaseline
  <2>2. CaptureTypes'
    BY <2>1 DEF CaptureTypes, Pictures
  <2>3. WindowIsFramed'
    BY <2>1 DEF WindowIsFramed, CaptureValid
  <2>4. BaselinesAreApproved'
    BY <2>1 DEF CaptureTypes, BaselinesAreApproved, Absent
  <2> QED BY <2>2, <2>3, <2>4
<1>12. CASE UNCHANGED photographs
  <2>1. CaptureTypes' /\ WindowIsFramed'
    BY <1>12 DEF photographs, CaptureTypes, WindowIsFramed, CaptureValid
  <2> QED BY <1>12, <2>1 DEF photographs, BaselinesAreApproved
<1> QED BY <1>1, <1>2, <1>3, <1>4, <1>5, <1>6, <1>7, <1>8, <1>9, <1>10, <1>11, <1>12 DEF CaptureNext

-----------------------------------------------------------------------------
\* In every behaviour of the captures, the baseline of a scale is a frame of that scale whose
\* capture was asked to approve it and had no error when it was inspected: the picture of the
\* game, unless two pictures in a row were taken before the window was repainted
\* (raster-capture.ts; capture.cjs, captureStableFrame).
THEOREM EveryBaselineIsApproved ==
  CaptureSpec => []BaselinesAreApproved
<1>1. CaptureInvariant => BaselinesAreApproved
  BY DEF CaptureInvariant
<1> QED BY <1>1, CaptureStartsInvariant, StepKeepsCapture, PTL DEF CaptureSpec
=============================================================================
