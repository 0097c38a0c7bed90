------------------------------ MODULE GameHost ------------------------------
(***************************************************************************)
(* The browser host of a game (main.ts): it starts the runtime, the        *)
(* renderer and the sounds, runs a loop of frames until one of them        *)
(* throws, and ends with its page.  A frame steps the runtime, projects    *)
(* each tick, drains the presentation events (runtime-web) and lets the    *)
(* presenter of the game draw; nothing else runs before it ends.           *)
(*                                                                         *)
(* The state of the runtime, what is projected from it and what the nodes  *)
(* of the user interface show are left out.  Starting in capture mode,     *)
(* with a number of ticks instead of a loop, is not modelled.              *)
(***************************************************************************)
EXTENDS AudioFeedback, SceneRenderer

CONSTANTS
  TicksPerFrame, \* the most ticks a frame steps: 5
  LongestGap,    \* the ticks of the longest time a frame accounts for: 6
  MaxDebt,       \* bound on the ticks the accumulator holds
  MaxEvents,     \* bound on the events a runtime emits
  MaxPendingInputs

ASSUME FrameAssumption ==
  /\ {TicksPerFrame, LongestGap, MaxDebt, MaxEvents} \subseteq Nat
  /\ MaxPendingInputs \in Nat \ {0}

VARIABLES
  frame,   \* what the host does: "loading", "rendering", "waiting", "stepping", "draining",
           \* "presenting", or it "failed" or is "unloaded"
  cause,   \* history: the code that ended the frames
  debt,    \* the accumulator, in ticks
  ticks,   \* the ticks this frame has still to step
  emitted, \* the events of the runtime that wait to be drained
  batch,   \* the events drained and still to be handled
  sequence, \* the number of the last event
  pendingInputs   \* the inputs the runtime has pending

loop == <<frame, cause, debt, ticks, emitted, batch, sequence, pendingInputs>>
presentation == <<listed, audio, scene, loop>>

EventTypes == {"audio-play", "audio-stop", "effect-spawn"}
Unresolved == "unresolved"

PresentationInit ==
  /\ DiagnosticsInit /\ AudioInit /\ SceneInit
  /\ frame = "loading" /\ cause = "none"
  /\ debt = 0 /\ ticks = 0
  /\ emitted = <<>> /\ batch = <<>> /\ sequence = 0
  /\ pendingInputs = 0

\* An exception that nobody catches ends the script, or the loop: the next frame is
\* asked for at the end of this one.
Fails(code) == frame' = "failed" /\ cause' = code

-----------------------------------------------------------------------------
(* The start *)

\* The runtime, its content, its gameplay and the first projection.
LoadGame ==
  /\ frame = "loading"
  /\ \/ frame' = "rendering" /\ UNCHANGED <<cause, listed>>
     \/ Fails("HOST_SCRIPT_ERROR") /\ Report(<<"HOST_SCRIPT_ERROR">>)
  /\ UNCHANGED <<audio, scene, debt, ticks, emitted, batch, sequence, pendingInputs>>

\* The host knows whether the browser has WebGPU, and takes WebGL2 for granted.
StartPresentation ==
  /\ frame = "rendering"
  /\ \E backends \in {{"webgl2"}, {"webgl2", "webgpu"}}, device \in Devices,
        outcome \in {"started", "RENDER_INITIALIZATION_FAILED", "RENDER_FEATURE_TIER_UNAVAILABLE",
                     "RENDER_PROFILE_UNDECLARED", "RENDER_FEATURE_REQUIRED_UNAVAILABLE",
                     "RENDER_PROFILE_UNSUPPORTED"} :
       /\ StartRenderer(backends, device, outcome)
       /\ IF outcome = "started" THEN frame' = "waiting" /\ UNCHANGED cause ELSE Fails(outcome)
  /\ UNCHANGED <<audio, debt, ticks, emitted, batch, sequence, pendingInputs>>

-----------------------------------------------------------------------------
(* A frame *)

\* Time that does not fit in the ticks of a frame is kept for the next.
StartFrame ==
  /\ frame = "waiting" /\ Delivered
  /\ \E gap \in 0..LongestGap :
       LET n == IF debt + gap < TicksPerFrame THEN debt + gap ELSE TicksPerFrame IN
       /\ debt + gap - n <= MaxDebt
       /\ debt' = debt + gap - n
       /\ ticks' = n
       /\ frame' = IF n = 0 THEN "presenting" ELSE "stepping"
  /\ UNCHANGED <<listed, audio, scene, cause, emitted, batch, sequence, pendingInputs>>

\* A tick is committed, with an event or without; a projection that fails is reported,
\* and the one before it is kept.
StepTick ==
  /\ frame = "stepping" /\ ticks > 0
  /\ ticks' = ticks - 1
  /\ pendingInputs' = 0
  /\ \/ UNCHANGED <<emitted, sequence>>
     \/ \E type \in EventTypes, id \in Sounds \union {Unresolved} :
          /\ sequence < MaxEvents
          /\ sequence' = sequence + 1
          /\ emitted' = Append(emitted, [type |-> type, id |-> id, sequence |-> sequence'])
  /\ \/ UNCHANGED listed
     \/ Report(<<"UI_PROJECTOR_FAILED">>)
  /\ UNCHANGED <<audio, scene, frame, cause, debt, batch>>

\* What earlier ticks of the frame emitted stays with the runtime.
StepFails ==
  /\ frame = "stepping" /\ ticks > 0
  /\ Fails("HOST_SCRIPT_ERROR") /\ Report(<<"HOST_SCRIPT_ERROR">>)
  /\ UNCHANGED <<audio, scene, debt, ticks, emitted, batch, sequence, pendingInputs>>

\* The records are read, then cleared.
DrainPresentationEvents ==
  /\ frame = "stepping" /\ ticks = 0
  /\ batch' = emitted /\ emitted' = <<>>
  /\ frame' = "draining"
  /\ UNCHANGED <<listed, audio, scene, cause, debt, ticks, sequence, pendingInputs>>

\* An effect without a definition is a warning on the console.
PresentEffect(event) ==
  /\ UNCHANGED audio
  /\ IF event.id = Unresolved THEN UNCHANGED <<listed, scene, frame, cause>>
     ELSE \E outcome \in {"done", "RENDER_PARTICLE_CREATE_FAILED"} :
       /\ SpawnParticles(outcome)
       /\ IF outcome = "done" THEN UNCHANGED <<listed, frame, cause>>
          ELSE Fails(outcome) /\ Report(<<outcome>>)

HandleEvent ==
  /\ frame = "draining" /\ batch # <<>>
  /\ batch' = Tail(batch)
  /\ IF Head(batch).type = "effect-spawn" THEN PresentEffect(Head(batch))
     ELSE HandleSound(Head(batch)) /\ UNCHANGED <<scene, frame, cause>>
  /\ UNCHANGED <<debt, ticks, emitted, sequence, pendingInputs>>

EndDrain ==
  /\ frame = "draining" /\ batch = <<>>
  /\ frame' = "presenting"
  /\ UNCHANGED <<listed, audio, scene, cause, debt, ticks, emitted, batch, sequence, pendingInputs>>

\* The presenter is the game's: it may ask for anything.
Operation(outcome) ==
  \/ \E v \in Visuals :
       \/ CreateVisual(v, outcome) \/ SetTransform(v, outcome)
       \/ SetColor(v, outcome) \/ SetVisible(v, outcome)
       \/ \E a \in Assets \union {UndeclaredAsset} : CreateAssetVisual(v, a, outcome)
  \/ SpawnParticles(outcome)

PresenterOutcomes ==
  {"done", "RENDER_VISUAL_DUPLICATE", "RENDER_ASSET_UNDECLARED", "RENDER_VISUAL_NOT_FOUND",
   "RENDER_VISUAL_MATERIAL_UNSUPPORTED", "RENDER_PARTICLE_CREATE_FAILED"}

Present ==
  /\ frame = "presenting"
  /\ \E outcome \in PresenterOutcomes :
       /\ Operation(outcome)
       /\ IF outcome = "done" THEN UNCHANGED <<listed, frame, cause>>
          ELSE Fails(outcome) /\ Report(<<outcome>>)
  /\ UNCHANGED <<audio, debt, ticks, emitted, batch, sequence, pendingInputs>>

\* The scene is rendered, then the user interface, and the next frame is asked for.
EndFrame ==
  /\ frame = "presenting"
  /\ \E outcome \in {"done", "RENDER_FRAME_FAILED"}, ui \in {"done", "HOST_SCRIPT_ERROR"} :
       /\ Render(outcome)
       /\ IF outcome # "done" THEN Fails(outcome) /\ Report(<<outcome>>)
          ELSE IF ui # "done" THEN Fails(ui) /\ Report(<<ui>>)
          ELSE frame' = "waiting" /\ UNCHANGED <<listed, cause>>
  /\ UNCHANGED <<audio, debt, ticks, emitted, batch, sequence, pendingInputs>>

-----------------------------------------------------------------------------
(* Between two frames, or after the last *)

BetweenFrames == frame \in {"waiting", "failed"} /\ profile # "none"

\* A key or a button: the sounds are unlocked, whether the runtime takes the input or
\* its queue is full.
Submit ==
  /\ BetweenFrames
  /\ Unlock
  /\ IF pendingInputs < MaxPendingInputs
     THEN pendingInputs' = pendingInputs + 1 /\ Report(UnlockReports)
     ELSE UNCHANGED pendingInputs /\ Report(<<"HOST_SCRIPT_ERROR">> \o UnlockReports)
  /\ UNCHANGED <<scene, frame, cause, debt, ticks, emitted, batch, sequence>>

\* A listener that throws does not end the loop: a resize, a lost context, a broken image.
HostEvent ==
  /\ BetweenFrames
  /\ \E code \in {"RENDER_RESIZE_FAILED", "RENDER_CONTEXT_LOST", "HOST_ASSET_MISSING"} : Report(<<code>>)
  /\ UNCHANGED <<audio, scene, loop>>

Arrival ==
  /\ BetweenFrames
  /\ \/ (SoundLoads \/ SoundFails) /\ UNCHANGED scene
     \/ (DeliverTemplate \/ ResolveTimestamps) /\ UNCHANGED audio
  /\ UNCHANGED loop

Unload ==
  /\ BetweenFrames
  /\ frame' = "unloaded"
  /\ DestroyAudio /\ DestroyRenderer
  /\ UNCHANGED <<listed, cause, debt, ticks, emitted, batch, sequence, pendingInputs>>

-----------------------------------------------------------------------------
PresentationNext ==
  \/ LoadGame \/ StartPresentation
  \/ StartFrame \/ StepTick \/ StepFails \/ DrainPresentationEvents \/ HandleEvent \/ EndDrain
  \/ Present \/ EndFrame
  \/ Submit \/ HostEvent \/ Arrival \/ Unload

PresentationSpec == PresentationInit /\ [][PresentationNext]_presentation

-----------------------------------------------------------------------------
PresentationTypeOK ==
  /\ Len(listed) <= MaximumRecorded
  /\ buffers \union unfetched \subseteq Fetched /\ unlocked \in BOOLEAN
  /\ mixer.active \subseteq Loops /\ mixer.sources \in [Loops -> Nat]
  /\ mixer.deferred \in Seq(Sounds)
  /\ heard \in [Loops -> {"plays", "stopped", "unknown"}]
  /\ lastSequence \in 0..sequence /\ sequence \in 0..MaxEvents
  /\ profile \in Profiles \union {"none"}
  /\ {telemetry, resolving} \subseteq BOOLEAN
  /\ samples \in 0..MaxSamples /\ bursts \in 0..MaxBursts
  /\ visuals \in [Visuals -> {"none", "shape"} \union Assets]
  /\ traced \in [Visuals -> {"none", "shape", UndeclaredAsset} \union Assets]
  /\ templates \in [Assets -> {"none", "loading", "loaded", "failed"}]
  /\ awaiting \subseteq Visuals
  /\ frame \in {"loading", "rendering", "waiting", "stepping", "draining", "presenting",
                "failed", "unloaded"}
  /\ debt \in 0..MaxDebt /\ ticks \in 0..TicksPerFrame /\ pendingInputs \in 0..MaxPendingInputs

\* A loop plays at most once, however often it is asked for, waits for its file or is
\* stopped; once the sounds have settled it plays exactly when the last event about it
\* was a play (audio-feedback.ts, play and handle).
LoopsFollowEvents ==
  \A s \in Loops :
    /\ mixer.sources[s] \in 0..1
    /\ heard[s] = "stopped" => mixer.sources[s] = 0
    /\ heard[s] = "plays" => mixer.sources[s] = 1

\* What the player misses is in the list of diagnostics, unless the list is full: what
\* ended the frames, an asset or a sound that could not be had, a method or timings
\* that were given up (host-diagnostics.ts).
FailuresAreListed ==
  /\ frame = "failed" => Listed(cause)
  /\ unfetched # {} => Listed("HOST_AUDIO_ASSET_FAILED")
  /\ profile \notin {"none", intent.profile} => Listed("RENDER_METHOD_FALLBACK")
  /\ profile = "desktop-high" /\ ~telemetry => Listed("RENDER_GPU_TIMESTAMPS_UNAVAILABLE")
  /\ \A v \in Visuals \ awaiting :
       visuals[v] \in Assets /\ templates[visuals[v]] = "failed"
         => Listed("RENDER_ASSET_LOAD_FAILED")
=============================================================================
