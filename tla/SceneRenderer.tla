---------------------------- MODULE SceneRenderer ----------------------------
(***************************************************************************)
(* The Three.js renderer of the browser host (renderer-three): the profile *)
(* and the method it starts with, the visuals of the scene, the assets     *)
(* they wait for, particle bursts and GPU timings; and the trace of what   *)
(* was asked of it (presentation-protocol, projection-trace.ts).           *)
(*                                                                         *)
(* Positions, colours, cameras, lights and pixels are left out.  Nine of   *)
(* the features are supplied by every profile: "common" stands for them.   *)
(***************************************************************************)
EXTENDS HostDiagnostics

CONSTANTS
  Visuals,         \* the ids of visuals
  Assets,          \* the cooked assets of the game
  UndeclaredAsset, \* one that the presenter asks for and the host does not have
  Intents,        \* the graphics intents of manifests
  MaxBursts,       \* bound on the particle bursts alive at once
  MaxSamples       \* bound on the GPU timings of a session: the sampler keeps 120

VARIABLES
  intent,   \* the graphics intent of the manifest
  profile,   \* the effective profile, or "none"
  telemetry, \* gpuTimestampTelemetryEnabled
  resolving, \* whether gpuTimestampResolve is pending
  samples,   \* the number of timings the sampler holds
  visuals,   \* visuals[v]: "none", "shape" or the asset it shows
  traced,    \* the same, as asked for
  templates, \* assetTemplates
  awaiting,  \* the visuals whose asset has still to be added
  bursts

scene == <<intent, profile, telemetry, resolving, samples, visuals, traced, templates, awaiting,
           bursts>>

Profiles == {"web-compatible", "desktop-compatible", "desktop-high"}

Features(p) == IF p = "desktop-high" THEN {"common", "gpu-particles", "gpu-timestamps"} ELSE {"common"}
AllowedFallbacks(p) == IF p = "desktop-high" THEN {"desktop-compatible"} ELSE {}
Method(p) == IF p = "desktop-high" THEN "webgpu" ELSE "webgl2"

ASSUME IntentsAssumption ==
  \A r \in Intents :
    /\ r.profile \in Profiles
    /\ r.required \subseteq {"common", "gpu-particles", "gpu-timestamps"}
    /\ r.fallbacks \in Seq(Profiles)
    /\ r.enhanced \in BOOLEAN

ASSUME VisualsAssumption == {"none", "shape"} \intersect Assets = {}

SceneInit ==
  /\ intent \in Intents
  /\ profile = "none"
  /\ telemetry = FALSE /\ resolving = FALSE /\ samples = 0
  /\ visuals = [v \in Visuals |-> "none"] /\ traced = visuals
  /\ templates = [a \in Assets |-> "none"]
  /\ awaiting = {}
  /\ bursts = 0

-----------------------------------------------------------------------------
(* The start: a profile, then a device for its method *)

Candidates == <<intent.profile>> \o intent.fallbacks
Compatible == {i \in DOMAIN Candidates : intent.required \subseteq Features(Candidates[i])}
Usable(backends) == {i \in Compatible : Method(Candidates[i]) \in backends}

\* A profile, or the code of the failure to find one.
Selection(backends) ==
  IF ~(ToSet(intent.fallbacks) \subseteq AllowedFallbacks(intent.profile))
  THEN "RENDER_PROFILE_UNDECLARED"
  ELSE IF Usable(backends) # {} THEN Candidates[Min(Usable(backends))]
  ELSE IF Compatible = {} THEN "RENDER_FEATURE_REQUIRED_UNAVAILABLE"
  ELSE "RENDER_PROFILE_UNSUPPORTED"

\* Timestamps are asked for when the adapter has them, and given up when the device
\* cannot be had with them.
Devices == {"timestamps", "plain", "failed"}

\* Without the device of its profile the renderer falls back, when the manifest
\* declares a profile to fall back to that supplies what is required.
Effective(backends, device) ==
  LET selected == Selection(backends) IN
  IF selected \notin Profiles \/ Method(selected) = "webgl2" THEN selected
  ELSE IF device = "failed" THEN Selection(backends \ {"webgpu"})
  ELSE IF device = "plain" /\ "gpu-timestamps" \in intent.required
  THEN "RENDER_FEATURE_REQUIRED_UNAVAILABLE"
  ELSE selected

StartReports(p, device) ==
  (IF Method(p) = "webgpu" /\ device = "plain"
   THEN <<"RENDER_GPU_TIMESTAMPS_UNAVAILABLE">> ELSE <<>>)
  \o (IF p # intent.profile THEN <<"RENDER_METHOD_FALLBACK">> ELSE <<>>)

\* The renderer is created, or the code with which it is not.
StartRenderer(backends, device, outcome) ==
  LET p == Effective(backends, device) IN
  /\ IF p \notin Profiles THEN outcome = p
     ELSE IF intent.enhanced /\ p = "web-compatible" THEN outcome = "RENDER_FEATURE_TIER_UNAVAILABLE"
     ELSE outcome \in {"started", "RENDER_INITIALIZATION_FAILED"}
  /\ profile' = IF outcome = "started" THEN p ELSE "none"
  /\ telemetry' = (outcome = "started" /\ Method(p) = "webgpu" /\ device = "timestamps")
  /\ Report((IF p \in Profiles THEN StartReports(p, device) ELSE <<>>)
            \o IF outcome = "started" THEN <<>> ELSE <<outcome>>)
  /\ UNCHANGED <<intent, resolving, samples, visuals, traced, templates, awaiting, bursts>>

-----------------------------------------------------------------------------
(* What a presenter asks for; outcome is "done" or the code of the failure *)

\* The trace has what was asked for before the renderer refuses it.
CreateVisual(v, outcome) ==
  /\ traced' = [traced EXCEPT ![v] = "shape"]
  /\ IF visuals[v] # "none"
     THEN outcome = "RENDER_VISUAL_DUPLICATE" /\ UNCHANGED visuals
     ELSE outcome = "done" /\ visuals' = [visuals EXCEPT ![v] = "shape"]
  /\ UNCHANGED <<intent, profile, telemetry, resolving, samples, templates, awaiting, bursts>>

\* A template is loaded once, for all of its visuals; a load that failed is not retried.
CreateAssetVisual(v, asset, outcome) ==
  /\ traced' = [traced EXCEPT ![v] = asset]
  /\ IF visuals[v] # "none"
     THEN outcome = "RENDER_VISUAL_DUPLICATE" /\ UNCHANGED <<visuals, templates, awaiting>>
     ELSE IF asset \notin Assets
     THEN outcome = "RENDER_ASSET_UNDECLARED" /\ UNCHANGED <<visuals, templates, awaiting>>
     ELSE /\ outcome = "done"
          /\ visuals' = [visuals EXCEPT ![v] = asset]
          /\ awaiting' = awaiting \union {v}
          /\ templates' = [templates EXCEPT ![asset] = IF @ = "none" THEN "loading" ELSE @]
  /\ UNCHANGED <<intent, profile, telemetry, resolving, samples, bursts>>

SetTransform(v, outcome) ==
  /\ outcome = IF visuals[v] = "none" THEN "RENDER_VISUAL_NOT_FOUND" ELSE "done"
  /\ UNCHANGED scene

SetVisible(v, outcome) ==
  /\ outcome = IF visuals[v] = "none" THEN "RENDER_VISUAL_NOT_FOUND" ELSE "done"
  /\ UNCHANGED scene

\* A visual has nothing to colour before its asset is there.
Colourless(v) ==
  \/ v \in awaiting
  \/ visuals[v] \in Assets /\ templates[visuals[v]] = "failed"

\* A model may have no material that can be coloured.
SetColor(v, outcome) ==
  /\ IF visuals[v] = "none" THEN outcome = "RENDER_VISUAL_NOT_FOUND"
     ELSE \/ outcome = "done" /\ ~Colourless(v)
          \/ outcome = "RENDER_VISUAL_MATERIAL_UNSUPPORTED" /\ visuals[v] \in Assets
  /\ UNCHANGED scene

SpawnParticles(outcome) ==
  /\ \/ outcome = "done" /\ bursts < MaxBursts /\ bursts' = bursts + 1
     \/ outcome = "RENDER_PARTICLE_CREATE_FAILED" /\ UNCHANGED bursts
  /\ UNCHANGED <<intent, profile, telemetry, resolving, samples, visuals, traced, templates,
                 awaiting>>

\* Bursts that are old enough go, and one more timing is asked for.
Render(outcome) ==
  /\ outcome \in {"done", "RENDER_FRAME_FAILED"}
  /\ bursts' \in 0..bursts
  /\ resolving' = IF outcome = "done" THEN telemetry ELSE resolving
  /\ UNCHANGED <<intent, profile, telemetry, samples, visuals, traced, templates, awaiting>>

-----------------------------------------------------------------------------
(* What arrives between two frames *)

Waiting(a) == {v \in awaiting : visuals[v] = a}

DeliverTemplate ==
  /\ \E a \in Assets, outcome \in {"loaded", "failed"} :
       /\ Waiting(a) # {}
       /\ templates[a] \in {"loading", outcome}
       /\ templates' = [templates EXCEPT ![a] = outcome]
       /\ awaiting' = awaiting \ Waiting(a)
       /\ Report([i \in 1..(IF outcome = "failed" THEN Cardinality(Waiting(a)) ELSE 0)
                    |-> "RENDER_ASSET_LOAD_FAILED"])
  /\ UNCHANGED <<intent, profile, telemetry, resolving, samples, visuals, traced, bursts>>

\* A promise that is settled reaches its visual before the next frame.
Delivered == \A v \in awaiting : templates[visuals[v]] = "loading"

\* Defect: timings end without a word.
ResolveTimestampsSilently ==
  /\ resolving /\ resolving' = FALSE
  /\ telemetry' \in {telemetry, FALSE}
  /\ samples' = IF telemetry' THEN samples ELSE 0
  /\ UNCHANGED <<intent, profile, visuals, traced, templates, awaiting, bursts, listed>>

\* The first timing that cannot be had is the last one asked for.
ResolveTimestamps ==
  /\ resolving /\ resolving' = FALSE
  /\ \/ UNCHANGED <<telemetry, samples, listed>>
     \/ /\ samples < MaxSamples /\ samples' = samples + 1
        /\ UNCHANGED <<telemetry, listed>>
     \/ /\ telemetry' = FALSE /\ samples' = 0
        /\ Report(<<"RENDER_GPU_TIMESTAMPS_UNAVAILABLE">>)
  /\ UNCHANGED <<intent, profile, visuals, traced, templates, awaiting, bursts>>

DestroyRenderer ==
  /\ visuals' = [v \in Visuals |-> "none"] /\ traced' = visuals'
  /\ awaiting' = {} /\ bursts' = 0
  /\ UNCHANGED <<intent, profile, telemetry, resolving, samples, templates>>
=============================================================================
