------------------------------ MODULE GameProject ------------------------------
(***************************************************************************)
(* What stands around a game and its kernel: the desktop saves and         *)
(* services, the page that plays it, the objects it reaches its runtime    *)
(* by, the regions that runtime writes, and the command line that          *)
(* validates and builds the game, forges its assets, plays its scenarios,  *)
(* records what it ran, photographs it and keeps its regions.              *)
(*                                                                         *)
(* These parts run one beside the other and meet in files and messages     *)
(* that each module describes from its own side; no two of them write the  *)
(* same one.  Bound: a behaviour is about one of them, or about the scene, *)
(* the sounds, the frames, the updates or Steam alone, and the others stay *)
(* as they start.  Only frames are timed, hear of host events and leave    *)
(* ticks to the next one.                                                  *)
(***************************************************************************)
EXTENDS DesktopCheckpoint, GameHost, RuntimeHandles, ArtifactCache, ProjectForges, VisualForge,
        ControlSession, ScenarioWorker, StorageTool, ProjectDocuments, WorkspaceGraph, RunEvidence,
        DesktopServices, RasterCapture, RegionalRuntime

VARIABLE subject  \* the part a behaviour is about

project == <<saves, presentation, handles, cache, forges, visual, controlled, storage,
             documents, workspace, evidence, scenario, services, photographs, regional,
             subject>>

Subjects ==
  {"saves", "scene", "sounds", "frames", "handles", "builds", "forges", "visuals", "control",
   "storage", "documents", "workspace", "evidence", "scenario", "updates", "steam", "captures",
   "regions"}

ProjectInit ==
  /\ subject \in Subjects
  /\ DesktopInit /\ (cloud => subject = "saves")
  /\ PresentationInit
  /\ subject \notin {"scene", "frames"} => intent.profile # "desktop-high" /\ intent.fallbacks = <<>> /\ ~intent.enhanced
  /\ HandlesInit
  /\ CacheInit /\ (entries # {} => subject = "builds")
  /\ ForgesInit /\ (forge # "content" => subject = "forges")
  /\ VisualInit
  /\ subject # "visuals" => surfaces = {} /\ \A k \in VisualKeys : quality[k] = "passed"
  /\ ControlInit /\ (control # "simulate" => subject = "control")
  /\ StorageInit
  /\ subject # "storage" => ~stale /\ \A k \in Regions : regions[k] = [data |-> 1, version |-> 1]
  /\ DocumentsInit
  /\ WorkspaceInit /\ (checked # 1 => subject = "workspace")
  /\ EvidenceInit
  /\ ScenarioInit /\ (gathered.forced => subject = "scenario")
  /\ ServicesInit /\ (feed => subject = "updates") /\ (networking => subject = "steam")
  /\ CaptureInit
  /\ RegionalInit

\* The parts a behaviour is not about.
OthersStay ==
  /\ subject # "saves" => UNCHANGED saves
  /\ subject \notin {"scene", "sounds", "frames"} => UNCHANGED presentation
  /\ subject # "handles" => UNCHANGED handles
  /\ subject # "builds" => UNCHANGED cache
  /\ subject # "forges" => UNCHANGED forges
  /\ subject # "visuals" => UNCHANGED visual
  /\ subject # "control" => UNCHANGED controlled
  /\ subject # "storage" => UNCHANGED storage
  /\ subject # "documents" => UNCHANGED documents
  /\ subject # "workspace" => UNCHANGED workspace
  /\ subject # "evidence" => UNCHANGED evidence
  /\ subject # "scenario" => UNCHANGED scenario
  /\ subject # "updates" => UNCHANGED updating
  /\ subject # "steam" => UNCHANGED carrying
  /\ subject # "captures" => UNCHANGED photographs
  /\ subject # "regions" => UNCHANGED regional

ProjectNext ==
  /\ UNCHANGED subject
  /\ \/ subject = "saves" /\ DesktopNext
     \/ subject \in {"scene", "sounds", "frames"} /\ PresentationNext
     \/ subject = "handles" /\ HandlesNext
     \/ subject = "builds" /\ CacheNext
     \/ subject = "forges" /\ ForgesNext
     \/ subject = "visuals" /\ VisualNext
     \/ subject = "control" /\ ControlNext
     \/ subject = "storage" /\ StorageNext
     \/ subject = "documents" /\ DocumentsNext
     \/ subject = "workspace" /\ WorkspaceNext
     \/ subject = "evidence" /\ EvidenceNext
     \/ subject = "scenario" /\ ScenarioNext
     \/ subject \in {"updates", "steam"} /\ ServicesNext
     \/ subject = "captures" /\ CaptureNext
     \/ subject = "regions" /\ RegionalNext
  /\ OthersStay
  /\ subject \in {"scene", "frames"} => UNCHANGED <<buffers, unfetched, sequence, bursts>>
  /\ subject \in {"sounds", "frames"} => UNCHANGED visuals
  /\ subject = "sounds" => UNCHANGED resolving
  /\ subject = "scene" => ~telemetry' /\ UNCHANGED <<unlocked, pendingInputs>>
  /\ subject \in {"scene", "sounds"} => UNCHANGED debt /\ ~HostEvent

ProjectSpec == ProjectInit /\ [][ProjectNext]_project /\ DesktopFairness
=============================================================================
