----------------------------- MODULE RasterCapture -----------------------------
(***************************************************************************)
(* game capture --raster: the bundle of the game is built and shown in a   *)
(* hidden window (raster-capture.ts, capture.cjs), inspected, photographed *)
(* until two frames agree, and compared with the baseline the project has  *)
(* for the scale of the device, which --update-baseline replaces.          *)
(*                                                                         *)
(* A frame is the version of the game it shows and its scale; the text     *)
(* scale and the viewport, which belong to the key as well, are left out.  *)
(* What an inspection may find fault with is one Boolean.  Bound: one      *)
(* capture at a time, of one project: the bundle is a directory of the     *)
(* engine, and another project's build would replace it.                   *)
(***************************************************************************)
EXTENDS Integers

CONSTANTS
  Scales,      \* the device scales
  Tolerance,   \* the versions a picture may differ by within the declared tolerance
  MaxVersions, MaxCaptures

ASSUME CaptureAssumption == {Tolerance, MaxVersions, MaxCaptures} \subseteq Nat

VARIABLES
  version,   \* the game as its author has it
  bundle,    \* the version in hosts/browser/dist
  shot,      \* where the capture is: "idle", "loading", "ready", "settling", "framed", "approving"
  ask,       \* the scale and the update asked for
  page,      \* the window: its scale, what it drew and painted, whether it reported a failure, and
             \* how many pictures missed the repaint
  flawed,    \* whether the inspection found an error
  previous,  \* the last frame
  baselines, \* the approved frame of each scale
  approvals, \* history: the captures that wrote them
  judgement,   \* how the last capture ended
  captures   \* the captures so far

photographs == <<version, bundle, shot, ask, page, flawed, previous, baselines, approvals, judgement, captures>>

Absent == [kind |-> "absent"]
Illegible == [kind |-> "illegible"]
AnyScale == 0

Frame(v, s) == [kind |-> "frame", version |-> v, scale |-> s]
\* What a window shows before the page has drawn anything.
Boot(s) == Frame(0, s)

Closed == [scale |-> AnyScale, drawn |-> Absent, painted |-> Absent, failed |-> FALSE, fetching |-> FALSE,
           missed |-> 0]

CaptureInit ==
  /\ version = 1 /\ bundle = 0
  /\ shot = "idle" /\ ask = [scale |-> AnyScale, update |-> FALSE]
  /\ page = Closed /\ flawed = FALSE /\ previous = Absent
  /\ baselines = [s \in Scales |-> Absent] /\ approvals = [s \in Scales |-> Absent]
  /\ judgement = "none" /\ captures = 0

EditGame ==
  /\ version < MaxVersions /\ version' = version + 1
  /\ UNCHANGED <<bundle, shot, ask, page, flawed, previous, baselines, approvals, judgement, captures>>

\* A baseline that nothing can read has to be removed by hand.
RemoveBaseline(s) ==
  /\ shot = "idle" /\ baselines[s] = Illegible
  /\ baselines' = [baselines EXCEPT ![s] = Absent]
  /\ UNCHANGED <<version, bundle, shot, ask, page, flawed, previous, approvals, judgement, captures>>

\* A capture ends, and its window is destroyed.
EndsAs(end) ==
  /\ shot' = "idle" /\ judgement' = end
  /\ page' = Closed /\ flawed' = FALSE /\ previous' = Absent

\* A build that fails may have replaced the bundle all the same.
BuildBundle ==
  /\ shot = "idle" /\ captures < MaxCaptures /\ captures' = captures + 1
  /\ \E scale \in Scales \union {AnyScale}, update, built \in BOOLEAN :
       /\ ask' = [scale |-> scale, update |-> update]
       /\ \/ built /\ shot' = "loading" /\ judgement' = "none" /\ UNCHANGED <<page, flawed, previous>>
          \/ ~built /\ EndsAs("failed")
  /\ bundle' \in {bundle, version} /\ (shot' = "loading" => bundle' = version)
  /\ UNCHANGED <<version, baselines, approvals>>

\* The page draws one frame and calls itself ready; it may still be fetching an asset.  The
\* scale is that of the display, unless it was asked for, and then a driver may ignore it.
LoadPage ==
  /\ shot = "loading"
  /\ \E scale \in Scales, failed, fetching \in BOOLEAN :
       page' = [scale |-> scale, drawn |-> Frame(bundle, scale), painted |-> Boot(scale),
                failed |-> failed, fetching |-> fetching, missed |-> 0]
  /\ shot' = "ready"
  /\ UNCHANGED <<version, bundle, ask, flawed, previous, baselines, approvals, judgement, captures>>

\* An asset that arrives is not drawn any more, and one that does not is reported.
FetchEnds ==
  /\ page.fetching
  /\ \E failed \in BOOLEAN :
       page' = [page EXCEPT !.fetching = FALSE, !.failed = @ \/ failed]
  /\ UNCHANGED <<version, bundle, shot, ask, flawed, previous, baselines, approvals, judgement, captures>>

\* What the page knows of itself is read before it is photographed.
Inspect ==
  /\ shot = "ready" /\ shot' = "settling"
  /\ \E mismatch \in BOOLEAN : flawed' = (page.failed \/ mismatch)
  /\ UNCHANGED <<version, bundle, ask, page, previous, baselines, approvals, judgement, captures>>

\* Defect: the first frame will do.
AgreesAtOnce(frame) == frame # Absent

\* Two consecutive frames that are the same.
Agrees(frame) == previous = frame

\* A repaint is asked for, and waited for as long as it mostly takes: the picture is of what
\* the window painted, this time or before.
TakeFrame ==
  /\ shot = "settling"
  /\ \E frame \in {page.painted, page.drawn} :
       /\ previous' = frame
       /\ shot' = IF Agrees(frame) THEN "framed" ELSE "settling"
       /\ page' = [page EXCEPT !.painted = frame, !.missed = IF frame = page.drawn THEN @ ELSE @ + 1]
  /\ UNCHANGED <<version, bundle, ask, flawed, baselines, approvals, judgement, captures>>

\* The page does not load, is never ready, or its frames never settle before the deadline.
MissDeadline ==
  /\ shot \in {"loading", "ready", "settling"}
  /\ EndsAs("failed")
  /\ UNCHANGED <<version, bundle, ask, baselines, approvals, captures>>

CaptureValid == ~flawed /\ ask.scale \in {AnyScale, page.scale}

\* Nothing is within the tolerance of the blank window but itself.
WithinTolerance(a, b) ==
  \/ a = b
  \/ a.version # 0 /\ b.version # 0 /\ (a.version - b.version) \in (0 - Tolerance)..Tolerance

\* A frame without a baseline is a warning, and so is a difference that an update was asked
\* for; a baseline that does not decode is an error, whatever was asked.
JudgeFrame ==
  /\ shot = "framed"
  /\ LET baseline == baselines[page.scale]
         same == baseline.kind = "frame" /\ WithinTolerance(baseline, previous)
     IN \/ /\ baseline # Illegible /\ ~same /\ ask.update /\ CaptureValid
           /\ shot' = "approving" /\ UNCHANGED <<page, flawed, previous, judgement>>
        \/ /\ same /\ CaptureValid /\ EndsAs("passed")
        \/ /\ baseline = Absent /\ ~ask.update /\ CaptureValid /\ EndsAs("unproven")
        \/ /\ \/ ~CaptureValid
              \/ baseline = Illegible
              \/ baseline.kind = "frame" /\ ~same /\ ~ask.update
           /\ EndsAs("failed")
  /\ UNCHANGED <<version, bundle, ask, baselines, approvals, captures>>

WriteBaseline ==
  /\ shot = "approving"
  /\ baselines' = [baselines EXCEPT ![page.scale] = previous]
  /\ approvals' = [approvals EXCEPT ![page.scale] =
       [kind |-> "approval", asked |-> ask.update, sound |-> CaptureValid, missed |-> page.missed,
        frame |-> Frame(bundle, page.scale)]]
  /\ EndsAs("passed")
  /\ UNCHANGED <<version, bundle, ask, captures>>

\* The command is stopped while it writes the file in place.
TearBaseline ==
  /\ shot = "approving"
  /\ baselines' = [baselines EXCEPT ![page.scale] = Illegible]
  /\ EndsAs("none")
  /\ UNCHANGED <<version, bundle, ask, approvals, captures>>

CaptureNext ==
  \/ EditGame \/ BuildBundle \/ LoadPage \/ FetchEnds \/ Inspect \/ TakeFrame \/ MissDeadline
  \/ JudgeFrame \/ WriteBaseline \/ TearBaseline
  \/ \E s \in Scales : RemoveBaseline(s)

CaptureSpec == CaptureInit /\ [][CaptureNext]_photographs

-----------------------------------------------------------------------------
(* Properties *)

\* Whatever captures fail or are stopped: the baseline of a scale is a frame of that scale,
\* drawn by a version of the game whose capture was asked to approve it and had no error when
\* it was inspected.  One picture that is taken before the window is repainted is not
\* approved; two in a row agree like any others, and then the baseline is the blank window.
BaselinesAreApproved ==
  \A s \in Scales :
    baselines[s].kind = "frame" =>
      /\ approvals[s].kind = "approval" /\ approvals[s].asked /\ approvals[s].sound
      /\ baselines[s].scale = s
      /\ \/ baselines[s] = approvals[s].frame
         \/ baselines[s] = Boot(s) /\ approvals[s].missed > 1
=============================================================================
