--------------------------- MODULE HostDiagnostics ---------------------------
(* The failures the browser host collects (host-diagnostics.ts): the first ones, *)
(* as their codes; which tick each belongs to and its wording are left out.      *)
EXTENDS Integers, SequencesExt

CONSTANT MaximumRecorded

ASSUME RecordedAssumption == MaximumRecorded \in Nat

VARIABLE listed

DiagnosticsInit == listed = <<>>

\* What is reported, and what is thrown where nobody but the window catches it.
Report(codes) ==
  LET all == listed \o codes
  IN  listed' = SubSeq(all, 1, IF Len(all) < MaximumRecorded THEN Len(all) ELSE MaximumRecorded)

Listed(code) == code \in ToSet(listed) \/ Len(listed) = MaximumRecorded
=============================================================================
