---------------------------- MODULE MCWorldRuntime ----------------------------
(* Two chunks of two generators in one place, and one chunk beside them. *)
EXTENDS WorldRuntime

MCChunks == 1..3

MCPlace == <<1, 1, 2>>

MCSimulated == {1}
=============================================================================
