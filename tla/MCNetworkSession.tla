--------------------------- MODULE MCNetworkSession ---------------------------
(* A session is about one use at a time: rooms that take inputs, rooms whose peers *)
(* predict, with a record of each tick or not, and chunks.                         *)
EXTENDS NetworkSession

CONSTANTS p1, c1, c2

MCGames ==
  {{"inputs"}, {"predicts"}, {"predicts", "records"}, {"chunks"}, {"chunks", "waits"}}
=============================================================================
