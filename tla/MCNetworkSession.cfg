CONSTANTS
  p1 = p1
  c1 = c1
  c2 = c2
  Peers = {p1}
  Games <- MCGames
  MaxFaults = 2
  HistoryTicks = 2
  MaxTick = 3
  MaxInputs = 1
  MaxInFlight = 2
  Chunks = {c1, c2}
  MaxPendingDeltas = 1
  MaxCommits = 2
SPECIFICATION FairSpec
INVARIANTS SettledIsApplied
PROPERTIES ImplementsReplicas LoadsGoForward DivergenceIsCorrected PendingIsSettled
