CONSTANTS
  Chunks <- MCChunks
  Place <- MCPlace
  JobStepsPerTick = 2
  GenerationSteps = 2
  MeshSteps = 2
  TickLimit = 10
  Simulated <- MCSimulated
  LastRequest = 3
SPECIFICATION FairSpec
INVARIANTS JobsMatchChunks SubmissionOrderIsIrrelevant UpdatesKeepCadence
PROPERTIES RequestedBecomesResident
