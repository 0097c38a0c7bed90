CONSTANTS
  music = music
  blip = blip
  v1 = v1
  v2 = v2
  crate = crate
  missing = missing
  r1 = r1
  r2 = r2
  MaxSavedTick = 1
  MaxCheckpoints = 1
  MaxRequests = 1
  MaximumRecorded = 2
  Sounds = {music, blip}
  Loops = {music}
  Autoplays = {music}
  Fetched = {music}
  Synths = {blip}
  Visuals = {v1, v2}
  Assets = {crate}
  UndeclaredAsset = missing
  Intents <- MCIntents
  MaxBursts = 1
  MaxSamples = 1
  TicksPerFrame = 1
  LongestGap = 2
  MaxDebt = 1
  MaxEvents = 2
  MaxPendingInputs = 1
  Families <- MCFamilies
  DependsOn <- MCDependsOn
  Bundles <- MCBundles
  Flushes = {r1, r2}
  MaxEdits = 2
  MaxBuilds = 2
  MaxRevisions = 3
  Rooms = {r1, r2}
  MaxRaised = 3
  RegionCount = 2
  Migrations <- MCMigrations
  RegisteredSchemas <- MCSchemas
  HeadlessWidth = 1280
  HeadlessButton = 56
  Projects <- MCProjectsOf
  MaxRewrites = 1
  Workspaces <- MCWorkspacesOf
  Terminals = {r1, r2}
  MaxCommands = 3
  MaxChanges = 1
  InGit = TRUE
  MaxSteps = 3
  Checks = {r1, r2}
  MaxPackets = 2
  MaxWait = 2
  Scales = {1, 2}
  Tolerance = 1
  MaxVersions = 3
  MaxCaptures = 2
  RegionPlaces = {1, 2}
  Pieces = {1, 2}
  DeltaPayloads = {1, 2}
  Generators = {1, 2}
  CommandBatches <- MCBatches
SPECIFICATION ProjectSpec
INVARIANTS SavedIsReadable ClosedIsSaved LoopsFollowEvents FailuresAreListed HandlesAreSound  ForgedIsCurrent ApprovedHasPassed SessionIsSettled PromisesAreKept DocumentsAreSound CleanWorkspacesBuild AcceptedEvidenceIsOfThisWorktree EvidenceIsOfOneMoment ServicesAnswerOnce BaselinesAreApproved ReferencesHold
PROPERTIES ClosingEnds
CHECK_DEADLOCK FALSE
