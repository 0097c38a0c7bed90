CONSTANTS
  Actions = {1, 2, 3}
  Keys = {1}
  Timers <- MCTimers
  ChartStates = {"idle", "busy"}
  InitialChartState = "idle"
  MaxPendingInputs = 2
  MaxPresentationEvents = 2
  MinInteger <- MCMinInteger
  MaxInteger = 1
  Elapsed = Elapsed
  OnInput <- MCOnInput
  OnTimer <- MCOnTimer
  OnEvent <- MCOnEvent
  OnElapsed <- MCOnElapsed
  NoSave = NoSave
  MaxTick = 3
  MaxFaults = 2
  MaxSequence = 1
  MaxEvents = 2
SPECIFICATION Spec
INVARIANTS CleanReplayVerifies HashDeterminesState TimersKeepTime
PROPERTIES FailedTickKeepsInputs
