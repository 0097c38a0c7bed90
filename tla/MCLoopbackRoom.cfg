CONSTANTS
  Actions = {1, 2}
  Keys = {1}
  Timers <- MCTimers
  ChartStates = {"only"}
  InitialChartState = "only"
  MaxPendingInputs = 2
  MaxPresentationEvents = 2
  MinInteger <- MCMinInteger
  MaxInteger = 1
  Elapsed = Elapsed
  OnInput <- MCOnInput
  OnTimer <- MCOnTimer
  OnEvent <- MCOnEvent
  OnElapsed <- MCOnElapsed
  ProtocolVersion = 2
  MaxClients = 2
  MaxClientInputs = 2
  NoEnvelope = NoEnvelope
  MaxTick = 2
  MaxFaults = 2
  MaxSubmissions = 3
  MaxClientSequence = 1
  MaxEvents = 2
SPECIFICATION RoomSpec
INVARIANTS NoInputIsLost CleanRoomCommitsOnce EnvelopeIsSettled
