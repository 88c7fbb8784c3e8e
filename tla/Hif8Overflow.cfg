CONSTANTS
  T = 2
  K = 2
  E = 3
  Scores = {1, 2}
  NotWritten = NotWritten
  ScatterCalls = {}
  Calls <- MCHif8Calls
  Accepts <- FirstPhaseAccepts
  Result <- Output
  Warps = 3
  Rounds = 2
  Helpers = {}
  HostThreads = {}
  ConvKind <- MCConvKind
  Algorithms = {}
  CallsEach = 0
  SmallLimit <- MCSmallLimit
  Granule <- MCGranule
  WordMod <- MCWordMod
  MaxRequest <- MCLastWord
SPECIFICATION KSpec
INVARIANT OverflowIsInfinity
CHECK_DEADLOCK FALSE
