CONSTANTS
  T = 2
  K = 2
  E = 3
  Scores = {1, 2}
  NotWritten = NotWritten
  ScatterCalls = {}
  Calls = {}
  Accepts <- FirstPhaseAccepts
  Result <- Output
  Warps = 3
  Rounds = 2
  Helpers = {}
  HostThreads = {"h1", "h2", "h3"}
  ConvKind <- MC3dKind
  Algorithms = {"implicit", "winograd"}
  CallsEach = 2
  SmallLimit <- MCSmallLimit
  Granule <- MCGranule
  WordMod <- MCWordMod
  MaxRequest <- MCLastWord
SPECIFICATION KSpec
INVARIANT ExecutesWhatItSized
CHECK_DEADLOCK FALSE
