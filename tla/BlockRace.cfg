CONSTANTS
  T = 2
  K = 2
  E = 3
  Scores = {1, 2}
  NotWritten = NotWritten
  ScatterCalls = {}
  Calls = {}
  Accepts <- FirstPhaseAccepts
  Result <- Output
  Warps = 3
  Rounds = 2
  Helpers = {"blk_reduce", "row_sum"}
  HostThreads = {}
  ConvKind <- MCConvKind
  Algorithms = {}
  CallsEach = 0
  SmallLimit <- MCSmallLimit
  Granule <- MCGranule
  WordMod <- MCWordMod
  MaxRequest <- MCLastWord
SPECIFICATION KSpec
INVARIANT WarpsAgree
CHECK_DEADLOCK FALSE
