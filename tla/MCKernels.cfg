CONSTANTS
  T = 2
  K = 2
  E = 3
  Scores = {1, 2}
  NotWritten = NotWritten
  ScatterCalls <- MCScatterCalls
  Calls <- MCCalls
  Accepts <- FirstPhaseAccepts
  Result <- Output
  Warps = 3
  Rounds = 2
  Helpers = {"blk_sum"}
  HostThreads = {"h1", "h2", "h3"}
  ConvKind <- MCConvKind
  Algorithms = {"implicit", "winograd"}
  CallsEach = 2
  SmallLimit <- MCSmallLimit
  Granule <- MCGranule
  WordMod <- MCWordMod
  MaxRequest <- MCLastWord
SPECIFICATION KSpec
INVARIANTS
  ScattersCombine
  OneWriterWins
  WarpsAgree
  ExecutesWhatItSized
  CoversRequest
  WasteBounded
  ComputesBucketOf
  GatePicksBest
  SlotsExclusive
  ExpertsCombined
  GradientsFollowRoutes
PROPERTIES
  ShapesCompute
  WindowsCompute
  IndexingComputes
  ConvolutionsCompute
  RowsCompute
  ElementsCompute
  AttentionComputes
  MatmulsCompute
  GridsDrain
  Terminates
CHECK_DEADLOCK FALSE
