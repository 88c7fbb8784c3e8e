CONSTANTS
  Threads = {t1, t2}
  Addrs = {a1, a2, a3}
  NoAddr = NoAddr
  Sizes <- MCSizes
  Bucket <- MCBucket
  Devices <- MCTwoDevices
  Enabled = TRUE
SYMMETRY Symmetric
SPECIFICATION MCSpec
INVARIANTS
  TypeOK
  OneOwner
  NothingLost
  FitsRequest
  FootprintWithinPeak
PROPERTY HeapSpec
