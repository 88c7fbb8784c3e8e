CONSTANTS
  Addrs = {a1, a2, a3, a4, a5}
  Few = {a1, a2, a3, a4}
  NoAddr = NoAddr
  Args = {x, y}
  NoArgs = NoArgs
  MaxLost = 2
  Programs <- MCMeshgrid
  GivesUp <- Operators
SYMMETRY Symmetric
SPECIFICATION Spec
INVARIANT CallersTensorsLive
