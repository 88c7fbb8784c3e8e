CONSTANTS
  Queues = {s1, s2}
  Tensors = {x, y}
  Bufs = {p, q}
  Ids = {i1, i2}
  MetalEvents = {e}
  NVals = 2
  MaxTape = 2
  Relies = {"events"}
SYMMETRY Symmetric
SPECIFICATION MSpec
INVARIANT ProgramOrder
