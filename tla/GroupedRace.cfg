CONSTANTS
  h1 = h1
  h2 = h2
  Callers <- MCCallers
  Streams <- MCStreams
  Events <- MCEvents
  NS = 2
  Queues = {s1, s2}
  Tensors = {x, y}
  Bufs = {p, q}
  Ids = {i1, i2}
  MetalEvents = {e}
  NVals = 2
  MaxTape = 2
  Relies = {}
  Machines = {"cuda"}
  Programs <- MCFirstCalls
SPECIFICATION SSpec
INVARIANT ThreadSafeInit
CHECK_DEADLOCK FALSE
