CONSTANTS
  Calls = {k1, k2}
  None = None
  Contexts = {x1, x2}
  Heads = {hd1, hd2, hd3, hd4}
  c1 = c1
  c2 = c2
  Channels = {c1, c2}
  Workers = {w1, w2}
  Envs <- MCEnvs
  Goroutines = {k1, k2}
  Handles = {h1, h2, h3}
  Slots = {s1, s2}
  h1 = h1
  Onces <- MCOnces
  MaxEmits = 2
  MaxRemoves = 2
  Nil = Nil
  Loggers = {g1, g2, g3}
  Levels = {0, 2}
  Settings <- MCSettings
  Length <- MCLength
  FileMax = 3
  MaxTime = 2
  DayLength = 2
  Callers = {r1, r2, r3}
  MaxClients = 2
  Parts = {"rpc", "events", "heap", "list", "pool", "buffer", "receiver", "log", "listener"}
SPECIFICATION MCSpec
SYMMETRY Symmetry
INVARIANTS HandlerOnce ContextsMatch CallNotForgotten RepliesCounted CurrentLinked CarriedOutOnce
           HeapSound ListIsQueue Calibrated ReadsBack UnpackedInOrder ReceiveBufferSound LinesFiled ServeEndsQuietly
CHECK_DEADLOCK FALSE
