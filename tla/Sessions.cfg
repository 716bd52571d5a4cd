CONSTANTS
  Users = {u1}
  Kinds = {"obj", "bad"}
  WsKinds = {"bytes", "bad"}
  MaxMsgs = 2
  MaxDirect = 1
  QueueSize = 2
  Units = 1
  Options <- Timeouts
SPECIFICATION MCSpec
INVARIANTS WireInOrder DropsOnlyRejected
PROPERTIES CloseCompletes
CHECK_DEADLOCK FALSE
