CONSTANTS
  Users = {u1}
  Kinds = {"bytes"}
  MaxMsgs = 2
  MaxDirect = 0
  QueueSize = 2
  Units = 2
  Options <- SendAndClose
INIT Init
NEXT Next
INVARIANT DelayedCloseSendsAll
CHECK_DEADLOCK FALSE
