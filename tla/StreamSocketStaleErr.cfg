CONSTANTS
  Users = {u1}
  Kinds = {"bytes", "bad"}
  MaxMsgs = 2
  MaxDirect = 0
  QueueSize = 2
  Units = 2
  Options <- SendOnly
INIT Init
NEXT Next
INVARIANT DropsOnlyRejected
CHECK_DEADLOCK FALSE
