CONSTANTS
  Users = {u1, u2}
  Kinds = {"bytes"}
  MaxMsgs = 2
  MaxDirect = 1
  QueueSize = 2
  Units = 1
  Options <- Closes
INIT Init
NEXT Next
SYMMETRY Symmetry
INVARIANTS CloseCallbackOnce NoLostClose DelayedCloseDrains
CHECK_DEADLOCK FALSE
