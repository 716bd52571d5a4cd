CONSTANTS
  Users = {u1, u2}
  Tasks = {k1, k2}
  OpSets <- MCOpSets
  MaxMsgs = 2
  MaxDirect = 1
  QueueSize = 2
SPECIFICATION Spec
INVARIANTS SendersSound WireInOrder IoAccounted
SYMMETRY Symmetry
CHECK_DEADLOCK FALSE
