CONSTANTS
  Conds = {cf}
  Threads = {t1, t2, t3, t4}
  TimedSets <- MCTimedSets
  Nodes = {n1, n2, n3}
  None = None
  t1 = t1
SPECIFICATION Spec
CHECK_DEADLOCK FALSE
 
PROPERTIES IdealCond
