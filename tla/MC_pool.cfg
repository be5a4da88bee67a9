SPECIFICATION FairSpec
CONSTANTS
  Worker = {w1, w2}
  Task = {t1, t2, t3}
  Nobody = Nobody
PROPERTIES ImplementsTaskSet CloseReturns ExitEnds
CHECK_DEADLOCK FALSE
