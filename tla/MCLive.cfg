\* Two requests that run to their end, on one batch of two targets; two passes and an operator
\* over two watched companies.
CONSTANTS
  Target = {t1, t2}
  Batch = {b1}
  Worker = {w1, w2}
  Unplannable = {}
  Changing = {}
  MayAbort = FALSE
  MayTimeOut = FALSE
  EditStatus = {}
  EditExport = {}
  MaxAttempts = 2
  WatchKey = {k1, k2}
  Companies = {k1, k2}
  Pass = {p1, p2}
  Operator = {o1}
  PassSize = 1
  SearchOutcome = {"completed"}
  MaxPatches = 2
  MaxDeaths = 1
SPECIFICATION LiveSpec
PROPERTIES
  RunningCompletes
  
CHECK_DEADLOCK FALSE
