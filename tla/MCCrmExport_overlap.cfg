\* Two requests over two batches of one target.
CONSTANTS
  Target = {t1}
  Batch = {b1, b2}
  Worker = {w1, w2}
  Unplannable = {}
  Changing = {t1}
  MayAbort = TRUE
  MayTimeOut = TRUE
  EditStatus = {"exported"}
  EditExport = {}
  MaxAttempts = 2
SPECIFICATION Spec
SYMMETRY RequestSymmetry
INVARIANTS
  SucceededIsListed
  SucceededIsExported
