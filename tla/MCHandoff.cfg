\* Exports: one request at a time; t2 cannot be planned; requests die, calls time out, operators
\* edit.  Meetings: two requests at a time over one meeting and its follow-up task.
CONSTANTS
  Target = {t1, t2}
  Batch = {b1}
  Worker = {w1}
  Unplannable = {t2}
  Changing = {t1, t2}
  MayAbort = TRUE
  MayTimeOut = TRUE
  EditStatus = {"pending_export", "invalidated", "exported"}
  EditExport = {"not_exported"}
  MaxAttempts = 2
  Meeting = {m1}
  MeetingWorker = {r1, r2}
  OutcomeKey = {k1}
  Outcome = {"completed"}
  PacketKey = {}
  FollowUp = {f1}
  MaxBookings = 2
  MaxVersion = 2
  DieRequests = TRUE
SPECIFICATION HandoffSpec
SYMMETRY HandoffSymmetry
INVARIANTS
  CompletedIsSettled
  
  CanceledIsUnbooked
PROPERTIES
  SuccessNotRepeated
  CallsThenClaims
CHECK_DEADLOCK FALSE
