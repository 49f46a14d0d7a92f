\* The mail server reports an error.
CONSTANTS
  Enrollment = {e1}
  Worker = {w1}
  NSteps = 2
  StepChannel <- EmailThenCall
  Domain <- OneDomain
  DomainLimit = 1
  ChannelLimit = 1
  Message = {}
  MayAbort = FALSE
  Running <- Handlers
  MaxVersion = 3
  MaxDelivered = 2
SPECIFICATION Spec
INVARIANTS
  NotStranded
\* An outreach runtime with nothing left to do is idle.
CHECK_DEADLOCK FALSE
