\* Two operators approve the same e-mail.
CONSTANTS
  Enrollment = {e1}
  Worker = {w1, w2}
  NSteps = 2
  StepChannel <- EmailThenCall
  Domain <- OneDomain
  DomainLimit = 1
  ChannelLimit = 1
  Message = {}
  MayAbort = FALSE
  Running <- Handlers
  MaxVersion = 3
  MaxDelivered = 2
SPECIFICATION Spec
INVARIANTS
  AtMostOneDelivery
\* An outreach runtime with nothing left to do is idle.
CHECK_DEADLOCK FALSE
