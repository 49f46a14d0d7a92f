\* One handler at a time, none dies: every policy change can happen between two.
CONSTANTS
  Enrollment = {e1}
  Worker = {w1}
  NSteps = 2
  StepChannel <- EmailThenCall
  Domain <- OneDomain
  DomainLimit = 1
  ChannelLimit = 1
  Message = {m1, m2}
  MayAbort = FALSE
  Running <- Everything
  MaxVersion = 5
  MaxDelivered = 2
SPECIFICATION Spec
INVARIANTS
  AtMostOneDelivery
  ActiveHasWork
