\* Three enrollments compete for a limit of one e-mail a day.
CONSTANTS
  Enrollment = {e1, e2, e3}
  Worker = {w1, w2}
  NSteps = 1
  StepChannel <- EmailOnly
  Domain <- OneDomain
  DomainLimit = 1
  ChannelLimit = 1
  Message = {}
  MayAbort = FALSE
  Running <- Sending
  MaxVersion = 2
  MaxDelivered = 1
SYMMETRY EnrollmentSymmetry
SPECIFICATION Spec
INVARIANTS
  RateLimitBounded
\* An outreach runtime with nothing left to do is idle.
CHECK_DEADLOCK FALSE
