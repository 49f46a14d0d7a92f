\* Two overlapping handlers on one enrollment, any of which may die.
CONSTANTS
  Enrollment = {e1}
  Worker = {w1, w2}
  NSteps = 2
  StepChannel <- EmailThenCall
  Domain <- OneDomain
  DomainLimit = 1
  ChannelLimit = 1
  Message = {m1}
  MayAbort = TRUE
  Running <- SuppressionOnly
  MaxVersion = 3
  MaxDelivered = 2
SYMMETRY WorkerSymmetry
SPECIFICATION Spec
INVARIANTS
  TypeOK
  StepsInOrder
  CompletedMeansDone
  SentIsReal
PROPERTIES
  NoDeliveryStartsSuppressed
\* An outreach runtime with nothing left to do is idle: a suppressed contact that was
\* never enrolled, or an enrollment that has ended.
CHECK_DEADLOCK FALSE
