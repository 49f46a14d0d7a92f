\* Two requests or passes at a time: over two candidates; one contact and its company; one score
\* key; three alerts; three messages, one without a Message-ID; one sequence and an
\* enrollment; two prospects and two addresses.
CONSTANTS
  c1 = c1
  c2 = c2
  e1 = e1
  a1 = a1
  Candidate = {c1, c2}
  Key = {k1, k2}
  Analyst = {w1, w2}
  Snapshot <- Candidates
  Bulk <- BulkOfAll
  MaxRevision = 3
  Contact = {c1}
  Payloads <- People
  EntityCase = {e1}
  CasePayload <- Cases
  Address = {a1}
  PatternOf <- Patterns
  EmailRequest = {k1}
  VerifierAnswer <- Answers
  LocalProfile = FALSE
  Enricher = {w1, w2}
  MaxChecks = 2
  ScoreKey = {k1}
  ScoreRequests <- Requests
  Scorer = {w1, w2}
  Alert = {1, 2, 3}
  Sender = {w1, w2}
  AlertLimit = 2
  MaxMailed = 2
  Mail = {1, 2, 3}
  Nameless = {3}
  Poller = {w1, w2}
  PollLimit = 2
  Editor = {w1, w2}
  StepOrder = {1, 2}
  DefinedEnrollment = {n1}
  MaxDefinition = 3
  Prospect = {"p1", "p2"}
  CrmAddress = {"m1", "m2"}
  CompanyOf <- Employers
  Importer = {w1, w2}
SPECIFICATION ActivationSpec
SYMMETRY ActivationSymmetry
INVARIANTS
  DecidedIsClosed
  TargetIsApproved
  AsideIsInReview
  
  RoutedIsApprovable
  MailedTwiceWasCut
  
  StandsOnOwnVersion
  EnrolledIsTheTarget
CHECK_DEADLOCK FALSE
