\* Two fetches of one source; two workers over three items, two incidents and one decision;
\* two workers over two items of one event and two operator requests.
CONSTANTS
  s1 = s1
  x1 = x1
  x2 = x2
  x3 = x3
  i1 = i1
  i2 = i2
  Source = {s1}
  AdapterOf <- Adapters
  Document <- Documents
  Fetcher = {w1, w2}
  MaxFailures = 2
  Item = {x1, x2, x3}
  ArticleOf <- Articles
  FamilyOf <- Families
  Authoritative = {x2}
  IncidentsOf <- Reports
  Incident = {i1, i2}
  Manual <- Manuals
  Company = {"acme"}
  DecisionKeys = {k1}
  IncidentWorker = {w1, w2}
  MaxIncidentVersion = 2
  PassDies = TRUE
  EventItem = {x1, x2}
  RawOf <- Raws
  ReuseOf <- Reuses
  HintOf <- Hints
  Instants = {0, 1, 2, 3, 4, 5, 6}
  City = {"", "c"}
  Postcode = {"p"}
  EventKeys = {n1, n2}
  ManualReuse <- OneReuse
  EventWorker = {w1, w2}
  MaxEventVersion = 2
SPECIFICATION IntakeSpec
SYMMETRY IntakeSymmetry
INVARIANTS
  OneCanonical
  HealthIsOfLastFetch
  ParsedIsLinked
  CorroborationHasGrounds
  CoordinatesMatchAddress
  ResolvedTimeIsCertain
PROPERTIES
  RejectedStaysRejected
CHECK_DEADLOCK FALSE
