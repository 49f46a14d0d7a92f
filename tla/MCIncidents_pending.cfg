CONSTANTS
  x1 = x1
  x2 = x2
  x3 = x3
  i1 = i1
  i2 = i2
  k1 = k1
  k2 = k2
  Item = {x1, x2, x3}
  ArticleOf <- Articles
  FamilyOf <- Families
  Authoritative = {}
  IncidentsOf <- Reports
  Incident = {i1}
  Manual <- Manuals
  Company = {"acme"}
  DecisionKeys = {}
  IncidentWorker = {w1}
  MaxIncidentVersion = 3
  PassDies = FALSE
SPECIFICATION LiveIncidentsSpec
PROPERTY PendingIsSettled
CHECK_DEADLOCK FALSE
