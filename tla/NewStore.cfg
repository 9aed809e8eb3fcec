SPECIFICATION Spec
CONSTANTS
  Pings = {p1, p2}
  Operator = operator
  App = app
  Casts = {{p1, p2}, {p1, app}, {operator, app}}
  MaxJobs = 2
  MaxEvents = 1
  Attempts = 2
INVARIANTS
  OnboardingIsWorkedOn
  PendingStartsOnce
  CatalogFitsCart
  ServedStoreIsSafe
PROPERTIES
  StoreIsDecided
\* Jobs and events are bounded: the run stops when the last job is over.
CHECK_DEADLOCK FALSE
