\* Four runs of any of three commits, two lost requests, a lost runner, and a
\* consumer.
SPECIFICATION Spec
CONSTANTS
  c1 = c1  c2 = c2  c3 = c3  s1 = s1  s2 = s2  r1 = r1
  Commits = {c1, c2, c3}
  SourceOf <- Projection
  Builds = {1}
  Consumers = {r1}
  Keep = 1
  Page = 3
  None = None
  MaxRuns = 4
  MaxFaults = 2
  MaxDeaths = 1
INVARIANTS Inv
PROPERTIES TagCarried PublishedWhole
CHECK_DEADLOCK FALSE
