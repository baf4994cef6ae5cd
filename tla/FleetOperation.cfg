\* One command over two projects, with a third directory beside them.
SPECIFICATION Spec
CONSTANTS
  Projects = {1, 2}
  d1 = d1  d2 = d2  d3 = d3
  Dirs = {d1, d2, d3}
  Own <- Opened
  UserManifests <- Manifests
  FirstManifest <- Written
  FirstEntries <- Entered
  MaxParallel = 2
  MaxEdits = 1
  MaxWorks = 2
  MaxFailures = 1
  None = None
INVARIANTS Inv
PROPERTIES CommandEnds
CHECK_DEADLOCK FALSE
