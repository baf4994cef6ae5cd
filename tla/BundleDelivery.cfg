\* An install, a pull and a pack, with an edit, two failures and a death.
SPECIFICATION Spec
CONSTANTS
  i = i  l = l  k = k
  f1 = f1  f2 = f2  m1 = m1  m2 = m2
  Installs = {i}
  Pulls = {l}
  Packs = {k}
  Files = {f1, f2}
  Manifests = {m1, m2}
  Builds = {1}
  None = None
  Foreign = Foreign
  MaxEdits = 1
  MaxFaults = 2
  MaxDeaths = 1
SYMMETRY Symmetry
INVARIANTS Inv
PROPERTIES AnswersTrue
CHECK_DEADLOCK FALSE
