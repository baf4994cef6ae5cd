\* A refresh, an install and a pull while the sources are edited.
SPECIFICATION FairSpec
CONSTANTS
  Refreshes = {r1}
  Installs = {i1}
  Pulls = {u1}
  Sources = {a, b}
  Contents = {x}
  MaxEpoch = 3
  None = None
  Absent = Absent
  Torn = Torn
  FaultPoints <- Anywhere
  CrashPoints <- Deaths
  MaxEdits = 1
  MaxCrashes = 1
  MaxFaults = 1
INVARIANTS Inv
PROPERTIES FreshAnswers EpochsGrowUninterrupted RecordsFollowGraph RefreshSucceeds
