\* Two commands, a death in each, a failure, and a user who writes a file.
SPECIFICATION FairSpec
CONSTANTS
  p1 = p1  p2 = p2
  Procs = {p1, p2}
  Inodes = {1, 2, 3, 4, 5}
  Nothing = Nothing
  Torn = Torn
  EditPoints <- Compared
  FaultPoints <- Points
  MaxDeaths = 2
  MaxFaults = 1
  MaxWrites = 1
INVARIANTS ConfigInv
PROPERTIES AnswersTrue JournalDrains
