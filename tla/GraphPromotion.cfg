\* Deaths, failures and their rollbacks and recoveries, two generations.
SPECIFICATION RetriedSpec
CONSTANTS
  g1 = g1  g2 = g2  d1 = d1  d2 = d2
  t1 = t1  t2 = t2  t3 = t3  t4 = t4
  Generations = {g1, g2}
  Digests = {d1, d2}
  GraphDigest <- OneToOne
  Transactions = {t1, t2, t3, t4}
  Absent = Absent
  Torn = Torn
  NoJournal = NoJournal
  FaultPoints <- UntilCommit
  MaxCrashes = 2
  MaxFaults = 2
INVARIANTS Inv FailureRestoresPrevious LeftoversBounded
PROPERTIES GraphNeverLost ImplementsStore ImplementsDirectory JournalsDrain
