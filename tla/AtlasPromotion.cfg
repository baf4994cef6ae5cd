\* Deaths, failures, recoveries and a user who changes the pages meanwhile.
SPECIFICATION FairSpec
CONSTANTS
  a1 = a1  a2 = a2  b1 = b1  da = da  db = db
  e1 = e1  e2 = e2  t1 = t1  t2 = t2
  Atlases = {a1, a2, b1}
  Digests = {da, db}
  AtlasDigest <- TwoDigests
  Edits = {e1, e2}
  Transactions = {t1, t2}
  Absent = Absent
  Torn = Torn
  NoJournal = NoJournal
  FaultPoints <- UntilCommit
  EditPoints <- BeforeComparison
  LatePoints <- BeforeLastLook
  MaxCrashes = 2
  MaxFaults = 2
INVARIANTS Inv EditsKept
PROPERTIES ImplementsStore JournalsDrain
