\* Syncs of two projects and a reader, with deaths, failures and Graphify's own writes.
SPECIFICATION FairSpec
CONSTANTS
  k1 = k1  k2 = k2  s1 = s1  s2 = s2  t1 = t1  p1 = p1  p2 = p2
  Keys = {k1, k2}
  Snapshots = {s1, s2, t1}
  KeyOf <- TwoProjects
  NoEntry = NoEntry
  Absent = Absent
  Foreign = Foreign
  NoJournal = NoJournal
  TornJournal = TornJournal
  Syncs = {p1, p2}
  Healthy <- Checkouts
  Readers = {r1}
  FaultPoints <- Failures
  CrashPoints <- Deaths
  ForeignPoints <- Moments
  MaxGeneration = 2
  MaxCrashes = 1
  MaxFaults = 1
  MaxForeign = 1
INVARIANTS Inv OneGeneration EntriesAvailable AnswersHold
PROPERTIES CapturesGoForward ImplementsStore JournalsDrain
