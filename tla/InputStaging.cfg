\* Two stages, an approval and an adapt, with two edits and a failure.
SPECIFICATION Spec
CONSTANTS
  Ordinary = {1}
  Sensitive = {2}
  Denied = {3}
  Neutral = {}
  None = None
  a = a
  Approvers = {a}
  Schemas = {1, 2}
  UserExceptions <- ExceptionLists
  UserApprovals <- ApprovalLists
  UserIgnores <- IgnoreLists
  UserContents = {"key", "symlink"}
  Checkouts <- FirstCheckouts
  MaxEdits = 2
  MaxFailures = 1
  MaxRuns = 2
INVARIANTS Inv
PROPERTIES AdaptedIsCurrent QuietRunsAgree
CHECK_DEADLOCK FALSE
