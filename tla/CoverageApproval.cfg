\* Two approvals, with three edits and two failures.
SPECIFICATION ApprovalSpec
CONSTANTS
  Ordinary = {1}
  Sensitive = {2}
  Denied = {}
  Neutral = {}
  None = None
  a = a  b = b
  Approvers = {a, b}
  Schemas = {2}
  UserExceptions <- ExceptionLists
  UserApprovals <- ApprovalLists
  UserIgnores <- IgnoreLists
  UserContents = {"text", "flagged"}
  Checkouts <- FirstCheckouts
  MaxEdits = 3
  MaxFailures = 2
SYMMETRY Symmetry
INVARIANTS ApprovalInv
CHECK_DEADLOCK FALSE
