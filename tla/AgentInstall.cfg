\* Two installers of different packages and an uninstaller at once, a user, a
\* failure and a death.
SPECIFICATION AgentSpec
CONSTANTS
  p1 = p1  p2 = p2  u = u  v1 = v1  v2 = v2
  Installers = {p1, p2}
  Uninstallers = {u}
  Ships <- Shipping
  Original = v1
  NoTree = NoTree
  None = None
  TornResource = TornResource
  FailPoints <- Active
  MaxEdits = 1
  MaxFailures = 1
  MaxDeaths = 1
INVARIANTS AgentInv WritingsKept
PROPERTIES AnswersTrue
CHECK_DEADLOCK FALSE
