SPECIFICATION Spec
CONSTANTS
  Debuggee = {d1, d2}
  Others = {o}
  Breakpoints = TRUE
  AttachOnStartup = {TRUE, FALSE}
INVARIANTS
  StoppedMeansHeld
PROPERTIES
  CommandsReturn
CHECK_DEADLOCK FALSE
