SPECIFICATION FairSpec
CONSTANTS
  c1 = c1
  c2 = c2
  c3 = c3
  s1 = s1
  s2 = s2
  Client = {c1, c2, c3}
  Session = {s1, s2}
  MaxSessions = 2
  IsFakePort = FALSE
INVARIANTS
  SlotsConserved
  ExchangeOK
  SessionWakeups
PROPERTIES
  RequestsAnswered
  ClosedSessionsEnd
CHECK_DEADLOCK FALSE
