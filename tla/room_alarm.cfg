\* An admission that fails, and the alarm of the session beside it. Violated.
SPECIFICATION Spec
CONSTANTS
  t1 = t1  t2 = t2  NoValue = NoValue
  Ticket = {t1, t2}
  Protected = {t1}
  MaxClients = 2
  MaxControls = 1
  MaxGeneration = 1
  MaxActive = 2
  MaxAdmissions = 2
  MaxTickets = 2
  MaxServerFrames = 1
  MaxFaults = 0
INVARIANTS SessionHasAlarm
CHECK_DEADLOCK FALSE
