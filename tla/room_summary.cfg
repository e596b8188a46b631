\* A revocation notice, a session that ends meanwhile, and hibernation. Violated.
SPECIFICATION Spec
CONSTANTS
  t1 = t1  t2 = t2  NoValue = NoValue
  Ticket = {t1}
  Protected = {t1}
  MaxClients = 1
  MaxControls = 1
  MaxGeneration = 1
  MaxActive = 2
  MaxAdmissions = 2
  MaxTickets = 2
  MaxServerFrames = 1
  MaxFaults = 3
INVARIANTS SummaryAtMostOnce
CHECK_DEADLOCK FALSE
