\* Two sessions of two tickets, two publications and two controls, with one disturbance anywhere.
SPECIFICATION Spec
CONSTANTS
  t1 = t1  t2 = t2  NoValue = NoValue
  Ticket = {t1, t2}
  Protected = {t1}
  MaxClients = 2
  MaxControls = 2
  MaxGeneration = 2
  MaxActive = 2
  MaxAdmissions = 2
  MaxTickets = 2
  MaxServerFrames = 1
  MaxFaults = 1
INVARIANTS NotifiedSessionsEnded LiveSessionIsOwned SessionsAreCurrent RoutedSessionHasTicket
PROPERTIES NoFrameOfRevokedRoute EndedStaysEnded
CHECK_DEADLOCK FALSE
