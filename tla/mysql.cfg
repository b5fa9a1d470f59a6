SPECIFICATION Spec
CONSTANTS
  p1 = p1
  p2 = p2
  home = home
  other = other
  Process <- MCProcess
  Databases <- MCDatabases
  Enabled = TRUE
  Hosts <- MCHosts
  MaxRequests = 2
  MaxEvents = 1
  MaxFaults = 1
INVARIANTS
  TypeOK
  SessionsHeld
  CleanRequestStored
PROPERTIES
  StoresRequests
  CallReturns
