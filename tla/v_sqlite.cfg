SPECIFICATION Spec
CONSTANTS
  p1 = p1
  p2 = p2
  home = home
  other = other
  Process <- MCProcess
  Early <- MCEarly
  Files <- MCFiles
  Home = home
  Hosts <- MCHosts
  WantsCoreWarnings = TRUE
  MaxRequests = 1
  MaxEvents = 1
  MaxFaults = 1
  MaxDepth = 4
INVARIANT
  RequestOnce
