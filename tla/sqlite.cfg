SPECIFICATION Spec
CONSTANTS
  p1 = p1
  p2 = p2
  home = home
  other = other
  Process <- MCProcess
  Early <- MCEarly
  Files <- MCFiles
  Home = home
  Hosts <- MCHosts
  WantsCoreWarnings = TRUE
  MaxRequests = 2
  MaxEvents = 1
  MaxFaults = 2
  MaxDepth = 4
INVARIANTS
  RequestOnceOrTwice
  ChildrenOwned
  ReentryBounded
  ConnectionsClosed
PROPERTY
  CallReturns
