SPECIFICATION Spec
CONSTANTS
  Path <- MCPath
  MaxSockets = 2
  MaxSeen = 2
  MaxReports = 2
INVARIANTS
  TypeOK
  DescriptorsClosed
  ReachableConnected
PROPERTIES
  ReportsOncePerRequest
  RshutdownEnds
