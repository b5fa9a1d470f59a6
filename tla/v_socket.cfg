SPECIFICATION Spec
CONSTANTS
  Path <- MCTwo
  MaxSockets = 2
  MaxSeen = 1
  MaxReports = 1
INVARIANT
  EntriesIndependent
