SPECIFICATION ComposedSpec
CONSTANTS
  DriverList <- MCDrivers
  ExceptionMode <- MCMode
  ErrorReporting <- MCReporting
  StoreSilenced <- MCNone
  Elasticsearch = FALSE
  ActiveChoices <- MCOn
  EnabledChoices <- MCWithOrWithout
  RuntimeSwitch <- MCNone
  EventEnabled = TRUE
  StatsEnabled <- MCSocketStats
  Noisy <- MCNoisy
  Extractors <- MCNoisy
  Resolving <- MCNone
  UncaughtPrefix = TRUE
  Unwinds = FALSE
  ToggleEvents = FALSE
  Boot = 0
  Threshold = 1
  MaxRequests = 2
  MaxEvents = 2
  MaxNesting = 1
  MaxSilence = 0
  MaxClock = 2
  Path <- MCPath
  MaxSockets = 2
  QuietStart = TRUE
INVARIANTS
  QueueDiscipline
  ReportsThisRequest
  DetailsWhenDue
PROPERTY
  ComposedRequestEnds
