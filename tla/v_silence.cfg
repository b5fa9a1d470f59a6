SPECIFICATION Spec
CONSTANTS
  DriverList <- MCDriverList
  ExceptionMode <- MCExceptionMode
  ErrorReporting <- MCErrorReporting
  StoreSilenced <- MCStoreSilenced
  Elasticsearch = TRUE
  ActiveChoices <- MCOn
  EnabledChoices <- MCAll
  RuntimeSwitch <- MCNone
  EventEnabled = TRUE
  StatsEnabled <- MCNone
  Noisy <- MCNoisy
  Extractors <- MCExtractors
  Resolving <- MCNone
  UncaughtPrefix = TRUE
  Unwinds = FALSE
  ToggleEvents = FALSE
  Boot = 1
  Threshold = 1
  MaxRequests = 2
  MaxEvents = 4
  MaxNesting = 2
  MaxSilence = 2
  MaxClock = 1
INVARIANT
  SilenceRespected
