SPECIFICATION Spec
CONSTANTS
  DriverList <- MCDriverList
  ExceptionMode <- MCExceptionMode
  ErrorReporting <- MCErrorReporting
  StoreSilenced <- MCStoreSilenced
  Elasticsearch = TRUE
  ActiveChoices <- MCOn
  EnabledChoices <- MCAll
  RuntimeSwitch <- MCNone
  EventEnabled = FALSE
  StatsEnabled <- MCStatsEnabled
  Noisy <- MCNoisy
  Extractors <- MCExtractors
  Resolving <- MCNone
  UncaughtPrefix = TRUE
  Unwinds = FALSE
  ToggleEvents = FALSE
  Boot = 2
  Threshold = 1
  MaxRequests = 2
  MaxEvents = 4
  MaxNesting = 2
  MaxSilence = 1
  MaxClock = 3
INVARIANT
  StatsExactlyWhenSlow
