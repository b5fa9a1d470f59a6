SPECIFICATION Spec
CONSTANTS
  DriverList <- MCDriverList
  ExceptionMode <- MCExceptionMode
  ErrorReporting <- MCErrorReporting
  StoreSilenced <- MCStoreSilenced
  Elasticsearch = TRUE
  ActiveChoices <- MCOn
  EnabledChoices <- MCAll
  RuntimeSwitch <- MCNone
  EventEnabled = TRUE
  StatsEnabled <- MCStatsEnabled
  Noisy <- MCNoisy
  Extractors <- MCExtractors
  Resolving <- MCNone
  UncaughtPrefix = TRUE
  Unwinds = FALSE
  ToggleEvents = TRUE
  Boot = 1
  Threshold = 0
  MaxRequests = 2
  MaxEvents = 3
  MaxNesting = 2
  MaxSilence = 1
  MaxClock = 2
INVARIANTS
  ErrorsHandedOnOnce
  ExceptionModeHonoured
  StoresAgreeOnOrder
  SilenceRespected
  RequestDataFresh
PROPERTIES
  CallsReturn
