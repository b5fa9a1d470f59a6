SPECIFICATION StatsdSpec
CONSTANTS
  DriverList <- MCDrivers
  ExceptionMode <- MCMode
  ErrorReporting <- MCReporting
  StoreSilenced <- MCNone
  Elasticsearch = TRUE
  ActiveChoices <- MCOnOrOff
  EnabledChoices <- MCPerHost
  RuntimeSwitch <- MCSocket
  EventEnabled = TRUE
  StatsEnabled <- MCStatsEnabled
  Noisy <- MCNoisy
  Extractors <- MCNoisy
  Resolving <- MCStatsd
  UncaughtPrefix = TRUE
  Unwinds = TRUE
  ToggleEvents = TRUE
  Boot = 1
  Threshold = 0
  MaxRequests = 2
  MaxEvents = 2
  MaxNesting = 1
  MaxSilence = 1
  MaxClock = 2
INVARIANTS
  TypeOK
  HooksBracketRequests
  DriversPaired
  StatsExactlyWhenSlow
  AddressWhenCalled
