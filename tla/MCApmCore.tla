------------------------------ MODULE MCApmCore ------------------------------
(* Small instances of ApmCore for TLC.                                     *)
EXTENDS ApmCore

\* The order of GINIT; statsd has an instance of its own.
MCDriverList == <<"sqlite3", "mysql", "socket">>

\* One driver in each exception mode; mysql, in mode 2, keeps silenced events.
MCExceptionMode == [d \in Drivers |-> CASE d = "sqlite3" -> 1
                                        [] d = "mysql"   -> 2
                                        [] OTHER         -> 0]
MCErrorReporting == [d \in Drivers |-> IF d = "socket" THEN Levels \ {"E_CORE_WARNING"}
                                                       ELSE Levels]
MCStoreSilenced == Drivers \intersect {"mysql"}
MCNoisy == {"sqlite3"}
MCExtractors == Drivers \intersect {"sqlite3", "mysql"}
MCStatsEnabled == Recorders \ {"mysql"}
MCAll == {Drivers}
MCNone == {}
MCOn == {TRUE}
=============================================================================
