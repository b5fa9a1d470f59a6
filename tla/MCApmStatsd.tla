----------------------------- MODULE MCApmStatsd -----------------------------
(* A small instance of ApmStatsd for TLC.                                  *)
EXTENDS ApmStatsd

MCDrivers == <<"sqlite3", "mysql", "statsd", "socket">>
MCMode == [d \in Drivers |-> IF d = "statsd" THEN 2 ELSE 1]
MCReporting == [d \in Drivers |-> Levels]
MCNone == {}
MCNoisy == {"sqlite3"}
MCStatsd == {"statsd"}
MCSocket == {"socket"}
MCPerHost == {Drivers, {"mysql", "statsd"}, {"sqlite3"}}
MCOnOrOff == {TRUE, FALSE}
MCStatsEnabled == {"sqlite3", "statsd", "elasticsearch"}
=============================================================================
