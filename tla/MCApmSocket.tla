----------------------------- MODULE MCApmSocket -----------------------------
(* A small instance of ApmSocket for TLC.                                  *)
EXTENDS ApmSocket

MCDrivers == <<"sqlite3", "socket">>
MCMode == [d \in Drivers |-> 1]
MCReporting == [d \in Drivers |-> Levels]
MCNoisy == {"sqlite3"}
MCWithOrWithout == {Drivers, {"sqlite3"}}
MCSocketStats == {"socket"}
MCNone == {}
MCOn == {TRUE}
MCPath == <<[proto |-> "file", port |-> FALSE], [proto |-> "tcp", port |-> TRUE]>>
=============================================================================
