---------------------------- MODULE MCMysqlDriver ----------------------------
(* Small instances of MysqlDriver for TLC.                                 *)
EXTENDS MysqlDriver, TLC

CONSTANTS p1, p2, home, other

MCProcess == {p1, p2}
MCDatabases == {home, other}

\* One process serves hosts with apm on and with apm off.
MCHosts == (p1 :> BOOLEAN) @@ (p2 :> {TRUE})
=============================================================================
