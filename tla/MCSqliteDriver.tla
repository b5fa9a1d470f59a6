--------------------------- MODULE MCSqliteDriver ---------------------------
(* Small instances of SqliteDriver for TLC.                                *)
EXTENDS SqliteDriver, TLC

CONSTANTS p1, p2, home, other

MCProcess == {p1, p2}
MCEarly == {p1}
MCFiles == {home, other}

\* One process serves hosts with apm on and with apm off.
MCHosts == (p1 :> BOOLEAN) @@ (p2 :> {TRUE})
=============================================================================
