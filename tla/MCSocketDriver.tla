--------------------------- MODULE MCSocketDriver ---------------------------
(* Small instances of SocketDriver for TLC.                                *)
EXTENDS SocketDriver

File == [proto |-> "file", port |-> FALSE]
Tcp == [proto |-> "tcp", port |-> TRUE]
TcpNoPort == [proto |-> "tcp", port |-> FALSE]
Unknown == [proto |-> "other", port |-> FALSE]

\* More usable entries than MAX_SOCKETS, an unknown one, one without a port.
MCPath == <<File, Unknown, Tcp, File, TcpNoPort, File>>
MCTwo == <<Tcp, File>>
=============================================================================
