---------------------------- MODULE SqliteDriver ----------------------------
(***************************************************************************)
(* driver_sqlite3.c: PHP processes that store their events in the database  *)
(* files they share.  Each has a connection, opened by the first event of a *)
(* request and closed by rshutdown, and the row of its request, inserted by *)
(* the first event and referred to by all.                                  *)
(*                                                                         *)
(* The store can fail at every step.  A failure that the driver reports     *)
(* with zend_error comes back to it through apm_error_cb while it is still  *)
(* inside process_event: `stack' holds the activations, innermost first.    *)
(*                                                                         *)
(* php.ini has apm on, so MINIT hooks the errors of the process.  RINIT and *)
(* RSHUTDOWN do nothing when the host has it off: until the first request  *)
(* with apm on has ended, events come without rinit and rshutdown.          *)
(***************************************************************************)
EXTENDS Naturals, Sequences, FiniteSets, FiniteSetsExt

CONSTANTS
  Process,
  Early,               \* those with errors during start-up, after MINIT
  Files,               \* database files; apm.sqlite_db_path selects one
  Home,                \* the configured one
  Hosts,               \* apm.enabled for the hosts that each process serves
  WantsCoreWarnings,   \* E_CORE_WARNING is in apm.sqlite_error_reporting
  MaxRequests, MaxEvents, MaxFaults, MaxDepth      \* bounds

Faults == {"open", "schema", "busy", "path", "badpath", "early", "skipped"}

ASSUME SqliteAssumption ==
  /\ Early \subseteq Process /\ Home \in Files /\ WantsCoreWarnings \in BOOLEAN
  /\ Hosts \in [Process -> SUBSET BOOLEAN]
  /\ {MaxRequests, MaxEvents, MaxFaults, MaxDepth} \subseteq Nat

VARIABLES
  \* each process
  enabled,             \* apm.sqlite_enabled, as the process holds it
  db_file, connected, is_request_created, request_id,
  last,                \* sqlite3_last_insert_rowid of its connection
  stack,               \* activations of process_event, process_stats
  hooks,               \* who put them in: "minit", "rinit", or "none"
  phase,               \* startup, script, stats, closing, out
  number, events,      \* requests so far; events in this one
  hit,                 \* what went wrong in this request (history)
  \* each file
  requests,            \* table request: the owner of each row, by id
  children             \* tables event and stats: [table, request_id, owner]

locals == <<connected, is_request_created, request_id, last>>
serving == <<hooks, phase, number, events>>
tables == <<requests, children>>
vars == <<enabled, db_file, locals, stack, serving, hit, tables>>

Owner(p) == <<p, number[p]>>
Started == MapThenSumSet(LAMBDA p : number[p], Process)
Frame(table, at) == [table |-> table, at |-> at]
Top(p) == stack[p][1]
Active(p, at) == stack[p] # <<>> /\ Top(p).at = at
Goto(p, at) == stack' = [stack EXCEPT ![p][1].at = at]
Pop(p) == stack' = [stack EXCEPT ![p] = Tail(@)]

Faulted == {c \in Process \X Faults : c[2] \in hit[c[1]]}
CanFault(p, f) == f \in hit[p] \/ Cardinality(Faulted) < MaxFaults
Fault(p, f) == hit' = [hit EXCEPT ![p] = @ \union {f}]

\* sqlite_get_instance, called by insert_request ("instance") and by its caller
\* ("again"): with a connection it returns it at once.
After(label) == IF label = "instance" THEN "insert" ELSE "child"
Get(p, label) == IF connected'[p] THEN After(label) ELSE label

\* Mutant: the flag is not looked at.
CheckNever(p) == Get(p, "instance")

\* Where a call of the driver begins: insert_request returns at once when the row
\* is there.
Check(p) == Get(p, IF is_request_created[p] THEN "again" ELSE "instance")

\* zend_error(E_CORE_WARNING): the driver is called again before it goes on at
\* `next', unless it does not report such errors.
Complain(p, next) ==
  stack' = [stack EXCEPT ![p] =
             LET back == <<[Top(p) EXCEPT !.at = next]>> \o Tail(@)
             IN IF WantsCoreWarnings THEN <<Frame("event", Check(p))>> \o back
                                     ELSE back]

\* The checks of the configured path, made before the hooks are in, may have
\* switched the driver off.
Init ==
  /\ enabled \in [Process -> BOOLEAN]
  /\ db_file = [p \in Process |-> Home]
  /\ connected = [p \in Process |-> FALSE]
  /\ is_request_created = [p \in Process |-> FALSE]
  /\ request_id = [p \in Process |-> 0] /\ last = [p \in Process |-> 0]
  /\ stack = [p \in Process |-> <<>>]
  /\ hooks = [p \in Process |-> "minit"] /\ phase = [p \in Process |-> "startup"]
  /\ number = [p \in Process |-> 0] /\ events = [p \in Process |-> 0]
  /\ hit = [p \in Process |-> {}]
  /\ requests = [f \in Files |-> <<>>] /\ children = [f \in Files |-> <<>>]

-----------------------------------------------------------------------------
(* The calls of the core *)

\* A request begins.  An early connection is one that was there before.
NextRequest(p, wrong) ==
  /\ phase[p] \in {"startup", "out"} /\ stack[p] = <<>> /\ Started < MaxRequests
  /\ phase' = [phase EXCEPT ![p] = "script"]
  /\ number' = [number EXCEPT ![p] = @ + 1] /\ events' = [events EXCEPT ![p] = 0]
  /\ hit' = [hit EXCEPT ![p] = (IF connected[p] THEN {"early"} ELSE {}) \union wrong]
  /\ UNCHANGED <<enabled, db_file, connected, request_id, last, stack, tables>>

\* RINIT, with apm on: the driver resets the flag, and not the id; a connection
\* stays.
rinit(p) ==
  /\ TRUE \in Hosts[p] /\ NextRequest(p, {})
  /\ hooks' = [hooks EXCEPT ![p] = "rinit"]
  /\ is_request_created' = IF enabled[p] THEN [is_request_created EXCEPT ![p] = FALSE]
                                         ELSE is_request_created

\* RINIT, with apm off: what an event before has set the flag for, the driver takes
\* this request to be.
rinit_Skipped(p) ==
  /\ FALSE \in Hosts[p]
  /\ NextRequest(p, IF is_request_created[p] THEN {"skipped"} ELSE {})
  /\ UNCHANGED <<hooks, is_request_created>>

\* Also before the first rinit: the hooks are in since MINIT.  With apm off RSHUTDOWN
\* changes nothing: an event after it is one before it.
process_event(p) ==
  /\ hooks[p] # "none"
  /\ \/ phase[p] = "script" /\ UNCHANGED hit
     \/ /\ phase[p] = "startup" /\ p \in Early
        /\ CanFault(p, "early") /\ Fault(p, "early")
  /\ stack[p] = <<>> /\ enabled[p]
  /\ events[p] < MaxEvents /\ events' = [events EXCEPT ![p] = @ + 1]
  /\ UNCHANGED <<enabled, db_file, locals, hooks, phase, number, tables>>
  /\ stack' = [stack EXCEPT ![p] = <<Frame("event", Check(p))>>]

\* The script ends; with apm on the statistics are stored if the request was slow.
process_stats(p) ==
  /\ hooks[p] = "rinit" /\ phase[p] = "script" /\ stack[p] = <<>>
  /\ phase' = [phase EXCEPT ![p] = "stats"]
  /\ UNCHANGED <<enabled, db_file, locals, hooks, number, events, hit, tables>>
  /\ \/ enabled[p] /\ stack' = [stack EXCEPT ![p] = <<Frame("stats", Check(p))>>]
     \/ UNCHANGED stack

\* disconnect
Disconnect(p) == connected' = [connected EXCEPT ![p] = FALSE]

\* The script is over; with apm on the hooks are taken out.
Unhook(p) ==
  /\ phase[p] = (IF hooks[p] = "rinit" THEN "stats" ELSE "script") /\ stack[p] = <<>>
  /\ phase' = [phase EXCEPT ![p] = "closing"]
  /\ hooks' = [hooks EXCEPT ![p] = IF @ = "rinit" THEN "none" ELSE @]
  /\ UNCHANGED <<enabled, db_file, is_request_created, request_id, last, stack,
                 number, events, hit, tables>>

\* Mutant: the connection is kept for the next request (NEWS, bug #17512).
rshutdown_Keeps(p) == Unhook(p) /\ UNCHANGED connected

\* RSHUTDOWN: with apm off the drivers are not called.
rshutdown(p) ==
  /\ Unhook(p)
  /\ IF hooks[p] = "rinit" /\ enabled[p] THEN Disconnect(p) ELSE UNCHANGED connected

\* The engine restores apm.sqlite_db_path if the script changed it; the callback
\* of the setting runs again, with apm as php.ini has it.
EndRequest(p) ==
  /\ phase[p] = "closing" /\ phase' = [phase EXCEPT ![p] = "out"]
  /\ IF enabled[p] /\ hit[p] \intersect {"path", "badpath"} # {}
       THEN db_file' = [db_file EXCEPT ![p] = Home] /\ Disconnect(p)
       ELSE UNCHANGED <<db_file, connected>>
  /\ UNCHANGED <<enabled, is_request_created, request_id, last, stack, hooks, number,
                 events, hit, tables>>

-----------------------------------------------------------------------------
(* OnUpdateDBFile, from ini_set in the script *)

\* With apm off the callback only takes the value, which the engine will restore.
OnUpdateDBFile(p, f) ==
  /\ phase[p] = "script" /\ stack[p] = <<>> /\ enabled[p] /\ CanFault(p, "path")
  /\ f # db_file[p] /\ Fault(p, "path")
  /\ IF hooks[p] = "rinit"
       THEN db_file' = [db_file EXCEPT ![p] = f] /\ Disconnect(p)
       ELSE UNCHANGED <<db_file, connected>>
  /\ UNCHANGED <<enabled, is_request_created, request_id, last, stack, serving,
                 tables>>

\* An empty path switches the driver off; its connection is forgotten.
OnUpdateEmptyPath(p) ==
  /\ hooks[p] = "rinit" /\ phase[p] = "script" /\ stack[p] = <<>> /\ enabled[p]
  /\ enabled' = [enabled EXCEPT ![p] = FALSE]
  /\ UNCHANGED <<db_file, locals, stack, serving, hit, tables>>

\* The directory fails perform_db_access_checks: the error is raised while the
\* driver still takes it, then the driver is switched off.
OnUpdateBadPath(p, f) ==
  /\ hooks[p] = "rinit" /\ phase[p] = "script" /\ stack[p] = <<>> /\ enabled[p]
  /\ CanFault(p, "badpath") /\ f # db_file[p]
  /\ db_file' = [db_file EXCEPT ![p] = f] /\ Disconnect(p)
  /\ Fault(p, "badpath")
  /\ stack' = [stack EXCEPT ![p] =
                 (IF WantsCoreWarnings THEN <<Frame("event", Check(p))>> ELSE <<>>)
                   \o <<Frame("none", "disable")>>]
  /\ UNCHANGED <<enabled, is_request_created, request_id, last, serving, tables>>

DisableDriver(p) ==
  /\ Active(p, "disable") /\ Pop(p)
  /\ enabled' = [enabled EXCEPT ![p] = FALSE]
  /\ UNCHANGED <<db_file, locals, serving, hit, tables>>

-----------------------------------------------------------------------------
(* process_event and process_stats *)

AtInstance(p) == Active(p, "instance") \/ Active(p, "again")

Open(p) ==
  /\ AtInstance(p) /\ ~connected[p] /\ Goto(p, After(Top(p).at))
  /\ connected' = [connected EXCEPT ![p] = TRUE] /\ last' = [last EXCEPT ![p] = 0]
  /\ UNCHANGED <<enabled, db_file, is_request_created, request_id, serving, hit,
                 tables>>

\* Mutant: the caller starts over instead of giving up.
OpenFailsRetries(p) ==
  /\ AtInstance(p) /\ ~connected[p] /\ CanFault(p, "open") /\ Fault(p, "open")
  /\ UNCHANGED <<enabled, db_file, locals, serving, tables>>
  /\ Goto(p, IF Top(p).at = "instance" THEN "again" ELSE Check(p))

\* sqlite3_open fails.  insert_request returns without a row, and its caller
\* tries for itself; the caller returns without storing.
OpenFails(p) ==
  /\ AtInstance(p) /\ ~connected[p] /\ CanFault(p, "open") /\ Fault(p, "open")
  /\ IF Top(p).at = "instance" THEN Goto(p, "again") ELSE Pop(p)
  /\ UNCHANGED <<enabled, db_file, locals, serving, tables>>

\* Mutant: the half-made connection is dropped before the error is raised.
SchemaFailsDisconnects(p) ==
  /\ AtInstance(p) /\ ~connected[p] /\ Len(stack[p]) < MaxDepth
  /\ CanFault(p, "schema") /\ Fault(p, "schema")
  /\ last' = [last EXCEPT ![p] = 0]
  /\ UNCHANGED <<enabled, db_file, connected, is_request_created, request_id,
                 serving, tables>>
  /\ Complain(p, After(Top(p).at))

\* The tables cannot be created: the error is raised with the connection open.
SchemaFails(p) ==
  /\ AtInstance(p) /\ ~connected[p] /\ Len(stack[p]) < MaxDepth
  /\ CanFault(p, "schema") /\ Fault(p, "schema")
  /\ connected' = [connected EXCEPT ![p] = TRUE] /\ last' = [last EXCEPT ![p] = 0]
  /\ Complain(p, After(Top(p).at))
  /\ UNCHANGED <<enabled, db_file, is_request_created, request_id, serving, tables>>

InsertRequest(p) ==
  /\ Active(p, "insert") /\ Goto(p, "id")
  /\ requests' = [requests EXCEPT ![db_file[p]] = Append(@, Owner(p))]
  /\ last' = [last EXCEPT ![p] = Len(requests'[db_file[p]])]
  /\ UNCHANGED <<enabled, db_file, connected, is_request_created, request_id,
                 serving, hit, children>>

\* The file is locked by another process for longer than apm.sqlite_timeout, is
\* read-only, or the disk is full.
RequestRejected(p) ==
  /\ Active(p, "insert") /\ Goto(p, "id") /\ CanFault(p, "busy") /\ Fault(p, "busy")
  /\ UNCHANGED <<enabled, db_file, locals, serving, tables>>

\* Mutant: the highest id of the table.
TakeMaxId(p) ==
  /\ Active(p, "id")
  /\ request_id' = [request_id EXCEPT ![p] = Len(requests[db_file[p]])]
  /\ is_request_created' = [is_request_created EXCEPT ![p] = TRUE]
  /\ UNCHANGED <<enabled, db_file, connected, last, serving, hit, tables>>
  /\ Goto(p, Get(p, "again"))

\* Whether the row went in or not.
TakeId(p) ==
  /\ Active(p, "id")
  /\ request_id' = [request_id EXCEPT ![p] = last[p]]
  /\ is_request_created' = [is_request_created EXCEPT ![p] = TRUE]
  /\ UNCHANGED <<enabled, db_file, connected, last, serving, hit, tables>>
  /\ Goto(p, Get(p, "again"))

\* The row of the event or the statistics itself.
InsertChild(p) ==
  /\ Active(p, "child") /\ Pop(p)
  /\ LET f == db_file[p]
         row == [table |-> Top(p).table, request_id |-> request_id[p],
                 owner |-> Owner(p)]
         peers == {i \in DOMAIN children[f] : children[f][i].table = row.table}
     IN /\ children' = [children EXCEPT ![f] = Append(@, row)]
        /\ last' = [last EXCEPT ![p] = Cardinality(peers) + 1]
  /\ UNCHANGED <<enabled, db_file, connected, is_request_created, request_id,
                 serving, hit, requests>>

ChildRejected(p) ==
  /\ Active(p, "child") /\ Pop(p) /\ CanFault(p, "busy") /\ Fault(p, "busy")
  /\ UNCHANGED <<enabled, db_file, locals, serving, tables>>

Work(p) ==
  \/ DisableDriver(p)
  \/ Open(p) \/ OpenFails(p) \/ SchemaFails(p)
  \/ InsertRequest(p) \/ RequestRejected(p) \/ TakeId(p)
  \/ InsertChild(p) \/ ChildRejected(p)

Shutdown(p) == rshutdown(p) \/ EndRequest(p)

Call(p) == rinit(p) \/ rinit_Skipped(p) \/ process_event(p) \/ process_stats(p)

Terminated == /\ \A p \in Process : phase[p] \in {"startup", "out"} /\ stack[p] = <<>>
              /\ Started = MaxRequests /\ UNCHANGED vars

Next ==
  \/ \E p \in Process :
       \/ Call(p) \/ Work(p) \/ Shutdown(p) \/ OnUpdateEmptyPath(p)
       \/ \E f \in Files : OnUpdateDBFile(p, f) \/ OnUpdateBadPath(p, f)
  \/ Terminated

\* A call runs on, whatever the other processes do: sqlite3_busy_timeout bounds
\* every wait for a lock.
Spec == Init /\ [][Next]_vars
             /\ \A p \in Process : WF_vars(Work(p))

-----------------------------------------------------------------------------
(* Properties *)

Rows == [table : {"event", "stats"}, request_id : Nat, owner : Process \X Nat]

\* Types of the variables.
TypeOK ==
  /\ enabled \in [Process -> BOOLEAN] /\ db_file \in [Process -> Files]
  /\ connected \in [Process -> BOOLEAN]
  /\ is_request_created \in [Process -> BOOLEAN]
  /\ request_id \in [Process -> Nat] /\ last \in [Process -> Nat]
  /\ stack \in [Process -> Seq([table : {"event", "stats", "none"},
                  at : {"instance", "again", "insert", "id", "child",
                        "disable"}])]
  /\ hooks \in [Process -> {"minit", "rinit", "none"}]
  /\ phase \in [Process -> {"startup", "script", "stats", "closing", "out"}]
  /\ number \in [Process -> Nat] /\ events \in [Process -> Nat]
  /\ hit \in [Process -> SUBSET Faults]
  /\ requests \in [Files -> Seq(Process \X Nat)] /\ children \in [Files -> Seq(Rows)]

RowsOf(p) == UNION {{f} \X {i \in DOMAIN requests[f] : requests[f][i] = Owner(p)} :
                     f \in Files}

\* "Boolean to ensure request content is only inserted once": one request, at most
\* one row of table request, whatever fails.
RequestOnce == \A p \in Process : Cardinality(RowsOf(p)) <= 1

\* The same, for a request whose process could create the tables; with the error
\* about the tables dispatched inside the first insertion there may be a second.
RequestOnceOrTwice ==
  \A p \in Process : Cardinality(RowsOf(p)) <= IF "schema" \in hit[p] THEN 2 ELSE 1

\* Every event and every statistics row refers to its own request's row, or to
\* none when that was rejected: the other processes' insertions never show
\* through.  (Not so after a failed open or a change of file; nor when a request
\* with apm off begins with the flag of the one before; nor when a rejection
\* follows an error about the tables or meets a connection older than the request:
\* see the hazards.)
ChildrenOwned ==
  \A p \in Process : \A f \in Files : \A i \in DOMAIN children[f] :
    LET c == children[f][i] IN
      /\ c.owner = Owner(p)
      /\ hit[p] \intersect {"open", "path", "badpath", "skipped"} = {}
      /\ ~("busy" \in hit[p] /\ hit[p] \intersect {"schema", "early"} # {})
      => \/ c.request_id = 0
         \/ c.request_id \in DOMAIN requests[f] /\ requests[f][c.request_id] = c.owner

\* The driver re-enters itself at most once, also when the error comes from the
\* setting of the path.
ReentryBounded ==
  \A p \in Process : Cardinality({k \in DOMAIN stack[p] : stack[p][k].at # "disable"}) <= 2

\* Each step of a call leaves fewer of them, those of the calls inside it counted,
\* and nothing costs it another one: the error that brings the driver back into
\* itself leaves a connection, and is raised only where there is none.
Rest(label) ==
  CASE label = "instance" -> 5 [] label = "insert" -> 4 [] label = "id" -> 3
    [] label = "again" -> 2    [] label = "child" -> 1  [] label = "disable" -> 1
RestOf(p, k) == IF k \in DOMAIN stack[p] THEN Rest(stack[p][k].at) ELSE 0
StepsLeft(p) == RestOf(p, 1) + RestOf(p, 2) + RestOf(p, 3)
                  + (IF connected[p] THEN 0 ELSE 6)
CallIsBounded ==
  [][\A p \in Process :
       /\ Work(p) => StepsLeft(p)' < StepsLeft(p)
       /\ stack[p] # <<>> => StepsLeft(p)' <= StepsLeft(p)]_vars

\* Between requests no connection stays open (NEWS, bug #17512), unless the driver
\* was switched off in the request, or the process has had no request with apm on
\* and the hooks of MINIT brought an event to it.
ConnectionsClosed ==
  \A p \in Process :
    phase[p] \in {"closing", "out"} /\ connected[p] => ~enabled[p] \/ hooks[p] = "minit"

\* Every call of the driver returns, however the store fails.
CallReturns == \A p \in Process : []<>(stack[p] = <<>>)
=============================================================================
