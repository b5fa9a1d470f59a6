----------------------------- MODULE MysqlDriver -----------------------------
(***************************************************************************)
(* driver_mysql.c: PHP processes that store their events in the databases   *)
(* of one server.  A process connects at its first event, keeps the         *)
(* connection from request to request, and lets the client library connect *)
(* again when the server has dropped it.  The id of the request lives in    *)
(* the session, as @request_id, and dies with it.                           *)
(*                                                                         *)
(* RINIT and RSHUTDOWN do nothing when the host has apm off, and MINIT has  *)
(* hooked the errors of the process already: until the first request with   *)
(* apm on has ended, events come without rinit having been called.          *)
(*                                                                         *)
(* A query ends in one of four ways: it is executed; the server refuses it; *)
(* the session is found dead and the library repeats the query in a new    *)
(* one (Reconnect, then executed); or that fails too (GoneAway).  A query   *)
(* whose answer is lost is one that is executed, then DropSession.          *)
(***************************************************************************)
EXTENDS Naturals, Sequences, FiniteSets, FiniteSetsExt

CONSTANTS
  Process,
  Databases,           \* what apm.mysql_host and apm.mysql_db name in some request
  Enabled,             \* apm.enabled in php.ini: at MINIT and MSHUTDOWN
  Hosts,               \* apm.enabled for the hosts that each process serves
  MaxRequests, MaxEvents, MaxFaults      \* bounds

ASSUME MysqlAssumption ==
  /\ Databases # {} /\ Enabled \in BOOLEAN /\ Hosts \in [Process -> SUBSET BOOLEAN]
  /\ {MaxRequests, MaxEvents, MaxFaults} \subseteq Nat

VARIABLES
  \* each process
  mysql_event_db,      \* null, open; broken: the server has dropped the session
  database,            \* where the connection leads, once there is one
  is_request_created,
  at,                  \* inside process_event or process_stats: what comes next
  table,               \* which of the two
  hooks,               \* who put them in: "minit", "rinit", or "none"
  phase,               \* startup, script, stats, out, down
  number, events,      \* requests so far; events in this one
  \* its session, in the server
  sessions,            \* how many sessions the process has there
  request_id,          \* @request_id; 0 stands for NULL too
  last,                \* LAST_INSERT_ID()
  \* each database
  requests,            \* table request: the owner of each row, by id
  children,            \* tables event and stats
  \* history
  excused,             \* requests whose row was refused, or begun with is_request_created
  produced,            \* rows process_event and process_stats were called for
  spoiled,             \* something went wrong in the current request
  faults

handle == <<mysql_event_db, database>>
session == <<sessions, request_id, last>>
serving == <<hooks, phase, number, events, produced>>
tables == <<requests, children>>
trouble == <<excused, spoiled, faults>>
vars == <<handle, is_request_created, at, table, session, serving, tables, trouble>>

Owner(p) == <<p, number[p]>>
Started == MapThenSumSet(LAMBDA p : number[p], Process)
Goto(p, label) == at' = [at EXCEPT ![p] = label]
Idle(p) == at[p] = "idle"

Spoil(p) == spoiled' = [spoiled EXCEPT ![p] = @ \/ phase[p] # "out"]
Fault(p) == faults < MaxFaults /\ faults' = faults + 1 /\ Spoil(p)

Init ==
  /\ mysql_event_db = [p \in Process |-> "null"]
  /\ database = [p \in Process |-> CHOOSE f \in Databases : TRUE]
  /\ is_request_created = [p \in Process |-> FALSE]
  /\ at = [p \in Process |-> "idle"] /\ table = [p \in Process |-> "event"]
  /\ phase = [p \in Process |-> "startup"]
  /\ hooks = [p \in Process |-> IF Enabled THEN "minit" ELSE "none"]
  /\ number = [p \in Process |-> 0] /\ events = [p \in Process |-> 0]
  /\ sessions = [p \in Process |-> 0]
  /\ request_id = [p \in Process |-> 0] /\ last = [p \in Process |-> 0]
  /\ requests = [f \in Databases |-> <<>>] /\ children = [f \in Databases |-> <<>>]
  /\ excused = {} /\ produced = [p \in Process |-> 0]
  /\ spoiled = [p \in Process |-> FALSE] /\ faults = 0

-----------------------------------------------------------------------------
(* The calls of the core *)

Begin(p) ==
  /\ phase[p] \in {"startup", "out"} /\ Idle(p) /\ Started < MaxRequests
  /\ phase' = [phase EXCEPT ![p] = "script"]
  /\ number' = [number EXCEPT ![p] = @ + 1] /\ events' = [events EXCEPT ![p] = 0]
  /\ produced' = [produced EXCEPT ![p] = 0]
  /\ UNCHANGED <<handle, at, table, session, tables, faults>>

\* RINIT, with apm on.  The connection stays, whatever database the settings of the
\* request name.
rinit(p) ==
  /\ TRUE \in Hosts[p] /\ Begin(p) /\ hooks' = [hooks EXCEPT ![p] = "rinit"]
  /\ is_request_created' = [is_request_created EXCEPT ![p] = FALSE]
  /\ spoiled' = [spoiled EXCEPT ![p] = FALSE] /\ UNCHANGED excused

\* RINIT, with apm off: what an event before has set is_request_created for, the
\* driver takes this request to be.
rinit_Skipped(p) ==
  /\ FALSE \in Hosts[p] /\ Begin(p) /\ UNCHANGED <<hooks, is_request_created>>
  /\ spoiled' = [spoiled EXCEPT ![p] = is_request_created[p]]
  /\ excused' = excused \union
                  (IF is_request_created[p] THEN {<<p, number'[p]>>} ELSE {})

\* With a connection mysql_get_instance returns it at once.
After(label) == IF label = "instance" THEN "insert" ELSE "child"
Get(p, label) == IF mysql_event_db[p] = "null" THEN label ELSE After(label)

\* insert_request returns at once when the row is there.
Enter(p, which) ==
  /\ Goto(p, Get(p, IF is_request_created[p] THEN "again" ELSE "instance"))
  /\ table' = [table EXCEPT ![p] = which]
  /\ produced' = [produced EXCEPT ![p] = @ + 1]

\* Also before the first rinit.  With apm off RSHUTDOWN changes nothing: an event
\* after it is one before it.
process_event(p) ==
  /\ hooks[p] # "none" /\ phase[p] \in {"startup", "script"} /\ Idle(p)
  /\ events[p] < MaxEvents /\ events' = [events EXCEPT ![p] = @ + 1]
  /\ Enter(p, "event")
  /\ UNCHANGED <<handle, is_request_created, session, hooks, phase, number, tables,
                 trouble>>

\* The script ends; with apm on the statistics are stored if the request was slow.
process_stats(p) ==
  /\ hooks[p] = "rinit" /\ phase[p] = "script" /\ Idle(p)
  /\ phase' = [phase EXCEPT ![p] = "stats"]
  /\ Enter(p, "stats") \/ UNCHANGED <<at, table, produced>>
  /\ UNCHANGED <<handle, is_request_created, session, hooks, number, events, tables,
                 trouble>>

\* The connection is kept; with apm on the hooks are taken out.
rshutdown(p) ==
  /\ phase[p] = (IF hooks[p] = "rinit" THEN "stats" ELSE "script") /\ Idle(p)
  /\ phase' = [phase EXCEPT ![p] = "out"]
  /\ hooks' = [hooks EXCEPT ![p] = IF @ = "rinit" THEN "none" ELSE @]
  /\ UNCHANGED <<handle, is_request_created, at, table, session, number, events,
                 produced, tables, trouble>>

\* Mutant: mysql_destroy whether or not there is a connection.
ClosedAlways(p) == sessions[p] - 1

\* mysql_destroy, unless there is nothing to destroy.
Closed(p) == IF mysql_event_db[p] = "open" THEN sessions[p] - 1 ELSE sessions[p]

\* Mutant: the handle is freed and not closed.
mshutdown_Frees(p) ==
  /\ phase[p] \in {"startup", "out"} /\ Idle(p)
  /\ phase' = [phase EXCEPT ![p] = "down"]
  /\ mysql_event_db' = [mysql_event_db EXCEPT ![p] = "null"]
  /\ UNCHANGED <<database, is_request_created, at, table, session, hooks, number,
                 events, produced, tables, trouble>>

\* With apm off in php.ini the drivers are not called.
mshutdown(p) ==
  /\ phase[p] \in {"startup", "out"} /\ Idle(p)
  /\ phase' = [phase EXCEPT ![p] = "down"]
  /\ IF Enabled
     THEN /\ mysql_event_db' = [mysql_event_db EXCEPT ![p] = "null"]
          /\ sessions' = [sessions EXCEPT ![p] = Closed(p)]
     ELSE UNCHANGED <<mysql_event_db, sessions>>
  /\ UNCHANGED <<database, is_request_created, at, table, request_id, last, hooks,
                 number, events, produced, tables, trouble>>

-----------------------------------------------------------------------------
(* process_event and process_stats *)

\* mysql_get_instance, called by insert_request ("instance") and by its caller
\* ("again"): where control goes with a connection.
AtInstance(p) == at[p] \in {"instance", "again"}

NewSession(p) ==
  /\ mysql_event_db' = [mysql_event_db EXCEPT ![p] = "open"]
  /\ sessions' = [sessions EXCEPT ![p] = @ + 1]
  /\ request_id' = [request_id EXCEPT ![p] = 0] /\ last' = [last EXCEPT ![p] = 0]

\* To the database that the settings of this request name.
Connect(p) ==
  /\ AtInstance(p) /\ mysql_event_db[p] = "null" /\ Goto(p, After(at[p]))
  /\ NewSession(p)
  /\ \E f \in Databases : database' = [database EXCEPT ![p] = f]
  /\ UNCHANGED <<is_request_created, table, serving, tables, trouble>>

\* Mutant: a call without a connection starts over, as often as it takes.
ConnectFailsRetries(p) ==
  /\ AtInstance(p) /\ mysql_event_db[p] = "null" /\ Spoil(p)
  /\ Goto(p, IF at[p] = "instance" THEN "again" ELSE "instance")
  /\ UNCHANGED <<handle, is_request_created, table, session, serving, tables,
                 excused, faults>>

\* insert_request returns without a row, and its caller tries for itself; the
\* caller returns without storing.
ConnectFails(p) ==
  /\ AtInstance(p) /\ mysql_event_db[p] = "null" /\ Fault(p)
  /\ Goto(p, IF at[p] = "instance" THEN "again" ELSE "idle")
  /\ UNCHANGED <<handle, is_request_created, table, session, serving, tables,
                 excused>>

Executes(p, query) == at[p] = query /\ mysql_event_db[p] = "open"

InsertRequest(p) ==
  /\ Executes(p, "insert") /\ Goto(p, "set")
  /\ requests' = [requests EXCEPT ![database[p]] = Append(@, Owner(p))]
  /\ last' = [last EXCEPT ![p] = Len(requests'[database[p]])]
  /\ UNCHANGED <<handle, is_request_created, table, sessions, request_id, serving,
                 children, trouble>>

\* The tables could not be created, a lock is held too long, the disk is full.
RequestRejected(p) ==
  /\ Executes(p, "insert") /\ Goto(p, "set") /\ Fault(p)
  /\ excused' = excused \union {Owner(p)}
  /\ UNCHANGED <<handle, is_request_created, table, session, serving, tables>>

\* Mutant: the id is the highest of the table.
SetMaxId(p) ==
  /\ Executes(p, "set") /\ Goto(p, Get(p, "again"))
  /\ request_id' = [request_id EXCEPT ![p] = Len(requests[database[p]])]
  /\ is_request_created' = [is_request_created EXCEPT ![p] = TRUE]
  /\ UNCHANGED <<handle, table, sessions, last, serving, tables, trouble>>

\* SET @request_id = LAST_INSERT_ID(), whether or not the row went in.
SetRequestId(p) ==
  /\ Executes(p, "set") /\ Goto(p, Get(p, "again"))
  /\ request_id' = [request_id EXCEPT ![p] = last[p]]
  /\ is_request_created' = [is_request_created EXCEPT ![p] = TRUE]
  /\ UNCHANGED <<handle, table, sessions, last, serving, tables, trouble>>

\* The row of the event or the statistics itself.
InsertChild(p) ==
  /\ Executes(p, "child") /\ Goto(p, "idle")
  /\ LET f == database[p]
         row == [table |-> table[p], request_id |-> request_id[p],
                 owner |-> Owner(p)]
         peers == {i \in DOMAIN children[f] : children[f][i].table = table[p]}
     IN /\ children' = [children EXCEPT ![f] = Append(@, row)]
        /\ last' = [last EXCEPT ![p] = Cardinality(peers) + 1]
  /\ UNCHANGED <<handle, is_request_created, table, sessions, request_id, serving,
                 requests, trouble>>

\* Also when a locale set by the script writes the statistics with commas.
ChildRejected(p) ==
  /\ Executes(p, "child") /\ Goto(p, "idle") /\ Fault(p)
  /\ UNCHANGED <<handle, is_request_created, table, session, serving, tables,
                 excused>>

\* MYSQL_OPT_RECONNECT: the library opens a session and repeats the query there.
AtQuery(p) == at[p] \in {"insert", "set", "child"} /\ mysql_event_db[p] = "broken"

Reconnect(p) ==
  /\ AtQuery(p) /\ NewSession(p)
  /\ UNCHANGED <<database, is_request_created, at, table, serving, tables, trouble>>

\* The query is given up; the driver goes on with the next one.
GiveUp(p) ==
  /\ Goto(p, CASE at[p] = "insert" -> "set" [] at[p] = "set" -> Get(p, "again")
               [] at[p] = "child" -> "idle")
  /\ is_request_created' =
       [is_request_created EXCEPT ![p] = @ \/ at[p] = "set"]

\* Mutant: the connection is made without MYSQL_OPT_RECONNECT.
GoneAwayAtOnce(p) ==
  /\ AtQuery(p) /\ GiveUp(p)
  /\ UNCHANGED <<handle, table, session, serving, tables, trouble>>

GoneAway(p) ==
  /\ AtQuery(p) /\ Spoil(p) /\ GiveUp(p)
  /\ UNCHANGED <<handle, table, session, serving, tables, excused, faults>>

Work(p) ==
  \/ Connect(p) \/ ConnectFails(p)
  \/ InsertRequest(p) \/ RequestRejected(p) \/ SetRequestId(p)
  \/ InsertChild(p) \/ ChildRejected(p)
  \/ Reconnect(p) \/ GoneAway(p)

\* The server is restarted, kills the session or times it out.
DropSession(p) ==
  /\ mysql_event_db[p] = "open" /\ Fault(p)
  /\ mysql_event_db' = [mysql_event_db EXCEPT ![p] = "broken"]
  /\ sessions' = [sessions EXCEPT ![p] = @ - 1]
  /\ UNCHANGED <<database, is_request_created, at, table, request_id, last, serving,
                 tables, excused>>

Call(p) == rinit(p) \/ rinit_Skipped(p) \/ process_event(p) \/ process_stats(p)
             \/ rshutdown(p) \/ mshutdown(p)

Terminated == (\A p \in Process : phase[p] = "down") /\ UNCHANGED vars

Next == (\E p \in Process : Call(p) \/ Work(p) \/ DropSession(p)) \/ Terminated

\* A call runs on: the timeouts of the library bound every wait.
Spec == Init /\ [][Next]_vars /\ \A p \in Process : WF_vars(Work(p))

-----------------------------------------------------------------------------
(* Properties *)

Rows == [table : {"event", "stats"}, request_id : Nat, owner : Process \X Nat]

\* Types of the variables.
TypeOK ==
  /\ mysql_event_db \in [Process -> {"null", "open", "broken"}]
  /\ database \in [Process -> Databases]
  /\ is_request_created \in [Process -> BOOLEAN]
  /\ at \in [Process -> {"idle", "instance", "insert", "set", "again",
                         "child"}]
  /\ table \in [Process -> {"event", "stats"}]
  /\ hooks \in [Process -> {"minit", "rinit", "none"}]
  /\ phase \in [Process -> {"startup", "script", "stats", "out", "down"}]
  /\ number \in [Process -> Nat] /\ events \in [Process -> Nat]
  /\ sessions \in [Process -> 0..1]
  /\ request_id \in [Process -> Nat] /\ last \in [Process -> Nat]
  /\ requests \in [Databases -> Seq(Process \X Nat)]
  /\ children \in [Databases -> Seq(Rows)]
  /\ excused \subseteq Process \X Nat /\ produced \in [Process -> Nat]
  /\ spoiled \in [Process -> BOOLEAN] /\ faults \in Nat

\* "Boolean to ensure request content is only inserted once", and an event or a
\* statistics row refers to its own request or to none: whichever process, whatever
\* is lost and repeated, also across requests and databases, unless the server
\* refused the row of the request, or the request was never announced to the driver
\* (apm off) and an event since the last one that was had its row inserted.
Store == INSTANCE RequestStore
StoresRequests == Store!Init /\ [][Store!Next]_(Store!vars)

\* "Connect to MySQL once and reconnect if needed" (NEWS): a process has a session
\* exactly while its handle is good; none is left behind by a failure, by another
\* request, with apm on or off, or by MSHUTDOWN.
SessionsHeld ==
  \A p \in Process : sessions[p] = IF mysql_event_db[p] = "open" THEN 1 ELSE 0

\* A request in which nothing goes wrong has all it produced stored, and referring
\* to its row, also when the server dropped the session between two requests.  It
\* has gone wrong from the start when apm is off and is_request_created still set.
Produced(p, f, i) ==
  {k \in DOMAIN children[f] : children[f][k].owner = Owner(p)
                                /\ children[f][k].request_id = i}
CleanRequestStored ==
  \A p \in Process :
    phase[p] = "out" /\ ~spoiled[p] /\ produced[p] > 0 =>
      \E i \in DOMAIN requests[database[p]] :
        /\ requests[database[p]][i] = Owner(p)
        /\ Cardinality(Produced(p, database[p], i)) = produced[p]

\* Each step of a call leaves fewer of them, and nothing but a dropped session
\* costs the call another one: no query is repeated without that.
Rest(label) ==
  CASE label = "instance" -> 5 [] label = "insert" -> 4 [] label = "set" -> 3
    [] label = "again" -> 2    [] label = "child" -> 1  [] label = "idle" -> 0
StepsLeft(p) == 2 * Rest(at[p]) + (IF mysql_event_db[p] = "broken" THEN 1 ELSE 0)
CallIsBounded ==
  [][\A p \in Process :
       /\ Work(p) => StepsLeft(p)' < StepsLeft(p)
       /\ ~Idle(p) /\ StepsLeft(p)' > StepsLeft(p) =>
            DropSession(p) /\ StepsLeft(p)' = StepsLeft(p) + 1]_vars

\* Every call of the driver returns, however often the server drops the session.
CallReturns == \A p \in Process : []<>Idle(p)
=============================================================================
