-------------------------- MODULE MysqlDriver_proofs --------------------------
(* Theorems of MysqlDriver, for every value of its constants.              *)
EXTENDS MysqlDriver, SequenceTheorems, FiniteSetTheorems, TLAPS

Owners == Process \X Nat

-----------------------------------------------------------------------------
(* Types and sessions *)

\* A session is there exactly while the handle is good: needed to see that no
\* close, and no loss, takes one that is not there.
Typed == TypeOK /\ SessionsHeld

LEMMA TypesInit == Init => Typed
<1> SUFFICES ASSUME Init PROVE Typed
  OBVIOUS
<1>1. (CHOOSE f \in Databases : TRUE) \in Databases
  BY MysqlAssumption
<1>2. <<>> \in Seq(Owners) /\ <<>> \in Seq(Rows)
  OBVIOUS
<1> QED BY <1>1, <1>2 DEF Init, Typed, TypeOK, SessionsHeld, Owners

LEMMA ChildId ==
  ASSUME Typed, NEW p \in Process
  PROVE  LET f == database[p]
             peers == {i \in DOMAIN children[f] : children[f][i].table = table[p]}
         IN Cardinality(peers) + 1 \in Nat
<1> DEFINE f == database[p]
           peers == {i \in DOMAIN children[f] : children[f][i].table = table[p]}
<1>1. children[f] \in Seq(Rows) BY DEF Typed, TypeOK
<1>2. DOMAIN children[f] = 1..Len(children[f]) /\ Len(children[f]) \in Nat
  BY <1>1, LenProperties
<1>3. IsFiniteSet(peers)
  <2>1. \A n \in Nat : IsFiniteSet(1..n) BY FS_Interval
  <2>2. peers \subseteq 1..Len(children[f]) BY <1>2
  <2> QED BY <1>2, <2>1, <2>2, FS_Subset
<1>4. Cardinality(peers) \in Nat
  BY <1>3, FS_CardinalityType
<1> QED BY <1>4

\* The types, by where the state is kept: the handle and its session, the process,
\* the tables and what went wrong.
Places == {"idle", "instance", "insert", "set", "again", "child"}
HandleTyped ==
  /\ mysql_event_db \in [Process -> {"null", "open", "broken"}]
  /\ sessions \in [Process -> 0..1] /\ SessionsHeld
SessionTyped == request_id \in [Process -> Nat] /\ last \in [Process -> Nat]
CallTyped ==
  /\ database \in [Process -> Databases] /\ is_request_created \in [Process -> BOOLEAN]
  /\ at \in [Process -> Places] /\ table \in [Process -> {"event", "stats"}]
ServingTyped ==
  /\ hooks \in [Process -> {"minit", "rinit", "none"}]
  /\ phase \in [Process -> {"startup", "script", "stats", "out", "down"}]
  /\ number \in [Process -> Nat] /\ events \in [Process -> Nat]
  /\ produced \in [Process -> Nat]
TablesTyped ==
  requests \in [Databases -> Seq(Owners)] /\ children \in [Databases -> Seq(Rows)]
TroubleTyped ==
  excused \subseteq Owners /\ spoiled \in [Process -> BOOLEAN] /\ faults \in Nat

LEMMA TypedParts ==
  /\ Typed <=> HandleTyped /\ SessionTyped /\ CallTyped /\ ServingTyped /\ TablesTyped
                 /\ TroubleTyped
  /\ Typed' <=> HandleTyped' /\ SessionTyped' /\ CallTyped' /\ ServingTyped' /\ TablesTyped'
                  /\ TroubleTyped'
<1>1. Typed <=> HandleTyped /\ SessionTyped /\ CallTyped /\ ServingTyped /\ TablesTyped
                  /\ TroubleTyped
  BY DEF Typed, TypeOK, HandleTyped, SessionTyped, CallTyped, ServingTyped, TablesTyped,
         TroubleTyped, Places, Owners
<1>2. Typed' <=> HandleTyped' /\ SessionTyped' /\ CallTyped' /\ ServingTyped' /\ TablesTyped'
                   /\ TroubleTyped'
  BY DEF Typed, TypeOK, HandleTyped, SessionTyped, CallTyped, ServingTyped, TablesTyped,
         TroubleTyped, Places, Owners
<1> QED BY <1>1, <1>2

\* What a step leaves alone keeps its types.
LEMMA TypesKept ==
  ASSUME Typed
  PROVE  /\ UNCHANGED <<mysql_event_db, sessions>> => HandleTyped'
         /\ UNCHANGED <<request_id, last>> => SessionTyped'
         /\ UNCHANGED serving => ServingTyped'
         /\ UNCHANGED tables => TablesTyped'
         /\ UNCHANGED trouble => TroubleTyped'
<1>1. HandleTyped /\ SessionTyped /\ ServingTyped /\ TablesTyped /\ TroubleTyped
  BY TypedParts
<1>2. UNCHANGED <<mysql_event_db, sessions>> => HandleTyped'
  BY <1>1 DEF HandleTyped, SessionsHeld
<1>3. UNCHANGED <<request_id, last>> => SessionTyped' BY <1>1 DEF SessionTyped
<1>4. UNCHANGED serving => ServingTyped' BY <1>1 DEF ServingTyped, serving
<1>5. UNCHANGED tables => TablesTyped' BY <1>1 DEF TablesTyped, tables
<1>6. UNCHANGED trouble => TroubleTyped' BY <1>1 DEF TroubleTyped, trouble
<1> QED BY <1>2, <1>3, <1>4, <1>5, <1>6

LEMMA NewSessionTypes ==
  ASSUME Typed, NEW p \in Process, sessions[p] = 0, NewSession(p)
  PROVE  HandleTyped' /\ SessionTyped'
<1>1. HandleTyped /\ SessionTyped BY TypedParts
<1>2. HandleTyped' BY <1>1 DEF HandleTyped, SessionsHeld, NewSession
<1>3. SessionTyped' BY <1>1 DEF SessionTyped, NewSession
<1> QED BY <1>2, <1>3

LEMMA GotoTypes ==
  ASSUME Typed, NEW p \in Process, NEW label \in Places, Goto(p, label)
  PROVE  at' \in [Process -> Places]
BY TypedParts DEF CallTyped, Goto

LEMMA FaultTypes ==
  ASSUME Typed, NEW p \in Process, Spoil(p),
         UNCHANGED faults \/ Fault(p), excused' \subseteq Owners
  PROVE  TroubleTyped'
<1>1. spoiled \in [Process -> BOOLEAN] /\ faults \in Nat BY TypedParts DEF TroubleTyped
<1>2. spoiled' \in [Process -> BOOLEAN] BY <1>1 DEF Spoil
<1>3. faults' \in Nat BY <1>1 DEF Fault
<1> QED BY <1>2, <1>3 DEF TroubleTyped

\* The calls of the core.
LEMMA CallTypes == ASSUME Typed, NEW p \in Process, Call(p) PROVE Typed'
<1>0. HandleTyped /\ CallTyped /\ ServingTyped /\ TroubleTyped
  BY TypedParts
<1>1. CASE rinit(p) \/ rinit_Skipped(p)
  <2>1. /\ UNCHANGED <<handle, at, table, session, tables, faults>>
        /\ is_request_created' \in {is_request_created, [is_request_created EXCEPT ![p] = FALSE]}
        /\ spoiled' \in {[spoiled EXCEPT ![p] = b] : b \in BOOLEAN}
        /\ hooks' \in {hooks, [hooks EXCEPT ![p] = "rinit"]}
        /\ phase' = [phase EXCEPT ![p] = "script"] /\ number' = [number EXCEPT ![p] = @ + 1]
        /\ events' = [events EXCEPT ![p] = 0] /\ produced' = [produced EXCEPT ![p] = 0]
        /\ excused' \in {excused, excused \union {<<p, number'[p]>>}}
    BY <1>0, <1>1 DEF rinit, rinit_Skipped, Begin, CallTyped
  <2>2. HandleTyped' /\ SessionTyped' /\ TablesTyped'
    BY <2>1, TypesKept DEF handle, session
  <2>3. CallTyped'
    <3>1. is_request_created' \in [Process -> BOOLEAN] BY <1>0, <2>1 DEF CallTyped
    <3> QED BY <1>0, <2>1, <3>1 DEF CallTyped, handle
  <2>4. ServingTyped' BY <1>0, <2>1 DEF ServingTyped
  <2>5. TroubleTyped'
    <3>1. <<p, number'[p]>> \in Owners BY <2>4 DEF ServingTyped, Owners
    <3>2. excused' \subseteq Owners BY <1>0, <2>1, <3>1 DEF TroubleTyped
    <3>3. spoiled' \in [Process -> BOOLEAN] /\ faults' \in Nat BY <1>0, <2>1 DEF TroubleTyped
    <3> QED BY <3>2, <3>3 DEF TroubleTyped
  <2> QED BY <2>2, <2>3, <2>4, <2>5, TypedParts
<1>2. ASSUME NEW which \in {"event", "stats"}, Enter(p, which)
      PROVE  at' \in [Process -> Places] /\ table' \in [Process -> {"event", "stats"}]
             /\ produced' \in [Process -> Nat]
  <2>1. Get(p, IF is_request_created[p] THEN "again" ELSE "instance") \in Places
    BY DEF Get, After, Places
  <2>2. at' \in [Process -> Places] BY <1>2, <2>1, GotoTypes DEF Enter
  <2>3. table' \in [Process -> {"event", "stats"}] BY <1>0, <1>2 DEF Enter, CallTyped
  <2>4. produced' \in [Process -> Nat] BY <1>0, <1>2 DEF Enter, ServingTyped
  <2> QED BY <2>2, <2>3, <2>4
<1>3. CASE process_event(p)
  <2>1. /\ Enter(p, "event") /\ events' = [events EXCEPT ![p] = events[p] + 1]
        /\ UNCHANGED <<handle, is_request_created, session, hooks, phase, number, tables, trouble>>
    BY <1>3 DEF process_event
  <2>2. HandleTyped' /\ SessionTyped' /\ TablesTyped' /\ TroubleTyped'
    BY <2>1, TypesKept DEF handle, session
  <2>3. at' \in [Process -> Places] /\ table' \in [Process -> {"event", "stats"}]
        /\ produced' \in [Process -> Nat]
    BY <1>2, <2>1
  <2>4. CallTyped' BY <1>0, <2>1, <2>3 DEF CallTyped, handle
  <2>5. events' \in [Process -> Nat]
    <3>1. events \in [Process -> Nat] BY <1>0 DEF ServingTyped
    <3> QED BY ONLY <2>1, <3>1, p \in Process
  <2>6. ServingTyped' BY <1>0, <2>1, <2>3, <2>5 DEF ServingTyped
  <2> QED BY <2>2, <2>4, <2>6, TypedParts
<1>4. CASE process_stats(p)
  <2>1. /\ Enter(p, "stats") \/ UNCHANGED <<at, table, produced>>
        /\ phase' = [phase EXCEPT ![p] = "stats"]
        /\ UNCHANGED <<handle, is_request_created, session, hooks, number, events, tables, trouble>>
    BY <1>4 DEF process_stats
  <2>2. HandleTyped' /\ SessionTyped' /\ TablesTyped' /\ TroubleTyped'
    BY <2>1, TypesKept DEF handle, session
  <2>3. at' \in [Process -> Places] /\ table' \in [Process -> {"event", "stats"}]
        /\ produced' \in [Process -> Nat]
    <3>1. CASE Enter(p, "stats") BY <1>2, <3>1
    <3>2. CASE UNCHANGED <<at, table, produced>> BY <1>0, <3>2 DEF CallTyped, ServingTyped
    <3> QED BY <2>1, <3>1, <3>2
  <2>4. CallTyped' BY <1>0, <2>1, <2>3 DEF CallTyped, handle
  <2>5. ServingTyped' BY <1>0, <2>1, <2>3 DEF ServingTyped
  <2> QED BY <2>2, <2>4, <2>5, TypedParts
<1>5. CASE rshutdown(p)
  <2>1. /\ phase' = [phase EXCEPT ![p] = "out"]
        /\ hooks' = [hooks EXCEPT ![p] = IF hooks[p] = "rinit" THEN "none" ELSE hooks[p]]
        /\ UNCHANGED <<handle, is_request_created, at, table, session, number, events,
                       produced, tables, trouble>>
    BY <1>5 DEF rshutdown
  <2>2. HandleTyped' /\ SessionTyped' /\ TablesTyped' /\ TroubleTyped'
    BY <2>1, TypesKept DEF handle, session
  <2>3. CallTyped' BY <1>0, <2>1 DEF CallTyped, handle
  <2>4. ServingTyped' BY <1>0, <2>1 DEF ServingTyped
  <2> QED BY <2>2, <2>3, <2>4, TypedParts
<1>6. CASE mshutdown(p)
  <2>1. /\ phase' = [phase EXCEPT ![p] = "down"]
        /\ \/ UNCHANGED <<mysql_event_db, sessions>>
           \/ /\ mysql_event_db' = [mysql_event_db EXCEPT ![p] = "null"]
              /\ sessions' = [sessions EXCEPT ![p] = Closed(p)]
        /\ UNCHANGED <<database, is_request_created, at, table, request_id, last, hooks,
                       number, events, produced, tables, trouble>>
    BY <1>6 DEF mshutdown
  <2>2. SessionTyped' /\ TablesTyped' /\ TroubleTyped' BY <2>1, TypesKept
  <2>3. HandleTyped'
    <3>1. Closed(p) = 0 BY <1>0 DEF HandleTyped, SessionsHeld, Closed
    <3> QED BY <1>0, <2>1, <3>1, TypesKept DEF HandleTyped, SessionsHeld
  <2>4. CallTyped' BY <1>0, <2>1 DEF CallTyped
  <2>5. ServingTyped' BY <1>0, <2>1 DEF ServingTyped
  <2> QED BY <2>2, <2>3, <2>4, <2>5, TypedParts
<1> QED BY <1>1, <1>3, <1>4, <1>5, <1>6 DEF Call

\* The steps of a call.
LEMMA WorkTypes == ASSUME Typed, NEW p \in Process, Work(p) PROVE Typed'
<1>0. HandleTyped /\ SessionTyped /\ CallTyped /\ TablesTyped /\ TroubleTyped
  BY TypedParts
<1>a. excused \subseteq Owners /\ Owner(p) \in Owners /\ database[p] \in Databases
  BY <1>0, TypedParts DEF TroubleTyped, CallTyped, ServingTyped, Owner, Owners
<1>1. CASE Connect(p)
  <2>1. /\ AtInstance(p) /\ mysql_event_db[p] = "null" /\ Goto(p, After(at[p])) /\ NewSession(p)
        /\ \E f \in Databases : database' = [database EXCEPT ![p] = f]
        /\ UNCHANGED <<is_request_created, table, serving, tables, trouble>>
    BY <1>1 DEF Connect
  <2>2. ServingTyped' /\ TablesTyped' /\ TroubleTyped' BY <2>1, TypesKept
  <2>3. sessions[p] = 0 BY <1>0, <2>1 DEF HandleTyped, SessionsHeld
  <2>4. After(at[p]) \in Places BY DEF After, Places
  <2>5. at' \in [Process -> Places] BY <2>1, <2>4, GotoTypes
  <2>6. CallTyped' BY <1>0, <2>1, <2>5 DEF CallTyped
  <2> QED BY <2>1, <2>2, <2>3, <2>6, NewSessionTypes, TypedParts
<1>2. CASE ConnectFails(p)
  <2>1. /\ Fault(p) /\ Goto(p, IF at[p] = "instance" THEN "again" ELSE "idle")
        /\ UNCHANGED <<handle, is_request_created, table, session, serving, tables, excused>>
    BY <1>2 DEF ConnectFails
  <2>2. HandleTyped' /\ SessionTyped' /\ ServingTyped' /\ TablesTyped'
    BY <2>1, TypesKept DEF handle, session
  <2>3. (IF at[p] = "instance" THEN "again" ELSE "idle") \in Places BY DEF Places
  <2>4. at' \in [Process -> Places] BY <2>1, <2>3, GotoTypes
  <2>5. CallTyped' BY <1>0, <2>1, <2>4 DEF CallTyped, handle
  <2>6. Spoil(p) /\ excused' \subseteq Owners BY <1>a, <2>1 DEF Fault
  <2>7. TroubleTyped' BY <2>1, <2>6, FaultTypes
  <2> QED BY <2>2, <2>5, <2>7, TypedParts
<1>3. CASE InsertRequest(p)
  <2> DEFINE f == database[p] s == Append(requests[f], Owner(p))
  <2>1. /\ Goto(p, "set") /\ requests' = [requests EXCEPT ![f] = s]
        /\ last' = [last EXCEPT ![p] = Len(requests'[f])]
        /\ UNCHANGED <<handle, is_request_created, table, sessions, request_id, serving,
                       children, trouble>>
    BY <1>3 DEF InsertRequest
  <2>2. HandleTyped' /\ ServingTyped' /\ TroubleTyped' BY <2>1, TypesKept DEF handle
  <2>3. requests[f] \in Seq(Owners) BY <1>0, <1>a DEF TablesTyped
  <2>4. s \in Seq(Owners) BY <1>a, <2>3, AppendProperties
  <2>5. TablesTyped' /\ requests'[f] = s BY <1>0, <1>a, <2>1, <2>4 DEF TablesTyped
  <2>6. Len(requests'[f]) \in Nat BY <2>4, <2>5, LenProperties
  <2>7. SessionTyped' BY <1>0, <2>1, <2>6 DEF SessionTyped
  <2>8. at' \in [Process -> Places] BY <2>1, GotoTypes DEF Places
  <2>9. CallTyped' BY <1>0, <2>1, <2>8 DEF CallTyped, handle
  <2> QED BY <2>2, <2>5, <2>7, <2>9, TypedParts
<1>4. CASE RequestRejected(p)
  <2>1. /\ Goto(p, "set") /\ Fault(p) /\ excused' = excused \union {Owner(p)}
        /\ UNCHANGED <<handle, is_request_created, table, session, serving, tables>>
    BY <1>4 DEF RequestRejected
  <2>2. HandleTyped' /\ SessionTyped' /\ ServingTyped' /\ TablesTyped'
    BY <2>1, TypesKept DEF handle, session
  <2>3. at' \in [Process -> Places] BY <2>1, GotoTypes DEF Places
  <2>4. CallTyped' BY <1>0, <2>1, <2>3 DEF CallTyped, handle
  <2>5. Spoil(p) /\ excused' \subseteq Owners BY <1>a, <2>1 DEF Fault
  <2>6. TroubleTyped' BY <2>1, <2>5, FaultTypes
  <2> QED BY <2>2, <2>4, <2>6, TypedParts
<1>5. CASE SetRequestId(p)
  <2>1. /\ Goto(p, Get(p, "again")) /\ request_id' = [request_id EXCEPT ![p] = last[p]]
        /\ is_request_created' = [is_request_created EXCEPT ![p] = TRUE]
        /\ UNCHANGED <<handle, table, sessions, last, serving, tables, trouble>>
    BY <1>5 DEF SetRequestId
  <2>2. HandleTyped' /\ ServingTyped' /\ TablesTyped' /\ TroubleTyped'
    BY <2>1, TypesKept DEF handle
  <2>3. Get(p, "again") \in Places BY DEF Get, After, Places
  <2>4. at' \in [Process -> Places] BY <2>1, <2>3, GotoTypes
  <2>5. SessionTyped' BY <1>0, <2>1 DEF SessionTyped
  <2>6. CallTyped' BY <1>0, <2>1, <2>4 DEF CallTyped, handle
  <2> QED BY <2>2, <2>5, <2>6, TypedParts
<1>6. CASE InsertChild(p)
  <2> DEFINE f == database[p]
             row == [table |-> table[p], request_id |-> request_id[p], owner |-> Owner(p)]
             id == Cardinality({i \in DOMAIN children[f] :
                                  children[f][i].table = table[p]}) + 1
  <2>1. /\ Goto(p, "idle") /\ children' = [children EXCEPT ![f] = Append(children[f], row)]
        /\ last' = [last EXCEPT ![p] = id]
        /\ UNCHANGED <<handle, is_request_created, table, sessions, request_id, serving,
                       requests, trouble>>
    BY <1>6 DEF InsertChild
  <2>2. id \in Nat BY ChildId
  <2>3. row \in Rows BY <1>0, <1>a DEF Rows, Owners, CallTyped, SessionTyped
  <2> HIDE DEF id, row
  <2>4. HandleTyped' /\ ServingTyped' /\ TroubleTyped' BY <2>1, TypesKept DEF handle
  <2>5. children[f] \in Seq(Rows) BY <1>0, <1>a DEF TablesTyped
  <2>6. Append(children[f], row) \in Seq(Rows) BY <2>3, <2>5, AppendProperties
  <2>7. TablesTyped' BY <1>0, <1>a, <2>1, <2>6 DEF TablesTyped
  <2>8. SessionTyped' BY <1>0, <2>1, <2>2 DEF SessionTyped
  <2>9. at' \in [Process -> Places] BY <2>1, GotoTypes DEF Places
  <2>10. CallTyped' BY <1>0, <2>1, <2>9 DEF CallTyped, handle
  <2> QED BY <2>4, <2>7, <2>8, <2>10, TypedParts
<1>7. CASE ChildRejected(p)
  <2>1. /\ Goto(p, "idle") /\ Fault(p)
        /\ UNCHANGED <<handle, is_request_created, table, session, serving, tables, excused>>
    BY <1>7 DEF ChildRejected
  <2>2. HandleTyped' /\ SessionTyped' /\ ServingTyped' /\ TablesTyped'
    BY <2>1, TypesKept DEF handle, session
  <2>3. at' \in [Process -> Places] BY <2>1, GotoTypes DEF Places
  <2>4. CallTyped' BY <1>0, <2>1, <2>3 DEF CallTyped, handle
  <2>5. Spoil(p) /\ excused' \subseteq Owners BY <1>a, <2>1 DEF Fault
  <2>6. TroubleTyped' BY <2>1, <2>5, FaultTypes
  <2> QED BY <2>2, <2>4, <2>6, TypedParts
<1>8. CASE Reconnect(p)
  <2>1. /\ mysql_event_db[p] = "broken" /\ NewSession(p)
        /\ UNCHANGED <<database, is_request_created, at, table, serving, tables, trouble>>
    BY <1>8 DEF Reconnect, AtQuery
  <2>2. ServingTyped' /\ TablesTyped' /\ TroubleTyped' BY <2>1, TypesKept
  <2>3. sessions[p] = 0 BY <1>0, <2>1 DEF HandleTyped, SessionsHeld
  <2>4. CallTyped' BY <1>0, <2>1 DEF CallTyped
  <2> QED BY <2>1, <2>2, <2>3, <2>4, NewSessionTypes, TypedParts
<1>9. CASE GoneAway(p)
  <2>1. /\ AtQuery(p) /\ Spoil(p) /\ GiveUp(p)
        /\ UNCHANGED <<handle, table, session, serving, tables, excused, faults>>
    BY <1>9 DEF GoneAway
  <2>2. HandleTyped' /\ SessionTyped' /\ ServingTyped' /\ TablesTyped'
    BY <2>1, TypesKept DEF handle, session
  <2>3. at' \in [Process -> Places]
    <3>1. PICK label \in Places : Goto(p, label)
      BY <2>1 DEF AtQuery, GiveUp, Get, After, Places
    <3> QED BY <3>1, GotoTypes
  <2>4. is_request_created' \in [Process -> BOOLEAN]
    <3>1. is_request_created \in [Process -> BOOLEAN] BY <1>0 DEF CallTyped
    <3> QED BY <2>1, <3>1 DEF GiveUp
  <2>5. CallTyped' BY <1>0, <2>1, <2>3, <2>4 DEF CallTyped, handle
  <2>6. excused' \subseteq Owners /\ UNCHANGED faults BY <1>a, <2>1
  <2>7. TroubleTyped' BY <2>1, <2>6, FaultTypes
  <2> QED BY <2>2, <2>5, <2>7, TypedParts
<1> QED BY <1>1, <1>2, <1>3, <1>4, <1>5, <1>6, <1>7, <1>8, <1>9 DEF Work

LEMMA TypesNext == Typed /\ [Next]_vars => Typed'
<1> SUFFICES ASSUME Typed, [Next]_vars PROVE Typed'
  OBVIOUS
<1>0. HandleTyped /\ CallTyped /\ TroubleTyped BY TypedParts
<1>1. ASSUME NEW p \in Process, DropSession(p) PROVE Typed'
  <2>1. /\ mysql_event_db[p] = "open" /\ Fault(p)
        /\ mysql_event_db' = [mysql_event_db EXCEPT ![p] = "broken"]
        /\ sessions' = [sessions EXCEPT ![p] = @ - 1]
        /\ UNCHANGED <<database, is_request_created, at, table, request_id, last, serving,
                       tables, excused>>
    BY <1>1 DEF DropSession
  <2>2. SessionTyped' /\ ServingTyped' /\ TablesTyped' BY <2>1, TypesKept
  <2>3. HandleTyped' BY <1>0, <2>1 DEF HandleTyped, SessionsHeld
  <2>4. CallTyped' BY <1>0, <2>1 DEF CallTyped
  <2>5. Spoil(p) /\ excused' \subseteq Owners BY <1>0, <2>1 DEF Fault, TroubleTyped
  <2>6. TroubleTyped' BY <2>1, <2>5, FaultTypes
  <2> QED BY <2>2, <2>3, <2>4, <2>6, TypedParts
<1>2. CASE UNCHANGED vars
  <2>1. CallTyped' BY <1>0, <1>2 DEF CallTyped, vars, handle
  <2> QED BY <1>2, <2>1, TypesKept, TypedParts DEF vars, handle, session
<1> QED BY <1>1, <1>2, CallTypes, WorkTypes DEF Next, Terminated

\* The variables keep their types, whatever the constants.
THEOREM MysqlTypes == Spec => []TypeOK
<1>1. Typed => TypeOK BY DEF Typed
<1> QED BY <1>1, TypesInit, TypesNext, PTL DEF Spec

\* No failure of the server, and no request, leaves a session behind or closes one
\* that is not there.
THEOREM SessionsAreHeld == Spec => []SessionsHeld
<1>1. Typed => SessionsHeld BY DEF Typed
<1> QED BY <1>1, TypesInit, TypesNext, PTL DEF Spec

-----------------------------------------------------------------------------
(* The rows and the id in the session *)

\* What i refers to, in the session of p.
Mine(p, i) ==
  \/ i = 0 \/ Owner(p) \in excused
  \/ i \in DOMAIN requests[database[p]] /\ requests[database[p]][i] = Owner(p)

\* No request has a row ahead of its time; the flag is set, or about to be, once
\* the request has its row; and the id in a session that lives, and the one about
\* to be taken, is that of the current request's row.
Numbered ==
  \A f \in Databases : \A i \in DOMAIN requests[f] :
    requests[f][i][2] <= number[requests[f][i][1]]
Linked(p) ==
  /\ at[p] \in {"instance", "insert"} => ~is_request_created[p]
  /\ ~is_request_created[p] /\ at[p] # "set" => ~Store!HasRow(Owner(p))
  /\ mysql_event_db[p] = "open" /\ (is_request_created[p] \/ at[p] = "child")
       => Mine(p, request_id[p])
  /\ mysql_event_db[p] = "open" /\ at[p] = "set" => Mine(p, last[p])
AllLinked == Numbered /\ \A p \in Process : Linked(p)

LEMMA LinkedInit == Init => AllLinked
BY DEF Init, AllLinked, Numbered, Linked, Store!HasRow

\* A step of p that leaves the requests alone leaves the other processes so.
LEMMA OthersLinked ==
  ASSUME AllLinked, NEW p \in Process,
         requests' = requests, number' = number, excused \subseteq excused',
         \A q \in Process \ {p} :
           /\ at'[q] = at[q] /\ is_request_created'[q] = is_request_created[q]
           /\ mysql_event_db'[q] = mysql_event_db[q] /\ database'[q] = database[q]
           /\ request_id'[q] = request_id[q] /\ last'[q] = last[q],
         Linked(p)'
  PROVE  AllLinked'
<1>1. Numbered' BY DEF AllLinked, Numbered
<1>2. ASSUME NEW q \in Process \ {p} PROVE Linked(q)'
  <2>1. Linked(q) BY DEF AllLinked
  <2>2. Owner(q)' = Owner(q) /\ (Store!HasRow(Owner(q)) <=> Store!HasRow(Owner(q))')
    BY <1>2 DEF Owner, Store!HasRow
  <2>3. \A i : Mine(q, i) => Mine(q, i)' BY <1>2, <2>2 DEF Mine
  <2>4. /\ at'[q] = at[q] /\ is_request_created'[q] = is_request_created[q]
        /\ mysql_event_db'[q] = mysql_event_db[q]
        /\ request_id'[q] = request_id[q] /\ last'[q] = last[q]
    BY <1>2
  <2> QED BY ONLY <2>1, <2>2, <2>3, <2>4 DEF Linked
<1> QED BY <1>1, <1>2 DEF AllLinked

LEMMA LinkedNext == Typed /\ AllLinked /\ [Next]_vars => AllLinked'
<1> SUFFICES ASSUME Typed, AllLinked, [Next]_vars PROVE AllLinked'
  OBVIOUS
<1> USE DEF handle, session, serving, tables, trouble
<1>0. /\ mysql_event_db \in [Process -> {"null", "open", "broken"}]
      /\ database \in [Process -> Databases]
      /\ is_request_created \in [Process -> BOOLEAN]
      /\ at \in [Process -> {"idle", "instance", "insert", "set", "again", "child"}]
      /\ request_id \in [Process -> Nat] /\ last \in [Process -> Nat]
      /\ requests \in [Databases -> Seq(Owners)] /\ number \in [Process -> Nat]
  BY DEF Typed, TypeOK, Owners
<1>1. ASSUME NEW p \in Process, rinit(p) \/ rinit_Skipped(p) PROVE AllLinked'
  <2>1. /\ number' = [number EXCEPT ![p] = @ + 1] /\ at[p] = "idle"
        /\ \A q \in Process \ {p} : is_request_created'[q] = is_request_created[q]
        /\ is_request_created'[p] => <<p, number'[p]>> \in excused'
        /\ excused \subseteq excused'
        /\ UNCHANGED <<handle, at, session, tables>>
    BY <1>0, <1>1 DEF rinit, rinit_Skipped, Begin, Idle
  <2>2. Numbered'
    <3>1. \A f \in Databases : \A i \in DOMAIN requests[f] : requests[f][i] \in Owners
      BY <1>0, ElementOfSeq, LenProperties
    <3>2. \A o \in Owners : o[1] \in Process /\ o[2] \in Nat
      BY DEF Owners
    <3>3. \A q \in Process :
            number[q] \in Nat /\ number'[q] \in Nat /\ number[q] <= number'[q]
      BY <1>0, <2>1
    <3>4. requests' = requests BY <2>1
    <3>5. ASSUME NEW f \in Databases, NEW i \in DOMAIN requests[f]
          PROVE  requests[f][i][2] <= number'[requests[f][i][1]]
      <4>1. requests[f][i][2] <= number[requests[f][i][1]]
        BY DEF AllLinked, Numbered
      <4>2. requests[f][i][1] \in Process /\ requests[f][i][2] \in Nat
        BY <3>1, <3>2
      <4> QED BY <3>3, <4>1, <4>2
    <3> QED BY <3>4, <3>5 DEF Numbered
  <2>3. ~Store!HasRow(Owner(p))'
    BY <1>0, <2>1 DEF AllLinked, Numbered, Owner, Store!HasRow
  <2>4. Linked(p)'
    <3>1. at'[p] = "idle" BY <1>0, <2>1
    <3>2. is_request_created'[p] => Mine(p, request_id[p])' BY <2>1 DEF Mine, Owner
    <3> QED BY <2>3, <3>1, <3>2 DEF Linked
  <2>5. ASSUME NEW q \in Process \ {p} PROVE Linked(q)'
    <3>1. Linked(q) BY DEF AllLinked
    <3>2. Owner(q)' = Owner(q) BY <1>0, <2>1 DEF Owner
    <3>3. \A i : Mine(q, i) => Mine(q, i)' BY <2>1, <3>2 DEF Mine
    <3>4. Store!HasRow(Owner(q))' <=> Store!HasRow(Owner(q)) BY <2>1, <3>2 DEF Store!HasRow
    <3> QED BY <2>1, <3>1, <3>3, <3>4 DEF Linked
  <2> QED BY <2>2, <2>4, <2>5 DEF AllLinked
<1>2. ASSUME NEW p \in Process, Enter(p, "event") \/ Enter(p, "stats"),
             UNCHANGED <<handle, is_request_created, session, number, tables, excused>>,
             at[p] = "idle"
      PROVE  AllLinked'
  <2>1. at' = [at EXCEPT ![p] = Get(p, IF is_request_created[p] THEN "again"
                                                             ELSE "instance")]
    BY <1>2 DEF Enter, Goto
  <2>2. Linked(p)'
    BY <1>0, <1>2, <2>1 DEF AllLinked, Linked, Mine, Owner, Store!HasRow, Get, After
  <2> QED BY <1>0, <1>2, <2>1, <2>2, OthersLinked
<1>3. ASSUME NEW p \in Process, mshutdown(p) PROVE AllLinked'
  <2>1. /\ mysql_event_db' \in {mysql_event_db, [mysql_event_db EXCEPT ![p] = "null"]}
        /\ at[p] = "idle"
        /\ UNCHANGED <<database, is_request_created, at, request_id, last, number, tables,
                       excused>>
    BY <1>3 DEF mshutdown, Idle
  <2>2. mysql_event_db'[p] = "open" => mysql_event_db[p] = "open" BY <1>0, <2>1
  <2>3. Linked(p)'
    <3>1. Linked(p) BY DEF AllLinked
    <3>2. \A i : Mine(p, i) => Mine(p, i)' BY <2>1 DEF Mine, Owner
    <3>3. Store!HasRow(Owner(p))' <=> Store!HasRow(Owner(p)) BY <2>1 DEF Owner, Store!HasRow
    <3> QED BY <2>1, <2>2, <3>1, <3>2, <3>3 DEF Linked
  <2> QED BY <1>0, <2>1, <2>3, OthersLinked
<1>4. ASSUME NEW p \in Process, Connect(p) PROVE AllLinked'
  <2>1. /\ at[p] \in {"instance", "again"}
        /\ at' = [at EXCEPT ![p] = After(at[p])]
        /\ request_id' = [request_id EXCEPT ![p] = 0] /\ last' = [last EXCEPT ![p] = 0]
        /\ mysql_event_db' = [mysql_event_db EXCEPT ![p] = "open"]
        /\ UNCHANGED <<is_request_created, serving, tables, trouble>>
    BY <1>4 DEF Connect, AtInstance, Goto, NewSession
  <2>2. Linked(p)'
    <3>1. /\ at[p] = "instance" => ~is_request_created[p]
          /\ ~is_request_created[p] /\ at[p] # "set" => ~Store!HasRow(Owner(p))
      BY DEF AllLinked, Linked
    <3>2. /\ request_id'[p] = 0 /\ is_request_created'[p] = is_request_created[p]
          /\ \/ at[p] = "instance" /\ at'[p] = "insert"
             \/ at[p] = "again" /\ at'[p] = "child"
      BY <1>0, <2>1 DEF After
    <3>3. Store!HasRow(Owner(p))' <=> Store!HasRow(Owner(p)) BY <2>1 DEF Owner, Store!HasRow
    <3>4. Mine(p, request_id[p])' BY <3>2 DEF Mine
    <3> QED BY ONLY <3>1, <3>2, <3>3, <3>4 DEF Linked
  <2>3. \A q \in Process \ {p} : database'[q] = database[q]
    BY <1>0, <1>4 DEF Connect
  <2> QED BY <1>0, <2>1, <2>2, <2>3, OthersLinked
<1>5. ASSUME NEW p \in Process, ConnectFails(p) PROVE AllLinked'
  <2>1. /\ at[p] \in {"instance", "again"} /\ mysql_event_db[p] = "null"
        /\ at' = [at EXCEPT ![p] = IF at[p] = "instance" THEN "again" ELSE "idle"]
        /\ UNCHANGED <<handle, is_request_created, session, number, tables, excused>>
    BY <1>5 DEF ConnectFails, AtInstance, Goto
  <2>2. Linked(p)'
    BY <1>0, <2>1 DEF AllLinked, Linked, Owner, Store!HasRow
  <2> QED BY <1>0, <2>1, <2>2, OthersLinked
<1>6. ASSUME NEW p \in Process, InsertRequest(p) PROVE AllLinked'
  <2> DEFINE f == database[p]
             s == requests[f]
             t == Append(s, Owner(p))
  <2>1. /\ at[p] = "insert" /\ at' = [at EXCEPT ![p] = "set"]
        /\ requests' = [requests EXCEPT ![f] = t]
        /\ last' = [last EXCEPT ![p] = Len(requests'[f])]
        /\ UNCHANGED <<handle, is_request_created, request_id, number, excused>>
    BY <1>6 DEF InsertRequest, Executes, Goto
  <2>2. f \in Databases /\ s \in Seq(Owners) /\ Owner(p) \in Owners
    BY <1>0 DEF Owner, Owners
  <2>3. /\ DOMAIN s = 1..Len(s) /\ DOMAIN t = 1..Len(s) + 1 /\ Len(s) \in Nat
        /\ Len(t) = Len(s) + 1 /\ t[Len(s) + 1] = Owner(p)
        /\ \A i \in DOMAIN s : t[i] = s[i]
    <3> HIDE DEF s
    <3> QED BY <2>2, AppendProperties, LenProperties
  <2>4. requests'[f] = t /\ \A g \in Databases \ {f} : requests'[g] = requests[g]
    BY <1>0, <2>1, <2>2
  <2>5. \A g \in Databases : \A i \in DOMAIN requests'[g] :
          \/ i \in DOMAIN requests[g] /\ requests'[g][i] = requests[g][i]
          \/ requests'[g][i] = Owner(p)
    <3> HIDE DEF t, s, f
    <3>1. \A i \in DOMAIN t : i \in DOMAIN s \/ i = Len(s) + 1 BY <2>3
    <3>2. s = requests[f] BY DEF s
    <3> QED BY ONLY <2>2, <2>3, <2>4, <3>1, <3>2
  <2>6. \A g \in Databases : \A i \in DOMAIN requests[g] :
          i \in DOMAIN requests'[g] /\ requests'[g][i] = requests[g][i]
    <3> HIDE DEF t, s, f
    <3>1. \A i \in DOMAIN s : i \in DOMAIN t BY <2>3
    <3>2. s = requests[f] BY DEF s
    <3> QED BY ONLY <2>2, <2>3, <2>4, <3>1, <3>2
  <2>7. Numbered'
    <3>1. Numbered /\ number' = number /\ number[p] \in Nat BY <1>0, <2>1 DEF AllLinked
    <3>2. Owner(p)[2] <= number[Owner(p)[1]] BY <3>1 DEF Owner
    <3> HIDE DEF t, s, f
    <3> QED BY ONLY <2>5, <3>1, <3>2 DEF Numbered
  <2>8. Linked(p)'
    <3>1. last'[p] \in DOMAIN requests'[f] /\ requests'[f][last'[p]] = Owner(p)
      <4> HIDE DEF t, f, s
      <4> QED BY <1>0, <2>1, <2>3, <2>4
    <3> QED BY <1>0, <2>1, <3>1 DEF AllLinked, Linked, Mine, Owner
  <2>9. ASSUME NEW q \in Process \ {p} PROVE Linked(q)'
    <3>1. Owner(q) # Owner(p) /\ Owner(q)' = Owner(q)
      BY <2>1 DEF Owner
    <3>2. ~Store!HasRow(Owner(q)) => ~Store!HasRow(Owner(q))'
      BY <2>5, <3>1 DEF Store!HasRow
    <3>3. \A i : Mine(q, i) => Mine(q, i)'
      BY <1>0, <2>1, <2>6, <3>1 DEF Mine
    <3> QED BY <1>0, <2>1, <3>1, <3>2, <3>3 DEF AllLinked, Linked
  <2> QED BY <2>7, <2>8, <2>9 DEF AllLinked
<1>7. ASSUME NEW p \in Process, RequestRejected(p) PROVE AllLinked'
  <2>1. /\ at[p] = "insert" /\ at' = [at EXCEPT ![p] = "set"]
        /\ excused' = excused \union {Owner(p)}
        /\ UNCHANGED <<handle, is_request_created, session, number, tables>>
    BY <1>7 DEF RequestRejected, Executes, Goto
  <2>2. Owner(p)' \in excused' BY <2>1 DEF Owner
  <2>3. Linked(p)'
    BY <1>0, <2>1, <2>2 DEF AllLinked, Linked, Mine
  <2> QED BY <1>0, <2>1, <2>3, OthersLinked
<1>8. ASSUME NEW p \in Process, SetRequestId(p) PROVE AllLinked'
  <2>1. /\ at[p] = "set" /\ mysql_event_db[p] = "open"
        /\ at' = [at EXCEPT ![p] = "child"]
        /\ request_id' = [request_id EXCEPT ![p] = last[p]]
        /\ is_request_created' = [is_request_created EXCEPT ![p] = TRUE]
        /\ UNCHANGED <<handle, last, number, tables, excused>>
    BY <1>8 DEF SetRequestId, Executes, Goto, Get, After
  <2>2. Linked(p)'
    BY <1>0, <2>1 DEF AllLinked, Linked, Mine, Owner
  <2> QED BY <1>0, <2>1, <2>2, OthersLinked
<1>9. ASSUME NEW p \in Process, InsertChild(p) \/ ChildRejected(p) PROVE AllLinked'
  <2>1. /\ at[p] = "child" /\ at' = [at EXCEPT ![p] = "idle"]
        /\ UNCHANGED <<handle, is_request_created, request_id, number, requests,
                       excused>>
        /\ \A q \in Process \ {p} : last'[q] = last[q]
    BY <1>0, <1>9 DEF InsertChild, ChildRejected, Executes, Goto
  <2>2. Linked(p)'
    BY <1>0, <2>1 DEF AllLinked, Linked, Mine, Owner, Store!HasRow
  <2> QED BY <1>0, <2>1, <2>2, OthersLinked
<1>10. ASSUME NEW p \in Process, Reconnect(p) PROVE AllLinked'
  <2>1. Linked(p)'
    BY <1>0, <1>10
    DEF Reconnect, NewSession, AllLinked, Linked, Mine, Owner, Store!HasRow
  <2> QED BY <1>0, <1>10, <2>1, OthersLinked DEF Reconnect, NewSession
<1>11. ASSUME NEW p \in Process, GoneAway(p) PROVE AllLinked'
  <2>1. /\ at[p] \in {"insert", "set", "child"} /\ mysql_event_db[p] = "broken"
        /\ at' = [at EXCEPT ![p] = CASE at[p] = "insert" -> "set"
                                      [] at[p] = "set" -> "child"
                                      [] at[p] = "child" -> "idle"]
        /\ is_request_created' =
             [is_request_created EXCEPT ![p] = @ \/ at[p] = "set"]
        /\ UNCHANGED <<handle, session, number, tables, excused>>
    BY <1>11 DEF GoneAway, AtQuery, GiveUp, Goto, Get, After
  <2>2. Linked(p)'
    BY <1>0, <2>1 DEF AllLinked, Linked, Owner, Store!HasRow
  <2> QED BY <1>0, <2>1, <2>2, OthersLinked
<1>12. ASSUME NEW p \in Process, DropSession(p) PROVE AllLinked'
  <2>1. Linked(p)'
    BY <1>0, <1>12 DEF DropSession, AllLinked, Linked, Owner, Store!HasRow
  <2> QED BY <1>0, <1>12, <2>1, OthersLinked DEF DropSession
<1>13. CASE UNCHANGED <<handle, is_request_created, at, session, number, tables,
                        excused>>
  BY <1>13 DEF AllLinked, Numbered, Linked, Mine, Owner, Store!HasRow
<1>14. ASSUME NEW p \in Process, Call(p) PROVE AllLinked'
  <2>1. CASE process_event(p) BY <1>2, <2>1 DEF process_event, Idle
  <2>2. CASE process_stats(p)
    <3>1. at[p] = "idle"
          /\ UNCHANGED <<handle, is_request_created, session, number, tables, excused>>
      BY <2>2 DEF process_stats, Idle
    <3>2. Enter(p, "stats") \/ UNCHANGED at
      BY <2>2 DEF process_stats
    <3> QED BY <1>2, <1>13, <3>1, <3>2
  <2>3. CASE rshutdown(p) BY <1>13, <2>3 DEF rshutdown
  <2> QED BY <1>1, <1>3, <1>14, <2>1, <2>2, <2>3 DEF Call
<1>15. CASE UNCHANGED vars BY <1>13, <1>15 DEF vars
<1> QED BY <1>4, <1>5, <1>6, <1>7, <1>8, <1>9, <1>10, <1>11, <1>12, <1>14, <1>15
        DEF Next, Work, Terminated

-----------------------------------------------------------------------------
(* The driver implements RequestStore *)

\* Every step is one of RequestStore, or leaves its variables alone.
LEMMA StepStores ==
  Typed /\ AllLinked /\ [Next]_vars => [Store!Next]_(Store!vars)
<1> SUFFICES ASSUME Typed, AllLinked, [Next]_vars PROVE [Store!Next]_(Store!vars)
  OBVIOUS
<1> USE DEF handle, session, serving, tables, trouble
<1>0. /\ database \in [Process -> Databases]
      /\ requests \in [Databases -> Seq(Owners)]
      /\ children \in [Databases -> Seq(Rows)]
      /\ request_id \in [Process -> Nat] /\ table \in [Process -> {"event", "stats"}]
      /\ number \in [Process -> Nat]
  BY DEF Typed, TypeOK, Owners
<1>1. ASSUME NEW p \in Process, InsertRequest(p) PROVE Store!Next
  <2> DEFINE f == database[p]
  <2>1. /\ requests' = [requests EXCEPT ![f] = Append(@, Owner(p))]
        /\ at[p] = "insert" /\ UNCHANGED <<children, excused>>
    BY <1>1 DEF InsertRequest, Executes
  <2>2. f \in Databases /\ Owner(p) \in Owners /\ requests[f] \in Seq(Owners)
    BY <1>0 DEF Owner, Owners
  <2>3. requests'[f] # <<>> /\ requests'[f][Len(requests'[f])] = Owner(p)
    <3>1. requests'[f] = Append(requests[f], Owner(p)) BY <1>0, <2>1, <2>2
    <3> QED BY <2>2, <3>1, AppendProperties, LenProperties
  <2>4. ~Store!HasRow(Owner(p))
    BY <2>1 DEF AllLinked, Linked
  <2>5. Store!StoreRequest(f)
    BY <2>1, <2>3, <2>4 DEF Store!StoreRequest
  <2> QED BY <2>2, <2>5 DEF Store!Next
<1>2. ASSUME NEW p \in Process, InsertChild(p) PROVE Store!Next
  <2> DEFINE f == database[p]
             row == [table |-> table[p], request_id |-> request_id[p],
                     owner |-> Owner(p)]
  <2>1. /\ children' = [children EXCEPT ![f] = Append(children[f], row)]
        /\ at[p] = "child" /\ mysql_event_db[p] = "open"
        /\ UNCHANGED <<requests, excused>>
    BY <1>2 DEF InsertChild, Executes
  <2>2. f \in Databases /\ row \in Rows /\ children[f] \in Seq(Rows)
    BY <1>0 DEF Owner, Rows
  <2>3. Store!RefersRightly(f, row)
    BY <2>1 DEF AllLinked, Linked, Mine, Store!RefersRightly
  <2>4. children'[f] # <<>> /\ children'[f][Len(children'[f])] = row
    <3> HIDE DEF row
    <3>1. children'[f] = Append(children[f], row) BY <1>0, <2>1, <2>2
    <3> QED BY <2>2, <3>1, AppendProperties, LenProperties
  <2>5. Store!StoreChild(f)
    <3> HIDE DEF row
    <3> QED BY <2>1, <2>3, <2>4 DEF Store!StoreChild
  <2> QED BY <2>2, <2>5 DEF Store!Next
<1>3. ASSUME NEW p \in Process, RequestRejected(p) PROVE Store!Next
  BY <1>3 DEF RequestRejected, Store!Next, Store!Excuse
<1>4. ASSUME NEW p \in Process, Call(p) \/ DropSession(p)
      PROVE  [Store!Next]_(Store!vars)
  <2>1. CASE rinit_Skipped(p)
    BY <2>1 DEF rinit_Skipped, Begin, Store!Next, Store!Excuse
  <2>2. CASE ~rinit_Skipped(p)
    BY <1>4, <2>2 DEF Call, rinit, Begin, process_event, process_stats, rshutdown, mshutdown,
              DropSession, Store!vars
  <2> QED BY <2>1, <2>2
<1>5. ASSUME NEW p \in Process,
             Connect(p) \/ ConnectFails(p) \/ SetRequestId(p) \/ ChildRejected(p)
               \/ Reconnect(p) \/ GoneAway(p)
      PROVE  UNCHANGED Store!vars
  BY <1>5 DEF Connect, ConnectFails, SetRequestId, ChildRejected, Reconnect, GoneAway,
              Store!vars
<1>6. CASE UNCHANGED vars BY <1>6 DEF vars, Store!vars
<1> QED BY <1>1, <1>2, <1>3, <1>4, <1>5, <1>6 DEF Next, Work, Terminated

\* Whichever process, whatever is refused, lost and repeated: a request has one row
\* at most, and what is stored for it refers to that row or to none, unless the
\* server refused the row, or rinit was not called (apm off) while the driver held
\* another request for created.
THEOREM RequestsAreStored == Spec => StoresRequests
<1>1. Init => Store!Init BY DEF Init, Store!Init
<1> QED
  BY <1>1, TypesInit, TypesNext, LinkedInit, LinkedNext, StepStores, PTL
  DEF Spec, StoresRequests

\* The last of a sequence that is not empty, and what appending does to the others.
LEMMA LastOf ==
  ASSUME NEW R, NEW s \in Seq(R), s # <<>>
  PROVE  s[Len(s)] \in R
<1>1. Len(s) \in Nat \ {0} /\ s \in [1..Len(s) -> R] BY LenProperties, EmptySeq
<1>2. Len(s) \in 1..Len(s) BY <1>1
<1> QED BY <1>1, <1>2

LEMMA OneMore ==
  ASSUME NEW R, NEW s \in Seq(R), NEW x \in R
  PROVE  LET t == Append(s, x) IN
         \E n \in DOMAIN t :
           /\ t[n] = x /\ n \notin DOMAIN s /\ DOMAIN t = DOMAIN s \union {n}
           /\ \A i \in DOMAIN s : t[i] = s[i]
<1> DEFINE t == Append(s, x)
           m == Len(s)
<1>1. /\ m \in Nat /\ DOMAIN s = 1..m /\ DOMAIN t = 1..m + 1 /\ t[m + 1] = x
      /\ \A i \in 1..m : t[i] = s[i]
  BY AppendProperties, LenProperties
<1> HIDE DEF t, m
<1>2. m + 1 \in 1..m + 1 /\ m + 1 \notin 1..m /\ 1..m + 1 = 1..m \union {m + 1}
  BY ONLY <1>1
<1> QED BY ONLY <1>1, <1>2, Zenon DEF t

\* What the steps of RequestStore keep: a row goes in when its owner has none, in
\* whichever database, and neither it nor an excuse is ever taken back.
LEMMA StoreKeeps ==
  ASSUME Typed, Typed', Store!OneRow, Store!AllRefer, [Store!Next]_(Store!vars)
  PROVE  Store!OneRow' /\ Store!AllRefer'
<1>0. /\ requests \in [Databases -> Seq(Owners)] /\ requests' \in [Databases -> Seq(Owners)]
      /\ children \in [Databases -> Seq(Rows)] /\ children' \in [Databases -> Seq(Rows)]
  BY DEF Typed, TypeOK, Owners
<1>1. ASSUME NEW f \in Databases, Store!StoreRequest(f)
      PROVE  Store!OneRow' /\ Store!AllRefer'
  <2> DEFINE o == requests'[f][Len(requests'[f])]
  <2>1. o \in Owners
    <3>1. requests'[f] \in Seq(Owners) /\ requests'[f] # <<>>
      BY <1>0, <1>1 DEF Store!StoreRequest
    <3> QED BY <3>1, LastOf
  <2>2. /\ ~Store!HasRow(o) /\ requests' = [requests EXCEPT ![f] = Append(@, o)]
        /\ UNCHANGED <<children, excused>>
    BY <1>1 DEF Store!StoreRequest
  <2> HIDE DEF o
  <2>3. /\ requests'[f] = Append(requests[f], o) /\ requests[f] \in Seq(Owners)
        /\ \A g \in Databases \ {f} : requests'[g] = requests[g]
    BY <1>0, <2>2
  <2>4. PICK n \in DOMAIN requests'[f] :
          /\ requests'[f][n] = o /\ n \notin DOMAIN requests[f]
          /\ DOMAIN requests'[f] = DOMAIN requests[f] \union {n}
          /\ \A i \in DOMAIN requests[f] : requests'[f][i] = requests[f][i]
    BY ONLY <2>1, <2>3, OneMore
  <2>5. \A g \in Databases : \A i \in DOMAIN requests[g] :
          i \in DOMAIN requests'[g] /\ requests'[g][i] = requests[g][i]
    BY ONLY <2>3, <2>4
  <2>6. \A g \in Databases : \A i \in DOMAIN requests'[g] :
          \/ i \in DOMAIN requests[g] /\ requests'[g][i] # o
          \/ g = f /\ i = n
    <3>1. \A g \in Databases : \A i \in DOMAIN requests[g] : requests[g][i] # o
      BY <2>2 DEF Store!HasRow
    <3> QED BY ONLY <2>3, <2>4, <2>5, <3>1
  <2>7. Store!OneRow'
    <3> SUFFICES ASSUME NEW g \in Databases, NEW h \in Databases,
                        NEW i \in DOMAIN requests'[g], NEW j \in DOMAIN requests'[h],
                        requests'[g][i] = requests'[h][j]
                 PROVE  g = h /\ i = j
      BY DEF Store!OneRow
    <3>1. CASE requests'[g][i] = o
      BY ONLY <2>6, <3>1, requests'[g][i] = requests'[h][j], g \in Databases, h \in Databases,
              i \in DOMAIN requests'[g], j \in DOMAIN requests'[h]
    <3>2. CASE requests'[g][i] # o
      <4>1. i \in DOMAIN requests[g] /\ j \in DOMAIN requests[h]
        BY <2>4, <2>6, <3>2
      <4>2. requests[g][i] = requests[h][j] BY <2>5, <4>1
      <4> QED BY <4>1, <4>2 DEF Store!OneRow
    <3> QED BY <3>1, <3>2
  <2>8. Store!AllRefer'
    <3> SUFFICES ASSUME NEW g \in Databases, NEW k \in DOMAIN children[g]
                 PROVE  Store!RefersRightly(g, children[g][k])'
      BY <2>2 DEF Store!AllRefer
    <3>1. Store!RefersRightly(g, children[g][k]) BY DEF Store!AllRefer
    <3> QED BY <2>2, <2>5, <3>1 DEF Store!RefersRightly
  <2> QED BY <2>7, <2>8
<1>2. ASSUME NEW f \in Databases, Store!StoreChild(f)
      PROVE  Store!OneRow' /\ Store!AllRefer'
  <2> DEFINE row == children'[f][Len(children'[f])]
  <2>1. row \in Rows
    <3>1. children'[f] \in Seq(Rows) /\ children'[f] # <<>>
      BY <1>0, <1>2 DEF Store!StoreChild
    <3> QED BY <3>1, LastOf
  <2>2. /\ Store!RefersRightly(f, row)
        /\ children' = [children EXCEPT ![f] = Append(@, row)]
        /\ UNCHANGED <<requests, excused>>
    BY <1>2 DEF Store!StoreChild
  <2> HIDE DEF row
  <2>3. /\ children'[f] = Append(children[f], row) /\ children[f] \in Seq(Rows)
        /\ \A g \in Databases \ {f} : children'[g] = children[g]
    BY <1>0, <2>2
  <2>4. PICK n \in DOMAIN children'[f] :
          /\ children'[f][n] = row /\ n \notin DOMAIN children[f]
          /\ DOMAIN children'[f] = DOMAIN children[f] \union {n}
          /\ \A k \in DOMAIN children[f] : children'[f][k] = children[f][k]
    BY ONLY <2>1, <2>3, OneMore
  <2>5. ASSUME NEW g \in Databases, NEW k \in DOMAIN children'[g]
        PROVE  Store!RefersRightly(g, children'[g][k])
    <3>1. CASE k \in DOMAIN children[g] /\ children'[g][k] = children[g][k]
      BY <3>1 DEF Store!AllRefer
    <3>2. CASE g = f /\ k = n BY <2>2, <2>4, <3>2
    <3>3. \/ k \in DOMAIN children[g] /\ children'[g][k] = children[g][k]
          \/ g = f /\ k = n
      BY ONLY <2>3, <2>4, <2>5
    <3> QED BY <3>1, <3>2, <3>3
  <2>6. Store!AllRefer' BY <2>2, <2>5 DEF Store!AllRefer, Store!RefersRightly
  <2> QED BY <2>2, <2>6 DEF Store!OneRow
<1>3. CASE Store!Excuse
  BY <1>3 DEF Store!Excuse, Store!OneRow, Store!AllRefer, Store!RefersRightly
<1>4. CASE UNCHANGED Store!vars
  BY <1>4 DEF Store!vars, Store!OneRow, Store!AllRefer, Store!RefersRightly
<1> QED BY <1>1, <1>2, <1>3, <1>4 DEF Store!Next

LEMMA StoreStarts == Init => Store!OneRow /\ Store!AllRefer
BY DEF Init, Store!OneRow, Store!AllRefer

\* In every state no request has two rows, not in two databases either: whichever
\* process inserts, whatever the client library repeats in a new session.
THEOREM OneRowEach == Spec => []Store!OneRow
<1> QED BY TypesInit, TypesNext, LinkedInit, LinkedNext, StepStores, StoreStarts, StoreKeeps,
           PTL DEF Spec

\* In every state, long after it was stored, a row of events or statistics refers to
\* the row of its own request, or to none, unless the server refused that row or the
\* request, one with apm off, began with is_request_created set.
THEOREM AllRowsRefer == Spec => []Store!AllRefer
<1> QED BY TypesInit, TypesNext, LinkedInit, LinkedNext, StepStores, StoreStarts, StoreKeeps,
           PTL DEF Spec

-----------------------------------------------------------------------------
(* A request in which nothing goes wrong *)

RowOf(p, i) == i \in DOMAIN requests[database[p]] /\ requests[database[p]][i] = Owner(p)
Stored(p, i) == Cardinality(Produced(p, database[p], i))
Childless(p) == \A f \in Databases : \A k \in DOMAIN children[f] : children[f][k].owner # Owner(p)

\* No row ahead of its time, in the tables of events and statistics either.
ChildNumbered ==
  \A f \in Databases : \A k \in DOMAIN children[f] :
    children[f][k].owner[2] <= number[children[f][k].owner[1]]

\* As long as nothing went wrong in a request, the first row it produces makes it have
\* its row, the session knows its id, and each call that ended has stored its own row.
\* When the request is over the session may go.
Progress(p) ==
  /\ at[p] # "again" /\ (at[p] = "child" => is_request_created[p])
  /\ at[p] \in {"instance", "insert", "set"} => produced[p] = 1 /\ ~is_request_created[p]
  /\ at[p] = "set" => mysql_event_db[p] = "open" /\ RowOf(p, last[p])
  /\ ~is_request_created[p] => Childless(p) /\ (at[p] = "idle" => produced[p] = 0)
  /\ is_request_created[p] /\ phase[p] # "out" =>
       /\ mysql_event_db[p] = "open" /\ RowOf(p, request_id[p])
       /\ at[p] = "child" => produced[p] = Stored(p, request_id[p]) + 1
       /\ at[p] # "child" => produced[p] = Stored(p, request_id[p])
  /\ is_request_created[p] /\ phase[p] = "out" =>
       \E i \in DOMAIN requests[database[p]] : RowOf(p, i) /\ Stored(p, i) = produced[p]
Clean(p) ==
  /\ phase[p] \in {"out", "down"} => at[p] = "idle"
  /\ ~spoiled[p] /\ phase[p] # "down" => Progress(p)
AllClean == ChildNumbered /\ \A p \in Process : Clean(p)

LEMMA CleanInit == Init => AllClean
<1> SUFFICES ASSUME Init PROVE AllClean
  OBVIOUS
<1>1. DOMAIN <<>> = {} OBVIOUS
<1>2. \A f \in Databases : children[f] = <<>> BY DEF Init
<1>3. ChildNumbered BY <1>1, <1>2 DEF ChildNumbered
<1>4. ASSUME NEW p \in Process PROVE Clean(p)
  <2>1. Childless(p) BY <1>1, <1>2 DEF Childless
  <2>2. at[p] = "idle" /\ is_request_created[p] = FALSE /\ produced[p] = 0 BY DEF Init
  <2> QED BY <2>1, <2>2 DEF Clean, Progress
<1> QED BY <1>3, <1>4 DEF AllClean

\* What the others' steps leave to a process.
Untouched(q) ==
  /\ at'[q] = at[q] /\ is_request_created'[q] = is_request_created[q]
  /\ produced'[q] = produced[q] /\ spoiled'[q] = spoiled[q] /\ phase'[q] = phase[q]
  /\ mysql_event_db'[q] = mysql_event_db[q] /\ database'[q] = database[q]
  /\ request_id'[q] = request_id[q] /\ last'[q] = last[q] /\ number'[q] = number[q]
Kept(q) ==
  /\ \A f \in Databases : \A i \in DOMAIN requests[f] :
       i \in DOMAIN requests'[f] /\ requests'[f][i] = requests[f][i]
  /\ \A f \in Databases : \A i \in Nat : Produced(q, f, i)' = Produced(q, f, i)
  /\ Childless(q) => Childless(q)'

LEMMA CleanUntouched ==
  ASSUME Typed, NEW q \in Process, Clean(q), Untouched(q), Kept(q) PROVE Clean(q)'
<1>1. /\ database[q] \in Databases /\ request_id[q] \in Nat /\ last[q] \in Nat
      /\ requests[database[q]] \in Seq(Owners)
  BY DEF Typed, TypeOK, Owners
<1>2. Owner(q)' = Owner(q) /\ database'[q] = database[q] BY DEF Untouched, Owner
<1>3. \A i : RowOf(q, i) => RowOf(q, i)' BY <1>1, <1>2 DEF Kept, RowOf
<1>4. \A i \in Nat : Stored(q, i)' = Stored(q, i) BY <1>1, <1>2 DEF Kept, Stored
<1>5. \A i \in DOMAIN requests[database[q]] : i \in Nat BY <1>1, LenProperties
<1>6. \A i \in DOMAIN requests[database[q]] : i \in DOMAIN requests'[database'[q]]
  BY <1>1, <1>2 DEF Kept
<1>7. Childless(q) => Childless(q)' BY DEF Kept
<1>8. Progress(q) => Progress(q)'
  <2> SUFFICES ASSUME Progress(q) PROVE Progress(q)'
    OBVIOUS
  <2>1. is_request_created[q] /\ phase[q] # "out" =>
       /\ mysql_event_db[q] = "open" /\ RowOf(q, request_id[q])'
       /\ at[q] = "child" => produced[q] = Stored(q, request_id[q])' + 1
       /\ at[q] # "child" => produced[q] = Stored(q, request_id[q])'
    BY <1>1, <1>3, <1>4 DEF Progress, Untouched, RowOf, Stored
  <2>2. is_request_created[q] /\ phase[q] = "out" =>
          \E i \in DOMAIN requests'[database'[q]] : RowOf(q, i)' /\ Stored(q, i)' = produced[q]
    BY <1>3, <1>4, <1>5, <1>6 DEF Progress
  <2>3. at[q] = "set" => RowOf(q, last[q])'
    BY <1>3 DEF Progress, Untouched, RowOf
  <2> QED BY <1>7, <2>1, <2>2, <2>3 DEF Progress, Untouched
<1> QED BY <1>8 DEF Clean, Untouched

\* A step of p that leaves the tables alone.
LEMMA CleanOthers ==
  ASSUME Typed, AllClean, NEW p \in Process, UNCHANGED <<requests, children>>,
         \A q \in Process \ {p} : Untouched(q), number'[p] \in Nat, number[p] <= number'[p],
         number' \in [Process -> Nat], Clean(p)'
  PROVE  AllClean'
<1>1. ASSUME NEW q \in Process \ {p} PROVE Clean(q)'
  <2>1. Owner(q)' = Owner(q) BY DEF Untouched, Owner
  <2>2. Kept(q) BY <2>1 DEF Kept, Produced, Childless
  <2> QED BY <2>2, CleanUntouched DEF AllClean
<1>2. ChildNumbered'
  <2>1. \A q \in Process : number[q] \in Nat /\ number'[q] \in Nat /\ number[q] <= number'[q]
    <3>1. number \in [Process -> Nat] BY DEF Typed, TypeOK
    <3>2. \A q \in Process \ {p} : number'[q] = number[q] BY DEF Untouched
    <3> QED BY <3>1, <3>2
  <2>2. ASSUME NEW f \in Databases, NEW k \in DOMAIN children[f]
        PROVE  children[f][k].owner[2] <= number'[children[f][k].owner[1]]
    <3>1. children[f] \in Seq(Rows) BY DEF Typed, TypeOK
    <3>2. k \in 1..Len(children[f]) BY <3>1, LenProperties
    <3>3. children[f][k] \in Rows BY <3>1, <3>2, ElementOfSeq
    <3>4. children[f][k].owner[1] \in Process /\ children[f][k].owner[2] \in Nat
      BY <3>3 DEF Rows
    <3>5. children[f][k].owner[2] <= number[children[f][k].owner[1]]
      BY DEF AllClean, ChildNumbered
    <3> QED BY <2>1, <3>4, <3>5
  <2> QED BY <2>2 DEF ChildNumbered
<1> QED BY <1>1, <1>2 DEF AllClean

\* Of p itself, in such a step within a request.
LEMMA SameTables ==
  ASSUME NEW p \in Process, UNCHANGED <<requests, children>>, database'[p] = database[p],
         number'[p] = number[p]
  PROVE  /\ \A i : RowOf(p, i)' = RowOf(p, i) /\ Stored(p, i)' = Stored(p, i)
         /\ Childless(p)' = Childless(p) /\ requests'[database'[p]] = requests[database[p]]
<1>1. Owner(p)' = Owner(p) BY DEF Owner
<1> QED BY <1>1 DEF RowOf, Stored, Produced, Childless

\* A row of another table, or of another request, makes no difference to these.
LEMMA NoneStored ==
  ASSUME Typed, NEW p \in Process, Childless(p), NEW i PROVE Stored(p, i) = 0
<1>1. database[p] \in Databases BY DEF Typed, TypeOK
<1>2. Produced(p, database[p], i) = {} BY <1>1 DEF Produced, Childless
<1> QED BY <1>2, FS_EmptySet DEF Stored

\* A row is added: it counts where it refers to, for its own request only.
LEMMA OneMoreStored ==
  ASSUME Typed, NEW p \in Process, NEW i \in Nat, NEW row \in Rows, row.owner = Owner(p),
         UNCHANGED <<requests, number, database>>,
         children' = [children EXCEPT ![database[p]] = Append(children[database[p]], row)]
  PROVE  /\ row.request_id = i => Stored(p, i)' = Stored(p, i) + 1 /\ Stored(p, i) \in Nat
         /\ \A q \in Process \ {p} : Kept(q)
<1> DEFINE f == database[p]
           s == children[f]
           t == Append(s, row)
<1>1. f \in Databases /\ s \in Seq(Rows) /\ children \in [Databases -> Seq(Rows)]
  BY DEF Typed, TypeOK
<1>2. /\ DOMAIN s = 1..Len(s) /\ DOMAIN t = 1..Len(s) + 1 /\ Len(s) \in Nat
      /\ t[Len(s) + 1] = row /\ \A k \in DOMAIN s : t[k] = s[k]
  <2> HIDE DEF s
  <2> QED BY <1>1, AppendProperties, LenProperties
<1>3. children'[f] = t /\ \A g \in Databases \ {f} : children'[g] = children[g]
  BY <1>1
<1>4. Owner(p)' = Owner(p) /\ database' = database BY DEF Owner
<1>5. row.request_id = i => Stored(p, i)' = Stored(p, i) + 1 /\ Stored(p, i) \in Nat
  <2> SUFFICES ASSUME row.request_id = i
               PROVE  Stored(p, i)' = Stored(p, i) + 1 /\ Stored(p, i) \in Nat
    OBVIOUS
  <2> DEFINE S == Produced(p, f, i)
             n == Len(s) + 1
  <2>1. S = {k \in DOMAIN s : s[k].owner = Owner(p) /\ s[k].request_id = i} BY DEF Produced
  <2>2. Produced(p, database[p], i)' = {k \in DOMAIN t : t[k].owner = Owner(p) /\ t[k].request_id = i}
    BY <1>3, <1>4 DEF Produced
  <2> HIDE DEF f, s, t
  <2>3. Produced(p, database[p], i)' = S \union {n} /\ n \notin S
    BY <1>2, <2>1, <2>2
  <2>4. IsFiniteSet(S)
    <3>1. \A m \in Nat : IsFiniteSet(1..m) BY FS_Interval
    <3>2. S \subseteq 1..Len(s) BY <1>2, <2>1
    <3> QED BY <1>2, <3>1, <3>2, FS_Subset
  <2>5. Cardinality(S \union {n}) = Cardinality(S) + 1 /\ Cardinality(S) \in Nat
    BY <2>3, <2>4, FS_AddElement, FS_CardinalityType
  <2>6. Stored(p, i) = Cardinality(S) BY DEF Stored, f
  <2>7. Stored(p, i)' = Cardinality(S \union {n}) BY <2>3 DEF Stored
  <2> QED BY <2>5, <2>6, <2>7
<1>6. ASSUME NEW q \in Process \ {p} PROVE Kept(q)
  <2>1. Owner(q)' = Owner(q) /\ Owner(q) # Owner(p) BY DEF Owner
  <2> HIDE DEF f, s, t
  <2>2. \A g \in Databases :
          /\ \A k \in DOMAIN children[g] : k \in DOMAIN children'[g] /\ children'[g][k] = children[g][k]
          /\ \A k \in DOMAIN children'[g] : k \in DOMAIN children[g] \/ children'[g][k] = row
    BY <1>2, <1>3 DEF s
  <2>3. \A g \in Databases : \A j \in Nat : Produced(q, g, j)' = Produced(q, g, j)
    BY <2>1, <2>2 DEF Produced
  <2>4. Childless(q) => Childless(q)' BY <2>1, <2>2 DEF Childless
  <2> QED BY <2>3, <2>4 DEF Kept
<1> QED BY <1>5, <1>6

\* The row of a request goes into the table.
LEMMA RowInserted ==
  ASSUME Typed, NEW p \in Process, UNCHANGED <<children, number, database>>,
         requests' = [requests EXCEPT ![database[p]] = Append(requests[database[p]], Owner(p))]
  PROVE  /\ RowOf(p, Len(requests[database[p]]))'
         /\ \A q \in Process : Kept(q)
<1> DEFINE f == database[p]
           s == requests[f]
           t == Append(s, Owner(p))
<1>1. f \in Databases /\ s \in Seq(Owners) /\ requests \in [Databases -> Seq(Owners)]
      /\ Owner(p) \in Owners
  BY DEF Typed, TypeOK, Owner, Owners
<1>2. /\ DOMAIN s = 1..Len(s) /\ DOMAIN t = 1..Len(s) + 1 /\ Len(s) \in Nat
      /\ Len(t) = Len(s) + 1 /\ t[Len(s) + 1] = Owner(p) /\ \A i \in DOMAIN s : t[i] = s[i]
  <2> HIDE DEF s
  <2> QED BY <1>1, AppendProperties, LenProperties
<1>3. requests'[f] = t /\ \A g \in Databases \ {f} : requests'[g] = requests[g]
  BY <1>1
<1>4. \A q \in Process : Owner(q)' = Owner(q) BY DEF Owner
<1> HIDE DEF f, s, t
<1>5. RowOf(p, Len(requests[database[p]]))'
  <2>1. Len(t) \in DOMAIN t /\ t[Len(t)] = Owner(p) BY <1>2
  <2> QED BY <1>3, <1>4, <2>1 DEF RowOf, f
<1>6. \A g \in Databases : \A i \in DOMAIN requests[g] :
        i \in DOMAIN requests'[g] /\ requests'[g][i] = requests[g][i]
  BY <1>2, <1>3 DEF s
<1>7. ASSUME NEW q \in Process PROVE Kept(q)
  BY <1>4, <1>6 DEF Kept, Produced, Childless
<1> QED BY <1>5, <1>7

LEMMA CleanNext == Typed /\ AllClean /\ [Next]_vars => AllClean'
<1> SUFFICES ASSUME Typed, AllClean, [Next]_vars PROVE AllClean'
  OBVIOUS
<1> USE DEF handle, session, serving, tables, trouble
<1>0. /\ mysql_event_db \in [Process -> {"null", "open", "broken"}]
      /\ database \in [Process -> Databases]
      /\ is_request_created \in [Process -> BOOLEAN]
      /\ at \in [Process -> {"idle", "instance", "insert", "set", "again", "child"}]
      /\ phase \in [Process -> {"startup", "script", "stats", "out", "down"}]
      /\ request_id \in [Process -> Nat] /\ last \in [Process -> Nat]
      /\ number \in [Process -> Nat] /\ produced \in [Process -> Nat]
      /\ spoiled \in [Process -> BOOLEAN] /\ table \in [Process -> {"event", "stats"}]
  BY DEF Typed, TypeOK
<1>a. \A p \in Process : Clean(p) BY DEF AllClean
<1>b. ASSUME NEW p \in Process, UNCHANGED <<requests, children, number>>,
             \A q \in Process \ {p} : Untouched(q), Clean(p)'
      PROVE  AllClean'
  <2>1. number'[p] \in Nat /\ number[p] <= number'[p] /\ number' \in [Process -> Nat] BY <1>0, <1>b
  <2> QED BY <1>b, <2>1, CleanOthers
\* A step in which something goes wrong.
<1>c. ASSUME NEW p \in Process, at[p] # "idle", Spoil(p), UNCHANGED phase PROVE Clean(p)'
  <2>1. spoiled'[p] = (spoiled[p] \/ phase[p] # "out") BY <1>0, <1>c DEF Spoil
  <2> QED BY <1>a, <1>c, <2>1 DEF Clean
<1>1. ASSUME NEW p \in Process, rinit(p) \/ rinit_Skipped(p) PROVE AllClean'
  <2>1. /\ number' = [number EXCEPT ![p] = @ + 1] /\ produced' = [produced EXCEPT ![p] = 0]
        /\ \A q \in Process \ {p} : is_request_created'[q] = is_request_created[q]
                                   /\ spoiled'[q] = spoiled[q]
        /\ ~spoiled'[p] => ~is_request_created'[p]
        /\ phase' = [phase EXCEPT ![p] = "script"]
        /\ at[p] = "idle" /\ UNCHANGED <<handle, at, table, session, tables>>
    BY <1>0, <1>1 DEF rinit, rinit_Skipped, Begin, Idle
  <2>2. \A q \in Process \ {p} : Untouched(q) BY <1>0, <2>1 DEF Untouched
  <2>3. number'[p] \in Nat /\ number[p] <= number'[p] /\ number' \in [Process -> Nat]
        /\ number'[p] = number[p] + 1
    BY <1>0, <2>1
  <2>4. Childless(p)'
    <3> SUFFICES ASSUME NEW f \in Databases, NEW k \in DOMAIN children[f],
                        children[f][k].owner = <<p, number'[p]>>
                 PROVE  FALSE
      BY <2>1 DEF Childless, Owner
    <3>1. children[f][k].owner[2] <= number[children[f][k].owner[1]]
      BY DEF AllClean, ChildNumbered
    <3>2. number[p] \in Nat BY <1>0
    <3> QED BY <2>3, <3>1, <3>2
  <2>5. Clean(p)' BY <1>0, <2>1, <2>4 DEF Clean, Progress
  <2> QED BY <2>1, <2>2, <2>3, <2>5, CleanOthers
<1>2. ASSUME NEW p \in Process, Enter(p, "event") \/ Enter(p, "stats"), at[p] = "idle",
             phase[p] \in {"startup", "script"}, phase'[p] \in {"startup", "script", "stats"},
             \A q \in Process \ {p} : phase'[q] = phase[q],
             UNCHANGED <<handle, is_request_created, session, number, tables, trouble>>
      PROVE  AllClean'
  <2>1. /\ at' = [at EXCEPT ![p] = Get(p, IF is_request_created[p] THEN "again" ELSE "instance")]
        /\ produced' = [produced EXCEPT ![p] = @ + 1]
    BY <1>2 DEF Enter, Goto
  <2>2. \A q \in Process \ {p} : Untouched(q) BY <1>0, <1>2, <2>1 DEF Untouched
  <2>3. /\ \A i : RowOf(p, i)' = RowOf(p, i) /\ Stored(p, i)' = Stored(p, i)
        /\ Childless(p)' = Childless(p)
    BY <1>2, SameTables
  <2>4. RowOf(p, request_id[p])' = RowOf(p, request_id[p])' /\ request_id' = request_id
        /\ Stored(p, request_id[p])' = Stored(p, request_id[p])
        /\ (RowOf(p, request_id[p]) => RowOf(p, request_id[p])')
    <3>1. request_id' = request_id BY <1>2
    <3>2. Owner(p)' = Owner(p) /\ UNCHANGED <<requests, children, database>> BY <1>2 DEF Owner
    <3> QED BY <3>1, <3>2 DEF RowOf, Stored, Produced
  <2>5. ASSUME ~spoiled[p] PROVE Progress(p)'
    <3>1. Progress(p) BY <1>2, <1>a, <2>5 DEF Clean
    <3>2. CASE is_request_created[p]
      <4>1. /\ mysql_event_db[p] = "open" /\ RowOf(p, request_id[p])
            /\ produced[p] = Stored(p, request_id[p])
        BY <1>0, <1>2, <3>1, <3>2 DEF Progress
      <4>2. at'[p] = "child" BY <1>0, <2>1, <3>2, <4>1 DEF Get, After
      <4>3. produced'[p] = produced[p] + 1 /\ produced[p] \in Nat BY <1>0, <2>1
      <4> QED BY <1>2, <2>4, <3>2, <4>1, <4>2, <4>3 DEF Progress
    <3>3. CASE ~is_request_created[p]
      <4>1. Childless(p)' /\ produced[p] = 0 BY <1>2, <2>3, <3>1, <3>3 DEF Progress
      <4>2. at'[p] \in {"instance", "insert"} BY <1>0, <2>1, <3>3 DEF Get, After
      <4>3. produced'[p] = 1 BY <1>0, <2>1, <4>1
      <4> QED BY <1>2, <3>3, <4>1, <4>2, <4>3 DEF Progress
    <3> QED BY <3>2, <3>3
  <2>6. Clean(p)' BY <1>2, <2>5 DEF Clean
  <2> QED BY <1>2, <1>b, <2>2, <2>6
<1>3. ASSUME NEW p \in Process, at[p] = "idle", phase[p] \in {"script", "stats"},
             NEW next \in {"stats", "out"}, phase' = [phase EXCEPT ![p] = next],
             UNCHANGED <<handle, is_request_created, at, table, session, number, produced, tables,
                         trouble>>
      PROVE  AllClean'
  <2>1. \A q \in Process \ {p} : Untouched(q) BY <1>0, <1>3 DEF Untouched
  <2>2. /\ \A i : RowOf(p, i)' = RowOf(p, i) /\ Stored(p, i)' = Stored(p, i)
        /\ Childless(p)' = Childless(p) /\ requests'[database'[p]] = requests[database[p]]
    BY <1>3, SameTables
  <2>3. ASSUME Progress(p) PROVE Progress(p)'
    <3>1. phase[p] # "out" BY <1>3
    <3>2. ASSUME is_request_created[p], phase'[p] # "out"
          PROVE  /\ mysql_event_db[p] = "open" /\ RowOf(p, request_id[p])'
                 /\ produced[p] = Stored(p, request_id[p])'
      <4>1. RowOf(p, request_id[p]) /\ produced[p] = Stored(p, request_id[p])
            /\ mysql_event_db[p] = "open"
        BY <1>3, <2>3, <3>1, <3>2 DEF Progress
      <4>2. request_id' = request_id /\ UNCHANGED <<requests, children, number, database>>
        BY <1>3
      <4> QED BY <4>1, <4>2 DEF RowOf, Stored, Produced, Owner
    <3>3. ASSUME is_request_created[p]
          PROVE  \E i \in DOMAIN requests'[database'[p]] : RowOf(p, i)' /\ Stored(p, i)' = produced[p]
      <4>1. RowOf(p, request_id[p]) /\ produced[p] = Stored(p, request_id[p])
        BY <1>3, <2>3, <3>1, <3>3 DEF Progress
      <4>2. request_id[p] \in DOMAIN requests[database[p]] BY <4>1 DEF RowOf
      <4> QED BY <2>2, <4>1, <4>2
    <3> QED BY <1>3, <2>2, <2>3, <3>2, <3>3 DEF Progress
  <2>4. Clean(p)' BY <1>0, <1>3, <1>a, <2>3 DEF Clean
  <2> QED BY <1>3, <1>b, <2>1, <2>4
<1>4. ASSUME NEW p \in Process, mshutdown(p) PROVE AllClean'
  <2>1. /\ phase' = [phase EXCEPT ![p] = "down"] /\ at[p] = "idle" /\ UNCHANGED at
    BY <1>4 DEF mshutdown, Idle
  <2>2. \A q \in Process \ {p} : Untouched(q) BY <1>0, <1>4 DEF Untouched, mshutdown
  <2>3. Clean(p)' BY <1>0, <2>1 DEF Clean
  <2> QED BY <1>4, <1>b, <2>2, <2>3 DEF mshutdown
<1>5. ASSUME NEW p \in Process, Connect(p) PROVE AllClean'
  <2>1. /\ at[p] \in {"instance", "again"} /\ mysql_event_db[p] = "null"
        /\ at' = [at EXCEPT ![p] = After(at[p])]
        /\ request_id' = [request_id EXCEPT ![p] = 0] /\ last' = [last EXCEPT ![p] = 0]
        /\ mysql_event_db' = [mysql_event_db EXCEPT ![p] = "open"]
        /\ UNCHANGED <<is_request_created, table, serving, tables, trouble>>
    BY <1>5 DEF Connect, AtInstance, Goto, NewSession
  <2>2. \A q \in Process \ {p} : Untouched(q)
    <3>1. \A q \in Process \ {p} : database'[q] = database[q] BY <1>0, <1>5 DEF Connect
    <3> QED BY <1>0, <2>1, <3>1 DEF Untouched
  <2>3. Childless(p)' = Childless(p) BY <2>1 DEF Childless, Owner
  <2>4. ASSUME ~spoiled[p], phase[p] # "down" PROVE Progress(p)'
    <3>1. Progress(p) BY <1>a, <2>4 DEF Clean
    <3>2. at[p] = "instance" /\ ~is_request_created[p] /\ produced[p] = 1 /\ Childless(p)
      BY <2>1, <3>1 DEF Progress
    <3>3. at'[p] = "insert" BY <1>0, <2>1, <3>2 DEF After
    <3> QED BY <2>1, <2>3, <3>2, <3>3 DEF Progress
  <2>5. phase[p] \notin {"out", "down"} BY <1>a, <2>1 DEF Clean
  <2>6. Clean(p)' BY <2>1, <2>4, <2>5 DEF Clean
  <2> QED BY <1>b, <2>1, <2>2, <2>6
<1>6. ASSUME NEW p \in Process,
             ConnectFails(p) \/ RequestRejected(p) \/ ChildRejected(p) \/ GoneAway(p)
      PROVE  AllClean'
  <2>1. /\ at[p] # "idle" /\ Spoil(p)
        /\ \E label : at' = [at EXCEPT ![p] = label]
        /\ \A q \in Process \ {p} : is_request_created'[q] = is_request_created[q]
        /\ UNCHANGED <<handle, session, serving, tables>>
    BY <1>0, <1>6 DEF ConnectFails, RequestRejected, ChildRejected, GoneAway, AtInstance, AtQuery,
              Executes, Fault, GiveUp, Goto
  <2>2. \A q \in Process \ {p} : Untouched(q) BY <1>0, <2>1 DEF Untouched, Spoil
  <2>3. Clean(p)' BY <1>c, <2>1
  <2> QED BY <1>b, <2>1, <2>2, <2>3
<1>7. ASSUME NEW p \in Process, InsertRequest(p) PROVE AllClean'
  <2>1. /\ at[p] = "insert" /\ at' = [at EXCEPT ![p] = "set"] /\ mysql_event_db[p] = "open"
        /\ requests' = [requests EXCEPT ![database[p]] = Append(requests[database[p]], Owner(p))]
        /\ last' = [last EXCEPT ![p] = Len(requests'[database[p]])]
        /\ UNCHANGED <<handle, is_request_created, request_id, serving, children, trouble>>
    BY <1>7 DEF InsertRequest, Executes, Goto
  <2>2. RowOf(p, Len(requests[database[p]]))' /\ \A q \in Process : Kept(q)
    BY <2>1, RowInserted
  <2>3. \A q \in Process \ {p} : Untouched(q) BY <1>0, <2>1 DEF Untouched
  <2>4. \A q \in Process \ {p} : Clean(q)' BY <1>a, <2>2, <2>3, CleanUntouched
  <2>5. ASSUME ~spoiled[p], phase[p] # "down" PROVE Progress(p)'
    <3>1. Progress(p) BY <1>a, <2>5 DEF Clean
    <3>2. produced[p] = 1 /\ ~is_request_created[p] /\ Childless(p)
      BY <2>1, <3>1 DEF Progress
    <3>3. Childless(p)' BY <2>2, <3>2 DEF Kept
    <3>4. at'[p] = "set" /\ last'[p] = Len(requests'[database[p]]) BY <1>0, <2>1
    <3>5. RowOf(p, last[p])' BY <2>1, <2>2, <3>4 DEF RowOf
    <3> QED BY <2>1, <3>2, <3>3, <3>4, <3>5 DEF Progress
  <2>6. phase[p] \notin {"out", "down"} BY <1>a, <2>1 DEF Clean
  <2>7. Clean(p)' BY <2>1, <2>5, <2>6 DEF Clean
  <2>8. ChildNumbered' BY <2>1 DEF AllClean, ChildNumbered
  <2> QED BY <2>4, <2>7, <2>8 DEF AllClean
<1>8. ASSUME NEW p \in Process, SetRequestId(p) PROVE AllClean'
  <2>1. /\ at[p] = "set" /\ mysql_event_db[p] = "open" /\ at' = [at EXCEPT ![p] = "child"]
        /\ request_id' = [request_id EXCEPT ![p] = last[p]]
        /\ is_request_created' = [is_request_created EXCEPT ![p] = TRUE]
        /\ UNCHANGED <<handle, table, last, serving, tables, trouble>>
    BY <1>8 DEF SetRequestId, Executes, Goto, Get, After
  <2>2. \A q \in Process \ {p} : Untouched(q) BY <1>0, <2>1 DEF Untouched
  <2>3. phase[p] \notin {"out", "down"} BY <1>a, <2>1 DEF Clean
  <2>4. ASSUME ~spoiled[p] PROVE Progress(p)'
    <3>1. Progress(p) BY <1>a, <2>3, <2>4 DEF Clean
    <3>2. produced[p] = 1 /\ Childless(p) /\ RowOf(p, last[p]) BY <2>1, <3>1 DEF Progress
    <3>3. Stored(p, last[p]) = 0 BY <3>2, NoneStored
    <3>4. request_id'[p] = last[p] /\ at'[p] = "child" /\ is_request_created'[p] BY <1>0, <2>1
    <3>5. RowOf(p, request_id[p])' /\ Stored(p, request_id[p])' = Stored(p, last[p])
      BY <2>1, <3>2, <3>4 DEF RowOf, Stored, Produced, Owner
    <3> QED BY <2>1, <2>3, <3>2, <3>3, <3>4, <3>5 DEF Progress
  <2>5. Clean(p)' BY <2>1, <2>3, <2>4 DEF Clean
  <2> QED BY <1>b, <2>1, <2>2, <2>5
<1>9. ASSUME NEW p \in Process, InsertChild(p) PROVE AllClean'
  <2> DEFINE row == [table |-> table[p], request_id |-> request_id[p], owner |-> Owner(p)]
  <2>1. /\ at[p] = "child" /\ at' = [at EXCEPT ![p] = "idle"]
        /\ children' = [children EXCEPT ![database[p]] = Append(children[database[p]], row)]
        /\ \A q \in Process \ {p} : last'[q] = last[q]
        /\ UNCHANGED <<handle, is_request_created, request_id, serving, requests, trouble>>
    BY <1>0, <1>9 DEF InsertChild, Executes, Goto
  <2>2. row \in Rows /\ row.owner = Owner(p) /\ row.request_id = request_id[p]
        /\ request_id[p] \in Nat
    BY <1>0 DEF Owner, Rows
  <2> HIDE DEF row
  <2>3. /\ Stored(p, request_id[p])' = Stored(p, request_id[p]) + 1
        /\ Stored(p, request_id[p]) \in Nat /\ \A q \in Process \ {p} : Kept(q)
    <3>1. PICK i \in Nat : i = request_id[p] BY <2>2
    <3>2. row.request_id = i BY <2>2, <3>1
    <3>3. children' = [children EXCEPT ![database[p]] = Append(children[database[p]], row)]
      BY <2>1
    <3>4. /\ Stored(p, i)' = Stored(p, i) + 1 /\ Stored(p, i) \in Nat
          /\ \A q \in Process \ {p} : Kept(q)
      <4>1. UNCHANGED <<requests, number, database>> BY <2>1
      <4>2. row \in Rows /\ row.owner = Owner(p) BY <2>2
      <4> HIDE DEF handle, session, serving, tables, trouble
      <4> QED BY <3>2, <3>3, <4>1, <4>2, OneMoreStored
    <3>5. request_id'[p] = i BY <2>1, <3>1
    <3> QED BY <3>1, <3>4, <3>5
  <2>4. \A q \in Process \ {p} : Untouched(q) BY <1>0, <2>1 DEF Untouched
  <2>5. \A q \in Process \ {p} : Clean(q)' BY <1>a, <2>3, <2>4, CleanUntouched
  <2>6. phase[p] \notin {"out", "down"} BY <1>a, <2>1 DEF Clean
  <2>7. ASSUME ~spoiled[p] PROVE Progress(p)'
    <3>1. Progress(p) BY <1>a, <2>6, <2>7 DEF Clean
    <3>2. /\ is_request_created[p] /\ mysql_event_db[p] = "open" /\ RowOf(p, request_id[p])
          /\ produced[p] = Stored(p, request_id[p]) + 1
      BY <2>1, <2>6, <3>1 DEF Progress
    <3>3. at'[p] = "idle" BY <1>0, <2>1
    <3>4. RowOf(p, request_id[p])' BY <2>1, <3>2 DEF RowOf, Owner
    <3>5. produced[p] = Stored(p, request_id[p])' BY <2>3, <3>2
    <3> QED BY <2>1, <2>6, <3>2, <3>3, <3>4, <3>5 DEF Progress
  <2>8. Clean(p)' BY <2>1, <2>6, <2>7 DEF Clean
  <2>9. ChildNumbered'
    <3>1. database[p] \in Databases /\ children[database[p]] \in Seq(Rows)
      BY DEF Typed, TypeOK
    <3>2. \A f \in Databases : \A k \in DOMAIN children'[f] :
            (k \in DOMAIN children[f] /\ children'[f][k] = children[f][k]) \/ children'[f][k] = row
      <4> DEFINE s == children[database[p]]
      <4>1. s \in Seq(Rows) BY <3>1
      <4> HIDE DEF s
      <4>2. \A k \in DOMAIN Append(s, row) : (k \in DOMAIN s /\ Append(s, row)[k] = s[k]) \/ Append(s, row)[k] = row
        <5>1. Append(s, row) \in Seq(Rows) /\ Len(Append(s, row)) = Len(s) + 1
              /\ Append(s, row)[Len(s) + 1] = row /\ \A i \in 1..Len(s) : Append(s, row)[i] = s[i]
          BY <2>2, <4>1, AppendProperties
        <5> DEFINE t == Append(s, row)
        <5> HIDE DEF t
        <5>2. DOMAIN t = 1..Len(s) + 1 /\ DOMAIN s = 1..Len(s) /\ Len(s) \in Nat
          BY <4>1, <5>1, LenProperties DEF t
        <5> QED BY <5>1, <5>2 DEF t
      <4>3. \A f \in Databases : children'[f] = IF f = database[p] THEN Append(s, row) ELSE children[f]
        BY <2>1 DEF Typed, TypeOK, s
      <4> QED BY <4>2, <4>3 DEF s
    <3>3. row.owner[1] = p /\ row.owner[2] = number[p] /\ number' = number /\ number[p] <= number[p]
      BY <1>0, <2>1, <2>2 DEF Owner
    <3>4. \A f \in Databases : \A k \in DOMAIN children[f] :
            children[f][k].owner[2] <= number[children[f][k].owner[1]]
      BY DEF AllClean, ChildNumbered
    <3> QED BY <3>2, <3>3, <3>4 DEF ChildNumbered
  <2> QED BY <2>5, <2>8, <2>9 DEF AllClean
<1>10. ASSUME NEW p \in Process, Reconnect(p) PROVE AllClean'
  <2>1. /\ at[p] \in {"insert", "set", "child"} /\ mysql_event_db[p] = "broken"
        /\ request_id' = [request_id EXCEPT ![p] = 0] /\ last' = [last EXCEPT ![p] = 0]
        /\ mysql_event_db' = [mysql_event_db EXCEPT ![p] = "open"]
        /\ UNCHANGED <<database, is_request_created, at, table, serving, tables, trouble>>
    BY <1>10 DEF Reconnect, AtQuery, NewSession
  <2>2. \A q \in Process \ {p} : Untouched(q) BY <1>0, <2>1 DEF Untouched
  <2>3. phase[p] \notin {"out", "down"} BY <1>a, <2>1 DEF Clean
  <2>4. ASSUME ~spoiled[p] PROVE Progress(p)'
    <3>1. Progress(p) BY <1>a, <2>3, <2>4 DEF Clean
    <3>2. at[p] = "insert" /\ ~is_request_created[p] /\ produced[p] = 1 /\ Childless(p)
      BY <2>1, <2>3, <3>1 DEF Progress
    <3>3. Childless(p)' BY <2>1, <3>2 DEF Childless, Owner
    <3> QED BY <2>1, <3>2, <3>3 DEF Progress
  <2>5. Clean(p)' BY <2>1, <2>3, <2>4 DEF Clean
  <2> QED BY <1>b, <2>1, <2>2, <2>5
<1>11. ASSUME NEW p \in Process, DropSession(p) PROVE AllClean'
  <2>1. /\ Spoil(p) /\ mysql_event_db' = [mysql_event_db EXCEPT ![p] = "broken"]
        /\ UNCHANGED <<database, is_request_created, at, table, request_id, last, serving, tables>>
    BY <1>11 DEF DropSession, Fault
  <2>2. \A q \in Process \ {p} : Untouched(q) BY <1>0, <2>1 DEF Untouched, Spoil
  <2>3. Clean(p)'
    <3>1. CASE phase[p] # "out" BY <1>0, <1>a, <2>1, <3>1 DEF Clean, Spoil
    <3>2. CASE phase[p] = "out"
      <4>1. at[p] = "idle" /\ (spoiled' = spoiled \/ spoiled'[p]) BY <1>0, <1>a, <2>1, <3>2 DEF Clean, Spoil
      <4>2. /\ \A i : RowOf(p, i)' = RowOf(p, i) /\ Stored(p, i)' = Stored(p, i)
            /\ Childless(p)' = Childless(p) /\ requests'[database'[p]] = requests[database[p]]
        BY <2>1, SameTables
      <4>3. ASSUME Progress(p) PROVE Progress(p)'
        <5>1. at[p] = "idle" BY <1>a, <3>2 DEF Clean
        <5>2. is_request_created[p] =>
                \E i \in DOMAIN requests'[database'[p]] : RowOf(p, i)' /\ Stored(p, i)' = produced[p]
          BY <3>2, <4>2, <4>3 DEF Progress
        <5> QED BY <2>1, <3>2, <4>2, <4>3, <5>1, <5>2 DEF Progress
      <4>4. spoiled'[p] = spoiled[p] BY <1>0, <2>1, <3>2 DEF Spoil
      <4> QED BY <1>a, <2>1, <4>3, <4>4 DEF Clean
    <3> QED BY <3>1, <3>2
  <2> QED BY <1>b, <2>1, <2>2, <2>3
<1>12. ASSUME UNCHANGED <<handle, is_request_created, at, session, phase, number, produced, tables,
                         spoiled>>
      PROVE  AllClean'
  <2>1. ASSUME NEW p \in Process PROVE Clean(p)'
    <3>1. Untouched(p) BY <1>12 DEF Untouched
    <3>2. Owner(p)' = Owner(p) /\ UNCHANGED <<requests, children>> BY <1>12 DEF Owner
    <3>3. Kept(p) BY <3>2 DEF Kept, Produced, Childless
    <3> QED BY <1>a, <3>1, <3>3, CleanUntouched
  <2>2. ChildNumbered' BY <1>12 DEF AllClean, ChildNumbered
  <2> QED BY <2>1, <2>2 DEF AllClean
<1>13. ASSUME NEW p \in Process, Call(p) PROVE AllClean'
  <2>1. CASE process_event(p)
    BY <1>2, <2>1 DEF process_event, Idle
  <2>2. CASE process_stats(p)
    <3>1. at[p] = "idle" /\ phase[p] = "script" /\ phase' = [phase EXCEPT ![p] = "stats"]
          /\ UNCHANGED <<handle, is_request_created, session, number, tables, trouble>>
      BY <2>2 DEF process_stats, Idle
    <3>2. Enter(p, "stats") \/ UNCHANGED <<at, table, produced>> BY <2>2 DEF process_stats
    <3>3. phase'[p] = "stats" /\ \A q \in Process \ {p} : phase'[q] = phase[q] BY <1>0, <3>1
    <3> QED BY <1>2, <1>3, <3>1, <3>2, <3>3
  <2>3. CASE rshutdown(p) BY <1>3, <2>3 DEF rshutdown, Idle
  <2> QED BY <1>1, <1>4, <1>13, <2>1, <2>2, <2>3 DEF Call
<1>14. CASE UNCHANGED vars BY <1>12, <1>14 DEF vars
<1> QED BY <1>5, <1>6, <1>7, <1>8, <1>9, <1>10, <1>11, <1>13, <1>14
        DEF Next, Work, Terminated

\* A request in which nothing goes wrong has all it produced stored, referring to its
\* row, for any number of processes, databases and requests, and also when the server
\* dropped the session since the request before.  Where apm is off, one that begins with
\* is_request_created set has gone wrong from the start.
THEOREM CleanRequestsAreStored == Spec => []CleanRequestStored
<1>1. ASSUME Typed, AllClean PROVE CleanRequestStored
  <2> SUFFICES ASSUME NEW p \in Process, phase[p] = "out", ~spoiled[p], produced[p] > 0
               PROVE  \E i \in DOMAIN requests[database[p]] :
                        /\ requests[database[p]][i] = Owner(p)
                        /\ Cardinality(Produced(p, database[p], i)) = produced[p]
    BY DEF CleanRequestStored
  <2>1. at[p] = "idle" /\ Progress(p) BY <1>1 DEF AllClean, Clean
  <2>2. is_request_created[p]
    <3>1. produced[p] # 0 BY <1>1 DEF Typed, TypeOK
    <3> QED BY <2>1, <3>1 DEF Progress
  <2> QED BY <2>1, <2>2 DEF Progress, RowOf, Stored
<1> QED BY <1>1, TypesInit, TypesNext, CleanInit, CleanNext, PTL DEF Spec

-----------------------------------------------------------------------------
(* The length of a call *)

LEMMA RestTypes ==
  /\ \A label \in Places : Rest(label) \in Nat
  /\ Rest("instance") = 5 /\ Rest("insert") = 4 /\ Rest("set") = 3
  /\ Rest("again") = 2 /\ Rest("child") = 1 /\ Rest("idle") = 0
BY DEF Rest, Places

\* A step of the call as a step of its place and its handle.
LEMMA WorkMoves ==
  ASSUME Typed, NEW p \in Process, Work(p)
  PROVE  /\ Rest(at[p]) \in Nat /\ Rest(at'[p]) \in Nat
         /\ \/ Rest(at'[p]) < Rest(at[p]) /\ mysql_event_db'[p] = mysql_event_db[p]
            \/ Rest(at'[p]) < Rest(at[p]) /\ mysql_event_db'[p] = "open"
            \/ Rest(at'[p]) = Rest(at[p]) /\ mysql_event_db[p] = "broken"
                                          /\ mysql_event_db'[p] = "open"
<1>1. /\ at \in [Process -> Places] /\ mysql_event_db \in [Process -> {"null", "open", "broken"}]
  BY TypedParts DEF CallTyped, HandleTyped
<1>2. \A label : Goto(p, label) => at'[p] = label BY <1>1 DEF Goto
<1>3. NewSession(p) => mysql_event_db'[p] = "open" BY <1>1 DEF NewSession
<1>4. CASE Connect(p)
  <2>1. /\ at[p] \in {"instance", "again"} /\ at'[p] = After(at[p])
        /\ mysql_event_db'[p] = "open"
    BY <1>2, <1>3, <1>4 DEF Connect, AtInstance
  <2> QED BY <2>1, RestTypes DEF After
<1>5. CASE ConnectFails(p)
  <2>1. /\ at[p] \in {"instance", "again"} /\ mysql_event_db' = mysql_event_db
        /\ at'[p] = IF at[p] = "instance" THEN "again" ELSE "idle"
    BY <1>2, <1>5 DEF ConnectFails, AtInstance, handle
  <2> QED BY <2>1, RestTypes
<1>6. CASE InsertRequest(p) \/ RequestRejected(p)
  <2>1. at[p] = "insert" /\ at'[p] = "set" /\ mysql_event_db' = mysql_event_db
    BY <1>2, <1>6 DEF InsertRequest, RequestRejected, Executes, handle
  <2> QED BY <2>1, RestTypes
<1>7. CASE SetRequestId(p)
  <2>1. /\ at[p] = "set" /\ at'[p] = Get(p, "again") /\ mysql_event_db' = mysql_event_db
    BY <1>2, <1>7 DEF SetRequestId, Executes, handle
  <2>2. at'[p] \in {"again", "child"} BY <2>1 DEF Get, After
  <2> QED BY <2>1, <2>2, RestTypes
<1>8. CASE InsertChild(p) \/ ChildRejected(p)
  <2>1. at[p] = "child" /\ at'[p] = "idle" /\ mysql_event_db' = mysql_event_db
    BY <1>2, <1>8 DEF InsertChild, ChildRejected, Executes, handle
  <2> QED BY <2>1, RestTypes
<1>9. CASE Reconnect(p)
  <2>1. at' = at /\ mysql_event_db[p] = "broken" /\ mysql_event_db'[p] = "open"
    BY <1>3, <1>9 DEF Reconnect, AtQuery
  <2> QED BY <1>1, <2>1, RestTypes
<1>10. CASE GoneAway(p)
  <2>1. /\ at[p] \in {"insert", "set", "child"} /\ mysql_event_db' = mysql_event_db
        /\ GiveUp(p)
    BY <1>10 DEF GoneAway, AtQuery, handle
  <2>2. /\ at[p] = "insert" => at'[p] = "set"
        /\ at[p] = "set" => at'[p] \in {"again", "child"}
        /\ at[p] = "child" => at'[p] = "idle"
    BY <1>2, <2>1 DEF GiveUp, Get, After
  <2> QED BY <2>1, <2>2, RestTypes
<1> QED BY <1>4, <1>5, <1>6, <1>7, <1>8, <1>9, <1>10 DEF Work

LEMMA WorkEnds ==
  ASSUME Typed, NEW p \in Process, Work(p)
  PROVE  StepsLeft(p)' < StepsLeft(p)
<1> DEFINE old == IF mysql_event_db[p] = "broken" THEN 1 ELSE 0
           new == IF mysql_event_db'[p] = "broken" THEN 1 ELSE 0
           x == Rest(at[p])
           y == Rest(at'[p])
<1>1. /\ x \in Nat /\ y \in Nat /\ old \in {0, 1} /\ new \in {0, 1}
      /\ \/ y < x /\ new <= old
         \/ y < x /\ new = 0
         \/ y = x /\ old = 1 /\ new = 0
  BY WorkMoves
<1>2. StepsLeft(p) = 2 * x + old /\ StepsLeft(p)' = 2 * y + new BY DEF StepsLeft
<1> HIDE DEF old, new, x, y
<1>3. 2 * y + new < 2 * x + old BY ONLY <1>1
<1> QED BY ONLY <1>2, <1>3

\* What is not a step of the call leaves it where it is.
LEMMA OthersLeaveCalls ==
  ASSUME Typed, [Next]_vars, NEW p \in Process, ~Work(p), ~Idle(p)
  PROVE  \/ UNCHANGED <<at[p], mysql_event_db[p]>>
         \/ DropSession(p) /\ UNCHANGED at[p]
              /\ mysql_event_db[p] = "open" /\ mysql_event_db'[p] = "broken"
<1>1. at \in [Process -> Places] /\ mysql_event_db \in [Process -> {"null", "open", "broken"}]
  BY TypedParts DEF CallTyped, HandleTyped
<1>2. ASSUME NEW q \in Process, q # p, Call(q)
      PROVE  UNCHANGED <<at[p], mysql_event_db[p]>>
  <2>1. CASE rinit(q) \/ rinit_Skipped(q) \/ rshutdown(q)
    BY <2>1 DEF rinit, rinit_Skipped, Begin, rshutdown, handle
  <2>2. CASE process_event(q) \/ process_stats(q)
    <3>1. /\ mysql_event_db' = mysql_event_db
          /\ at' = at \/ \E label : Goto(q, label)
      BY <2>2 DEF process_event, process_stats, Enter, handle
    <3> QED BY <1>1, <1>2, <3>1 DEF Goto
  <2>3. CASE mshutdown(q) BY <1>1, <1>2, <2>3 DEF mshutdown
  <2> QED BY <1>2, <2>1, <2>2, <2>3 DEF Call
<1>3. ASSUME NEW q \in Process, q # p, Work(q)
      PROVE  UNCHANGED <<at[p], mysql_event_db[p]>>
  <2>1. at' = at \/ \E label : Goto(q, label)
    <3>1. Reconnect(q) => at' = at BY DEF Reconnect
    <3>2. Connect(q) \/ ConnectFails(q) => \E label : Goto(q, label)
      BY DEF Connect, ConnectFails
    <3>3. InsertRequest(q) \/ RequestRejected(q) \/ SetRequestId(q)
            => \E label : Goto(q, label)
      BY DEF InsertRequest, RequestRejected, SetRequestId
    <3>4. InsertChild(q) \/ ChildRejected(q) \/ GoneAway(q) => \E label : Goto(q, label)
      BY DEF InsertChild, ChildRejected, GoneAway, GiveUp
    <3> QED BY <1>3, <3>1, <3>2, <3>3, <3>4 DEF Work
  <2>2. mysql_event_db' = mysql_event_db \/ NewSession(q)
    <3>1. Reconnect(q) \/ Connect(q) => NewSession(q) BY DEF Reconnect, Connect
    <3>2. ConnectFails(q) \/ InsertRequest(q) \/ RequestRejected(q) \/ SetRequestId(q)
            => mysql_event_db' = mysql_event_db
      BY DEF ConnectFails, InsertRequest, RequestRejected, SetRequestId, handle
    <3>3. InsertChild(q) \/ ChildRejected(q) \/ GoneAway(q)
            => mysql_event_db' = mysql_event_db
      BY DEF InsertChild, ChildRejected, GoneAway, handle
    <3> QED BY <1>3, <3>1, <3>2, <3>3 DEF Work
  <2>3. at'[p] = at[p] BY <1>1, <1>3, <2>1 DEF Goto
  <2>4. mysql_event_db'[p] = mysql_event_db[p] BY <1>1, <1>3, <2>2 DEF NewSession
  <2> QED BY <2>3, <2>4
<1>4. ASSUME NEW q \in Process, q # p, DropSession(q)
      PROVE  UNCHANGED <<at[p], mysql_event_db[p]>>
  BY <1>1, <1>4 DEF DropSession
<1>5. ~Call(p)
  BY DEF Call, rinit, rinit_Skipped, Begin, process_event, process_stats, rshutdown, mshutdown
<1>6. ASSUME DropSession(p)
      PROVE  UNCHANGED at[p] /\ mysql_event_db[p] = "open" /\ mysql_event_db'[p] = "broken"
  BY <1>1, <1>6 DEF DropSession
<1>7. UNCHANGED vars => UNCHANGED <<at[p], mysql_event_db[p]>> BY DEF vars, handle
<1> QED BY <1>2, <1>3, <1>4, <1>5, <1>6, <1>7 DEF Next, Terminated

\* Any number of processes, databases, refusals and dropped sessions: a call takes a
\* bounded number of steps and one more for each session it loses; what CallReturns
\* says, less the fairness.
THEOREM CallsTakeBoundedSteps == Spec => CallIsBounded
<1> DEFINE Shorter ==
      \A p \in Process :
        /\ Work(p) => StepsLeft(p)' < StepsLeft(p)
        /\ ~Idle(p) /\ StepsLeft(p)' > StepsLeft(p) =>
             DropSession(p) /\ StepsLeft(p)' = StepsLeft(p) + 1
<1>1. Typed /\ [Next]_vars => [Shorter]_vars
  <2> SUFFICES ASSUME Typed, [Next]_vars, NEW p \in Process
               PROVE  /\ Work(p) => StepsLeft(p)' < StepsLeft(p)
                      /\ ~Idle(p) /\ StepsLeft(p)' > StepsLeft(p) =>
                           DropSession(p) /\ StepsLeft(p)' = StepsLeft(p) + 1
    OBVIOUS
  <2>1. Work(p) => StepsLeft(p)' < StepsLeft(p) BY WorkEnds
  <2>2. StepsLeft(p) \in Nat /\ StepsLeft(p)' \in Nat
    <3>1. at[p] \in Places /\ at'[p] \in Places
      BY TypesNext, TypedParts DEF CallTyped
    <3> QED BY <3>1, RestTypes DEF StepsLeft
  <2>3. ASSUME ~Work(p), ~Idle(p), StepsLeft(p)' > StepsLeft(p)
        PROVE  DropSession(p) /\ StepsLeft(p)' = StepsLeft(p) + 1
    <3>1. CASE UNCHANGED <<at[p], mysql_event_db[p]>>
      <4>1. StepsLeft(p)' = StepsLeft(p) BY <3>1 DEF StepsLeft
      <4> QED BY <2>2, <2>3, <4>1
    <3>2. CASE DropSession(p) /\ UNCHANGED at[p]
                 /\ mysql_event_db[p] = "open" /\ mysql_event_db'[p] = "broken"
      <4>1. at[p] \in Places BY TypedParts DEF CallTyped
      <4> QED BY <3>2, <4>1, RestTypes DEF StepsLeft
    <3> QED BY <2>3, <3>1, <3>2, OthersLeaveCalls
  <2>4. Work(p) /\ StepsLeft(p)' > StepsLeft(p) => FALSE BY <2>1, <2>2
  <2> QED BY <2>1, <2>3, <2>4
<1> QED BY <1>1, TypesInit, TypesNext, PTL DEF Spec, CallIsBounded

=============================================================================
