---------------------------- MODULE SocketDriver ----------------------------
(***************************************************************************)
(* driver_socket.c: events are linked behind a dummy head while the request *)
(* runs; rshutdown connects to the entries of apm.socket_path, sends each   *)
(* of them one JSON report, frees the list and closes the sockets.          *)
(*                                                                         *)
(* The module is used by itself, in an environment that calls the driver   *)
(* as its function table is meant to be called, and by ApmSocket, where    *)
(* the calls are those ApmCore makes.                                      *)
(***************************************************************************)
EXTENDS Naturals, Sequences, FiniteSets

CONSTANTS
  Path,          \* apm.socket_path, split at '|': a sequence of Entry
  MaxSockets,    \* MAX_SOCKETS
  MaxSeen, MaxReports     \* bounds: events and requests

Entry == [proto : {"file", "tcp", "other"}, port : BOOLEAN]
Entries == DOMAIN Path
PeerStates == {"listening", "refusing", "unresolved"}

ASSUME SocketAssumption ==
  /\ Path \in Seq(Entry) /\ MaxSockets \in Nat
  /\ MaxSeen \in Nat /\ MaxReports \in Nat

VARIABLES
  socket_events,  \* the list: null, live or freed
  list,           \* the events linked behind its head
  pc,             \* in rshutdown: connect, send, close, or stuck in a call that
                  \*   does not return; otherwise idle
  at,             \* the entry strtok returned
  sds,            \* the connected sockets, as the entries they lead to
  it,             \* the loop counter i of the send and close loops
  open,           \* entries with an open descriptor
  exhausted,      \* socket() failed: no descriptor was left
  damaged,        \* the list was used while null or freed
  \* the peers, and history
  peer,           \* state of the peer of each entry
  inbox,          \* [entry -> reports received]
  seen,           \* events raised so far
  reports         \* requests ended so far

cursor == <<pc, at, sds, it>>
world  == <<seen, reports>>
vars == <<socket_events, list, cursor, open, exhausted, damaged, peer, inbox, world>>

\* What getaddrinfo and connect may say of the entries that are tried.
PossiblePeers ==
  {p \in [Entries -> PeerStates] : \A i \in Entries :
     p[i] # "refusing" =>
       \/ Path[i].proto = "file" /\ p[i] = "listening"
       \/ Path[i].proto = "tcp" /\ Path[i].port}

InitDriver ==
  /\ socket_events = "null" /\ list = <<>>
  /\ pc = "idle" /\ at = 1 /\ sds = <<>> /\ it = 1
  /\ open = {} /\ exhausted = FALSE /\ damaged = FALSE
  /\ peer = [i \in Entries |-> "refusing"] /\ inbox = [i \in Entries |-> <<>>]

-----------------------------------------------------------------------------
(* The driver's function table *)

\* A new head; the old list is not looked at.
rinit == /\ socket_events' = "live" /\ list' = <<>>
         /\ UNCHANGED <<cursor, open, exhausted, damaged, peer, inbox>>

\* Mutant: linked in behind the head, ahead of the earlier ones.
process_event_Front(e) ==
  /\ IF socket_events = "live" THEN list' = <<e>> \o list /\ UNCHANGED damaged
                               ELSE damaged' = TRUE /\ UNCHANGED list
  /\ UNCHANGED <<socket_events, cursor, open, exhausted, peer, inbox>>

\* The event goes to the end of the list; a list that is not there is followed
\* all the same.
process_event(e) ==
  /\ IF socket_events = "live" THEN list' = Append(list, e) /\ UNCHANGED damaged
                               ELSE damaged' = TRUE /\ UNCHANGED list
  /\ UNCHANGED <<socket_events, cursor, open, exhausted, peer, inbox>>

\* rshutdown, up to the first strtok.  Whom it will reach is settled here.
Enter ==
  /\ pc = "idle" /\ pc' = "connect" /\ at' = 1 /\ sds' = <<>> /\ it' = 1
  /\ peer' \in PossiblePeers /\ exhausted' = FALSE
  /\ UNCHANGED <<socket_events, list, open, damaged, inbox>>

\* Mutant: one entry more than the array holds.
MoreEntriesInclusive == at <= Len(Path) /\ Len(sds) <= MaxSockets
MoreEntries == at <= Len(Path) /\ Len(sds) < MaxSockets

\* The `break's: no port, or no address.
Abandons(i) ==
  /\ Path[i].proto = "tcp"
  /\ ~Path[i].port \/ peer[i] = "unresolved"

Attempt == pc = "connect" /\ MoreEntries

Connect ==
  /\ Attempt /\ Path[at].proto # "other" /\ ~Abandons(at)
  /\ peer[at] = "listening"
  /\ sds' = Append(sds, at) /\ open' = open \union {at}
  /\ at' = at + 1
  /\ UNCHANGED <<socket_events, list, pc, it, exhausted, damaged, peer, inbox>>

\* Mutant: the descriptor of a refused connection is not closed.
RefusedLeak ==
  /\ Attempt /\ Path[at].proto # "other" /\ ~Abandons(at)
  /\ peer[at] = "refusing"
  /\ at' = at + 1 /\ open' = open \union {at}
  /\ UNCHANGED <<socket_events, list, pc, sds, it, exhausted, damaged, peer, inbox>>

\* Mutant: a refused connection ends the loop.
RefusedEnds ==
  /\ Attempt /\ Path[at].proto # "other" /\ ~Abandons(at)
  /\ peer[at] = "refusing"
  /\ pc' = "send"
  /\ UNCHANGED <<socket_events, list, at, sds, it, open, exhausted, damaged, peer, inbox>>

\* connect fails, and the descriptor just opened is closed again.
Refused ==
  /\ Attempt /\ Path[at].proto # "other" /\ ~Abandons(at)
  /\ peer[at] = "refusing"
  /\ at' = at + 1
  /\ UNCHANGED <<socket_events, list, pc, sds, it, open, exhausted, damaged, peer, inbox>>

\* Mutant: a `continue' that skips strtok.
UnknownEntryContinues ==
  /\ Attempt /\ Path[at].proto = "other"
  /\ UNCHANGED <<socket_events, list, cursor, open, exhausted, damaged, peer, inbox>>

UnknownEntry ==
  /\ Attempt /\ Path[at].proto = "other" /\ at' = at + 1
  /\ UNCHANGED <<socket_events, list, pc, sds, it, open, exhausted, damaged, peer, inbox>>

\* The loop ends: at the end of the path, at MAX_SOCKETS, or at a break.  The
\* report is put together from the list as it is here.
EndConnect ==
  /\ pc = "connect"
  /\ \/ ~MoreEntries /\ UNCHANGED exhausted
     \/ MoreEntries /\ Abandons(at) /\ UNCHANGED exhausted
     \/ MoreEntries /\ Path[at].proto # "other" /\ ~Abandons(at) /\ exhausted' = TRUE
  /\ pc' = "send"
  /\ damaged' = (damaged \/ socket_events # "live")
  /\ UNCHANGED <<socket_events, list, at, sds, it, open, peer, inbox>>

\* "Add ip, referer, ... if an error occured or if thresold is reached."
Report(slow) == [events |-> list, extras |-> list # <<>> \/ slow]

\* Mutant: the list is dropped by the send loop instead of after it.
SendClears(slow, ok) ==
  /\ pc = "send" /\ it <= Len(sds)
  /\ inbox' = IF ok THEN [inbox EXCEPT ![sds[it]] = Append(@, Report(slow))] ELSE inbox
  /\ it' = it + 1 /\ list' = <<>>
  /\ UNCHANGED <<socket_events, pc, at, sds, open, exhausted, damaged, peer>>

\* send to the next socket; a failure is ignored, and the driver does not ask
\* whether all of the report was taken: one cut short is no report either (ok).
Send(slow, ok) ==
  /\ pc = "send" /\ it <= Len(sds)
  /\ inbox' = IF ok THEN [inbox EXCEPT ![sds[it]] = Append(@, Report(slow))] ELSE inbox
  /\ it' = it + 1
  /\ UNCHANGED <<socket_events, list, pc, at, sds, open, exhausted, damaged, peer>>

\* Mutant: clear_events empties nothing the next request could see.
ClearEventsNot ==
  /\ pc = "send" /\ it > Len(sds)
  /\ pc' = "close" /\ it' = 1
  /\ UNCHANGED <<socket_events, list, at, sds, open, exhausted, damaged, peer, inbox>>

clear_events ==
  /\ pc = "send" /\ it > Len(sds)
  /\ socket_events' = "freed" /\ list' = <<>>
  /\ pc' = "close" /\ it' = 1
  /\ UNCHANGED <<at, sds, open, exhausted, damaged, peer, inbox>>

\* Mutant: the counter of the loop stays.
CloseStuck ==
  /\ pc = "close"
  /\ IF it <= Len(sds) THEN open' = open \ {sds[it]} /\ UNCHANGED <<pc, it>>
                       ELSE pc' = "idle" /\ UNCHANGED <<open, it>>
  /\ UNCHANGED <<socket_events, list, at, sds, exhausted, damaged, peer, inbox>>

Close ==
  /\ pc = "close"
  /\ IF it <= Len(sds) THEN open' = open \ {sds[it]} /\ it' = it + 1 /\ UNCHANGED pc
                       ELSE pc' = "idle" /\ UNCHANGED <<open, it>>
  /\ UNCHANGED <<socket_events, list, at, sds, exhausted, damaged, peer, inbox>>

\* The sockets block and have no timeout: a connect does not return when the peer
\* does not answer, a send when it does not read.
Block ==
  /\ \/ Attempt /\ Path[at].proto # "other" /\ ~Abandons(at)
     \/ pc = "send" /\ it <= Len(sds)
  /\ pc' = "stuck"
  /\ UNCHANGED <<socket_events, list, at, sds, it, open, exhausted, damaged, peer, inbox>>

\* The steps of rshutdown after Enter, in which its calls return.
rshutdown(slow) ==
  \/ Connect \/ Refused \/ UnknownEntry \/ EndConnect
  \/ \E ok \in BOOLEAN : Send(slow, ok)
  \/ clear_events \/ Close

-----------------------------------------------------------------------------
(* The driver by itself *)

Init == InitDriver /\ seen = 0 /\ reports = 0

Rinit == /\ pc = "idle" /\ socket_events # "live" /\ reports < MaxReports
         /\ rinit /\ UNCHANGED world

Event == /\ pc = "idle" /\ socket_events = "live" /\ seen < MaxSeen
         /\ seen' = seen + 1 /\ process_event(seen') /\ UNCHANGED reports

EnterRshutdown == socket_events = "live" /\ Enter /\ reports' = reports + 1
                    /\ UNCHANGED seen

Rshutdown == (\E slow \in BOOLEAN : rshutdown(slow)) /\ UNCHANGED world

RshutdownBlocks == Block /\ UNCHANGED world

Terminated == /\ \/ pc = "idle" /\ socket_events # "live" /\ reports = MaxReports
                 \/ pc = "stuck"
              /\ UNCHANGED vars

Next == Rinit \/ Event \/ EnterRshutdown \/ Rshutdown \/ RshutdownBlocks \/ Terminated

\* rshutdown is one call: it runs on, or blocks.
Spec == Init /\ [][Next]_vars /\ WF_vars(Rshutdown)

-----------------------------------------------------------------------------
(* Properties *)

Reports == [events : Seq(Nat), extras : BOOLEAN]

\* Types, and the bound of the array sds.
TypeOK ==
  /\ socket_events \in {"null", "live", "freed"} /\ list \in Seq(Nat)
  /\ pc \in {"idle", "connect", "send", "close", "stuck"}
  /\ at \in 1..(Len(Path) + 1) /\ it \in 1..(Len(sds) + 1)
  /\ sds \in Seq(Entries) /\ Len(sds) <= MaxSockets
  /\ open \subseteq Entries /\ exhausted \in BOOLEAN /\ damaged \in BOOLEAN
  /\ peer \in PossiblePeers /\ inbox \in [Entries -> Seq(Reports)]
  /\ seen \in Nat /\ reports \in Nat

\* Called as the function table is meant to be, the driver never follows a null
\* or dangling list, and leaves no descriptor open when rshutdown is over.
DescriptorsClosed ==
  ~damaged /\ (pc = "idle" => open = {})

\* An entry no break comes before, and no more than MAX_SOCKETS reachable ones
\* stand before, has its socket when the loop is over.
Reachable(i) == peer[i] = "listening" /\ Path[i].proto # "other" /\ ~Abandons(i)
ReachableConnected ==
  pc = "send" /\ ~exhausted =>
    \A i \in Entries :
      /\ Reachable(i)
      /\ \A j \in 1..i : ~Abandons(j)
      /\ Cardinality({j \in 1..i : Reachable(j)}) <= MaxSockets
      => \E k \in DOMAIN sds : sds[k] = i

\* The README's "accept multiple entries": one entry that cannot be used does not
\* keep the report from the entries behind it.
EntriesIndependent ==
  pc = "send" /\ ~exhausted =>
    \A i \in Entries : Reachable(i) /\ Len(sds) < MaxSockets
                         => \E k \in DOMAIN sds : sds[k] = i

\* The driver implements RequestReport.
Refined == INSTANCE RequestReport WITH
  Endpoints <- Entries,
  Events <- 1..MaxSeen,
  stage <- IF socket_events # "live" THEN "closed"
           ELSE IF pc \in {"connect", "send"} THEN "publishing"
           ELSE IF pc = "stuck" THEN "stalled" ELSE "open",
  batch <- list,
  offered <- IF pc \in {"send", "stuck"} THEN {sds[k] : k \in 1..(it - 1)} ELSE {},
  out <- [i \in Entries |-> [k \in DOMAIN inbox[i] |-> inbox[i][k].events]]
ReportsOncePerRequest == Refined!Spec

\* Each step of rshutdown leaves fewer of them, and nothing else happens meanwhile:
\* one call tries each entry at most once, and sends to and closes each socket once.
StepsLeft ==
  CASE pc = "connect" -> (Len(Path) + 1 - at) + 2 * MaxSockets + 3
    [] pc = "send"    -> (Len(sds) + 1 - it) + Len(sds) + 2
    [] pc = "close"   -> (Len(sds) + 1 - it) + 1
    [] pc \in {"idle", "stuck"} -> 0
RshutdownIsBounded ==
  /\ [](StepsLeft \in 0..Len(Path) + 2 * MaxSockets + 3)
  /\ [][pc # "idle" => StepsLeft' < StepsLeft]_vars

\* Whatever the path and the answers of the peers are, nothing keeps rshutdown, and
\* with it the request, from ending but a connect or send that never returns.
RshutdownEnds == []<>(pc \in {"idle", "stuck"})
=============================================================================
