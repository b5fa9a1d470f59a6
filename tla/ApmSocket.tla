------------------------------ MODULE ApmSocket ------------------------------
(***************************************************************************)
(* ApmCore and SocketDriver together: the calls the core makes through the *)
(* function table of the socket driver, under the settings and at the      *)
(* moments the core makes them.                                            *)
(***************************************************************************)
EXTENDS ApmCore

CONSTANTS
  Path, MaxSockets,
  QuietStart       \* no error is raised between MINIT and the first RINIT

ASSUME PathAssumption ==
  /\ Path \in Seq([proto : {"file", "tcp", "other"}, port : BOOLEAN])
  /\ MaxSockets \in Nat

VARIABLES
  socket_events, list, pc, at, sds, it, open, exhausted, damaged, peer, inbox,
  rshutdown_called  \* the loop over the rshutdowns has passed the socket driver

Socket == INSTANCE SocketDriver WITH
  MaxSeen <- MaxEvents, MaxReports <- MaxRequests,
  seen <- Len(raised), reports <- request

driver == <<socket_events, list, pc, at, sds, it, open, exhausted, damaged, peer,
            inbox>>
all == <<vars, driver, rshutdown_called>>

ComposedInit == Init /\ Socket!InitDriver /\ rshutdown_called = FALSE

-----------------------------------------------------------------------------
(* The core's steps that call the driver *)

StartRequest ==
  /\ Rinit
  /\ IF apm_enabled' /\ "socket" \in enabled' THEN Socket!rinit
                                              ELSE UNCHANGED driver
  /\ UNCHANGED rshutdown_called

DeliverEvent ==
  /\ Deliver
  /\ IF RecorderList[Top.next] = "socket" /\ Wanted("socket", Current)
       THEN Socket!process_event(<<request, Top.id>>)
       ELSE UNCHANGED driver
  /\ UNCHANGED rshutdown_called

\* The loop over the drivers in RSHUTDOWN asks is_enabled as it is then.
\* Mutant: it calls every driver.
CallRshutdownAlways ==
  /\ phase = "drivers" /\ ~rshutdown_called
  /\ rshutdown_called' = TRUE /\ Socket!Enter /\ UNCHANGED vars

CallRshutdown ==
  /\ phase = "drivers" /\ ~rshutdown_called
  /\ rshutdown_called' = TRUE
  /\ IF "socket" \in enabled THEN Socket!Enter ELSE UNCHANGED driver
  /\ UNCHANGED vars

\* The driver compares what the core last measured with the threshold.
\* Mutant: it takes the duration for a flag.
SlowRequestIfMeasured == duration > 0
SlowRequest == Slow(duration)

SocketRshutdown == Socket!rshutdown(SlowRequest)
                     /\ UNCHANGED <<vars, rshutdown_called>>

SocketBlocks == Socket!Block /\ UNCHANGED <<vars, rshutdown_called>>

FinishRequest ==
  /\ rshutdown_called /\ pc = "idle"
  /\ RshutdownDrivers /\ rshutdown_called' = FALSE /\ UNCHANGED driver

\* A call of the driver that does not return: nothing more happens.
Stuck == pc = "stuck" /\ UNCHANGED all

\* Every other step of the core.
Elsewhere ==
  /\ \/ Minit \/ Mshutdown \/ EndRequest
     \/ Script \/ Return \/ Complain
     \/ RshutdownBegin \/ RshutdownStats \/ ComplainStats \/ RshutdownElasticsearch
     \/ Terminated
  /\ QuietStart /\ phase = "startup" => stack' = <<>>
  /\ UNCHANGED <<driver, rshutdown_called>>

ComposedNext == StartRequest \/ DeliverEvent \/ CallRshutdown \/ SocketRshutdown
                  \/ SocketBlocks \/ Stuck \/ FinishRequest \/ Elsewhere

ProgramStep ==
  \/ DeliverEvent \/ CallRshutdown \/ SocketRshutdown \/ FinishRequest
  \/ /\ Return \/ RshutdownBegin \/ RshutdownStats \/ RshutdownElasticsearch
        \/ EndRequest
     /\ UNCHANGED <<driver, rshutdown_called>>

ComposedSpec == ComposedInit /\ [][ComposedNext]_all /\ WF_all(ProgramStep)

-----------------------------------------------------------------------------
(* Properties *)

\* The event list is never followed while null or freed, and is never left behind
\* by a request: rinit, process_event and rshutdown arrive in this order for every
\* request, whichever drivers it enables, as long as no error is raised before the
\* first request (QuietStart), apm.enabled is the same for all requests, and no
\* script switches the driver on or off.
QueueDiscipline ==
  /\ ~damaged
  /\ phase \in {"closing", "idle"} => socket_events # "live"

\* The report holds the events the core gave the driver in this request, all of
\* them, in their order, and none of an earlier one, under the same restrictions.
ReportsThisRequest ==
  pc = "send" =>
    list = [k \in DOMAIN recorded["socket"] |-> <<request, recorded["socket"][k]>>]

\* The report has the details of the request if an error occurred or if the
\* threshold was reached in this request, and only then.
DetailsWhenDue ==
  pc = "send" => (Socket!Report(SlowRequest).extras
                    <=> recorded["socket"] # <<>> \/ clock - started > Threshold)

\* Under the core's calls too, the driver implements RequestReport: an event is the
\* request and the event's number in it.
Reported == INSTANCE RequestReport WITH
  Endpoints <- DOMAIN Path,
  Events <- Nat \X Nat,
  stage <- IF socket_events # "live" THEN "closed"
           ELSE IF pc \in {"connect", "send"} THEN "publishing"
           ELSE IF pc = "stuck" THEN "stalled" ELSE "open",
  batch <- list,
  offered <- IF pc \in {"send", "stuck"} THEN {sds[k] : k \in 1..(it - 1)} ELSE {},
  out <- [i \in DOMAIN Path |-> [k \in DOMAIN inbox[i] |-> inbox[i][k].events]]
ReportsEachRequest == Reported!Init /\ [][Reported!Next]_(Reported!vars)

\* No peer is told of an event twice: not in two reports, and not twice in one.
EventsReportedOnce ==
  \A i \in DOMAIN Path : \A k, l \in DOMAIN inbox[i] :
    \A a \in DOMAIN inbox[i][k].events : \A b \in DOMAIN inbox[i][l].events :
      inbox[i][k].events[a] = inbox[i][l].events[b] => k = l /\ a = b

\* Also with the driver's connections to wait for, a request that ends is over,
\* unless a connect or send of the driver never returns.
ComposedRequestEnds == phase = "ending" ~> phase = "idle" \/ pc = "stuck"
=============================================================================
