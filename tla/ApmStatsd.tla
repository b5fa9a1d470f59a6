------------------------------ MODULE ApmStatsd ------------------------------
(***************************************************************************)
(* ApmCore with driver_statsd.c.  The driver looks its server up in minit, *)
(* when statsd is enabled there, and its handlers use what was found.  The *)
(* datagrams themselves get lost or not, unnoticed.                        *)
(***************************************************************************)
EXTENDS ApmCore

\* apm.statsd_enabled is PHP_INI_PERDIR: a script cannot switch it.
ASSUME StatsdAssumption == "statsd" \notin RuntimeSwitch

VARIABLES
  servinfo,            \* statsd_servinfo: null, info, freed
  adjusted,            \* some host's settings named apm.enabled or
                       \*   apm.statsd_enabled
  unaddressed          \* a handler was called with no address there

statsd == <<servinfo, adjusted, unaddressed>>
all == <<vars, statsd>>

StatsdInit == Init /\ servinfo = "null" /\ adjusted = FALSE /\ unaddressed = FALSE

\* Mutant: a lookup that fails changes nothing.
LookupGoesOn ==
  /\ Minit /\ UNCHANGED enabled
  /\ servinfo' \in IF apm_enabled /\ "statsd" \in enabled THEN {"info", "null"}
                                                           ELSE {servinfo}
  /\ UNCHANGED <<adjusted, unaddressed>>

\* apm_driver_statsd_minit: without an address the driver is switched off.
Lookup ==
  /\ Minit
  /\ servinfo' = IF apm_enabled /\ "statsd" \in enabled' THEN "info" ELSE servinfo
  /\ UNCHANGED <<adjusted, unaddressed>>

\* The settings of a host may name apm.enabled or apm.statsd_enabled.  The engine
\* then also puts them back when the request is over, to what php.ini says: so the
\* next ones may find statsd on although minit has switched it off.
StartRequest ==
  /\ Rinit
  /\ adjusted' \in {adjusted, TRUE}
  /\ \/ adjusted'
     \/ apm_enabled' = apm_enabled /\ ("statsd" \in enabled' <=> "statsd" \in enabled)
  /\ UNCHANGED <<servinfo, unaddressed>>

\* process_event and process_stats follow the pointer.
Use == unaddressed' = (unaddressed \/ servinfo # "info")

DeliverEvent ==
  /\ Deliver
  /\ IF RecorderList[Top.next] = "statsd" /\ Wanted("statsd", Current)
       THEN Use ELSE UNCHANGED unaddressed
  /\ UNCHANGED <<servinfo, adjusted>>

ProcessStatistics ==
  /\ RshutdownStats
  /\ IF "statsd" \in statted' \ statted THEN Use ELSE UNCHANGED unaddressed
  /\ UNCHANGED <<servinfo, adjusted>>

\* apm_driver_statsd_mshutdown
Free ==
  /\ Mshutdown
  /\ servinfo' = IF apm_enabled /\ "statsd" \in enabled THEN "freed" ELSE servinfo
  /\ UNCHANGED <<adjusted, unaddressed>>

Elsewhere ==
  /\ \/ Script \/ Return \/ Complain
     \/ RshutdownBegin \/ ComplainStats \/ RshutdownElasticsearch
     \/ RshutdownDrivers \/ EndRequest \/ Terminated
  /\ UNCHANGED statsd

StatsdNext == Lookup \/ StartRequest \/ DeliverEvent \/ ProcessStatistics \/ Free
                \/ Elsewhere

StatsdSpec == StatsdInit /\ [][StatsdNext]_all

-----------------------------------------------------------------------------
(* Properties *)

\* The handlers of statsd have an address whenever they are called: also during
\* start-up, and in the requests after a lookup that failed, as long as no host's
\* settings switch the driver on behind minit's back.
AddressWhenCalled == unaddressed => adjusted
=============================================================================
