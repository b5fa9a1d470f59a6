--------------------------- MODULE ApmStatsd_proofs ---------------------------
(* Theorems of ApmStatsd, for every value of its constants.                *)
EXTENDS ApmStatsd, TLAPS

\* As long as no host's settings named apm.enabled or apm.statsd_enabled: a
\* process without APM runs no hook; where statsd is enabled from minit to the
\* shutdown of the process, its address is there; and nothing was called without
\* one.
Looked ==
  /\ phase \in {"loaded", "down"} => stack = <<>>
  /\ ~adjusted =>
       /\ ~unaddressed
       /\ ~apm_enabled => stack = <<>> /\ phase \notin {"stats", "flush", "drivers"}
                            /\ zend_error_cb # "apm"
                            /\ zend_throw_exception_hook # "apm"
                            /\ old_error_cb # "apm"
       /\ apm_enabled /\ "statsd" \in enabled /\ phase \notin {"loaded", "down"}
            => servinfo = "info"

LEMMA LookedInit == StatsdInit => Looked
BY DEF StatsdInit, Init, Looked

LEMMA LookedNext == Looked /\ [StatsdNext]_all => Looked'
<1> SUFFICES ASSUME Looked, [StatsdNext]_all PROVE Looked'
  OBVIOUS
<1> USE DEF Looked, hooks, lifecycle, settings, statsd
<1>1. CASE Lookup BY <1>1 DEF Lookup, Minit, InitDrivers, cursors
<1>2. CASE StartRequest
  <2>1. phase \in {"startup", "idle"} /\ phase' = "script" /\ stack = <<>>
        /\ UNCHANGED <<stack, old_error_cb, servinfo, unaddressed>>
    BY <1>2, Zenon DEF StartRequest, Rinit, cursors
  <2>2. ~apm_enabled' => UNCHANGED <<zend_error_cb, zend_throw_exception_hook>>
    BY <1>2, Zenon DEF StartRequest, Rinit
  <2>3. ~adjusted' => ~adjusted /\ apm_enabled' = apm_enabled
                       /\ ("statsd" \in enabled' <=> "statsd" \in enabled)
    BY <1>2, Zenon DEF StartRequest
  <2> QED BY <2>1, <2>2, <2>3
<1>3. CASE DeliverEvent
  BY <1>3 DEF DeliverEvent, Deliver, Dispatching, Wanted, want_event, Use
<1>4. CASE ProcessStatistics
  <2>1. phase = "stats" /\ stack = <<>> /\ phase' \in {"stats", "flush"}
        /\ UNCHANGED <<lifecycle, settings, stack, servinfo, adjusted>>
    BY <1>4 DEF ProcessStatistics, RshutdownStats
  <2>2. "statsd" \in statted' \ statted => "statsd" \in enabled
    BY <1>4 DEF ProcessStatistics, RshutdownStats, ProcessStats, want_stats
  <2>3. ~adjusted => ~unaddressed'
    <3>1. CASE "statsd" \in statted' \ statted
      BY <1>4, <2>1, <2>2, <3>1 DEF ProcessStatistics, Use
    <3>2. CASE ~("statsd" \in statted' \ statted)
      BY <1>4, <2>1, <3>2 DEF ProcessStatistics
    <3> QED BY <3>1, <3>2
  <2> QED BY <2>1, <2>3
<1>5. CASE Free BY <1>5 DEF Free, Mshutdown, cursors
<1>6. CASE Elsewhere
  <2>0. UNCHANGED statsd BY <1>6 DEF Elsewhere
  <2> USE <2>0
  <2>1. ASSUME NEW level \in Levels, RaiseError(level) PROVE Looked'
    BY <2>1 DEF RaiseError, RaiseEvent, CanRaise
  <2>2. CASE Throw BY <2>2 DEF Throw, Running
  <2>3. CASE Catch BY <2>3 DEF Catch, cursors
  <2>4. CASE Uncaught BY <2>4 DEF Uncaught, RaiseEvent
  <2>5. CASE BeginSilence \/ EndSilence \/ SwitchEvents
    <3>1. Running /\ UNCHANGED <<phase, lifecycle, cursors, enabled>>
      BY <2>5, Zenon DEF BeginSilence, EndSilence, SwitchEvents
    <3> QED BY <3>1 DEF cursors
  <2>6. ASSUME NEW d \in RuntimeSwitch, SwitchDriver(d) PROVE Looked'
    BY <2>6, StatsdAssumption DEF SwitchDriver, cursors
  <2>7. CASE Tick \/ ScriptEnd BY <2>7 DEF Tick, ScriptEnd, Running, cursors
  <2>8. CASE Return BY <2>8 DEF Return
  <2>9. CASE Complain BY <2>9 DEF Complain, Dispatching
  <2>10. CASE RshutdownBegin BY <2>10 DEF RshutdownBegin
  <2>11. CASE ComplainStats BY <2>11 DEF ComplainStats
  <2>12. CASE RshutdownElasticsearch
    BY <2>12 DEF RshutdownElasticsearch, cursors
  <2>13. CASE RshutdownDrivers BY <2>13 DEF RshutdownDrivers, opcodes, cursors
  <2>14. CASE EndRequest BY <2>14 DEF EndRequest, cursors
  <2>15. CASE Terminated BY <2>15 DEF Terminated, vars, cursors
  <2> QED BY <1>6, <2>1, <2>2, <2>3, <2>4, <2>5, <2>6, <2>7, <2>8, <2>9, <2>10,
             <2>11, <2>12, <2>13, <2>14, <2>15 DEF Elsewhere, Script
<1>7. CASE UNCHANGED all BY <1>7 DEF all, vars, cursors
<1> QED BY <1>1, <1>2, <1>3, <1>4, <1>5, <1>6, <1>7 DEF StatsdNext

\* Whatever the drivers, the settings and the errors: statsd is called without an
\* address only behind the settings of some host.
THEOREM AddressKept == StatsdSpec => []AddressWhenCalled
<1>1. Looked => AddressWhenCalled BY DEF Looked, AddressWhenCalled
<1> QED BY <1>1, LookedInit, LookedNext, PTL DEF StatsdSpec
=============================================================================
