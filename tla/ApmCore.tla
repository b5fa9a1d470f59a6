------------------------------- MODULE ApmCore -------------------------------
(***************************************************************************)
(* The life cycle of the extension (apm.c, php_apm.h) inside one PHP       *)
(* process: start-up, the requests it serves one after the other, the      *)
(* hooks it hangs into the engine, and the dispatch of errors, exceptions  *)
(* and statistics to the storage drivers.                                  *)
(*                                                                         *)
(* A storage driver appears through its function table only (struct        *)
(* apm_driver): what it wants, and when its process_event, process_stats,  *)
(* rinit, rshutdown are called.  A driver named in Noisy may raise an error *)
(* of its own while it handles one (driver_sqlite3.c:179), which re-enters *)
(* apm_error_cb; `stack' holds the activations of apm_error_cb and         *)
(* apm_throw_exception_hook, innermost first.                              *)
(***************************************************************************)
EXTENDS Naturals, Sequences, FiniteSets

CONSTANTS
  DriverList,          \* the linked list built by GINIT, in its order
  ExceptionMode,       \* [driver -> 0..2]      apm.<driver>_exception_mode
  ErrorReporting,      \* [driver -> SUBSET Levels]  apm.<driver>_error_reporting
  StoreSilenced,       \* drivers with apm.<driver>_process_silenced_events
  Elasticsearch,       \* apm.elasticsearch_enabled
  ActiveChoices,       \* values apm.enabled takes (system setting, per host)
  EnabledChoices,      \* sets of drivers a request's settings may enable
  RuntimeSwitch,       \* drivers a script may switch with ini_set
  EventEnabled,        \* configured apm.event_enabled
  StatsEnabled,        \* recorders with apm.<driver>_stats_enabled configured
  Noisy,               \* drivers whose handlers may themselves raise an error
  Extractors,          \* drivers whose handlers call extract_data
  Resolving,           \* drivers whose minit may fail and switch them off
  UncaughtPrefix,      \* the engine words it "Uncaught exception" (PHP 5)
  Unwinds,             \* scripts may leave an '@' operand without END_SILENCE
  ToggleEvents,        \* scripts may change apm.event_enabled
  Boot,                \* the clock when the process starts; begin_tp holds 0
  Threshold,           \* apm.stats_duration_threshold
  MaxRequests, MaxEvents, MaxNesting, MaxSilence, MaxClock    \* bounds

Drivers == {DriverList[i] : i \in 1..Len(DriverList)}

\* Where an event may be stored: the listed drivers, then elasticsearch, which
\* process_event calls after its loop.
\* Mutant: elasticsearch is called ahead of the listed drivers.
RecorderListEsFirst == <<"elasticsearch">> \o DriverList
RecorderList == Append(DriverList, "elasticsearch")
Recorders == {RecorderList[i] : i \in 1..Len(RecorderList)}

Fatal == {"E_ERROR"}
Levels == Fatal \union {"E_WARNING", "E_CORE_WARNING"}

NoException == 0

ASSUME CoreAssumption ==
  /\ DriverList \in Seq(Drivers)
  /\ "elasticsearch" \notin Drivers
  /\ \A i, j \in 1..Len(DriverList) : DriverList[i] = DriverList[j] => i = j
  /\ ExceptionMode \in [Drivers -> 0..2]
  /\ ErrorReporting \in [Drivers -> SUBSET Levels]
  /\ StoreSilenced \subseteq Drivers
  /\ Elasticsearch \in BOOLEAN
  /\ ActiveChoices \subseteq BOOLEAN /\ ActiveChoices # {}
  /\ EnabledChoices \subseteq SUBSET Drivers /\ EnabledChoices # {}
  /\ RuntimeSwitch \subseteq Drivers /\ StatsEnabled \subseteq Recorders
  /\ Noisy \subseteq Drivers /\ Extractors \subseteq Drivers
  /\ Resolving \subseteq Drivers
  /\ {EventEnabled, UncaughtPrefix, Unwinds, ToggleEvents} \subseteq BOOLEAN
  /\ {Boot, Threshold} \subseteq Nat
  /\ {MaxRequests, MaxEvents, MaxNesting, MaxSilence, MaxClock} \subseteq Nat

VARIABLES
  phase,        \* where the process is: loaded, startup, script, ending
                \*   (shutdown functions), stats, flush, drivers, closing, idle, down
  request,      \* how many requests were started
  \* hooks
  zend_error_cb, old_error_cb, zend_throw_exception_hook,
  silence_handler, orig_silence_handler,
  \* settings
  apm_enabled, enabled, event_enabled,
  \* module globals
  currently_silenced, initialized, request_data, begin_tp, duration,
  \* the engine and the script
  depth,        \* '@' operands being evaluated
  exception,    \* the exception in flight
  exceptions,   \* how many were thrown in this request
  clock,
  stack,        \* activations of the two hooks, innermost first
  pos,          \* cursor of the statistics loop
  \* history of the current request
  started,      \* the clock when it started
  raised,       \* the events, in the order they were raised
  forwarded,    \* events given to the engine's own error callback
  recorded,     \* [recorder -> events its process_event was called with]
  statted,      \* recorders whose process_stats was called
  ready         \* drivers whose rinit was called, and rshutdown not yet

hooks     == <<zend_error_cb, old_error_cb, zend_throw_exception_hook>>
opcodes   == <<silence_handler, orig_silence_handler>>
timing    == <<begin_tp, duration, started>>
lifecycle == <<request, hooks, opcodes, apm_enabled, timing>>
settings  == <<enabled, event_enabled, currently_silenced>>
data      == <<initialized, request_data>>
script    == <<depth, exception, exceptions>>
cursors   == <<stack, pos>>
log       == <<raised, forwarded, recorded>>
calls     == <<statted, ready>>
vars == <<phase, lifecycle, settings, data, script, clock, cursors, log, calls>>

-----------------------------------------------------------------------------
(* Events and activations *)

Event == [kind : {"error", "exception"}, type : Levels \union {"E_EXCEPTION"},
          uncaught : BOOLEAN,          \* msg starts with "Uncaught exception"
          exception : Nat,
          muted : BOOLEAN,             \* raised under '@'
          watched : BOOLEAN]           \* raised while APM is to record events

Watched == apm_enabled /\ event_enabled /\ phase \in {"script", "ending", "stats"}

\* An error that is not about an exception, and one of either kind.
AnError(level, text, about, silent) ==
  [kind |-> "error", type |-> level, uncaught |-> text, exception |-> about,
   muted |-> silent, watched |-> Watched]
PlainError(level) == AnError(level, FALSE, NoException, depth > 0)
AnException(about) ==
  [kind |-> "exception", type |-> "E_EXCEPTION", uncaught |-> FALSE,
   exception |-> about, muted |-> depth > 0, watched |-> Watched]

Frame(id, first) == [id |-> id, next |-> first]

Done == Len(RecorderList) + 1
Top == stack[1]
Current == raised[Top.id]
Pop == Tail(stack)

\* Mutant: the test on the message is dropped from want_event.
want_event_NoPrefixTest(d, e) ==
  /\ d \in enabled
  /\ \/ e.kind = "exception" /\ ExceptionMode[d] = 2
     \/ e.kind = "error" /\ e.type \in ErrorReporting[d]
  /\ ~currently_silenced \/ d \in StoreSilenced

\* APM_DRIVER_CREATE: want_event, want_stats.
want_event(d, e) ==
  /\ d \in enabled
  /\ \/ e.kind = "exception" /\ ExceptionMode[d] = 2
     \/ /\ e.kind = "error"
        /\ ExceptionMode[d] = 1 \/ ~e.uncaught
        /\ e.type \in ErrorReporting[d]
  /\ ~currently_silenced \/ d \in StoreSilenced

want_stats(d) == d \in enabled /\ d \in StatsEnabled

Wanted(r, e) == IF r = "elasticsearch" THEN Elasticsearch ELSE want_event(r, e)

\* The hooks run process_event only while apm.event_enabled is set.
FirstRecorder == IF event_enabled THEN 1 ELSE Done

\* zend_error: the event goes to whatever callback is installed.
RaiseEvent(e) ==
  /\ raised' = Append(raised, e)
  /\ IF zend_error_cb = "apm"
       THEN stack' = <<Frame(Len(raised'), FirstRecorder)>> \o stack
            /\ UNCHANGED forwarded
       ELSE forwarded' = Append(forwarded, Len(raised')) /\ UNCHANGED stack

\* Mutant: without the test of `initialized'.
extract_data_Again ==
  initialized' = TRUE /\ request_data' = Append(request_data, request)

\* extract_data: the data of the request is copied once; `cookies' and
\* `post_vars' are appended to what the buffers hold.
extract_data ==
  IF initialized THEN UNCHANGED data
  ELSE initialized' = TRUE /\ request_data' = Append(request_data, request)

CanRaise == phase \in {"startup", "script", "ending", "idle"} /\ stack = <<>>
RoomFor(n) == Len(raised) + n <= MaxEvents

-----------------------------------------------------------------------------
(* The process *)

Init ==
  /\ phase = "loaded" /\ request = 0
  /\ zend_error_cb = "engine" /\ old_error_cb = "none"
  /\ zend_throw_exception_hook = "none"
  /\ silence_handler = "engine" /\ orig_silence_handler = "engine"
  /\ apm_enabled \in ActiveChoices /\ enabled \in EnabledChoices
  /\ event_enabled = EventEnabled
  /\ currently_silenced = FALSE
  /\ initialized = FALSE /\ request_data = <<>>
  /\ begin_tp = 0 /\ duration = 0 /\ clock = Boot
  /\ depth = 0 /\ exception = NoException /\ exceptions = 0
  /\ stack = <<>> /\ pos = 1
  /\ started = 0 /\ raised = <<>> /\ forwarded = <<>>
  /\ recorded = [r \in Recorders |-> <<>>] /\ statted = {} /\ ready = {}

\* The loop over the minits: a driver that cannot be set up is switched off.
InitDrivers ==
  IF apm_enabled THEN \E off \in SUBSET Resolving : enabled' = enabled \ off
                 ELSE UNCHANGED enabled

\* Mutant: the callback is saved after it was replaced.
MinitSavesLate ==
  /\ phase = "loaded" /\ phase' = "startup"
  /\ IF apm_enabled
       THEN zend_error_cb' = "apm" /\ zend_throw_exception_hook' = "apm"
       ELSE UNCHANGED <<zend_error_cb, zend_throw_exception_hook>>
  /\ old_error_cb' = zend_error_cb' /\ InitDrivers
  /\ UNCHANGED <<opcodes, timing, event_enabled, currently_silenced, data, script,
                 cursors, log, calls, request, apm_enabled, clock>>

\* PHP_MINIT: the hooks go in at once, before any driver's rinit.
Minit ==
  /\ phase = "loaded" /\ phase' = "startup"
  /\ old_error_cb' = zend_error_cb
  /\ IF apm_enabled
       THEN zend_error_cb' = "apm" /\ zend_throw_exception_hook' = "apm"
       ELSE UNCHANGED <<zend_error_cb, zend_throw_exception_hook>>
  /\ InitDrivers
  /\ UNCHANGED <<opcodes, timing, event_enabled, currently_silenced, data, script,
                 cursors, log, calls, request, apm_enabled, clock>>

\* PHP_RINIT, after the engine has applied the settings of the request.
Rinit ==
  /\ phase \in {"startup", "idle"} /\ stack = <<>> /\ request < MaxRequests
  /\ phase' = "script" /\ request' = request + 1
  /\ apm_enabled' \in ActiveChoices /\ enabled' \in EnabledChoices
  /\ IF apm_enabled'
       THEN /\ orig_silence_handler' = silence_handler
            /\ silence_handler' = "apm"
            /\ initialized' = FALSE /\ request_data' = <<>>
            /\ begin_tp' = IF event_enabled THEN clock ELSE begin_tp
            /\ ready' = ready \union enabled'
            /\ zend_error_cb' = "apm" /\ zend_throw_exception_hook' = "apm"
       ELSE UNCHANGED <<opcodes, data, begin_tp, ready, zend_error_cb,
                        zend_throw_exception_hook>>
  /\ exceptions' = 0 /\ started' = clock /\ raised' = <<>> /\ forwarded' = <<>>
  /\ recorded' = [r \in Recorders |-> <<>>] /\ statted' = {}
  /\ UNCHANGED <<cursors, old_error_cb, duration, event_enabled,
                 currently_silenced, depth, exception, clock>>

\* PHP_MSHUTDOWN: the error callback is given back, the exception hook is not.
Mshutdown ==
  /\ phase \in {"startup", "idle"} /\ stack = <<>>
  /\ phase' = "down" /\ zend_error_cb' = old_error_cb
  /\ UNCHANGED <<opcodes, timing, settings, data, script, cursors, log, calls,
                 request, old_error_cb, zend_throw_exception_hook, apm_enabled,
                 clock>>

-----------------------------------------------------------------------------
(* The script *)

Running == phase = "script" /\ stack = <<>> /\ exception = NoException

\* A statement, a compiled file, a shutdown function or another extension
\* raises an error; a fatal one ends the script (php_error_cb bails out).
RaiseError(level) ==
  /\ CanRaise /\ exception = NoException /\ RoomFor(1)
  /\ level \in Fatal => phase = "script" /\ (depth = 0 \/ Unwinds)
  /\ RaiseEvent(PlainError(level))
  /\ phase' = IF level \in Fatal /\ zend_error_cb # "apm" THEN "ending" ELSE phase
  /\ UNCHANGED <<lifecycle, settings, data, script, calls, pos, recorded,
                 clock>>

\* zend_throw_exception_internal and apm_throw_exception_hook.
Throw ==
  /\ Running /\ RoomFor(1) /\ (depth = 0 \/ Unwinds)
  /\ exceptions' = exceptions + 1 /\ exception' = exceptions'
  /\ raised' = Append(raised, AnException(exception'))
  /\ stack' = IF zend_throw_exception_hook = "apm"
                THEN <<Frame(Len(raised'), FirstRecorder)>> ELSE <<>>
  /\ UNCHANGED <<phase, lifecycle, settings, data, calls, depth, pos,
                 forwarded, recorded, clock>>

\* The exception reaches a handler: the engine unwinds '@' operands by itself,
\* and the END_SILENCE opcodes it skips are not executed.
Catch ==
  /\ phase = "script" /\ stack = <<>> /\ exception # NoException
  /\ exception' = NoException /\ depth' \in 0..depth
  /\ UNCHANGED <<phase, lifecycle, settings, data, cursors, log, calls,
                 exceptions, clock>>

\* No handler: the engine turns it into a fatal error.
Uncaught ==
  /\ phase = "script" /\ stack = <<>> /\ exception # NoException /\ RoomFor(1)
  /\ exception' = NoException /\ depth' = 0
  /\ RaiseEvent(AnError("E_ERROR", UncaughtPrefix, exception, FALSE))
  /\ phase' = IF zend_error_cb # "apm" THEN "ending" ELSE phase
  /\ UNCHANGED <<lifecycle, settings, data, calls, exceptions, pos, recorded,
                 clock>>

\* The '@' operator: the opcode handler APM put in front of the engine's own.
BeginSilence ==
  /\ Running /\ depth < MaxSilence /\ depth' = depth + 1
  /\ currently_silenced' = IF silence_handler = "apm" THEN TRUE
                                                      ELSE currently_silenced
  /\ UNCHANGED <<phase, lifecycle, data, cursors, log, calls, enabled,
                 event_enabled, exception, exceptions, clock>>

\* Mutant: leaving the operand forgets to clear the flag.
EndSilenceKeepsFlag ==
  /\ Running /\ depth > 0 /\ depth' = depth - 1
  /\ UNCHANGED <<phase, lifecycle, settings, data, cursors, log, calls, exception,
                 exceptions, clock>>

EndSilence ==
  /\ Running /\ depth > 0 /\ depth' = depth - 1
  /\ currently_silenced' = IF silence_handler = "apm" THEN FALSE
                                                      ELSE currently_silenced
  /\ UNCHANGED <<phase, lifecycle, data, cursors, log, calls, enabled,
                 event_enabled, exception, exceptions, clock>>

\* ini_set on the settings declared PHP_INI_ALL.
SwitchEvents ==
  /\ Running /\ ToggleEvents /\ event_enabled' = ~event_enabled
  /\ UNCHANGED <<phase, lifecycle, data, script, cursors, log, calls, enabled,
                 currently_silenced, clock>>

\* A setting that ini_set may change: apm.<driver>_enabled when it is PHP_INI_ALL, or
\* another that switches the driver off as apm.sqlite_db_path does (SqliteDriver has
\* what that callback does to the driver's own state).
SwitchDriver(d) ==
  /\ Running /\ d \in RuntimeSwitch
  /\ enabled' = IF d \in enabled THEN enabled \ {d} ELSE enabled \union {d}
  /\ UNCHANGED <<phase, lifecycle, data, script, cursors, log, calls,
                 event_enabled, currently_silenced, clock>>

Tick ==
  /\ phase \in {"startup", "script", "idle"} /\ stack = <<>> /\ clock < MaxClock
  /\ clock' = clock + 1
  /\ UNCHANGED <<phase, lifecycle, settings, data, script, cursors, log,
                 calls>>

ScriptEnd ==
  /\ Running /\ (depth = 0 \/ Unwinds) /\ phase' = "ending"
  /\ UNCHANGED <<lifecycle, settings, data, script, cursors, log, calls,
                 clock>>

-----------------------------------------------------------------------------
(* Dispatch of one event: process_event's loop over the drivers *)

Dispatching == stack # <<>> /\ Top.next < Done

Record(r, id) == recorded' = [recorded EXCEPT ![r] = Append(@, id)]

\* Mutant: the cursor stays on a driver that does not want the event.
DeliverStuck ==
  /\ Dispatching
  /\ IF Wanted(RecorderList[Top.next], Current)
       THEN /\ Record(RecorderList[Top.next], Top.id)
            /\ stack' = <<Frame(Top.id, Top.next + 1)>> \o Pop
       ELSE UNCHANGED <<recorded, stack>>
  /\ UNCHANGED <<phase, lifecycle, settings, data, script, calls, pos, raised,
                 forwarded, clock>>

\* The next driver is asked, and called when it wants the event.
Deliver ==
  /\ Dispatching
  /\ LET r == RecorderList[Top.next] IN
       IF Wanted(r, Current)
         THEN /\ Record(r, Top.id)
              /\ IF r \in Extractors THEN extract_data ELSE UNCHANGED data
         ELSE UNCHANGED <<recorded, data>>
  /\ stack' = <<Frame(Top.id, Top.next + 1)>> \o Pop
  /\ UNCHANGED <<phase, lifecycle, settings, script, calls, pos, raised,
                 forwarded, clock>>

\* The driver called cannot set its store up and raises an error about it
\* before it stores the event; the callback is entered again.
Complain ==
  /\ Dispatching /\ RoomFor(1) /\ Len(stack) <= MaxNesting
  /\ RecorderList[Top.next] \in Noisy
  /\ Wanted(RecorderList[Top.next], Current)
  /\ RaiseEvent(PlainError("E_CORE_WARNING"))
  /\ IF RecorderList[Top.next] \in Extractors THEN extract_data ELSE UNCHANGED data
  /\ UNCHANGED <<phase, lifecycle, settings, script, calls, pos, recorded,
                 clock>>

\* Mutant: an error raised during a dispatch is not handed on.
ReturnDropsNested ==
  /\ stack # <<>> /\ Top.next = Done
  /\ stack' = Pop
  /\ forwarded' = IF Current.kind = "error" /\ Pop = <<>>
                    THEN Append(forwarded, Top.id) ELSE forwarded
  /\ phase' = IF Current.type \in Fatal THEN "ending" ELSE phase
  /\ UNCHANGED <<lifecycle, settings, data, script, calls, pos, raised,
                 recorded, clock>>

\* The hook returns.  apm_error_cb hands the error on to the engine's callback,
\* which does not return from a fatal one.
Return ==
  /\ stack # <<>> /\ Top.next = Done
  /\ stack' = Pop
  /\ forwarded' = IF Current.kind = "error" THEN Append(forwarded, Top.id)
                                            ELSE forwarded
  /\ phase' = IF Current.type \in Fatal THEN "ending" ELSE phase
  /\ UNCHANGED <<lifecycle, settings, data, script, calls, pos, raised,
                 recorded, clock>>

-----------------------------------------------------------------------------
(* PHP_RSHUTDOWN *)

\* Mutant: at the threshold already.
SlowOrEqual(t) == t >= Threshold
Slow(t) == t > Threshold

\* Mutant: the two time stamps are subtracted the wrong way round.
RshutdownBeginSwapped ==
  /\ phase = "ending" /\ stack = <<>>
  /\ IF apm_enabled
       THEN /\ silence_handler' = orig_silence_handler
            /\ duration' = begin_tp - clock /\ phase' = "flush" /\ pos' = 1
       ELSE phase' = "closing" /\ UNCHANGED <<silence_handler, duration, pos>>
  /\ UNCHANGED <<hooks, settings, data, script, log, calls, request,
                 orig_silence_handler, apm_enabled, begin_tp, started, stack,
                 clock>>

\* The opcodes are given back and, when some driver wants statistics, the
\* request is measured and compared with the threshold.
RshutdownBegin ==
  /\ phase = "ending" /\ stack = <<>>
  /\ IF apm_enabled
       THEN /\ silence_handler' = orig_silence_handler
            /\ IF \E d \in Drivers : want_stats(d)
                 THEN /\ duration' = clock - begin_tp
                      /\ phase' = IF Slow(duration') THEN "stats" ELSE "flush"
                 ELSE duration' = duration /\ phase' = "flush"
            /\ pos' = 1
       ELSE phase' = "closing" /\ UNCHANGED <<silence_handler, duration, pos>>
  /\ UNCHANGED <<hooks, settings, data, script, log, calls, request,
                 orig_silence_handler, apm_enabled, begin_tp, started, stack,
                 clock>>

ProcessStats(r) ==
  /\ statted' = statted \union {r}
  /\ IF r \in Extractors THEN extract_data ELSE UNCHANGED data

\* One round of the statistics loop.
RshutdownStats ==
  /\ phase = "stats" /\ stack = <<>>
  /\ IF pos <= Len(DriverList)
       THEN /\ IF want_stats(DriverList[pos]) THEN ProcessStats(DriverList[pos])
                                              ELSE UNCHANGED <<statted, data>>
            /\ pos' = pos + 1 /\ UNCHANGED phase
       ELSE phase' = "flush" /\ UNCHANGED <<pos, statted, data>>
  /\ UNCHANGED <<lifecycle, settings, script, log, stack, ready, clock>>

\* A driver raises an error while it stores the statistics.
ComplainStats ==
  /\ phase = "stats" /\ stack = <<>> /\ pos <= Len(DriverList) /\ RoomFor(1)
  /\ DriverList[pos] \in Noisy /\ want_stats(DriverList[pos])
  /\ RaiseEvent(PlainError("E_CORE_WARNING"))
  /\ IF DriverList[pos] \in Extractors THEN extract_data ELSE UNCHANGED data
  /\ UNCHANGED <<phase, lifecycle, settings, script, calls, pos, recorded,
                 clock>>

\* Elasticsearch's process_stats, whatever the threshold said, and its rshutdown.
RshutdownElasticsearch ==
  /\ phase = "flush" /\ phase' = "drivers"
  /\ IF Elasticsearch /\ "elasticsearch" \in StatsEnabled
       THEN extract_data /\ statted' = statted \union {"elasticsearch"}
       ELSE UNCHANGED <<statted, data>>
  /\ UNCHANGED <<lifecycle, settings, script, cursors, log, ready, clock>>

\* Mutant: rshutdown only of the drivers that collect statistics (NEWS, #17502).
RshutdownStatsDriversOnly ==
  /\ phase = "drivers" /\ phase' = "closing"
  /\ ready' = ready \ {d \in enabled : want_stats(d)}
  /\ initialized' = (initialized \/ "socket" \in enabled) /\ request_data' = <<>>
  /\ zend_error_cb' = old_error_cb /\ zend_throw_exception_hook' = "none"
  /\ UNCHANGED <<opcodes, timing, settings, script, cursors, log, request,
                 old_error_cb, apm_enabled, statted, clock>>

\* Every enabled driver's rshutdown (the socket driver's extracts the data, if
\* none did), then the hooks and the copied data are given back.
RshutdownDrivers ==
  /\ phase = "drivers" /\ phase' = "closing"
  /\ ready' = ready \ enabled
  /\ initialized' = (initialized \/ "socket" \in enabled) /\ request_data' = <<>>
  /\ zend_error_cb' = old_error_cb /\ zend_throw_exception_hook' = "none"
  /\ UNCHANGED <<opcodes, timing, settings, script, cursors, log, request,
                 old_error_cb, apm_enabled, statted, clock>>

\* The engine restores the settings the script changed, and ends the request.
EndRequest ==
  /\ phase = "closing" /\ phase' = "idle"
  /\ event_enabled' = EventEnabled
  /\ depth' = 0 /\ exception' = NoException
  /\ UNCHANGED <<lifecycle, data, cursors, log, calls, enabled,
                 currently_silenced, exceptions, clock>>

Terminated == phase = "down" /\ UNCHANGED vars

-----------------------------------------------------------------------------
Script == \/ \E level \in Levels : RaiseError(level)
          \/ Throw \/ Catch \/ Uncaught
          \/ BeginSilence \/ EndSilence
          \/ SwitchEvents \/ \E d \in RuntimeSwitch : SwitchDriver(d)
          \/ Tick \/ ScriptEnd

Dispatch == Deliver \/ Return
Shutdown == RshutdownBegin \/ RshutdownStats \/ RshutdownElasticsearch
            \/ RshutdownDrivers \/ EndRequest

Next == \/ Minit \/ Rinit \/ Mshutdown
        \/ Script
        \/ Dispatch \/ Complain
        \/ Shutdown \/ ComplainStats
        \/ Terminated

\* The extension's own code runs to its end once entered.  What the script does,
\* and whether another request or the shutdown of the process comes, is free.
Fairness == WF_vars(Dispatch) /\ WF_vars(Shutdown)

Spec == Init /\ [][Next]_vars /\ Fairness

-----------------------------------------------------------------------------
(* Properties *)

Values(s) == {s[i] : i \in DOMAIN s}
Ids == 1..Len(raised)

\* Types of the variables.
TypeOK ==
  /\ phase \in {"loaded", "startup", "script", "ending", "stats", "flush",
                "drivers", "closing", "idle", "down"}
  /\ request \in Nat
  /\ zend_error_cb \in {"engine", "apm"} /\ old_error_cb \in {"none", "engine", "apm"}
  /\ zend_throw_exception_hook \in {"none", "apm"}
  /\ {silence_handler, orig_silence_handler} \subseteq {"engine", "apm"}
  /\ apm_enabled \in BOOLEAN /\ event_enabled \in BOOLEAN
  /\ enabled \subseteq Drivers
  /\ currently_silenced \in BOOLEAN
  /\ initialized \in BOOLEAN /\ request_data \in Seq(Nat)
  /\ begin_tp \in Nat /\ duration \in Nat /\ clock \in Nat /\ started \in Nat
  /\ depth \in Nat /\ exception \in Nat /\ exceptions \in Nat
  /\ raised \in Seq(Event)
  /\ stack \in Seq([id : Nat, next : Nat]) /\ pos \in Nat
  /\ forwarded \in Seq(Nat) /\ recorded \in [Recorders -> Seq(Nat)]
  /\ statted \subseteq Recorders /\ ready \subseteq Drivers

InRequest == phase \in {"script", "ending", "stats", "flush", "drivers"}

\* Between RINIT and RSHUTDOWN of a request with apm.enabled the engine calls
\* APM; after it the engine has its own callbacks back; and what APM saved to
\* chain to or to restore is never APM itself (which would recurse for ever).
HooksBracketRequests ==
  /\ apm_enabled /\ InRequest =>
       zend_error_cb = "apm" /\ zend_throw_exception_hook = "apm"
  /\ apm_enabled /\ phase \in {"closing", "idle"} =>
       /\ zend_error_cb = "engine" /\ zend_throw_exception_hook = "none"
       /\ silence_handler = "engine"
  /\ old_error_cb # "apm" /\ orig_silence_handler # "apm"

\* Monitoring never swallows or repeats an error: one that no activation of
\* apm_error_cb is still working on has reached the engine's callback, once.
ErrorsHandedOnOnce ==
  /\ \A i, j \in DOMAIN forwarded : forwarded[i] = forwarded[j] => i = j
  /\ Values(forwarded) = {i \in Ids : raised[i].kind = "error"}
                           \ {stack[k].id : k \in DOMAIN stack}

\* No recorder is given an event twice, also not when its complaint about one is
\* dispatched before the rest of the recorders had theirs.
GivenOnce ==
  \A r \in Recorders : \A i, j \in DOMAIN recorded[r] :
    recorded[r][i] = recorded[r][j] => i = j

\* A driver stores each exception at most once: none in mode 0, only the fatal
\* error of an uncaught one in mode 1, only the throw in mode 2.
ExceptionModeHonoured ==
  \A d \in Drivers : \A i \in DOMAIN recorded[d] :
    LET e == raised[recorded[d][i]] IN
      e.exception # NoException =>
        /\ ExceptionMode[d] # 0
        /\ e.kind = (IF ExceptionMode[d] = 1 THEN "error" ELSE "exception")
        /\ \A j \in DOMAIN recorded[d] :
             raised[recorded[d][j]].exception = e.exception => j = i

\* All the stores, and the engine's own log, hold the events they share in the
\* same order, also when a driver's own error is dispatched inside another's.
Precedes(s, i, j) == \E k, l \in DOMAIN s : k < l /\ s[k] = i /\ s[l] = j
StoresAgreeOnOrder ==
  LET Logs == {recorded[r] : r \in Recorders} \union {forwarded} IN
    \A s, t \in Logs : \A i, j \in Values(s) \intersect Values(t) :
      Precedes(s, i, j) => ~Precedes(t, j, i)

\* An event muted with '@' is stored by no driver that does not process silenced
\* events, and one that is not muted is missed by no driver that reports it.
SilenceRespected ==
  \A i \in Ids \ {stack[k].id : k \in DOMAIN stack} : \A d \in Drivers :
    /\ i \in Values(recorded[d]) /\ raised[i].muted => d \in StoreSilenced
    /\ /\ raised[i].kind = "error" /\ raised[i].exception = NoException
       /\ raised[i].watched /\ ~raised[i].muted
       /\ d \in enabled /\ raised[i].type \in ErrorReporting[d]
       => i \in Values(recorded[d])

\* Every driver whose rinit ran has its rshutdown run in the same request,
\* whatever it collects (unless the script switched it off in between).
DriversPaired == apm_enabled /\ phase \in {"closing", "idle"}
                   => ready \subseteq RuntimeSwitch

\* What the drivers store as the request is this request's data, copied once;
\* nothing of it is kept when the request is over.
RequestDataFresh ==
  /\ apm_enabled /\ InRequest /\ initialized => request_data = <<request>>
  /\ apm_enabled /\ phase \in {"closing", "idle"} => request_data = <<>>

\* A driver gets the statistics of a request exactly when it wants statistics
\* and the request took longer than the threshold.
StatsExactlyWhenSlow ==
  phase = "closing" /\ apm_enabled =>
    statted \intersect Drivers =
      {d \in Drivers : want_stats(d) /\ clock - started > Threshold}

\* Whatever the engine calls returns to it: every activation of a hook, however
\* drivers re-enter it, and the shutdown of every request.
CallsReturn ==
  /\ []<>(stack = <<>>)
  /\ phase = "ending" ~> phase = "idle"
=============================================================================
