---------------------------- MODULE ApmCore_proofs ----------------------------
(***************************************************************************)
(* Theorems of ApmCore, for every value of its constants.  In this order:  *)
(* the types; what APM hangs into the engine; what a request leaves in the *)
(* drivers.  Each part rests on the invariants of the ones before it.      *)
(***************************************************************************)
EXTENDS ApmCore, SequenceTheorems, TLAPS

Frames == [id : Nat, next : Nat]

-----------------------------------------------------------------------------
(* Types *)

\* TypeOK, and what it rests on: a duration is not negative, there is a saved
\* callback to give back, and the cursor of the statistics loop is at a driver.
Typed == /\ TypeOK
         /\ begin_tp <= clock /\ started <= clock
         /\ phase # "loaded" => old_error_cb # "none"
         /\ phase = "loaded" => stack = <<>>
         /\ pos >= 1

LEMMA RecorderFacts ==
  /\ Len(DriverList) \in Nat
  /\ Len(RecorderList) = Len(DriverList) + 1 /\ Done \in Nat
  /\ \A i \in 1..Len(RecorderList) : RecorderList[i] \in Recorders
  /\ \A i \in 1..Len(DriverList) : DriverList[i] \in Drivers
  /\ Drivers \subseteq Recorders /\ "elasticsearch" \in Recorders
<1> DEFINE S == Drivers \union {"elasticsearch"}
<1>1. DriverList \in Seq(S) /\ "elasticsearch" \in S
  BY CoreAssumption, SeqMonotonic
<1>2. /\ Len(RecorderList) = Len(DriverList) + 1
      /\ \A i \in 1..Len(DriverList) : RecorderList[i] = DriverList[i]
      /\ RecorderList[Len(DriverList) + 1] = "elasticsearch"
  <2> HIDE DEF S
  <2> QED BY <1>1, AppendProperties, LenProperties DEF RecorderList
<1>3. Len(DriverList) \in Nat
  BY <1>1, LenProperties
<1> QED BY <1>1, <1>2, <1>3 DEF Done, Recorders, Drivers

LEMMA EventTypes ==
  ASSUME Typed, NEW level \in Levels
  PROVE  /\ PlainError(level) \in Event
         /\ \A about \in Nat : AnException(about) \in Event
         /\ \A text \in BOOLEAN, about \in Nat, silent \in BOOLEAN :
              AnError(level, text, about, silent) \in Event
BY DEF Typed, TypeOK, PlainError, AnException, AnError, Event, Watched, NoException

LEMMA RaiseTypes ==
  ASSUME Typed, NEW e \in Event, RaiseEvent(e)
  PROVE  raised' \in Seq(Event) /\ stack' \in Seq(Frames) /\ forwarded' \in Seq(Nat)
<1>1. raised' \in Seq(Event) /\ Len(raised') \in Nat
  BY AppendProperties, LenProperties DEF Typed, TypeOK, RaiseEvent
<1>2. Frame(Len(raised'), FirstRecorder) \in Frames
  BY <1>1, RecorderFacts DEF Frame, Frames, FirstRecorder
<1>3. <<Frame(Len(raised'), FirstRecorder)>> \o stack \in Seq(Frames)
  BY <1>2, ConcatProperties DEF Typed, TypeOK, Frames
<1>4. Append(forwarded, Len(raised')) \in Seq(Nat)
  BY <1>1, AppendProperties DEF Typed, TypeOK
<1> QED BY <1>1, <1>3, <1>4 DEF RaiseEvent, Typed, TypeOK, Frames

LEMMA ExtractTypes ==
  ASSUME Typed, extract_data \/ UNCHANGED data
  PROVE  initialized' \in BOOLEAN /\ request_data' \in Seq(Nat)
<1>1. Append(request_data, request) \in Seq(Nat)
  BY AppendProperties DEF Typed, TypeOK
<1> QED BY <1>1 DEF Typed, TypeOK, extract_data, data

LEMMA TopTypes ==
  ASSUME Typed, stack # <<>>
  PROVE  Top \in Frames /\ Pop \in Seq(Frames)
<1>1. stack \in Seq(Frames) BY DEF Typed, TypeOK, Frames
<1>2. 1 \in 1..Len(stack) BY <1>1, EmptySeq
<1> QED BY <1>1, <1>2, ElementOfSeq, HeadTailProperties DEF Top, Pop

LEMMA TypesInit == Init => Typed
<1> SUFFICES ASSUME Init PROVE Typed
  OBVIOUS
<1>1. <<>> \in Seq(Nat) /\ <<>> \in Seq(Event) /\ <<>> \in Seq(Frames)
  BY EmptySeq
<1>2. apm_enabled \in BOOLEAN /\ event_enabled \in BOOLEAN /\ currently_silenced \in BOOLEAN
      /\ initialized \in BOOLEAN
  BY CoreAssumption, Zenon DEF Init
<1>3. enabled \subseteq Drivers
  BY CoreAssumption DEF Init
<1>4. recorded \in [Recorders -> Seq(Nat)]
  BY <1>1 DEF Init
<1>5. clock \in Nat /\ begin_tp = 0 /\ started = 0 /\ duration = 0 /\ request = 0
      /\ depth = 0 /\ exception = 0 /\ exceptions = 0 /\ pos = 1
  BY CoreAssumption DEF Init, NoException
<1>6. phase = "loaded" /\ zend_error_cb = "engine" /\ old_error_cb = "none"
      /\ zend_throw_exception_hook = "none"
      /\ silence_handler = "engine" /\ orig_silence_handler = "engine"
      /\ statted = {} /\ ready = {}
      /\ request_data = <<>> /\ stack = <<>> /\ raised = <<>> /\ forwarded = <<>>
  BY Zenon DEF Init
<1> QED BY <1>1, <1>2, <1>3, <1>4, <1>5, <1>6 DEF Typed, TypeOK, Frames

LEMMA TypesNext == Typed /\ [Next]_vars => Typed'
<1> SUFFICES ASSUME Typed, [Next]_vars PROVE Typed'
  OBVIOUS
<1> USE DEF Typed, TypeOK, Frames, lifecycle, hooks, opcodes, timing, settings,
            data, script, cursors, log, calls
<1>1. CASE Minit
  <2>1. enabled' \subseteq Drivers BY <1>1 DEF Minit, InitDrivers
  <2> QED BY <1>1, <2>1 DEF Minit
<1>2. CASE Rinit
  <2>1. <<>> \in Seq(Nat) /\ <<>> \in Seq(Event) OBVIOUS
  <2>2. apm_enabled' \in BOOLEAN /\ enabled' \subseteq Drivers
    BY <1>2, CoreAssumption DEF Rinit
  <2>3. initialized' \in BOOLEAN /\ request_data' \in Seq(Nat)
    BY <1>2, <2>1, Zenon DEF Rinit
  <2>4. begin_tp' \in {begin_tp, clock} /\ ready' \in {ready, ready \union enabled'}
    BY <1>2, Zenon DEF Rinit
  <2>5. /\ zend_error_cb' \in {zend_error_cb, "apm"}
        /\ zend_throw_exception_hook' \in {zend_throw_exception_hook, "apm"}
        /\ silence_handler' \in {silence_handler, "apm"}
        /\ orig_silence_handler' \in {silence_handler, orig_silence_handler}
    BY <1>2, Zenon DEF Rinit
  <2>6. /\ phase' = "script" /\ request' = request + 1 /\ exceptions' = 0
        /\ started' = clock /\ raised' = <<>> /\ forwarded' = <<>> /\ statted' = {}
        /\ phase # "loaded"
        /\ recorded' = [x \in Recorders |-> <<>>]
        /\ UNCHANGED <<cursors, old_error_cb, duration, event_enabled,
                       currently_silenced, depth, exception, clock>>
    BY <1>2 DEF Rinit
  <2>7. recorded' \in [Recorders -> Seq(Nat)]
    BY <2>1, <2>6
  <2> QED BY <2>1, <2>2, <2>3, <2>4, <2>5, <2>6, <2>7
<1>3. CASE Mshutdown BY <1>3 DEF Mshutdown
<1>4. ASSUME NEW level \in Levels, RaiseError(level) PROVE Typed'
  <2>1. phase' \in {phase, "ending"} /\ phase # "loaded" /\ phase' # "loaded"
    BY <1>4 DEF RaiseError, CanRaise
  <2>2. raised' \in Seq(Event) /\ stack' \in Seq(Frames) /\ forwarded' \in Seq(Nat)
    BY <1>4, EventTypes, RaiseTypes DEF RaiseError
  <2>3. UNCHANGED <<lifecycle, settings, data, script, calls, pos, recorded, clock>>
    BY <1>4 DEF RaiseError
  <2> QED BY <2>1, <2>2, <2>3
<1>5. CASE Throw
  <2>1. exception' \in Nat /\ exceptions' \in Nat BY <1>5 DEF Throw
  <2>2. AnException(exception') \in Event
    BY <2>1 DEF AnException, Event, Watched, NoException
  <2>3. raised' \in Seq(Event) /\ Len(raised') \in Nat
    BY <1>5, <2>2, AppendProperties, LenProperties DEF Throw
  <2>4. Frame(Len(raised'), FirstRecorder) \in Frames
    BY <2>3, RecorderFacts DEF Frame, FirstRecorder
  <2>5. stack' \in {<<Frame(Len(raised'), FirstRecorder)>>, <<>>}
    BY <1>5, Zenon DEF Throw
  <2>6. stack' \in Seq(Frames)
    <3>1. <<>> \in Seq(Frames) /\ <<Frame(Len(raised'), FirstRecorder)>> \in Seq(Frames)
      BY <2>4
    <3> QED BY <2>5, <3>1, Zenon
  <2>7. UNCHANGED <<phase, lifecycle, settings, data, calls, depth, pos, forwarded,
                    recorded, clock>>
    BY <1>5, Zenon DEF Throw
  <2>8. phase # "loaded" BY <1>5 DEF Throw, Running
  <2> QED BY <2>1, <2>3, <2>6, <2>7, <2>8
<1>6. CASE Catch BY <1>6 DEF Catch, NoException
<1>7. CASE Uncaught
  <2>1. AnError("E_ERROR", UncaughtPrefix, exception, FALSE) \in Event
    BY EventTypes, CoreAssumption DEF Levels, Fatal
  <2> QED BY <1>7, <2>1, RaiseTypes DEF Uncaught, NoException
<1>8. CASE BeginSilence
  <2>1. currently_silenced' \in BOOLEAN BY <1>8, Zenon DEF BeginSilence
  <2>2. depth' \in Nat BY <1>8 DEF BeginSilence
  <2>3. UNCHANGED <<phase, lifecycle, data, cursors, log, calls, enabled,
                    event_enabled, exception, exceptions, clock>>
    BY <1>8, Zenon DEF BeginSilence
  <2> QED BY <2>1, <2>2, <2>3
<1>9. CASE EndSilence
  <2>1. currently_silenced' \in BOOLEAN BY <1>9, Zenon DEF EndSilence
  <2>2. depth' \in Nat BY <1>9 DEF EndSilence
  <2>3. UNCHANGED <<phase, lifecycle, data, cursors, log, calls, enabled,
                    event_enabled, exception, exceptions, clock>>
    BY <1>9, Zenon DEF EndSilence
  <2> QED BY <2>1, <2>2, <2>3
<1>10. CASE SwitchEvents BY <1>10 DEF SwitchEvents
<1>11. ASSUME NEW d \in RuntimeSwitch, SwitchDriver(d) PROVE Typed'
  <2>1. /\ enabled' = IF d \in enabled THEN enabled \ {d} ELSE enabled \union {d}
        /\ UNCHANGED <<phase, lifecycle, data, script, cursors, log, calls,
                       event_enabled, currently_silenced, clock>>
    BY <1>11 DEF SwitchDriver
  <2>2. enabled \subseteq Drivers /\ d \in Drivers BY CoreAssumption
  <2>3. enabled' \subseteq Drivers BY ONLY <2>1, <2>2
  <2> QED BY <2>1, <2>3
<1>12. CASE Tick BY <1>12 DEF Tick
<1>13. CASE ScriptEnd
  <2>1. phase' = "ending"
        /\ UNCHANGED <<lifecycle, settings, data, script, cursors, log, calls, clock>>
    BY <1>13, Zenon DEF ScriptEnd
  <2>2. phase # "loaded" BY <1>13 DEF ScriptEnd, Running
  <2> QED BY <2>1, <2>2
<1>14. CASE Deliver
  <2>1. stack \in Seq(Frames) /\ stack # <<>> /\ Top \in Frames
        /\ Pop \in Seq(Frames) /\ Top.next < Done
    BY <1>14, TopTypes DEF Deliver, Dispatching
  <2>2. Frame(Top.id, Top.next + 1) \in Frames BY <2>1 DEF Frame
  <2>3. stack' \in Seq(Frames) BY <1>14, <2>1, <2>2 DEF Deliver
  <2>4. recorded' \in [Recorders -> Seq(Nat)]
    <3>2. \A r \in Recorders : recorded[r] \in Seq(Nat) OBVIOUS
    <3>3. \A r \in Recorders : Append(recorded[r], Top.id) \in Seq(Nat)
      BY <2>1, <3>2, AppendProperties
    <3>4. \/ recorded' = recorded
          \/ \E r : recorded' = [recorded EXCEPT ![r] = Append(@, Top.id)]
      BY <1>14, Zenon DEF Deliver, Record
    <3> QED BY <3>3, <3>4
  <2>5. initialized' \in BOOLEAN /\ request_data' \in Seq(Nat)
    BY <1>14, ExtractTypes DEF Deliver
  <2>6. phase # "loaded" BY <2>1
  <2>7. UNCHANGED <<phase, lifecycle, settings, script, calls, pos, raised, forwarded,
                    clock>>
    BY <1>14 DEF Deliver
  <2> QED BY <2>3, <2>4, <2>5, <2>6, <2>7
<1>15. CASE Complain
  <2>1. PlainError("E_CORE_WARNING") \in Event BY EventTypes DEF Levels
  <2>2. initialized' \in BOOLEAN /\ request_data' \in Seq(Nat)
    BY <1>15, ExtractTypes DEF Complain
  <2>3. phase # "loaded" BY <1>15 DEF Complain, Dispatching
  <2>4. raised' \in Seq(Event) /\ stack' \in Seq(Frames) /\ forwarded' \in Seq(Nat)
    BY <1>15, <2>1, RaiseTypes DEF Complain
  <2>5. UNCHANGED <<phase, lifecycle, settings, script, calls, pos, recorded, clock>>
    BY <1>15 DEF Complain
  <2> QED BY <2>2, <2>3, <2>4, <2>5
<1>16. CASE Return
  <2>1. Top.id \in Nat /\ Pop \in Seq(Frames)
    BY <1>16, TopTypes DEF Return
  <2>2. Append(forwarded, Top.id) \in Seq(Nat) BY <2>1, AppendProperties
  <2>3. stack' \in Seq(Frames) /\ forwarded' \in Seq(Nat)
    BY <1>16, <2>1, <2>2 DEF Return
  <2>4. phase' \in {phase, "ending"} BY <1>16 DEF Return
  <2>5. UNCHANGED <<lifecycle, settings, data, script, calls, pos, raised, recorded,
                    clock>>
    BY <1>16, Zenon DEF Return
  <2>6. phase # "loaded" BY <1>16 DEF Return
  <2> QED BY <2>3, <2>4, <2>5, <2>6
<1>17. CASE RshutdownBegin BY <1>17 DEF RshutdownBegin
<1>18. CASE RshutdownStats
  <2>1. initialized' \in BOOLEAN /\ request_data' \in Seq(Nat)
    BY <1>18, ExtractTypes DEF RshutdownStats, ProcessStats
  <2>2. statted' \subseteq Recorders /\ pos' \in Nat
    <3>1. CASE pos <= Len(DriverList)
      <4>1. pos' = pos + 1 BY <1>18, <3>1 DEF RshutdownStats
      <4>2. statted' \in {statted, statted \union {DriverList[pos]}}
        BY <1>18, <3>1, Zenon DEF RshutdownStats, ProcessStats
      <4>3. pos \in 1..Len(DriverList) BY <3>1, RecorderFacts
      <4>4. DriverList[pos] \in Recorders BY <4>3, RecorderFacts
      <4> QED BY <4>1, <4>2, <4>4
    <3> QED BY <1>18, <3>1 DEF RshutdownStats
  <2> QED BY <1>18, <2>1, <2>2 DEF RshutdownStats
<1>19. CASE RshutdownElasticsearch
  <2>1. initialized' \in BOOLEAN /\ request_data' \in Seq(Nat)
    BY <1>19, ExtractTypes DEF RshutdownElasticsearch
  <2> QED BY <1>19, <2>1, RecorderFacts DEF RshutdownElasticsearch
<1>20. CASE RshutdownDrivers BY <1>20 DEF RshutdownDrivers
<1>21. CASE EndRequest BY <1>21, CoreAssumption DEF EndRequest, NoException
<1>22. CASE ComplainStats
  <2>1. PlainError("E_CORE_WARNING") \in Event BY EventTypes DEF Levels
  <2>2. initialized' \in BOOLEAN /\ request_data' \in Seq(Nat)
    BY <1>22, ExtractTypes DEF ComplainStats
  <2> QED BY <1>22, <2>1, <2>2, RaiseTypes DEF ComplainStats
<1>23. CASE UNCHANGED vars BY <1>23 DEF vars
<1> QED
  BY <1>1, <1>2, <1>3, <1>4, <1>5, <1>6, <1>7, <1>8, <1>9, <1>10, <1>11, <1>12,
     <1>13, <1>14, <1>15, <1>16, <1>17, <1>18, <1>19, <1>20, <1>21, <1>22, <1>23
  DEF Next, Script, Dispatch, Shutdown, Terminated

\* The variables keep their types, whatever the constants.
THEOREM TypeCorrect == Spec => []TypeOK
<1>1. Typed => TypeOK BY DEF Typed
<1> QED BY <1>1, TypesInit, TypesNext, PTL DEF Spec

-----------------------------------------------------------------------------
(***************************************************************************)
(* What APM hangs into the engine: the callbacks are in place exactly for  *)
(* the time of a request (HooksBracketRequests), and every error that      *)
(* passes through them is handed on once (ErrorsHandedOnOnce).             *)
(***************************************************************************)

IdsOf(s) == {s[k].id : k \in DOMAIN s}
Distinct(s) == \A k, l \in DOMAIN s : s[k].id = s[l].id => k = l
Injective(s) == \A k, l \in DOMAIN s : s[k] = s[l] => k = l

\* What an activation on the stack may be: it works on an event of its own; a
\* fatal error was raised by the script itself, so nothing is below it; and no
\* activation outlives the phases in which errors are raised.
Activations ==
  /\ IdsOf(stack) \subseteq Ids /\ Distinct(stack)
  /\ \A k \in DOMAIN stack :
       raised[stack[k].id].type \in Fatal => k = Len(stack) /\ phase = "script"
  /\ phase \in {"loaded", "flush", "drivers", "closing", "down"} => stack = <<>>

-----------------------------------------------------------------------------
(* The sequences the invariants are about *)

\* A frame pushed on a stack.
LEMMA PushFrame ==
  ASSUME NEW s \in Seq(Frames), NEW f \in Frames
  PROVE  /\ Len(<<f>> \o s) = Len(s) + 1 /\ DOMAIN (<<f>> \o s) = 1..Len(s) + 1
         /\ (<<f>> \o s)[1] = f
         /\ \A k \in 1..Len(s) : (<<f>> \o s)[k + 1] = s[k]
         /\ IdsOf(<<f>> \o s) = {f.id} \union IdsOf(s)
         /\ Distinct(s) /\ f.id \notin IdsOf(s) => Distinct(<<f>> \o s)
<1> DEFINE t == <<f>> \o s
<1>1. <<f>> \in Seq(Frames) /\ Len(<<f>>) = 1 /\ <<f>>[1] = f
  OBVIOUS
<1>2. /\ t \in Seq(Frames) /\ Len(t) = 1 + Len(s)
      /\ \A i \in 1..1 + Len(s) : t[i] = IF i <= 1 THEN <<f>>[i] ELSE s[i - 1]
  BY <1>1, ConcatProperties
<1> HIDE DEF t
<1>3. Len(s) \in Nat /\ DOMAIN s = 1..Len(s) /\ DOMAIN t = 1..Len(s) + 1
  BY <1>2, LenProperties
<1>4. t[1] = f /\ \A k \in 1..Len(s) : t[k + 1] = s[k]
  BY <1>1, <1>2, <1>3
<1>5. \A k \in 1..Len(s) + 1 : k = 1 \/ (k - 1 \in 1..Len(s) /\ t[k] = s[k - 1])
  BY <1>2, <1>3
<1>6. IdsOf(t) = {f.id} \union IdsOf(s)
  <2>1. IdsOf(t) \subseteq {f.id} \union IdsOf(s)
    <3>1. \A k \in 1..Len(s) + 1 : k = 1 \/ t[k].id \in IdsOf(s)
      BY <1>3, <1>5 DEF IdsOf
    <3>2. \A k \in 1..Len(s) + 1 : t[k].id \in {f.id} \union IdsOf(s)
      BY <1>4, <3>1
    <3> QED BY <1>3, <3>2 DEF IdsOf
  <2>2. IdsOf(s) \subseteq IdsOf(t)
    <3>1. \A k \in 1..Len(s) : k + 1 \in DOMAIN t BY <1>3
    <3> QED BY <1>3, <1>4, <3>1 DEF IdsOf
  <2>3. f.id \in IdsOf(t)
    BY <1>3, <1>4 DEF IdsOf
  <2> QED BY <2>1, <2>2, <2>3
<1>7. Distinct(s) /\ f.id \notin IdsOf(s) => Distinct(t)
  <2> SUFFICES ASSUME Distinct(s), f.id \notin IdsOf(s),
                      NEW k \in 1..Len(s) + 1, NEW l \in 1..Len(s) + 1, t[k].id = t[l].id
               PROVE  k = l
    BY <1>3 DEF Distinct
  <2>1. CASE k = 1 \/ l = 1
    <3>1. \A m \in 1..Len(s) + 1 : m = 1 \/ t[m].id \in IdsOf(s) BY <1>3, <1>5 DEF IdsOf
    <3> QED BY ONLY <1>4, <2>1, <3>1, f.id \notin IdsOf(s), t[k].id = t[l].id,
                    k \in 1..Len(s) + 1, l \in 1..Len(s) + 1
  <2>2. CASE k # 1 /\ l # 1
    <3>1. /\ k - 1 \in 1..Len(s) /\ l - 1 \in 1..Len(s)
          /\ s[k - 1].id = s[l - 1].id
      BY <1>5, <2>2
    <3>2. k - 1 = l - 1
      BY <1>3, <3>1 DEF Distinct
    <3> QED BY <1>3, <3>2
  <2> QED BY <2>1, <2>2
<1> QED BY <1>2, <1>3, <1>4, <1>6, <1>7 DEF t

\* The innermost frame taken from a stack.
LEMMA PopFrame ==
  ASSUME NEW s \in Seq(Frames), s # <<>>
  PROVE  /\ Len(Tail(s)) = Len(s) - 1 /\ DOMAIN Tail(s) = 1..Len(s) - 1
         /\ \A k \in 1..Len(s) - 1 : Tail(s)[k] = s[k + 1]
         /\ IdsOf(s) = {s[1].id} \union IdsOf(Tail(s))
         /\ Distinct(s) => Distinct(Tail(s)) /\ s[1].id \notin IdsOf(Tail(s))
<1> DEFINE t == Tail(s)
<1>1. /\ t \in Seq(Frames) /\ Len(t) = Len(s) - 1
      /\ \A i \in 1..Len(t) : t[i] = s[i + 1]
  BY HeadTailProperties
<1> HIDE DEF t
<1>2. Len(s) \in Nat \ {0} /\ DOMAIN s = 1..Len(s) /\ DOMAIN t = 1..Len(s) - 1
  BY <1>1, LenProperties, EmptySeq
<1>3. \A k \in 1..Len(s) : k = 1 \/ (k - 1 \in 1..Len(s) - 1 /\ s[k] = t[k - 1])
  BY <1>1, <1>2
<1>4. IdsOf(s) = {s[1].id} \union IdsOf(t)
  <2>1. IdsOf(s) \subseteq {s[1].id} \union IdsOf(t)
    BY <1>2, <1>3 DEF IdsOf
  <2>2. IdsOf(t) \subseteq IdsOf(s)
    BY <1>1, <1>2 DEF IdsOf
  <2>3. s[1].id \in IdsOf(s)
    BY <1>2 DEF IdsOf
  <2> QED BY <2>1, <2>2, <2>3
<1>5. Distinct(s) => Distinct(t) /\ s[1].id \notin IdsOf(t)
  <2>1. \A k \in 1..Len(s) - 1 : k + 1 \in 1..Len(s) /\ 1 \in 1..Len(s) /\ t[k].id = s[k + 1].id
    BY <1>1, <1>2
  <2>2. Distinct(s) => \A k \in 1..Len(s) - 1 : t[k].id # s[1].id
    <3> SUFFICES ASSUME Distinct(s), NEW k \in 1..Len(s) - 1 PROVE t[k].id # s[1].id
      OBVIOUS
    <3>1. k + 1 # 1 /\ k + 1 \in 1..Len(s) /\ 1 \in 1..Len(s) /\ t[k].id = s[k + 1].id
      BY <1>2, <2>1
    <3> QED BY <1>2, <3>1 DEF Distinct
  <2>3. Distinct(s) => Distinct(t)
    <3> SUFFICES ASSUME Distinct(s), NEW k \in 1..Len(s) - 1, NEW l \in 1..Len(s) - 1,
                        t[k].id = t[l].id
                 PROVE  k = l
      BY <1>2 DEF Distinct
    <3>1. k + 1 \in 1..Len(s) /\ l + 1 \in 1..Len(s) /\ s[k + 1].id = s[l + 1].id
      BY <2>1
    <3>2. k + 1 = l + 1 BY <1>2, <3>1 DEF Distinct
    <3> QED BY <1>2, <3>2
  <2> QED BY <1>2, <2>2, <2>3 DEF IdsOf
<1> QED BY <1>1, <1>2, <1>4, <1>5 DEF t

\* A number appended to a sequence it is not in.
LEMMA AppendNumber ==
  ASSUME NEW s \in Seq(Nat), NEW n \in Nat
  PROVE  /\ Values(Append(s, n)) = Values(s) \union {n}
         /\ Injective(s) /\ n \notin Values(s) => Injective(Append(s, n))
<1> DEFINE t == Append(s, n)
<1>1. /\ t \in Seq(Nat) /\ Len(t) = Len(s) + 1 /\ t[Len(s) + 1] = n
      /\ \A i \in 1..Len(s) : t[i] = s[i]
  BY AppendProperties
<1> HIDE DEF t
<1>2. Len(s) \in Nat /\ DOMAIN s = 1..Len(s) /\ DOMAIN t = 1..Len(s) + 1
  BY <1>1, LenProperties
<1>3. /\ \A i \in DOMAIN t : \/ i \in DOMAIN s /\ t[i] = s[i]
                             \/ i = Len(s) + 1 /\ t[i] = n
      /\ \A i \in DOMAIN s : i \in DOMAIN t /\ t[i] = s[i]
      /\ Len(s) + 1 \in DOMAIN t /\ t[Len(s) + 1] = n
  <2> DEFINE m == Len(s)
  <2>1. m \in Nat /\ DOMAIN s = 1..m /\ DOMAIN t = 1..m + 1 BY <1>2
  <2> HIDE DEF m
  <2>2. /\ \A i \in DOMAIN t : i \in DOMAIN s \/ i = m + 1
        /\ \A i \in DOMAIN s : i \in DOMAIN t
        /\ m + 1 \in DOMAIN t
    BY ONLY <2>1
  <2> USE DEF m
  <2>3. t[m + 1] = n /\ \A i \in DOMAIN s : t[i] = s[i] BY <1>1, <1>2
  <2> HIDE DEF m
  <2>4. /\ \A i \in DOMAIN t : \/ i \in DOMAIN s /\ t[i] = s[i]
                               \/ i = m + 1 /\ t[i] = n
        /\ \A i \in DOMAIN s : i \in DOMAIN t /\ t[i] = s[i]
        /\ m + 1 \in DOMAIN t /\ t[m + 1] = n
    BY ONLY <2>2, <2>3, Zenon
  <2> QED BY <2>4 DEF m
<1>4. Values(t) = Values(s) \union {n}
  BY ONLY <1>3 DEF Values
<1>5. Injective(s) /\ n \notin Values(s) => Injective(t)
  <2>1. \A i \in DOMAIN s : s[i] \in Values(s) BY DEF Values
  <2> QED BY ONLY <1>3, <2>1 DEF Injective
<1> QED BY <1>4, <1>5 DEF t

-----------------------------------------------------------------------------
(* Every error is handed on once *)

Errors == {i \in Ids : raised[i].kind = "error"}
Handed == Injective(forwarded) /\ Values(forwarded) = Errors \ IdsOf(stack)
Dispatched == Typed /\ Activations /\ Handed

LEMMA HandedIsErrorsHandedOnOnce == Handed <=> ErrorsHandedOnOnce
BY DEF Handed, ErrorsHandedOnOnce, Errors, IdsOf, Injective

\* One more event: the earlier ones keep their number.
LEMMA OneMoreEvent ==
  ASSUME Dispatched, NEW e \in Event, raised' = Append(raised, e)
  PROVE  /\ Len(raised') = Len(raised) + 1 /\ Len(raised) \in Nat
         /\ Ids' = Ids \union {Len(raised')} /\ Len(raised') \notin Ids
         /\ raised'[Len(raised')] = e
         /\ \A i \in Ids : raised'[i] = raised[i]
         /\ Errors' = IF e.kind = "error" THEN Errors \union {Len(raised')} ELSE Errors
         /\ Len(raised') \notin Errors
<1>1. raised \in Seq(Event)
  BY DEF Dispatched, Typed, TypeOK
<1>2. /\ Len(raised') = Len(raised) + 1 /\ raised'[Len(raised) + 1] = e
      /\ \A i \in 1..Len(raised) : raised'[i] = raised[i]
  BY <1>1, AppendProperties
<1>3. Len(raised) \in Nat
  BY <1>1, LenProperties
<1>4. Ids' = Ids \union {Len(raised')} /\ Len(raised') \notin Ids
  BY <1>2, <1>3 DEF Ids
<1>5. raised'[Len(raised')] = e /\ \A i \in Ids : raised'[i] = raised[i]
  BY <1>2 DEF Ids
<1> QED BY <1>2, <1>3, <1>4, <1>5 DEF Errors

\* An activation that begins to work on the new event.
LEMMA Pushed ==
  ASSUME Dispatched, NEW e \in Event, raised' = Append(raised, e),
         NEW f \in Frames, f.id = Len(raised'), stack' = <<f>> \o stack,
         e.type \in Fatal => stack = <<>> /\ phase = "script",
         phase' = phase, phase \notin {"loaded", "flush", "drivers", "closing", "down"}
  PROVE  Activations' /\ IdsOf(stack') = IdsOf(stack) \union {Len(raised')}
<1>1. stack \in Seq(Frames)
  BY DEF Dispatched, Typed, TypeOK, Frames
<1>2. /\ Len(stack') = Len(stack) + 1 /\ DOMAIN stack' = 1..Len(stack) + 1
      /\ stack'[1] = f /\ \A k \in 1..Len(stack) : stack'[k + 1] = stack[k]
      /\ IdsOf(stack') = {f.id} \union IdsOf(stack)
      /\ Distinct(stack) /\ f.id \notin IdsOf(stack) => Distinct(stack')
  BY <1>1, PushFrame
<1>3. IdsOf(stack') \subseteq Ids' /\ Distinct(stack')
  BY <1>2, OneMoreEvent DEF Dispatched, Activations
<1>4. ASSUME NEW k \in DOMAIN stack', raised'[stack'[k].id].type \in Fatal
      PROVE  k = Len(stack') /\ phase' = "script"
  <2>1. Len(stack) \in Nat /\ DOMAIN stack = 1..Len(stack)
    BY <1>1, LenProperties
  <2>2. CASE k = 1
    <3>1. stack = <<>> /\ phase = "script"
      BY <1>2, <1>4, <2>2, OneMoreEvent
    <3> QED BY <1>2, <2>2, <3>1
  <2>3. CASE k # 1
    <3>1. k - 1 \in 1..Len(stack) /\ stack'[k] = stack[k - 1]
      BY <1>2, <1>4, <2>1, <2>3
    <3>2. stack[k - 1].id \in Ids
      BY <2>1, <3>1 DEF Dispatched, Activations, IdsOf
    <3>3. raised[stack[k - 1].id].type \in Fatal
      BY <1>4, <3>1, <3>2, OneMoreEvent
    <3>4. k - 1 = Len(stack) /\ phase = "script"
      BY <2>1, <3>1, <3>3 DEF Dispatched, Activations
    <3> QED BY <1>2, <2>1, <3>1, <3>4
  <2> QED BY <2>2, <2>3
<1> QED BY <1>2, <1>3, <1>4 DEF Activations

\* An error, whichever callback it goes to.
LEMMA RaisedIsHandedOn ==
  ASSUME Dispatched, NEW e \in Event, e.kind = "error", RaiseEvent(e),
         phase \notin {"loaded", "flush", "drivers", "closing", "down"},
         e.type \in Fatal => stack = <<>> /\ phase = "script",
         phase' = phase \/ (stack = <<>> /\ zend_error_cb # "apm" /\ phase' = "ending")
  PROVE  Activations' /\ Handed'
<1>1. raised' = Append(raised, e)
  BY DEF RaiseEvent
<1>2. CASE zend_error_cb = "apm"
  <2> DEFINE f == Frame(Len(raised'), FirstRecorder)
  <2>1. f \in Frames /\ f.id = Len(raised')
    BY <1>1, OneMoreEvent, RecorderFacts DEF Frame, Frames, FirstRecorder
  <2>2. stack' = <<f>> \o stack /\ forwarded' = forwarded /\ phase' = phase
    BY <1>2 DEF RaiseEvent
  <2> HIDE DEF f
  <2>3. Activations' /\ IdsOf(stack') = IdsOf(stack) \union {Len(raised')}
    BY <1>1, <2>1, <2>2, Pushed
  <2>4. Errors' = Errors \union {Len(raised')} /\ Len(raised') \notin Errors
    BY <1>1, OneMoreEvent
  <2>5. Errors' \ IdsOf(stack') = Errors \ IdsOf(stack)
    BY <2>3, <2>4
  <2>6. Injective(forwarded) /\ Values(forwarded) = Errors \ IdsOf(stack)
    BY DEF Dispatched, Handed
  <2>7. Handed'
    BY <2>2, <2>5, <2>6 DEF Handed
  <2> QED BY <2>3, <2>7
<1>3. CASE zend_error_cb # "apm"
  <2>1. stack' = stack /\ forwarded' = Append(forwarded, Len(raised'))
    BY <1>3 DEF RaiseEvent
  <2>2. /\ Len(raised') \in Nat /\ Errors' = Errors \union {Len(raised')}
        /\ Len(raised') \notin Errors /\ Len(raised') \notin Ids
        /\ Ids' = Ids \union {Len(raised')}
        /\ \A i \in Ids : raised'[i] = raised[i]
    <3>1. Len(raised') = Len(raised) + 1 /\ Len(raised) \in Nat
      BY <1>1, OneMoreEvent
    <3>2. Errors' = Errors \union {Len(raised')} /\ Len(raised') \notin Errors
      BY <1>1, OneMoreEvent
    <3>3. /\ Len(raised') \notin Ids /\ Ids' = Ids \union {Len(raised')}
          /\ \A i \in Ids : raised'[i] = raised[i]
      BY <1>1, OneMoreEvent
    <3> QED BY <3>1, <3>2, <3>3
  <2>3. Len(raised') \notin Values(forwarded) /\ Len(raised') \notin IdsOf(stack)
    BY <2>2 DEF Dispatched, Handed, Activations
  <2>4. forwarded \in Seq(Nat)
    BY DEF Dispatched, Typed, TypeOK
  <2>5. Injective(forwarded') /\ Values(forwarded') = Values(forwarded) \union {Len(raised')}
    BY <2>1, <2>2, <2>3, <2>4, AppendNumber DEF Dispatched, Handed
  <2>6. Handed'
    BY <2>1, <2>2, <2>3, <2>5 DEF Dispatched, Handed
  <2>7. Activations'
    <3>1. \A k \in DOMAIN stack : stack[k].id \in Ids
      BY DEF Dispatched, Activations, IdsOf
    <3>2. \A k \in DOMAIN stack : raised'[stack[k].id] = raised[stack[k].id]
      BY <2>2, <3>1
    <3>3. IdsOf(stack) \subseteq Ids' /\ Distinct(stack)
      BY <2>2 DEF Dispatched, Activations
    <3>4. stack = <<>> \/ phase' = phase OBVIOUS
    <3>5. stack = <<>> => DOMAIN stack = {}
      OBVIOUS
    <3> QED BY <2>1, <3>2, <3>3, <3>4, <3>5 DEF Dispatched, Activations
  <2> QED BY <2>6, <2>7
<1> QED BY <1>2, <1>3

\* A step that neither raises an event nor works on one.
LEMMA NothingRaised ==
  ASSUME Dispatched, UNCHANGED <<stack, raised, forwarded>>,
         stack = <<>> \/ phase' = phase
  PROVE  Activations' /\ Handed'
<1>1. Ids' = Ids /\ Errors' = Errors /\ IdsOf(stack') = IdsOf(stack)
  BY DEF Ids, Errors
<1>2. Handed'
  BY <1>1 DEF Dispatched, Handed
<1>3. stack = <<>> => DOMAIN stack = {}
  OBVIOUS
<1>4. IdsOf(stack') \subseteq Ids' /\ Distinct(stack')
  BY <1>1 DEF Dispatched, Activations
<1>5. \A k \in DOMAIN stack' :
        raised'[stack'[k].id].type \in Fatal => k = Len(stack') /\ phase' = "script"
  BY <1>3 DEF Dispatched, Activations
<1>6. phase' \in {"loaded", "flush", "drivers", "closing", "down"} => stack' = <<>>
  BY DEF Dispatched, Activations
<1> QED BY <1>2, <1>4, <1>5, <1>6 DEF Activations

LEMMA DispatchedInit == Init => Dispatched
<1> SUFFICES ASSUME Init PROVE Dispatched
  OBVIOUS
<1>1. stack = <<>> /\ raised = <<>> /\ forwarded = <<>>
  BY Zenon DEF Init
<1>2. Len(<<>>) = 0 /\ DOMAIN <<>> = {}
  OBVIOUS
<1>3. Ids = {} /\ IdsOf(stack) = {} /\ Values(forwarded) = {}
  BY <1>1, <1>2 DEF Ids, IdsOf, Values
<1>4. Activations /\ Handed
  BY <1>1, <1>2, <1>3 DEF Activations, Handed, Distinct, Injective, Errors
<1> QED BY <1>4, TypesInit DEF Dispatched

LEMMA DispatchedNext == Dispatched /\ [Next]_vars => Dispatched'
<1> SUFFICES ASSUME Dispatched, [Next]_vars PROVE Activations' /\ Handed'
  BY TypesNext DEF Dispatched
<1> USE DEF cursors, log
<1>1. CASE Minit
  <2>1. phase = "loaded" /\ UNCHANGED <<stack, raised, forwarded>> BY <1>1 DEF Minit
  <2> QED BY <2>1, NothingRaised DEF Dispatched, Activations
<1>2. CASE Rinit
  <2>1. stack' = <<>> /\ raised' = <<>> /\ forwarded' = <<>>
    BY <1>2, Zenon DEF Rinit
  <2>2. Len(<<>>) = 0 /\ DOMAIN <<>> = {}
    OBVIOUS
  <2>3. Ids' = {} /\ IdsOf(stack') = {} /\ Values(forwarded') = {}
    BY <2>1, <2>2 DEF Ids, IdsOf, Values
  <2> QED BY <2>1, <2>2, <2>3 DEF Activations, Handed, Distinct, Injective, Errors
<1>3. CASE Mshutdown
  BY <1>3, NothingRaised DEF Mshutdown
<1>4. ASSUME NEW level \in Levels, RaiseError(level) PROVE Activations' /\ Handed'
  <2>1. PlainError(level) \in Event /\ PlainError(level).kind = "error"
        /\ PlainError(level).type = level
    BY EventTypes DEF Dispatched, PlainError, AnError
  <2>2. /\ RaiseEvent(PlainError(level)) /\ stack = <<>>
        /\ phase \in {"startup", "script", "ending", "idle"}
        /\ level \in Fatal => phase = "script"
        /\ phase' = phase \/ (zend_error_cb # "apm" /\ phase' = "ending")
    BY <1>4 DEF RaiseError, CanRaise
  <2> HIDE DEF PlainError
  <2> QED BY <2>1, <2>2, RaisedIsHandedOn
<1>5. CASE Throw
  <2>1. /\ phase' = phase /\ phase = "script" /\ stack = <<>>
        /\ exception' = exceptions + 1 /\ forwarded' = forwarded
        /\ raised' = Append(raised, AnException(exception'))
    BY <1>5 DEF Throw, Running
  <2> DEFINE e == AnException(exception') f == Frame(Len(raised'), FirstRecorder)
  <2>2. e \in Event /\ e.kind = "exception" /\ e.type \notin Fatal
    BY <2>1, EventTypes
    DEF Dispatched, Typed, TypeOK, AnException, Event, Watched, NoException, Levels, Fatal
  <2>3. stack' = <<f>> \o stack \/ stack' = stack
    <3>1. <<f>> \o <<>> = <<f>> OBVIOUS
    <3> QED BY <1>5, <2>1, <3>1 DEF Throw
  <2> HIDE DEF e
  <2>4. f \in Frames /\ f.id = Len(raised')
    BY <2>1, <2>2, OneMoreEvent, RecorderFacts DEF e, Frame, Frames, FirstRecorder
  <2> HIDE DEF f
  <2>5. raised' = Append(raised, e) BY <2>1 DEF e
  <2>6. /\ Len(raised') = Len(raised) + 1 /\ Len(raised) \in Nat
        /\ Ids' = Ids \union {Len(raised')} /\ Errors' = Errors
        /\ Len(raised') \notin Errors /\ \A i \in Ids : raised'[i] = raised[i]
    BY <2>2, <2>5, OneMoreEvent
  <2>7. CASE stack' = <<f>> \o stack
    <3>1. Activations' /\ IdsOf(stack') = IdsOf(stack) \union {Len(raised')}
      BY <2>1, <2>2, <2>4, <2>5, <2>7, Pushed
    <3>2. Errors' \ IdsOf(stack') = Errors \ IdsOf(stack)
      BY <2>6, <3>1
    <3> QED BY <2>1, <3>1, <3>2 DEF Dispatched, Handed
  <2>8. CASE stack' = stack
    <3>1. DOMAIN stack = {} /\ IdsOf(stack) = {}
      BY <2>1 DEF IdsOf
    <3> QED BY <2>1, <2>6, <2>8, <3>1 DEF Dispatched, Handed, Activations, Distinct
  <2> QED BY <2>3, <2>7, <2>8
<1>6. CASE Catch
  BY <1>6, NothingRaised DEF Catch
<1>7. CASE Uncaught
  <2> DEFINE e == AnError("E_ERROR", UncaughtPrefix, exception, FALSE)
  <2>1. e \in Event
    BY EventTypes, CoreAssumption DEF Dispatched, Typed, TypeOK, Levels, Fatal
  <2>2. e.kind = "error" BY DEF AnError
  <2>3. /\ RaiseEvent(e) /\ stack = <<>> /\ phase = "script"
        /\ phase' = phase \/ (zend_error_cb # "apm" /\ phase' = "ending")
    BY <1>7 DEF Uncaught
  <2> HIDE DEF e
  <2> QED BY <2>1, <2>2, <2>3, RaisedIsHandedOn
<1>8. CASE BeginSilence BY <1>8, NothingRaised DEF BeginSilence
<1>9. CASE EndSilence BY <1>9, NothingRaised DEF EndSilence
<1>10. CASE SwitchEvents BY <1>10, NothingRaised DEF SwitchEvents
<1>11. ASSUME NEW d \in RuntimeSwitch, SwitchDriver(d) PROVE Activations' /\ Handed'
  BY <1>11, NothingRaised DEF SwitchDriver
<1>12. CASE Tick BY <1>12, NothingRaised DEF Tick
<1>13. CASE ScriptEnd BY <1>13, NothingRaised DEF ScriptEnd, Running
<1>14. CASE Deliver
  <2>1. UNCHANGED <<phase, raised, forwarded>> /\ stack # <<>> /\ stack \in Seq(Frames)
        /\ stack' = <<Frame(Top.id, Top.next + 1)>> \o Pop
    BY <1>14 DEF Deliver, Dispatching, Dispatched, Typed, TypeOK, Frames
  <2>2. Frame(Top.id, Top.next + 1) \in Frames /\ Pop \in Seq(Frames)
        /\ Frame(Top.id, Top.next + 1).id = stack[1].id
    BY <2>1, TopTypes DEF Dispatched, Frame, Frames, Top
  <2> DEFINE f == Frame(Top.id, Top.next + 1)
  <2> HIDE DEF f
  <2>3. /\ Len(stack') = Len(Pop) + 1 /\ DOMAIN stack' = 1..Len(Pop) + 1
        /\ stack'[1] = f /\ \A k \in 1..Len(Pop) : stack'[k + 1] = Pop[k]
        /\ IdsOf(stack') = {f.id} \union IdsOf(Pop)
    BY <2>1, <2>2, PushFrame DEF f
  <2>4. /\ Len(Pop) = Len(stack) - 1 /\ Len(stack) \in Nat /\ DOMAIN stack = 1..Len(stack)
        /\ \A k \in 1..Len(stack) - 1 : Pop[k] = stack[k + 1]
        /\ IdsOf(stack) = {stack[1].id} \union IdsOf(Pop)
    BY <2>1, PopFrame, LenProperties DEF Pop
  <2>5. IdsOf(stack') = IdsOf(stack) /\ Len(stack') = Len(stack) /\ DOMAIN stack' = DOMAIN stack
    BY <2>2, <2>3, <2>4 DEF f
  <2>6. \A k \in DOMAIN stack : stack'[k].id = stack[k].id
    <3> SUFFICES ASSUME NEW k \in 1..Len(stack) PROVE stack'[k].id = stack[k].id
      BY <2>4
    <3>1. CASE k = 1 BY <2>2, <2>3, <3>1 DEF f
    <3>2. CASE k # 1
      <4>1. k - 1 \in 1..Len(stack) - 1 /\ (k - 1) + 1 = k BY <2>4, <3>2
      <4>2. stack'[k] = Pop[k - 1] /\ Pop[k - 1] = stack[k] BY <2>3, <2>4, <4>1
      <4> QED BY <4>2
    <3> QED BY <3>1, <3>2
  <2>7. Ids' = Ids /\ Errors' = Errors BY <2>1 DEF Ids, Errors
  <2>8. Handed' BY <2>1, <2>5, <2>7 DEF Dispatched, Handed
  <2>9. phase \notin {"loaded", "flush", "drivers", "closing", "down"}
    BY <2>1 DEF Dispatched, Activations
  <2>10. Distinct(stack') BY <2>5, <2>6 DEF Dispatched, Activations, Distinct
  <2>11. \A k \in DOMAIN stack' :
           raised'[stack'[k].id].type \in Fatal => k = Len(stack') /\ phase' = "script"
    BY <2>1, <2>5, <2>6 DEF Dispatched, Activations
  <2>12. Activations'
    BY <2>1, <2>5, <2>7, <2>9, <2>10, <2>11 DEF Dispatched, Activations
  <2> QED BY <2>8, <2>12
<1>15. CASE Complain
  <2>1. PlainError("E_CORE_WARNING") \in Event /\ PlainError("E_CORE_WARNING").kind = "error"
        /\ PlainError("E_CORE_WARNING").type \notin Fatal
    BY EventTypes DEF Dispatched, PlainError, AnError, Levels, Fatal
  <2>2. RaiseEvent(PlainError("E_CORE_WARNING")) /\ stack # <<>> /\ phase' = phase
    BY <1>15 DEF Complain, Dispatching
  <2>3. phase \notin {"loaded", "flush", "drivers", "closing", "down"}
    BY <2>2 DEF Dispatched, Activations
  <2> HIDE DEF PlainError
  <2> QED BY <2>1, <2>2, <2>3, RaisedIsHandedOn
<1>16. CASE Return
  <2>1. /\ UNCHANGED raised /\ stack # <<>> /\ stack \in Seq(Frames) /\ stack' = Pop
        /\ forwarded' = IF Current.kind = "error" THEN Append(forwarded, Top.id)
                                                  ELSE forwarded
        /\ phase' = IF Current.type \in Fatal THEN "ending" ELSE phase
    BY <1>16 DEF Return, Dispatched, Typed, TypeOK, Frames
  <2>2. /\ Len(Pop) = Len(stack) - 1 /\ DOMAIN Pop = 1..Len(stack) - 1
        /\ \A k \in 1..Len(stack) - 1 : Pop[k] = stack[k + 1]
        /\ IdsOf(stack) = {Top.id} \union IdsOf(Pop)
        /\ Distinct(Pop) /\ Top.id \notin IdsOf(Pop)
    BY <2>1, PopFrame DEF Pop, Top, Dispatched, Activations
  <2>3. Len(stack) \in Nat \ {0} /\ DOMAIN stack = 1..Len(stack) /\ 1 \in DOMAIN stack
    BY <2>1, LenProperties, EmptySeq
  <2>4. Top.id \in Ids /\ Top.id \in Nat
    BY <2>1, <2>2, TopTypes DEF Dispatched, Activations, Frames
  <2>5. Ids' = Ids /\ Errors' = Errors BY <2>1 DEF Ids, Errors
  <2>6. phase \notin {"loaded", "flush", "drivers", "closing", "down"}
    BY <2>1 DEF Dispatched, Activations
  <2>7. Activations'
    <3>1. Current.type \in Fatal => Pop = <<>>
      <4>1. Current.type \in Fatal => Len(stack) = 1
        BY <2>3 DEF Dispatched, Activations, Current, Top
      <4>2. Pop \in Seq(Frames) /\ (Pop # <<>> => Len(Pop) \in Nat \ {0})
        BY <2>1, TopTypes, EmptySeq DEF Dispatched
      <4> QED BY <2>2, <4>1, <4>2
    <3>2. \A k \in 1..Len(stack) - 1 : raised[Pop[k].id].type \in Fatal
                                        => k = Len(stack) - 1 /\ phase = "script"
      <4> SUFFICES ASSUME NEW k \in 1..Len(stack) - 1, raised[Pop[k].id].type \in Fatal
                   PROVE  k = Len(stack) - 1 /\ phase = "script"
        OBVIOUS
      <4>1. k + 1 \in DOMAIN stack /\ raised[stack[k + 1].id].type \in Fatal
        BY <2>2, <2>3
      <4>2. k + 1 = Len(stack) /\ phase = "script"
        BY <4>1 DEF Dispatched, Activations
      <4>3. k \in Nat /\ Len(stack) \in Nat BY <2>3
      <4> QED BY <4>2, <4>3
    <3>3. IdsOf(Pop) \subseteq Ids /\ Distinct(Pop)
      BY <2>2 DEF Dispatched, Activations
    <3>4. CASE Current.type \in Fatal
      <4>1. stack' = <<>> /\ phase' = "ending" BY <2>1, <3>1, <3>4
      <4>2. DOMAIN <<>> = {} OBVIOUS
      <4> QED BY <2>1, <2>5, <3>3, <4>1, <4>2 DEF Activations
    <3>5. CASE Current.type \notin Fatal
      <4>1. phase' = phase BY <2>1, <3>5
      <4> QED BY <2>1, <2>2, <2>5, <2>6, <3>2, <3>3, <4>1 DEF Activations
    <3> QED BY <3>4, <3>5
  <2>8. Handed'
    <3>1. CASE Current.kind = "error"
      <4>1. Top.id \in Errors /\ forwarded' = Append(forwarded, Top.id)
        BY <2>1, <2>4, <3>1 DEF Errors, Current
      <4>2. Top.id \notin Values(forwarded)
        BY <2>2 DEF Dispatched, Handed
      <4>3. forwarded \in Seq(Nat) /\ Injective(forwarded)
        BY DEF Dispatched, Handed, Typed, TypeOK
      <4>4. Values(forwarded') = Values(forwarded) \union {Top.id} /\ Injective(forwarded')
        BY <2>4, <4>1, <4>2, <4>3, AppendNumber
      <4>5. Values(forwarded') = Errors \ IdsOf(Pop)
        BY <2>2, <4>1, <4>4 DEF Dispatched, Handed
      <4> QED BY <2>1, <2>5, <4>4, <4>5 DEF Handed
    <3>2. CASE Current.kind # "error"
      <4>1. Top.id \notin Errors /\ forwarded' = forwarded
        BY <2>1, <3>2 DEF Errors, Current
      <4>2. Errors \ IdsOf(Pop) = Errors \ IdsOf(stack)
        BY <2>2, <4>1
      <4> QED BY <2>1, <2>5, <4>1, <4>2 DEF Dispatched, Handed
    <3> QED BY <3>1, <3>2
  <2> QED BY <2>7, <2>8
<1>17. CASE RshutdownBegin BY <1>17, NothingRaised DEF RshutdownBegin
<1>18. CASE RshutdownStats BY <1>18, NothingRaised DEF RshutdownStats
<1>19. CASE RshutdownElasticsearch
  BY <1>19, NothingRaised DEF RshutdownElasticsearch, Dispatched, Activations
<1>20. CASE RshutdownDrivers
  BY <1>20, NothingRaised DEF RshutdownDrivers, Dispatched, Activations
<1>21. CASE EndRequest
  BY <1>21, NothingRaised DEF EndRequest, Dispatched, Activations
<1>22. CASE ComplainStats
  <2>1. PlainError("E_CORE_WARNING") \in Event /\ PlainError("E_CORE_WARNING").kind = "error"
        /\ PlainError("E_CORE_WARNING").type \notin Fatal
    BY EventTypes DEF Dispatched, PlainError, AnError, Levels, Fatal
  <2>2. RaiseEvent(PlainError("E_CORE_WARNING")) /\ phase = "stats" /\ phase' = phase
    BY <1>22 DEF ComplainStats
  <2> HIDE DEF PlainError
  <2> QED BY <2>1, <2>2, RaisedIsHandedOn
<1>23. CASE UNCHANGED vars BY <1>23, NothingRaised DEF vars
<1> QED
  BY <1>1, <1>2, <1>3, <1>4, <1>5, <1>6, <1>7, <1>8, <1>9, <1>10, <1>11, <1>12,
     <1>13, <1>14, <1>15, <1>16, <1>17, <1>18, <1>19, <1>20, <1>21, <1>22, <1>23
  DEF Next, Script, Dispatch, Shutdown, Terminated

\* Monitoring neither swallows nor repeats an error: with any drivers and any
\* number of nested complaints, what apm_error_cb no longer works on has reached
\* the engine's callback once.
THEOREM ErrorsAreHandedOn == Spec => []ErrorsHandedOnOnce
<1>1. Dispatched => ErrorsHandedOnOnce
  BY HandedIsErrorsHandedOnOnce DEF Dispatched
<1> QED BY <1>1, DispatchedInit, DispatchedNext, PTL DEF Spec

-----------------------------------------------------------------------------
(* The callbacks *)

\* What the engine's and APM's pointers hold in each phase.
Hooks ==
  /\ zend_error_cb \in {"engine", "apm"} /\ orig_silence_handler = "engine"
  /\ old_error_cb = IF phase = "loaded" THEN "none" ELSE "engine"
  /\ phase = "loaded" => zend_error_cb = "engine"
  /\ silence_handler = IF apm_enabled /\ phase \in {"script", "ending"} THEN "apm"
                                                                        ELSE "engine"
  /\ apm_enabled /\ InRequest =>
       zend_error_cb = "apm" /\ zend_throw_exception_hook = "apm"
  /\ apm_enabled /\ phase \in {"closing", "idle"} =>
       zend_error_cb = "engine" /\ zend_throw_exception_hook = "none"

LEMMA HooksInit == Init => Hooks
BY DEF Init, Hooks, InRequest

\* A step that leaves the pointers alone and moves between two phases in which
\* they have the same values.
LEMMA HooksKept ==
  ASSUME Hooks, UNCHANGED lifecycle,
         \/ phase' = phase
         \/ phase = "script" /\ phase' = "ending"
         \/ phase = "stats" /\ phase' = "flush"
         \/ phase = "flush" /\ phase' = "drivers"
         \/ phase = "closing" /\ phase' = "idle"
  PROVE  Hooks'
BY DEF Hooks, InRequest, lifecycle, hooks, opcodes

LEMMA HooksNext == Hooks /\ Dispatched /\ [Next]_vars => Hooks'
<1> SUFFICES ASSUME Hooks, Dispatched, [Next]_vars PROVE Hooks'
  OBVIOUS
<1>1. CASE Minit BY <1>1 DEF Minit, Hooks, InRequest, opcodes
<1>2. CASE Rinit BY <1>2 DEF Rinit, Hooks, InRequest, opcodes
<1>3. CASE Mshutdown BY <1>3 DEF Mshutdown, Hooks, InRequest, opcodes
<1>4. ASSUME NEW level \in Levels, RaiseError(level) PROVE Hooks'
  <2>1. UNCHANGED lifecycle
    BY <1>4 DEF RaiseError
  <2>2. phase' = phase \/ (phase = "script" /\ phase' = "ending")
    <3>1. CASE level \in Fatal BY <1>4, <3>1 DEF RaiseError
    <3>2. CASE level \notin Fatal BY <1>4, <3>2 DEF RaiseError
    <3> QED BY <3>1, <3>2
  <2> QED BY <2>1, <2>2, HooksKept
<1>5. CASE Throw BY <1>5, HooksKept DEF Throw
<1>6. CASE Catch BY <1>6, HooksKept DEF Catch
<1>7. CASE Uncaught BY <1>7, HooksKept DEF Uncaught
<1>8. CASE BeginSilence BY <1>8, HooksKept DEF BeginSilence
<1>9. CASE EndSilence BY <1>9, HooksKept DEF EndSilence
<1>10. CASE SwitchEvents BY <1>10, HooksKept DEF SwitchEvents
<1>11. ASSUME NEW d \in RuntimeSwitch, SwitchDriver(d) PROVE Hooks'
  BY <1>11, HooksKept DEF SwitchDriver
<1>12. CASE Tick BY <1>12, HooksKept DEF Tick
<1>13. CASE ScriptEnd BY <1>13, HooksKept DEF ScriptEnd, Running
<1>14. CASE Deliver BY <1>14, HooksKept DEF Deliver
<1>15. CASE Complain BY <1>15, HooksKept DEF Complain
<1>16. CASE Return
  <2>1. Current.type \in Fatal => phase = "script"
    <3>1. stack # <<>> /\ stack \in Seq(Frames)
      BY <1>16 DEF Return, Dispatched, Typed, TypeOK, Frames
    <3>2. 1 \in DOMAIN stack BY <3>1, EmptySeq, LenProperties
    <3> QED BY <3>2 DEF Dispatched, Activations, Current, Top
  <2> QED BY <1>16, <2>1, HooksKept DEF Return
<1>17. CASE RshutdownBegin BY <1>17 DEF RshutdownBegin, Hooks, InRequest, hooks
<1>18. CASE RshutdownStats BY <1>18, HooksKept DEF RshutdownStats
<1>19. CASE RshutdownElasticsearch BY <1>19, HooksKept DEF RshutdownElasticsearch
<1>20. CASE RshutdownDrivers BY <1>20 DEF RshutdownDrivers, Hooks, InRequest, opcodes
<1>21. CASE EndRequest BY <1>21, HooksKept DEF EndRequest
<1>22. CASE ComplainStats BY <1>22, HooksKept DEF ComplainStats
<1>23. CASE UNCHANGED vars BY <1>23, HooksKept DEF vars
<1> QED
  BY <1>1, <1>2, <1>3, <1>4, <1>5, <1>6, <1>7, <1>8, <1>9, <1>10, <1>11, <1>12,
     <1>13, <1>14, <1>15, <1>16, <1>17, <1>18, <1>19, <1>20, <1>21, <1>22, <1>23
  DEF Next, Script, Dispatch, Shutdown, Terminated

\* Between RINIT and RSHUTDOWN of a monitored request the engine calls APM, after
\* it the engine has its own callbacks back, and APM never chains to itself.
THEOREM HooksAreBracketed == Spec => []HooksBracketRequests
<1>1. Hooks => HooksBracketRequests
  BY DEF Hooks, HooksBracketRequests, InRequest
<1> QED BY <1>1, HooksInit, HooksNext, DispatchedInit, DispatchedNext, PTL DEF Spec

-----------------------------------------------------------------------------
(***************************************************************************)
(* What a request leaves in the drivers: which of them are called at its   *)
(* start and end, with which data and statistics, and what is recorded of  *)
(* its errors and exceptions, and in which order.                          *)
(***************************************************************************)

-----------------------------------------------------------------------------
(* What a request leaves behind *)

\* rinit has run for no driver but those enabled in a request that is on, and is
\* made good by rshutdown; the script's own switches aside.
Paired ==
  ready \subseteq IF apm_enabled /\ InRequest THEN enabled \union RuntimeSwitch
                                              ELSE RuntimeSwitch

\* extract_data's flag says what the buffers hold, and nothing works in between
\* requests that could fill them.
Copied ==
  /\ apm_enabled /\ InRequest =>
       request_data = IF initialized THEN <<request>> ELSE <<>>
  /\ apm_enabled /\ phase \in {"closing", "idle"} => request_data = <<>> /\ stack = <<>>

\* The time is taken when the request starts, for events are on between requests;
\* the clock stands during rshutdown, and so do the settings.
Due == {d \in Drivers : want_stats(d) /\ clock - started > Threshold}
Asked == {DriverList[i] : i \in {j \in 1..Len(DriverList) : j < pos /\ want_stats(DriverList[j])}}
Timed ==
  /\ ~InRequest /\ phase # "closing" => event_enabled = EventEnabled
  /\ apm_enabled /\ InRequest => begin_tp = started
  /\ apm_enabled /\ phase \in {"script", "ending"} => statted = {}
  /\ apm_enabled /\ phase = "stats" =>
       clock - started > Threshold /\ statted \intersect Drivers = Asked
  /\ apm_enabled /\ phase \in {"flush", "drivers", "closing"} =>
       statted \intersect Drivers = Due

-----------------------------------------------------------------------------
(* Drivers are paired, data are fresh *)

LEMMA PairedInit == Init => Paired
BY DEF Init, Paired, InRequest

LEMMA PairedNext == Paired /\ [Next]_vars => Paired'
<1> SUFFICES ASSUME Paired, [Next]_vars PROVE Paired'
  OBVIOUS
<1> USE DEF Paired, InRequest, lifecycle, settings, calls
<1>1. CASE Minit
  BY <1>1 DEF Minit
<1>2. CASE Rinit
  BY <1>2 DEF Rinit
<1>3. CASE Mshutdown
  BY <1>3 DEF Mshutdown
<1>4. ASSUME NEW level \in Levels, RaiseError(level) PROVE Paired'
  BY <1>4 DEF RaiseError
<1>5. CASE Throw
  BY <1>5 DEF Throw
<1>6. CASE Catch
  BY <1>6 DEF Catch
<1>7. CASE Uncaught
  BY <1>7 DEF Uncaught
<1>8. CASE BeginSilence
  BY <1>8 DEF BeginSilence
<1>9. CASE EndSilence
  BY <1>9 DEF EndSilence
<1>10. CASE SwitchEvents
  BY <1>10 DEF SwitchEvents
<1>11. ASSUME NEW d \in RuntimeSwitch, SwitchDriver(d) PROVE Paired'
  BY <1>11 DEF SwitchDriver
<1>12. CASE Tick
  BY <1>12 DEF Tick
<1>13. CASE ScriptEnd
  BY <1>13 DEF ScriptEnd
<1>14. CASE Deliver
  BY <1>14 DEF Deliver
<1>15. CASE Complain
  BY <1>15 DEF Complain
<1>16. CASE Return
  BY <1>16 DEF Return
<1>17. CASE RshutdownBegin
  BY <1>17 DEF RshutdownBegin
<1>18. CASE RshutdownStats
  BY <1>18 DEF RshutdownStats
<1>19. CASE RshutdownElasticsearch
  BY <1>19 DEF RshutdownElasticsearch
<1>20. CASE RshutdownDrivers
  BY <1>20 DEF RshutdownDrivers
<1>21. CASE EndRequest
  BY <1>21 DEF EndRequest
<1>22. CASE ComplainStats
  BY <1>22 DEF ComplainStats
<1>23. CASE UNCHANGED vars
  BY <1>23 DEF vars
<1> QED
  BY <1>1, <1>2, <1>3, <1>4, <1>5, <1>6, <1>7, <1>8, <1>9, <1>10, <1>11, <1>12,
     <1>13, <1>14, <1>15, <1>16, <1>17, <1>18, <1>19, <1>20, <1>21, <1>22, <1>23
  DEF Next, Script, Dispatch, Shutdown, Terminated

\* Every driver whose rinit ran has its rshutdown run in the same request, for any
\* list of drivers, any settings per host and whatever the drivers collect.
THEOREM DriversArePaired == Spec => []DriversPaired
<1>1. Paired => DriversPaired
  BY DEF Paired, DriversPaired, InRequest
<1> QED BY <1>1, PairedInit, PairedNext, PTL DEF Spec

\* extract_data, where Copied says what it finds.
LEMMA Extracted ==
  ASSUME Copied, extract_data \/ UNCHANGED data, UNCHANGED <<request, apm_enabled>>,
         apm_enabled => InRequest /\ InRequest'
  PROVE  Copied'
<1>1. CASE initialized \/ UNCHANGED data
  BY <1>1 DEF Copied, extract_data, data, InRequest
<1>2. CASE ~initialized /\ extract_data
  <2>1. initialized' /\ request_data' = Append(request_data, request)
    BY <1>2 DEF extract_data
  <2>2. apm_enabled => request_data = <<>> BY <1>2 DEF Copied
  <2>3. Append(<<>>, request) = <<request>> OBVIOUS
  <2> QED BY <2>1, <2>2, <2>3 DEF Copied, InRequest
<1> QED BY <1>1, <1>2

LEMMA CopiedKept ==
  ASSUME Copied, Hooks, UNCHANGED <<lifecycle, data>>, stack' = stack \/ ~apm_enabled \/ InRequest,
         \/ phase' = phase
         \/ phase = "script" /\ phase' = "ending"
         \/ phase = "closing" /\ phase' = "idle"
  PROVE  Copied'
BY DEF Copied, InRequest, lifecycle, data

LEMMA CopiedNext == Copied /\ Hooks /\ Dispatched /\ [Next]_vars => Copied'
<1> SUFFICES ASSUME Copied, Hooks, Dispatched, [Next]_vars PROVE Copied'
  OBVIOUS
<1>1. CASE Minit
  BY <1>1 DEF Minit, Copied, InRequest
<1>2. CASE Rinit
  BY <1>2 DEF Rinit, Copied, InRequest
<1>3. CASE Mshutdown
  BY <1>3 DEF Mshutdown, Copied, InRequest
<1>4. ASSUME NEW level \in Levels, RaiseError(level) PROVE Copied'
  <2>1. CASE apm_enabled /\ phase = "idle"
    <3>1. zend_error_cb = "engine" BY <2>1 DEF Hooks
    <3>2. level \notin Fatal BY <1>4, <2>1 DEF RaiseError
    <3>3. UNCHANGED stack BY <1>4, <3>1 DEF RaiseError, RaiseEvent
    <3>4. phase' = phase BY <1>4, <3>2 DEF RaiseError
    <3> QED BY <1>4, <3>3, <3>4, CopiedKept DEF RaiseError
  <2>2. CASE ~apm_enabled \/ phase # "idle"
    <3>1. /\ phase \in {"startup", "script", "ending", "idle"} /\ UNCHANGED <<lifecycle, data>>
          /\ phase' = phase \/ (phase = "script" /\ phase' = "ending")
      BY <1>4 DEF RaiseError, CanRaise
    <3> QED BY <2>2, <3>1 DEF Copied, InRequest, lifecycle, data
  <2> QED BY <2>1, <2>2
<1>5. CASE Throw
  <2>1. phase = "script" /\ phase' = phase /\ UNCHANGED <<lifecycle, data>>
    BY <1>5 DEF Throw, Running
  <2> QED BY <2>1, CopiedKept DEF InRequest
<1>6. CASE Catch
  BY <1>6, CopiedKept DEF Catch, cursors
<1>7. CASE Uncaught
  <2>1. phase = "script" /\ phase' \in {phase, "ending"} /\ UNCHANGED <<lifecycle, data>>
    BY <1>7 DEF Uncaught
  <2> QED BY <2>1, CopiedKept DEF InRequest
<1>8. CASE BeginSilence
  BY <1>8, CopiedKept DEF BeginSilence, cursors
<1>9. CASE EndSilence
  BY <1>9, CopiedKept DEF EndSilence, cursors
<1>10. CASE SwitchEvents
  BY <1>10, CopiedKept DEF SwitchEvents, cursors
<1>11. ASSUME NEW d \in RuntimeSwitch, SwitchDriver(d) PROVE Copied'
  BY <1>11, CopiedKept DEF SwitchDriver, cursors
<1>12. CASE Tick
  BY <1>12, CopiedKept DEF Tick, cursors
<1>13. CASE ScriptEnd
  BY <1>13, CopiedKept DEF ScriptEnd, cursors, Running
<1>14. CASE Deliver
  <2>1. /\ stack # <<>> /\ phase' = phase /\ UNCHANGED lifecycle
        /\ extract_data \/ UNCHANGED data
    BY <1>14 DEF Deliver, Dispatching
  <2>2. phase \notin {"loaded", "flush", "drivers", "closing", "down"}
    BY <2>1 DEF Dispatched, Activations
  <2>3. phase = "startup" \/ (apm_enabled => InRequest /\ InRequest')
    BY <2>1, <2>2 DEF Copied, InRequest, Dispatched, Typed, TypeOK
  <2>4. phase = "startup" => Copied' BY <2>1 DEF Copied, InRequest
  <2> QED BY <2>1, <2>3, <2>4, Extracted DEF lifecycle
<1>15. CASE Complain
  <2>1. /\ stack # <<>> /\ phase' = phase /\ UNCHANGED lifecycle
        /\ extract_data \/ UNCHANGED data
    BY <1>15 DEF Complain, Dispatching
  <2>2. phase \notin {"loaded", "flush", "drivers", "closing", "down"}
    BY <2>1 DEF Dispatched, Activations
  <2>3. phase = "startup" \/ (apm_enabled => InRequest /\ InRequest')
    BY <2>1, <2>2 DEF Copied, InRequest, Dispatched, Typed, TypeOK
  <2>4. phase = "startup" => Copied' BY <2>1 DEF Copied, InRequest
  <2> QED BY <2>1, <2>3, <2>4, Extracted DEF lifecycle
<1>16. CASE Return
  <2>1. /\ stack # <<>> /\ UNCHANGED <<lifecycle, data>>
        /\ phase' = IF Current.type \in Fatal THEN "ending" ELSE phase
    BY <1>16 DEF Return
  <2>2. Current.type \in Fatal => phase = "script"
    <3>1. 1 \in DOMAIN stack
      BY <2>1, EmptySeq, LenProperties DEF Dispatched, Typed, TypeOK, Frames
    <3> QED BY <3>1 DEF Dispatched, Activations, Current, Top
  <2>3. apm_enabled => phase \notin {"closing", "idle"} BY <2>1 DEF Copied
  <2> QED BY <2>1, <2>2, <2>3 DEF Copied, InRequest, lifecycle, data
<1>17. CASE RshutdownBegin
  BY <1>17 DEF RshutdownBegin, Copied, InRequest, data
<1>18. CASE RshutdownStats
  <2>1. /\ phase = "stats" /\ phase' \in {"stats", "flush"} /\ UNCHANGED lifecycle
        /\ extract_data \/ UNCHANGED data
    BY <1>18 DEF RshutdownStats, ProcessStats, data
  <2> QED BY <2>1, Extracted DEF InRequest, lifecycle
<1>19. CASE RshutdownElasticsearch
  <2>1. /\ phase = "flush" /\ phase' = "drivers" /\ UNCHANGED lifecycle
        /\ extract_data \/ UNCHANGED data
    BY <1>19 DEF RshutdownElasticsearch, data
  <2> QED BY <2>1, Extracted DEF InRequest, lifecycle
<1>20. CASE RshutdownDrivers
  BY <1>20 DEF RshutdownDrivers, Copied, InRequest, script, cursors, log, Dispatched, Activations
<1>21. CASE EndRequest
  BY <1>21, CopiedKept DEF EndRequest, cursors
<1>22. CASE ComplainStats
  <2>1. /\ phase = "stats" /\ phase' = phase /\ UNCHANGED lifecycle
        /\ extract_data \/ UNCHANGED data
    BY <1>22 DEF ComplainStats
  <2> QED BY <2>1, Extracted DEF InRequest, lifecycle
<1>23. CASE UNCHANGED vars
  BY <1>23, CopiedKept DEF vars, cursors
<1> QED
  BY <1>1, <1>2, <1>3, <1>4, <1>5, <1>6, <1>7, <1>8, <1>9, <1>10, <1>11, <1>12,
     <1>13, <1>14, <1>15, <1>16, <1>17, <1>18, <1>19, <1>20, <1>21, <1>22, <1>23
  DEF Next, Script, Dispatch, Shutdown, Terminated

\* What the drivers store as the request is this request's data, copied once, though
\* several of them ask for it, and an error before the first request may have, too.
THEOREM RequestDataIsFresh == Spec => []RequestDataFresh
<1>1. Copied => RequestDataFresh
  BY DEF Copied, RequestDataFresh
<1>2. Init => Copied BY DEF Init, Copied, InRequest
<1> QED
  BY <1>1, <1>2, CopiedNext, HooksInit, HooksNext, DispatchedInit, DispatchedNext, PTL DEF Spec

-----------------------------------------------------------------------------
(* Statistics *)

\* The rounds of the statistics loop, up to the cursor.
LEMMA AskedGrows ==
  ASSUME Typed, UNCHANGED settings, pos \in 1..Len(DriverList), pos' = pos + 1
  PROVE  Asked' = IF want_stats(DriverList[pos]) THEN Asked \union {DriverList[pos]} ELSE Asked
<1>1. \A d : want_stats(d)' = want_stats(d) BY DEF want_stats, settings
<1>2. \A j \in 1..Len(DriverList) : j < pos' <=> j < pos \/ j = pos
  BY RecorderFacts
<1> QED BY <1>1, <1>2 DEF Asked

LEMMA AllAsked ==
  ASSUME Typed, pos > Len(DriverList)
  PROVE  Asked = {d \in Drivers : want_stats(d)}
<1>1. \A j \in 1..Len(DriverList) : j < pos
  BY RecorderFacts DEF Typed, TypeOK
<1> QED BY <1>1 DEF Asked, Drivers

LEMMA TimedKept ==
  ASSUME Timed, UNCHANGED <<phase, begin_tp, started, apm_enabled, statted>>,
         UNCHANGED <<clock, pos, settings>> \/ phase \in {"script", "startup", "idle"},
         event_enabled' = event_enabled \/ phase = "script"
  PROVE  Timed'
<1>1. UNCHANGED <<clock, pos, settings>> => Due' = Due /\ Asked' = Asked
  BY DEF Due, Asked, want_stats, settings
<1> QED BY <1>1 DEF Timed, InRequest

LEMMA TimedNext ==
  ASSUME EventEnabled PROVE Timed /\ Typed /\ Dispatched /\ [Next]_vars => Timed'
<1> SUFFICES ASSUME Timed, Typed, Dispatched, [Next]_vars PROVE Timed'
  OBVIOUS
<1> USE DEF lifecycle, timing, settings, calls, cursors
<1>1. CASE Minit
  BY <1>1 DEF Minit, Timed, InRequest
<1>2. CASE Rinit
  BY <1>2 DEF Rinit, Timed, InRequest
<1>3. CASE Mshutdown
  BY <1>3 DEF Mshutdown, Timed, InRequest
<1>4. ASSUME NEW level \in Levels, RaiseError(level) PROVE Timed'
  <2>1. /\ UNCHANGED <<begin_tp, started, apm_enabled, statted, clock, pos, settings>>
        /\ phase' = phase \/ (phase = "script" /\ phase' = "ending")
    BY <1>4 DEF RaiseError
  <2> QED BY <2>1, TimedKept DEF Timed, InRequest
<1>5. CASE Throw
  BY <1>5, TimedKept DEF Throw
<1>6. CASE Catch
  BY <1>6, TimedKept DEF Catch
<1>7. CASE Uncaught
  <2>1. /\ UNCHANGED <<begin_tp, started, apm_enabled, statted, clock, pos, settings>>
        /\ phase' = phase \/ (phase = "script" /\ phase' = "ending")
    BY <1>7 DEF Uncaught
  <2> QED BY <2>1, TimedKept DEF Timed, InRequest
<1>8. CASE BeginSilence
  BY <1>8, TimedKept DEF BeginSilence, Running
<1>9. CASE EndSilence
  BY <1>9, TimedKept DEF EndSilence, Running
<1>10. CASE SwitchEvents
  BY <1>10, TimedKept DEF SwitchEvents, Running
<1>11. ASSUME NEW d \in RuntimeSwitch, SwitchDriver(d) PROVE Timed'
  BY <1>11, TimedKept DEF SwitchDriver, Running
<1>12. CASE Tick
  BY <1>12, TimedKept DEF Tick
<1>13. CASE ScriptEnd
  BY <1>13 DEF ScriptEnd, Running, Timed, InRequest
<1>14. CASE Deliver
  BY <1>14, TimedKept DEF Deliver
<1>15. CASE Complain
  BY <1>15, TimedKept DEF Complain
<1>16. CASE Return
  <2>1. /\ UNCHANGED <<begin_tp, started, apm_enabled, statted, clock, pos, settings>>
        /\ phase' = phase \/ (phase = "script" /\ phase' = "ending")
    <3>1. stack # <<>> /\ 1 \in DOMAIN stack
      BY <1>16, EmptySeq, LenProperties DEF Return, Typed, TypeOK, Frames
    <3>2. Current.type \in Fatal => phase = "script"
      BY <3>1 DEF Dispatched, Activations, Current, Top
    <3> QED BY <1>16, <3>2 DEF Return
  <2> QED BY <2>1, TimedKept DEF Timed, InRequest
<1>17. CASE RshutdownBegin
  <2>1. /\ phase = "ending" /\ UNCHANGED <<settings, begin_tp, started, apm_enabled, statted, clock>>
        /\ Due' = Due /\ (apm_enabled => begin_tp = started /\ statted = {})
    BY <1>17 DEF RshutdownBegin, Timed, InRequest, Due, want_stats
  <2>2. CASE ~apm_enabled
    BY <1>17, <2>1, <2>2 DEF RshutdownBegin, Timed, InRequest
  <2>3. CASE apm_enabled /\ \E d \in Drivers : want_stats(d)
    <3>1. /\ pos' = 1 /\ duration' = clock - started
          /\ phase' = IF clock - started > Threshold THEN "stats" ELSE "flush"
      BY <1>17, <2>1, <2>3 DEF RshutdownBegin, Slow
    <3>2. Asked' = {} BY <3>1, RecorderFacts DEF Asked
    <3>3. ~(clock - started > Threshold) => Due = {} BY DEF Due
    <3> QED BY <2>1, <2>3, <3>1, <3>2, <3>3 DEF Timed, InRequest
  <2>4. CASE apm_enabled /\ ~\E d \in Drivers : want_stats(d)
    <3>1. phase' = "flush" BY <1>17, <2>4 DEF RshutdownBegin
    <3>2. Due = {} BY <2>4 DEF Due
    <3> QED BY <2>1, <2>4, <3>1, <3>2 DEF Timed, InRequest
  <2> QED BY <2>2, <2>3, <2>4
<1>18. CASE RshutdownStats
  <2>1. /\ phase = "stats" /\ UNCHANGED <<settings, begin_tp, started, apm_enabled, clock>>
        /\ Due' = Due
    BY <1>18 DEF RshutdownStats, Due, want_stats
  <2>2. CASE pos <= Len(DriverList)
    <3>1. pos \in 1..Len(DriverList) /\ pos' = pos + 1 /\ phase' = phase
      BY <1>18, <2>2, RecorderFacts DEF RshutdownStats, Typed, TypeOK
    <3>2. statted' = IF want_stats(DriverList[pos]) THEN statted \union {DriverList[pos]} ELSE statted
      BY <1>18, <2>2 DEF RshutdownStats, ProcessStats
    <3>3. DriverList[pos] \in Drivers BY <3>1, RecorderFacts
    <3>4. Asked' = IF want_stats(DriverList[pos]) THEN Asked \union {DriverList[pos]} ELSE Asked
      BY <2>1, <3>1, AskedGrows
    <3> QED BY <2>1, <3>1, <3>2, <3>3, <3>4 DEF Timed, InRequest
  <2>3. CASE ~(pos <= Len(DriverList))
    <3>1. phase' = "flush" /\ statted' = statted
      BY <1>18, <2>3 DEF RshutdownStats
    <3>2. pos > Len(DriverList) BY <2>3, RecorderFacts DEF Typed, TypeOK
    <3>3. apm_enabled => statted \intersect Drivers = Due
      BY <2>1, <3>2, AllAsked DEF Timed, Due
    <3> QED BY <2>1, <3>1, <3>3 DEF Timed, InRequest
  <2> QED BY <2>2, <2>3
<1>19. CASE RshutdownElasticsearch
  <2>1. /\ phase = "flush" /\ phase' = "drivers"
        /\ UNCHANGED <<settings, begin_tp, started, apm_enabled, clock>>
        /\ Due' = Due /\ statted' \in {statted, statted \union {"elasticsearch"}}
    BY <1>19, Zenon DEF RshutdownElasticsearch, Due, want_stats
  <2>2. "elasticsearch" \notin Drivers BY CoreAssumption
  <2>3. statted' \intersect Drivers = statted \intersect Drivers BY <2>1, <2>2
  <2> QED BY <2>1, <2>3 DEF Timed, InRequest
<1>20. CASE RshutdownDrivers
  <2>1. /\ phase = "drivers" /\ phase' = "closing"
        /\ UNCHANGED <<settings, apm_enabled, clock, statted, started>>
        /\ Due' = Due
    BY <1>20 DEF RshutdownDrivers, Due, want_stats
  <2> QED BY <2>1 DEF Timed, InRequest
<1>21. CASE EndRequest
  BY <1>21 DEF EndRequest, Timed, InRequest
<1>22. CASE ComplainStats
  BY <1>22, TimedKept DEF ComplainStats
<1>23. CASE UNCHANGED vars
  BY <1>23, TimedKept DEF vars
<1> QED
  BY <1>1, <1>2, <1>3, <1>4, <1>5, <1>6, <1>7, <1>8, <1>9, <1>10, <1>11, <1>12,
     <1>13, <1>14, <1>15, <1>16, <1>17, <1>18, <1>19, <1>20, <1>21, <1>22, <1>23
  DEF Next, Script, Dispatch, Shutdown, Terminated

\* A driver gets the statistics of a request exactly when it wants statistics and
\* the request took longer than the threshold, with any drivers and any settings
\* per host, as long as php.ini leaves apm.event_enabled on (rinit takes the time
\* only then).
THEOREM StatsWhenSlow == ASSUME EventEnabled PROVE Spec => []StatsExactlyWhenSlow
<1>1. Timed => StatsExactlyWhenSlow
  BY DEF Timed, StatsExactlyWhenSlow, Due
<1>2. Init => Timed BY DEF Init, Timed, InRequest
<1> QED
  BY <1>1, <1>2, TimedNext, TypesInit, TypesNext, DispatchedInit, DispatchedNext, PTL DEF Spec

-----------------------------------------------------------------------------
(* What the stores are given *)

\* An exception is thrown once, and uncaught once.
Numbered ==
  /\ \A i \in Ids :
       /\ raised[i].exception <= exceptions
       /\ raised[i].kind = "error" =>
            raised[i].uncaught = (UncaughtPrefix /\ raised[i].exception # NoException)
  /\ \A i, j \in Ids :
       /\ raised[i].exception # NoException /\ raised[i].exception = raised[j].exception
       /\ raised[i].kind = raised[j].kind
       => i = j
  /\ exception <= exceptions
  /\ exception # NoException =>
       \A i \in Ids : raised[i].kind = "error" => raised[i].exception # exception
  /\ phase \in {"loaded", "startup", "idle", "down"} => exception = NoException

\* The cursor of process_event's loop: what is ahead of it was not given the event,
\* so nothing is given one twice.
Recorded ==
  /\ \A r \in Recorders : Values(recorded[r]) \subseteq Ids /\ Injective(recorded[r])
  /\ \A k \in DOMAIN stack : \A m \in stack[k].next..Len(RecorderList) :
       stack[k].id \notin Values(recorded[RecorderList[m]])
  /\ \A k \in DOMAIN stack : stack[k].next >= 1

\* What a driver is given of an exception is what its mode says.
Moded ==
  \A d \in Drivers : \A i \in Values(recorded[d]) :
    raised[i].exception # NoException =>
      /\ ExceptionMode[d] # 0
      /\ raised[i].kind = (IF ExceptionMode[d] = 1 THEN "error" ELSE "exception")

Logs == {recorded[r] : r \in Recorders} \union {forwarded}

-----------------------------------------------------------------------------
(* How a step changes the events, the activations and the logs *)

Quiet == UNCHANGED <<raised, stack, forwarded, recorded>>
Cleared == /\ raised' = <<>> /\ stack' = <<>> /\ forwarded' = <<>>
           /\ recorded' = [r \in Recorders |-> <<>>]
RaisedNow(e) ==
  /\ raised' = Append(raised, e) /\ UNCHANGED recorded
  /\ \/ stack' = <<Frame(Len(raised'), FirstRecorder)>> \o stack /\ UNCHANGED forwarded
     \/ UNCHANGED stack /\ forwarded' \in {forwarded, Append(forwarded, Len(raised'))}

LEMMA RaiseIsRaised ==
  ASSUME NEW e, RaiseEvent(e), UNCHANGED recorded PROVE RaisedNow(e)
<1>1. CASE zend_error_cb = "apm" BY <1>1 DEF RaiseEvent, RaisedNow
<1>2. CASE zend_error_cb # "apm" BY <1>2 DEF RaiseEvent, RaisedNow
<1> QED BY <1>1, <1>2

LEMMA ThrowIsRaised ==
  ASSUME Typed, Throw PROVE RaisedNow(AnException(exception'))
<1>1. /\ raised' = Append(raised, AnException(exception'))
      /\ stack = <<>> /\ UNCHANGED <<forwarded, recorded>>
  BY DEF Throw, Running
<1>2. stack' = <<Frame(Len(raised'), FirstRecorder)>> \/ stack' = <<>>
  BY DEF Throw
<1>3. Frame(Len(raised'), FirstRecorder) \in Frames
  <2>1. <<>> \in Seq(Event) /\ raised \in Seq(Event) BY DEF Typed, TypeOK
  <2>2. exception' \in Nat /\ AnException(exception') \in Event
    BY DEF Throw, Typed, TypeOK, AnException, Event, Watched, NoException
  <2>3. Len(raised') \in Nat
    BY <1>1, <2>1, <2>2, AppendProperties, LenProperties
  <2> QED BY <2>3, RecorderFacts DEF Frame, Frames, FirstRecorder
<1>4. <<Frame(Len(raised'), FirstRecorder)>> \o <<>> = <<Frame(Len(raised'), FirstRecorder)>>
  BY <1>3, ConcatEmptySeq
<1> QED BY <1>1, <1>2, <1>4 DEF RaisedNow

\* The events a step may raise, and what it needs for that.
Uncaughts == AnError("E_ERROR", UncaughtPrefix, exception, FALSE)

LEMMA EventSteps ==
  ASSUME Typed, [Next]_vars
  PROVE  \/ Quiet
         \/ Cleared
         \/ \E level \in Levels : RaiseError(level) /\ RaisedNow(PlainError(level))
         \/ Throw /\ RaisedNow(AnException(exception'))
         \/ Uncaught /\ RaisedNow(Uncaughts)
         \/ Complain /\ RaisedNow(PlainError("E_CORE_WARNING"))
         \/ ComplainStats /\ RaisedNow(PlainError("E_CORE_WARNING"))
         \/ Deliver
         \/ Return
<1> USE DEF Quiet, cursors, log
<1>1. Minit => Quiet BY DEF Minit
<1>2. Rinit => Cleared BY DEF Rinit, Cleared
<1>3. Mshutdown => Quiet BY DEF Mshutdown
<1>4. \A level \in Levels : RaiseError(level) => RaisedNow(PlainError(level))
  BY RaiseIsRaised DEF RaiseError
<1>5. Throw => RaisedNow(AnException(exception')) BY ThrowIsRaised
<1>6. Catch => Quiet BY DEF Catch
<1>7. Uncaught => RaisedNow(Uncaughts) BY RaiseIsRaised DEF Uncaught, Uncaughts
<1>8. BeginSilence \/ EndSilence => Quiet BY DEF BeginSilence, EndSilence
<1>9. SwitchEvents => Quiet BY DEF SwitchEvents
<1>10. \A d \in RuntimeSwitch : SwitchDriver(d) => Quiet BY DEF SwitchDriver
<1>11. Tick \/ ScriptEnd => Quiet BY DEF Tick, ScriptEnd
<1>12. Complain => RaisedNow(PlainError("E_CORE_WARNING")) BY RaiseIsRaised DEF Complain
<1>13. ComplainStats => RaisedNow(PlainError("E_CORE_WARNING"))
  BY RaiseIsRaised DEF ComplainStats
<1>14. RshutdownBegin => Quiet BY DEF RshutdownBegin
<1>15. RshutdownStats => Quiet BY DEF RshutdownStats
<1>16. RshutdownElasticsearch => Quiet BY DEF RshutdownElasticsearch
<1>17. RshutdownDrivers \/ EndRequest => Quiet BY DEF RshutdownDrivers, EndRequest
<1>18. UNCHANGED vars => Quiet BY DEF vars
<1> QED
  BY <1>1, <1>2, <1>3, <1>4, <1>5, <1>6, <1>7, <1>8, <1>9, <1>10, <1>11, <1>12, <1>13,
     <1>14, <1>15, <1>16, <1>17, <1>18
  DEF Next, Script, Dispatch, Shutdown, Terminated

LEMMA RecordersDiffer ==
  \A m, n \in 1..Len(RecorderList) : RecorderList[m] = RecorderList[n] => m = n
<1> DEFINE S == Drivers \union {"elasticsearch"}
<1>1. DriverList \in Seq(S) /\ "elasticsearch" \in S
  BY CoreAssumption, SeqMonotonic
<1>2. /\ Len(RecorderList) = Len(DriverList) + 1 /\ Len(DriverList) \in Nat
      /\ \A i \in 1..Len(DriverList) : RecorderList[i] = DriverList[i]
      /\ RecorderList[Len(DriverList) + 1] = "elasticsearch"
  <2> HIDE DEF S
  <2> QED BY <1>1, AppendProperties, LenProperties DEF RecorderList
<1>3. \A i \in 1..Len(DriverList) : DriverList[i] # "elasticsearch"
  BY CoreAssumption, RecorderFacts
<1>4. \A i, j \in 1..Len(DriverList) : DriverList[i] = DriverList[j] => i = j
  BY CoreAssumption
<1> SUFFICES ASSUME NEW m \in 1..Len(RecorderList), NEW n \in 1..Len(RecorderList),
                    RecorderList[m] = RecorderList[n]
             PROVE  m = n
  OBVIOUS
<1>5. \A i \in 1..Len(RecorderList) : i \in 1..Len(DriverList) \/ i = Len(DriverList) + 1
  BY <1>2
<1> QED BY <1>2, <1>3, <1>4, <1>5

\* Which events and activations there are after one was raised.
LEMMA RaisedFacts ==
  ASSUME Dispatched, NEW e \in Event, RaisedNow(e)
  PROVE  LET n == Len(raised') IN
         /\ n \in Nat /\ n \notin Ids /\ Ids' = Ids \union {n} /\ raised'[n] = e
         /\ \A i \in Ids : raised'[i] = raised[i]
         /\ n \notin IdsOf(stack)
         /\ \A k \in DOMAIN stack' :
              \/ k = 1 /\ stack'[k] = Frame(n, FirstRecorder) /\ stack' # stack
              \/ \E l \in DOMAIN stack : stack'[k] = stack[l] /\ (k = l \/ k = l + 1)
         /\ forwarded' = forwarded \/ forwarded' = Append(forwarded, n)
<1> DEFINE n == Len(raised')
<1>1. /\ n \in Nat /\ n \notin Ids /\ Ids' = Ids \union {n} /\ raised'[n] = e
      /\ \A i \in Ids : raised'[i] = raised[i]
  <2>1. raised' = Append(raised, e) BY DEF RaisedNow
  <2>2. n = Len(raised) + 1 /\ Len(raised) \in Nat BY <2>1, OneMoreEvent
  <2>3. n \notin Ids /\ Ids' = Ids \union {n} BY <2>1, OneMoreEvent
  <2>4. raised'[n] = e /\ \A i \in Ids : raised'[i] = raised[i] BY <2>1, OneMoreEvent
  <2> QED BY <2>2, <2>3, <2>4
<1>2. n \notin IdsOf(stack) BY <1>1 DEF Dispatched, Activations
<1>3. forwarded' = forwarded \/ forwarded' = Append(forwarded, n) BY DEF RaisedNow
<1>4. ASSUME NEW k \in DOMAIN stack'
      PROVE  \/ k = 1 /\ stack'[k] = Frame(n, FirstRecorder) /\ stack' # stack
             \/ \E l \in DOMAIN stack : stack'[k] = stack[l] /\ (k = l \/ k = l + 1)
  <2>1. CASE UNCHANGED stack BY <1>4, <2>1
  <2>2. CASE stack' = <<Frame(n, FirstRecorder)>> \o stack
    <3> DEFINE f == Frame(n, FirstRecorder)
    <3>1. stack \in Seq(Frames) BY DEF Dispatched, Typed, TypeOK, Frames
    <3>2. f \in Frames BY <1>1, RecorderFacts DEF Frame, Frames, FirstRecorder
    <3> HIDE DEF f
    <3>3. /\ Len(stack') = Len(stack) + 1 /\ DOMAIN stack' = 1..Len(stack) + 1
          /\ stack'[1] = f /\ \A j \in 1..Len(stack) : stack'[j + 1] = stack[j]
      BY <2>2, <3>1, <3>2, PushFrame DEF f
    <3>4. Len(stack) \in Nat /\ DOMAIN stack = 1..Len(stack) BY <3>1, LenProperties
    <3> DEFINE m == Len(stack)
    <3>a. m \in Nat /\ Len(stack') = m + 1 BY <3>3, <3>4
    <3>5. stack' # stack
      <4> HIDE DEF m
      <4>1. m + 1 # m BY ONLY <3>a
      <4>2. Len(stack') # m BY ONLY <3>a, <4>1
      <4> QED BY ONLY <4>2, Zenon DEF m
    <3>6. CASE k = 1 BY <3>3, <3>5, <3>6 DEF f
    <3>7. CASE k # 1
      <4>1. k \in 1..m + 1 BY <1>4, <3>3
      <4>2. k - 1 \in 1..m /\ (k - 1) + 1 = k
        <5> HIDE DEF m
        <5> QED BY ONLY <3>a, <3>7, <4>1
      <4>3. stack'[(k - 1) + 1] = stack[k - 1]
        <5>1. \A j \in 1..m : stack'[j + 1] = stack[j] BY ONLY <3>3
        <5> HIDE DEF m
        <5> QED BY ONLY <4>2, <5>1
      <4>4. stack'[k] = stack[k - 1] BY ONLY <4>2, <4>3
      <4> QED BY <3>4, <4>2, <4>4
    <3> QED BY <3>6, <3>7
  <2> QED BY <2>1, <2>2 DEF RaisedNow
<1> QED BY <1>1, <1>2, <1>3, <1>4

\* One round of the loop.
LEMMA DeliverFacts ==
  ASSUME Dispatched, Recorded, Deliver
  PROVE  LET n == stack[1].next r == RecorderList[n] IN
         /\ stack # <<>> /\ 1 \in DOMAIN stack /\ DOMAIN stack' = DOMAIN stack
         /\ stack'[1] = Frame(stack[1].id, n + 1) /\ stack' # <<>>
         /\ \A k \in DOMAIN stack : k # 1 => stack'[k] = stack[k]
         /\ \A k \in DOMAIN stack : stack'[k].id = stack[k].id
         /\ n \in 1..Len(RecorderList) /\ r \in Recorders
         /\ stack[1].id \in Ids /\ stack[1].id \in Nat
         /\ UNCHANGED <<raised, forwarded, phase>>
         /\ recorded' = IF Wanted(r, raised[stack[1].id])
                          THEN [recorded EXCEPT ![r] = Append(recorded[r], stack[1].id)]
                          ELSE recorded
<1>1. stack \in Seq(Frames) /\ stack # <<>> /\ stack[1].next < Done
      /\ stack' = <<Frame(stack[1].id, stack[1].next + 1)>> \o Pop
      /\ UNCHANGED <<raised, forwarded, phase>>
      /\ recorded' = IF Wanted(RecorderList[stack[1].next], raised[stack[1].id])
                       THEN [recorded EXCEPT ![RecorderList[stack[1].next]] =
                              Append(recorded[RecorderList[stack[1].next]], stack[1].id)]
                       ELSE recorded
  BY DEF Deliver, Dispatching, Record, Top, Current, Dispatched, Typed, TypeOK, Frames
<1>2. Len(stack) \in Nat \ {0} /\ DOMAIN stack = 1..Len(stack) /\ 1 \in DOMAIN stack
  BY <1>1, EmptySeq, LenProperties
<1>3. stack[1] \in Frames /\ Pop \in Seq(Frames) BY <1>1, TopTypes DEF Dispatched, Top
<1> DEFINE f == Frame(stack[1].id, stack[1].next + 1)
<1>4. f \in Frames BY <1>3 DEF Frame, Frames
<1>5. f.id = stack[1].id BY DEF Frame
<1> HIDE DEF f
<1>6. /\ Len(stack') = Len(Pop) + 1 /\ DOMAIN stack' = 1..Len(Pop) + 1
      /\ stack'[1] = f /\ \A k \in 1..Len(Pop) : stack'[k + 1] = Pop[k]
  BY <1>1, <1>3, <1>4, PushFrame DEF f
<1>7. /\ Len(Pop) = Len(stack) - 1
      /\ \A k \in 1..Len(stack) - 1 : Pop[k] = stack[k + 1]
  BY <1>1, PopFrame DEF Pop
<1>8. DOMAIN stack' = DOMAIN stack BY <1>2, <1>6, <1>7
<1>9. \A k \in DOMAIN stack : k # 1 => stack'[k] = stack[k]
  <2> SUFFICES ASSUME NEW k \in 1..Len(stack), k # 1 PROVE stack'[k] = stack[k]
    BY <1>2
  <2>1. k - 1 \in 1..Len(stack) - 1 /\ (k - 1) + 1 = k BY <1>2
  <2> QED BY <1>6, <1>7, <2>1
<1>10. \A k \in DOMAIN stack : stack'[k].id = stack[k].id
  <2>1. stack'[1].id = stack[1].id BY <1>5, <1>6
  <2> QED BY ONLY <1>9, <2>1, Zenon
<1>11. stack[1].next \in 1..Len(RecorderList)
  <2>1. stack[1].next >= 1 BY <1>2 DEF Recorded
  <2>2. stack[1].next \in Nat BY <1>3 DEF Frames
  <2>3. stack[1].next < Len(RecorderList) + 1 BY <1>1 DEF Done
  <2>4. Len(RecorderList) \in Nat BY RecorderFacts
  <2> QED BY ONLY <2>1, <2>2, <2>3, <2>4
<1>12. RecorderList[stack[1].next] \in Recorders BY <1>11, RecorderFacts
<1>13. stack[1].id \in Ids /\ stack[1].id \in Nat
  BY <1>2, <1>3 DEF Dispatched, Activations, IdsOf, Frames
<1>14. stack' # <<>>
  <2>1. DOMAIN <<>> = {} OBVIOUS
  <2> QED BY <1>2, <1>8, <2>1
<1> QED BY <1>1, <1>2, <1>6, <1>8, <1>9, <1>10, <1>11, <1>12, <1>13, <1>14 DEF f

\* The innermost activation returns.
LEMMA ReturnFacts ==
  ASSUME Dispatched, Return
  PROVE  /\ stack # <<>> /\ 1 \in DOMAIN stack /\ UNCHANGED <<raised, recorded>>
         /\ \A k \in DOMAIN stack' : k + 1 \in DOMAIN stack /\ stack'[k] = stack[k + 1]
         /\ \A k \in DOMAIN stack : k # 1 => \E l \in DOMAIN stack' : stack'[l] = stack[k]
         /\ stack[1].id \in Ids /\ stack[1].id \in Nat /\ stack[1].next = Done
         /\ stack[1].id \notin Values(forwarded) /\ stack[1].id \notin IdsOf(stack')
         /\ forwarded' = forwarded \/ forwarded' = Append(forwarded, stack[1].id)
<1>1. stack \in Seq(Frames) /\ stack # <<>> /\ stack' = Pop /\ stack[1].next = Done
      /\ UNCHANGED <<raised, recorded>>
  BY DEF Return, Top, Dispatched, Typed, TypeOK, Frames
<1>2. Len(stack) \in Nat \ {0} /\ DOMAIN stack = 1..Len(stack) /\ 1 \in DOMAIN stack
  BY <1>1, EmptySeq, LenProperties
<1>3. /\ DOMAIN Pop = 1..Len(stack) - 1
      /\ \A k \in 1..Len(stack) - 1 : Pop[k] = stack[k + 1]
      /\ stack[1].id \notin IdsOf(Pop)
  BY <1>1, PopFrame DEF Pop, Dispatched, Activations
<1>4. \A k \in DOMAIN stack' : k + 1 \in DOMAIN stack /\ stack'[k] = stack[k + 1]
  BY <1>1, <1>2, <1>3
<1>5. \A k \in DOMAIN stack : k # 1 => \E l \in DOMAIN stack' : stack'[l] = stack[k]
  <2> SUFFICES ASSUME NEW k \in 1..Len(stack), k # 1
               PROVE  \E l \in DOMAIN stack' : stack'[l] = stack[k]
    BY <1>2
  <2>1. k - 1 \in 1..Len(stack) - 1 /\ (k - 1) + 1 = k BY <1>2
  <2> QED BY <1>1, <1>3, <2>1
<1>6. stack[1].id \in IdsOf(stack) BY <1>2 DEF IdsOf
<1>7. stack[1].id \in Ids /\ stack[1].id \in Nat
  BY <1>1, <1>6, TopTypes DEF Dispatched, Activations, Frames, Top
<1>8. stack[1].id \notin Values(forwarded) BY <1>6 DEF Dispatched, Handed
<1>9. forwarded' = forwarded \/ forwarded' = Append(forwarded, stack[1].id)
  BY DEF Return, Top
<1> QED BY <1>1, <1>2, <1>3, <1>4, <1>5, <1>7, <1>8, <1>9

\* What is raised is an event, and no step changes the logs but these.
LEMMA StepKinds ==
  ASSUME Typed, [Next]_vars
  PROVE  Quiet \/ Cleared \/ (\E e \in Event : RaisedNow(e)) \/ Deliver \/ Return
<1>1. \A level \in Levels : PlainError(level) \in Event BY EventTypes
<1>2. "E_CORE_WARNING" \in Levels /\ "E_ERROR" \in Levels BY DEF Levels, Fatal
<1>3. Throw => AnException(exception') \in Event
  <2>1. Throw => exception' \in Nat BY DEF Throw, Typed, TypeOK
  <2> QED BY <1>2, <2>1, EventTypes
<1>4. Uncaughts \in Event
  <2>1. UncaughtPrefix \in BOOLEAN /\ exception \in Nat BY CoreAssumption DEF Typed, TypeOK
  <2> QED BY <1>2, <2>1, EventTypes DEF Uncaughts
<1> HIDE DEF Uncaughts
<1> QED BY <1>1, <1>2, <1>3, <1>4, EventSteps

LEMMA RecordedInit == Init => Recorded
<1> SUFFICES ASSUME Init PROVE Recorded
  OBVIOUS
<1>1. DOMAIN <<>> = {} OBVIOUS
<1>2. stack = <<>> /\ \A r \in Recorders : recorded[r] = <<>> BY Zenon DEF Init
<1> QED BY <1>1, <1>2 DEF Recorded, Values, Injective

LEMMA RecordedNext == Recorded /\ Dispatched /\ [Next]_vars => Recorded'
<1> SUFFICES ASSUME Recorded, Dispatched, [Next]_vars PROVE Recorded'
  OBVIOUS
<1>1. CASE Quiet
  BY <1>1 DEF Quiet, Recorded, Ids, Values, Injective
<1>2. CASE Cleared
  <2>1. DOMAIN <<>> = {} OBVIOUS
  <2>2. stack' = <<>> /\ \A r \in Recorders : recorded'[r] = <<>> BY <1>2 DEF Cleared
  <2> QED BY <2>1, <2>2 DEF Recorded, Values, Injective
<1>3. ASSUME NEW e \in Event, RaisedNow(e) PROVE Recorded'
  <2> DEFINE n == Len(raised')
  <2>1. /\ n \notin Ids /\ Ids' = Ids \union {n}
        /\ \A k \in DOMAIN stack' :
             \/ k = 1 /\ stack'[k] = Frame(n, FirstRecorder)
             \/ \E l \in DOMAIN stack : stack'[k] = stack[l]
    BY <1>3, RaisedFacts
  <2>2. recorded' = recorded BY <1>3 DEF RaisedNow
  <2> HIDE DEF n
  <2>3. Frame(n, FirstRecorder).id = n /\ Frame(n, FirstRecorder).next >= 1
    BY RecorderFacts DEF Frame, FirstRecorder, Done
  <2>4. \A r \in Recorders : n \notin Values(recorded[r]) BY <2>1 DEF Recorded
  <2>5. \A m \in 1..Len(RecorderList) : RecorderList[m] \in Recorders BY RecorderFacts
  <2>6. \A k \in DOMAIN stack' : stack'[k].next >= 1
    BY <2>1, <2>3 DEF Recorded
  <2>7. ASSUME NEW k \in DOMAIN stack', NEW m \in stack'[k].next..Len(RecorderList)
        PROVE  stack'[k].id \notin Values(recorded[RecorderList[m]])
    <3>1. CASE stack'[k] = Frame(n, FirstRecorder)
      <4>1. m \in 1..Len(RecorderList)
        BY <2>3, <2>7, <3>1, RecorderFacts DEF Frame, FirstRecorder, Done
      <4> QED BY <2>3, <2>4, <2>5, <3>1, <4>1
    <3>2. CASE \E l \in DOMAIN stack : stack'[k] = stack[l]
      BY <2>7, <3>2 DEF Recorded
    <3> QED BY <2>1, <3>1, <3>2
  <2>8. \A r \in Recorders : Values(recorded[r]) \subseteq Ids' /\ Injective(recorded[r])
    BY <2>1 DEF Recorded
  <2> QED BY <2>2, <2>6, <2>7, <2>8 DEF Recorded
<1>4. CASE Deliver
  <2> DEFINE n == stack[1].next r == RecorderList[n] id == stack[1].id
  <2>1. /\ 1 \in DOMAIN stack /\ DOMAIN stack' = DOMAIN stack
        /\ stack'[1] = Frame(id, n + 1) /\ UNCHANGED raised
        /\ \A k \in DOMAIN stack : k # 1 => stack'[k] = stack[k]
        /\ n \in 1..Len(RecorderList) /\ r \in Recorders /\ id \in Ids /\ id \in Nat
        /\ recorded' = IF Wanted(r, raised[id])
                         THEN [recorded EXCEPT ![r] = Append(recorded[r], id)] ELSE recorded
    BY <1>4, DeliverFacts
  <2>2. id \notin Values(recorded[r])
    <3>1. n \in n..Len(RecorderList) BY <2>1
    <3> QED BY <2>1, <3>1 DEF Recorded
  <2>3. recorded \in [Recorders -> Seq(Nat)] BY DEF Dispatched, Typed, TypeOK
  <2>4. \A k \in DOMAIN stack : k # 1 => stack[k].id # id
    BY <2>1 DEF Dispatched, Activations, Distinct
  <2>5. Ids' = Ids BY <2>1 DEF Ids
  <2>6. Frame(id, n + 1).id = id /\ Frame(id, n + 1).next = n + 1 BY DEF Frame
  <2> HIDE DEF n, r, id
  <2>7. \A k \in DOMAIN stack' : stack'[k].next >= 1
    BY <2>1, <2>6 DEF Recorded
  <2>8. /\ Values(Append(recorded[r], id)) = Values(recorded[r]) \union {id}
        /\ Injective(Append(recorded[r], id))
    BY <2>1, <2>2, <2>3, AppendNumber DEF Recorded
  <2>9. \A q \in Recorders : recorded'[q] = recorded[q] \/ (q = r /\ recorded'[q] = Append(recorded[r], id))
    BY <2>1, <2>3
  <2>10. \A q \in Recorders : /\ Values(recorded'[q]) \subseteq Ids /\ Injective(recorded'[q])
                              /\ \A i : i \in Values(recorded'[q]) =>
                                   i \in Values(recorded[q]) \/ (q = r /\ i = id)
    BY <2>1, <2>8, <2>9 DEF Recorded
  <2>11. ASSUME NEW k \in DOMAIN stack', NEW m \in stack'[k].next..Len(RecorderList)
         PROVE  stack'[k].id \notin Values(recorded'[RecorderList[m]])
    <3>1. CASE k = 1
      <4>1. m \in 1..Len(RecorderList) /\ m \in n..Len(RecorderList) /\ m # n
        BY <2>1, <2>6, <2>11, <3>1, RecorderFacts
      <4>2. RecorderList[m] # r /\ RecorderList[m] \in Recorders
        BY <2>1, <4>1, RecordersDiffer, RecorderFacts DEF r
      <4>3. id \notin Values(recorded[RecorderList[m]])
        BY <2>1, <4>1 DEF Recorded, id, n
      <4> QED BY <2>1, <2>6, <2>10, <3>1, <4>2, <4>3
    <3>2. CASE k # 1
      <4>1. stack'[k] = stack[k] /\ k \in DOMAIN stack BY <2>1, <2>11, <3>2
      <4>2. stack[k].next \in Nat /\ stack[k].next >= 1
        <5>1. stack \in Seq(Frames) BY DEF Dispatched, Typed, TypeOK, Frames
        <5>2. k \in 1..Len(stack) BY <4>1, <5>1, LenProperties
        <5>3. stack[k] \in Frames BY <5>1, <5>2, ElementOfSeq
        <5> QED BY <4>1, <5>3 DEF Recorded, Frames
      <4>3. m \in 1..Len(RecorderList) BY <2>11, <4>1, <4>2, RecorderFacts
      <4>4. stack[k].id \notin Values(recorded[RecorderList[m]])
        BY <2>11, <4>1 DEF Recorded
      <4> QED BY <2>4, <2>10, <3>2, <4>1, <4>3, <4>4, RecorderFacts
    <3> QED BY <3>1, <3>2
  <2> QED BY <2>5, <2>7, <2>10, <2>11 DEF Recorded
<1>5. CASE Return
  <2>1. /\ UNCHANGED <<raised, recorded>>
        /\ \A k \in DOMAIN stack' : k + 1 \in DOMAIN stack /\ stack'[k] = stack[k + 1]
    BY <1>5, ReturnFacts
  <2> QED BY <2>1 DEF Recorded, Ids
<1> QED BY <1>1, <1>2, <1>3, <1>4, <1>5, StepKinds DEF Dispatched

\* No recorder is given an event twice, for any drivers, errors about errors and
\* settings: the loop over the recorders of an event is past those that have it.
THEOREM RecordersAreGivenOnce == Spec => []GivenOnce
<1>1. Recorded => GivenOnce BY DEF Recorded, Injective, GivenOnce
<1> QED BY <1>1, RecordedInit, RecordedNext, DispatchedInit, DispatchedNext, PTL DEF Spec

\* No step but these changes the events, or the exceptions thrown.
LEMMA NumberedKept ==
  ASSUME Numbered, UNCHANGED <<raised, exceptions>>, exception' \in {exception, NoException},
         phase' \in {"startup", "idle", "down"} => phase' = phase \/ exception' = NoException,
         phase' # "loaded" \/ phase' = phase, Typed
  PROVE  Numbered'
<1>1. NoException <= exceptions BY DEF Typed, TypeOK, NoException
<1> QED BY <1>1 DEF Numbered, Ids

\* One more event: a plain error, or one of an exception it is the first of its kind for.
LEMMA NumberedRaised ==
  ASSUME Numbered, Dispatched, NEW e \in Event, RaisedNow(e),
         exceptions' >= exceptions, exceptions' \in Nat, e.exception <= exceptions',
         exception' <= exceptions',
         e.kind = "error" => e.uncaught = (UncaughtPrefix /\ e.exception # NoException),
         e.exception # NoException =>
           \A i \in Ids : raised[i].kind = e.kind => raised[i].exception # e.exception,
         exception' # NoException =>
           /\ e.kind = "error" => e.exception # exception'
           /\ \A i \in Ids : raised[i].kind = "error" => raised[i].exception # exception',
         phase' \in {"loaded", "startup", "idle", "down"} => exception' = NoException
  PROVE  Numbered'
<1> DEFINE n == Len(raised')
<1>1. /\ n \notin Ids /\ Ids' = Ids \union {n} /\ raised'[n] = e
      /\ \A i \in Ids : raised'[i] = raised[i]
  BY RaisedFacts
<1> HIDE DEF n
<1>2. \A i \in Ids : raised[i] \in Event
  BY ElementOfSeq DEF Dispatched, Typed, TypeOK, Ids
<1>3. \A i \in Ids : raised[i].exception <= exceptions'
  <2>1. exceptions \in Nat BY DEF Dispatched, Typed, TypeOK
  <2> SUFFICES ASSUME NEW i \in Ids PROVE raised[i].exception <= exceptions'
    OBVIOUS
  <2>2. raised[i].exception \in Nat BY <1>2 DEF Event
  <2>3. raised[i].exception <= exceptions BY DEF Numbered
  <2> QED BY <2>1, <2>2, <2>3
<1>4. \A i \in Ids' :
        /\ raised'[i].exception <= exceptions'
        /\ raised'[i].kind = "error" =>
             raised'[i].uncaught = (UncaughtPrefix /\ raised'[i].exception # NoException)
  BY <1>1, <1>3 DEF Numbered
<1>5. ASSUME NEW i \in Ids', NEW j \in Ids', raised'[i].exception # NoException,
             raised'[i].exception = raised'[j].exception, raised'[i].kind = raised'[j].kind
      PROVE  i = j
  BY <1>1, <1>5 DEF Numbered
<1>6. exception' # NoException =>
        \A i \in Ids' : raised'[i].kind = "error" => raised'[i].exception # exception'
  BY <1>1
<1> QED BY <1>4, <1>5, <1>6 DEF Numbered

LEMMA NumberedPlain ==
  ASSUME Numbered, Dispatched, NEW level \in Levels, RaisedNow(PlainError(level)),
         UNCHANGED <<exception, exceptions>>, phase' \in {phase, "ending"}
  PROVE  Numbered'
<1> DEFINE e == PlainError(level)
<1>1. e \in Event BY EventTypes DEF Dispatched
<1>2. e.exception = NoException /\ e.kind = "error" /\ e.uncaught = FALSE
  BY DEF PlainError, AnError
<1>3. exceptions \in Nat /\ NoException <= exceptions
  BY DEF Dispatched, Typed, TypeOK, NoException
<1>4. exception # NoException =>
        \A i \in Ids : raised[i].kind = "error" => raised[i].exception # exception
  BY DEF Numbered
<1>5. RaisedNow(e) OBVIOUS
<1> HIDE DEF e
<1>6. exception <= exceptions /\ exceptions >= exceptions BY <1>3 DEF Numbered
<1>7. phase' \in {"loaded", "startup", "idle", "down"} => exception = NoException
  BY DEF Numbered
<1> QED BY <1>1, <1>2, <1>3, <1>4, <1>5, <1>6, <1>7, NumberedRaised

LEMMA NumberedInit == Init => Numbered
<1> SUFFICES ASSUME Init PROVE Numbered
  OBVIOUS
<1>1. raised = <<>> /\ exception = 0 /\ exceptions = 0 BY Zenon DEF Init, NoException
<1>2. Len(<<>>) = 0 OBVIOUS
<1>3. Ids = {} BY <1>1, <1>2 DEF Ids
<1> QED BY <1>1, <1>3 DEF Numbered, NoException

LEMMA NumberedNext == Numbered /\ Dispatched /\ [Next]_vars => Numbered'
<1> SUFFICES ASSUME Numbered, Dispatched, [Next]_vars PROVE Numbered'
  OBVIOUS
<1> USE DEF cursors, log, script, settings
<1>0. Typed BY DEF Dispatched
<1>a. phase \in {"loaded", "startup", "idle", "down"} => exception = NoException
  BY DEF Numbered
<1>1. CASE Minit
  BY <1>0, <1>a, <1>1, NumberedKept DEF Minit
<1>2. CASE Rinit
  <2>1. /\ raised' = <<>> /\ exception' = NoException /\ exceptions' = 0 /\ phase' = "script"
    BY <1>a, <1>2, Zenon DEF Rinit
  <2>2. Len(<<>>) = 0 OBVIOUS
  <2>3. Ids' = {} BY <2>1, <2>2 DEF Ids
  <2> QED BY <2>1, <2>3 DEF Numbered, NoException
<1>3. CASE Mshutdown
  BY <1>0, <1>a, <1>3, NumberedKept DEF Mshutdown
<1>4. ASSUME NEW level \in Levels, RaiseError(level) PROVE Numbered'
  <2>1. RaisedNow(PlainError(level)) BY <1>4, RaiseIsRaised DEF RaiseError
  <2>2. UNCHANGED <<exception, exceptions>> /\ phase' \in {phase, "ending"}
    BY <1>4 DEF RaiseError
  <2> QED BY <2>1, <2>2, NumberedPlain
<1>5. CASE Throw
  <2> DEFINE e == AnException(exception')
  <2>1. /\ exceptions' = exceptions + 1 /\ exception' = exceptions' /\ phase = "script"
        /\ phase' = phase
    BY <1>5 DEF Throw, Running
  <2>2. exceptions \in Nat BY <1>0 DEF Typed, TypeOK
  <2>3. e.exception = exception' /\ e.kind = "exception" BY DEF AnException
  <2>4. "E_ERROR" \in Levels /\ exception' \in Nat BY <2>1, <2>2 DEF Levels, Fatal
  <2>5. e \in Event BY <1>0, <2>4, EventTypes
  <2>6. RaisedNow(e) BY <1>0, <1>5, ThrowIsRaised
  <2> HIDE DEF e
  <2>7. \A i \in Ids : raised[i].exception # exceptions'
    <3> SUFFICES ASSUME NEW i \in Ids PROVE raised[i].exception # exceptions'
      OBVIOUS
    <3>1. raised[i] \in Event BY <1>0, ElementOfSeq DEF Typed, TypeOK, Ids
    <3>2. raised[i].exception \in Nat BY <3>1 DEF Event
    <3>3. raised[i].exception <= exceptions BY DEF Numbered
    <3> QED BY <2>1, <2>2, <3>2, <3>3
  <2>8. exceptions' \in Nat /\ exceptions' >= exceptions /\ exception' <= exceptions'
        /\ exception' # NoException
    BY <2>1, <2>2 DEF NoException
  <2> QED BY <2>1, <2>3, <2>5, <2>6, <2>7, <2>8, NumberedRaised
<1>6. CASE Catch
  BY <1>0, <1>6, NumberedKept DEF Catch
<1>7. CASE Uncaught
  <2>1. /\ exception' = NoException /\ exception # NoException /\ exceptions' = exceptions
        /\ phase' \in {"script", "ending"}
    BY <1>7 DEF Uncaught
  <2>2. /\ Uncaughts.exception = exception /\ Uncaughts.kind = "error"
        /\ Uncaughts.uncaught = UncaughtPrefix
    BY DEF Uncaughts, AnError
  <2>3. UncaughtPrefix \in BOOLEAN /\ exception \in Nat /\ "E_ERROR" \in Levels
    BY <1>0, CoreAssumption DEF Typed, TypeOK, Levels, Fatal
  <2>4. Uncaughts \in Event BY <1>0, <2>3, EventTypes DEF Uncaughts
  <2>5. RaisedNow(Uncaughts) BY <1>7, RaiseIsRaised DEF Uncaught, Uncaughts
  <2>6. exceptions \in Nat /\ NoException <= exceptions
    BY <1>0 DEF Typed, TypeOK, NoException
  <2>7. exception <= exceptions /\ exceptions >= exceptions BY <2>6 DEF Numbered
  <2>8. \A i \in Ids : raised[i].kind = "error" => raised[i].exception # exception
    BY <2>1 DEF Numbered
  <2>9. Uncaughts.uncaught = (UncaughtPrefix /\ Uncaughts.exception # NoException)
    BY <2>1, <2>2, <2>3, Zenon
  <2> QED BY <2>1, <2>2, <2>4, <2>5, <2>6, <2>7, <2>8, <2>9, NumberedRaised
<1>8. CASE BeginSilence BY <1>0, <1>8, NumberedKept DEF BeginSilence, Running
<1>9. CASE EndSilence BY <1>0, <1>9, NumberedKept DEF EndSilence, Running
<1>10. CASE SwitchEvents BY <1>0, <1>10, NumberedKept DEF SwitchEvents
<1>11. ASSUME NEW d \in RuntimeSwitch, SwitchDriver(d) PROVE Numbered'
  BY <1>0, <1>11, NumberedKept DEF SwitchDriver
<1>12. CASE Tick BY <1>0, <1>12, NumberedKept DEF Tick
<1>13. CASE ScriptEnd BY <1>0, <1>13, NumberedKept DEF ScriptEnd
<1>14. CASE Deliver BY <1>0, <1>14, NumberedKept DEF Deliver
<1>15. CASE Complain
  <2>1. RaisedNow(PlainError("E_CORE_WARNING")) BY <1>15, RaiseIsRaised DEF Complain
  <2>2. UNCHANGED <<exception, exceptions>> /\ phase' = phase /\ "E_CORE_WARNING" \in Levels
    BY <1>15 DEF Complain, Levels
  <2> QED BY <2>1, <2>2, NumberedPlain
<1>16. CASE Return BY <1>0, <1>16, NumberedKept DEF Return
<1>17. CASE RshutdownBegin BY <1>0, <1>17, NumberedKept DEF RshutdownBegin
<1>18. CASE RshutdownStats BY <1>0, <1>18, NumberedKept DEF RshutdownStats
<1>19. CASE RshutdownElasticsearch BY <1>0, <1>19, NumberedKept DEF RshutdownElasticsearch
<1>20. CASE RshutdownDrivers BY <1>0, <1>20, NumberedKept DEF RshutdownDrivers
<1>21. CASE EndRequest BY <1>0, <1>21, NumberedKept DEF EndRequest
<1>22. CASE ComplainStats
  <2>1. RaisedNow(PlainError("E_CORE_WARNING")) BY <1>22, RaiseIsRaised DEF ComplainStats
  <2>2. UNCHANGED <<exception, exceptions>> /\ phase' = phase /\ "E_CORE_WARNING" \in Levels
    BY <1>22 DEF ComplainStats, Levels
  <2> QED BY <2>1, <2>2, NumberedPlain
<1>23. CASE UNCHANGED vars BY <1>0, <1>23, NumberedKept DEF vars
<1> QED
  BY <1>1, <1>2, <1>3, <1>4, <1>5, <1>6, <1>7, <1>8, <1>9, <1>10, <1>11, <1>12,
     <1>13, <1>14, <1>15, <1>16, <1>17, <1>18, <1>19, <1>20, <1>21, <1>22, <1>23
  DEF Next, Script, Dispatch, Shutdown, Terminated

\* What a step adds to the logs of the drivers: the event that is worked on, to one.
LEMMA Additions ==
  ASSUME Dispatched, Recorded, [Next]_vars, NEW d \in Recorders, NEW i \in Values(recorded'[d])
  PROVE  /\ i \in Ids /\ raised'[i] = raised[i] /\ ~Cleared
         /\ \/ i \in Values(recorded[d])
            \/ /\ Deliver /\ d = RecorderList[stack[1].next] /\ i = stack[1].id
               /\ Wanted(d, raised[i])
<1>1. CASE Quiet \/ Return
  <2>1. UNCHANGED <<raised, recorded>> BY <1>1, ReturnFacts DEF Quiet
  <2>2. i \in Values(recorded[d]) BY <2>1 DEF Values
  <2>3. ~Cleared
    <3>1. DOMAIN <<>> = {} OBVIOUS
    <3>2. Cleared => recorded'[d] = <<>> BY DEF Cleared
    <3> QED BY <3>1, <3>2 DEF Values
  <2> QED BY <2>1, <2>2, <2>3 DEF Recorded
<1>2. ~Cleared
  <2>1. DOMAIN <<>> = {} OBVIOUS
  <2>2. Cleared => recorded'[d] = <<>> BY DEF Cleared
  <2> QED BY <2>1, <2>2 DEF Values
<1>3. ASSUME NEW e \in Event, RaisedNow(e) PROVE i \in Values(recorded[d]) /\ raised'[i] = raised[i]
  <2>1. recorded' = recorded BY <1>3 DEF RaisedNow
  <2>2. i \in Values(recorded[d]) BY <2>1 DEF Values
  <2>3. i \in Ids BY <2>2 DEF Recorded
  <2> QED BY <1>3, <2>2, <2>3, RaisedFacts
<1>4. CASE Deliver
  <2> DEFINE n == stack[1].next r == RecorderList[n] id == stack[1].id
  <2>1. /\ UNCHANGED raised /\ r \in Recorders /\ id \in Ids /\ id \in Nat
        /\ recorded' = IF Wanted(r, raised[id])
                         THEN [recorded EXCEPT ![r] = Append(recorded[r], id)] ELSE recorded
    BY <1>4, DeliverFacts
  <2>2. recorded \in [Recorders -> Seq(Nat)] BY DEF Dispatched, Typed, TypeOK
  <2> HIDE DEF n, r, id
  <2>3. Values(Append(recorded[r], id)) = Values(recorded[r]) \union {id}
    BY <2>1, <2>2, AppendNumber
  <2>4. CASE Wanted(r, raised[id]) /\ d = r
    <3>1. recorded'[d] = Append(recorded[r], id) BY <2>1, <2>2, <2>4
    <3>2. i \in Values(recorded[d]) \/ i = id BY <2>3, <2>4, <3>1
    <3>3. i \in Ids BY <2>1, <3>2 DEF Recorded
    <3> QED BY <1>2, <1>4, <2>1, <2>4, <3>2, <3>3 DEF r, n, id
  <2>5. CASE ~(Wanted(r, raised[id]) /\ d = r)
    <3>1. recorded'[d] = recorded[d] BY <2>1, <2>2, <2>5
    <3>2. i \in Values(recorded[d]) BY <3>1
    <3> QED BY <1>2, <2>1, <3>2 DEF Recorded
  <2> QED BY <2>4, <2>5
<1>5. i \in Values(recorded[d]) => i \in Ids BY DEF Recorded
<1> QED BY <1>1, <1>2, <1>3, <1>4, <1>5, StepKinds DEF Dispatched

LEMMA ModedNext ==
  ASSUME UncaughtPrefix
  PROVE  Moded /\ Numbered /\ Recorded /\ Dispatched /\ [Next]_vars => Moded'
<1> SUFFICES ASSUME Moded, Numbered, Recorded, Dispatched, [Next]_vars,
                    NEW d \in Drivers, NEW i \in Values(recorded'[d]),
                    raised'[i].exception # NoException
             PROVE  /\ ExceptionMode[d] # 0
                    /\ raised'[i].kind = (IF ExceptionMode[d] = 1 THEN "error" ELSE "exception")
  BY DEF Moded
<1>1. d \in Recorders /\ d # "elasticsearch" BY CoreAssumption, RecorderFacts
<1>2. /\ i \in Ids /\ raised'[i] = raised[i]
      /\ i \in Values(recorded[d]) \/ Wanted(d, raised[i])
  BY <1>1, Additions
<1>3. CASE i \in Values(recorded[d]) BY <1>2, <1>3 DEF Moded
<1>4. CASE Wanted(d, raised[i])
  <2>1. want_event(d, raised[i]) BY <1>1, <1>4 DEF Wanted
  <2>2. raised[i].kind = "error" => raised[i].uncaught
    BY <1>2 DEF Numbered
  <2>3. \/ raised[i].kind = "exception" /\ ExceptionMode[d] = 2
        \/ raised[i].kind = "error" /\ ExceptionMode[d] = 1
    BY <2>1, <2>2 DEF want_event
  <2> QED BY <1>2, <2>3
<1> QED BY <1>2, <1>3, <1>4

\* A driver stores each exception at most once and in the form its exception_mode
\* says, with any drivers and any modes, as long as the engine words the error of an
\* uncaught exception the way want_event looks for (PHP 5).
THEOREM ExceptionsAsConfigured ==
  ASSUME UncaughtPrefix PROVE Spec => []ExceptionModeHonoured
<1>1. ASSUME Moded, Numbered, Recorded PROVE ExceptionModeHonoured
  <2> SUFFICES ASSUME NEW d \in Drivers, NEW i \in DOMAIN recorded[d],
                      raised[recorded[d][i]].exception # NoException,
                      NEW j \in DOMAIN recorded[d],
                      raised[recorded[d][j]].exception = raised[recorded[d][i]].exception
               PROVE  j = i
    <3>1. \A d \in Drivers : \A i \in DOMAIN recorded[d] : recorded[d][i] \in Values(recorded[d])
      BY DEF Values
    <3> QED BY <1>1, <3>1 DEF ExceptionModeHonoured, Moded
  <2>1. d \in Recorders BY RecorderFacts
  <2>2. recorded[d][i] \in Values(recorded[d]) /\ recorded[d][j] \in Values(recorded[d])
    BY DEF Values
  <2>3. recorded[d][i] \in Ids /\ recorded[d][j] \in Ids BY <1>1, <2>1, <2>2 DEF Recorded
  <2>4. raised[recorded[d][i]].kind = raised[recorded[d][j]].kind
    BY <1>1, <2>2 DEF Moded
  <2>5. recorded[d][i] = recorded[d][j] BY <1>1, <2>3, <2>4 DEF Numbered
  <2> QED BY <1>1, <2>1, <2>5 DEF Recorded, Injective
<1>2. Init => Moded
  <2> SUFFICES ASSUME Init PROVE Moded
    OBVIOUS
  <2>1. DOMAIN <<>> = {} OBVIOUS
  <2>2. \A d \in Drivers : recorded[d] = <<>> BY RecorderFacts, Zenon DEF Init
  <2> QED BY <2>1, <2>2 DEF Moded, Values
<1> QED
  BY <1>1, <1>2, ModedNext, NumberedInit, NumberedNext, RecordedInit, RecordedNext,
     DispatchedInit, DispatchedNext, PTL DEF Spec

-----------------------------------------------------------------------------
(* The order of the events *)

\* Two logs that hold what they share in the same order.
Agree(s, t) ==
  \A i, j \in Values(s) \intersect Values(t) : Precedes(s, i, j) => ~Precedes(t, j, i)
LastIn(s, n) == \A m \in DOMAIN s : s[m] = n => m = Len(s)

LEMMA AgreeSelf == ASSUME NEW s \in Seq(Nat), Injective(s) PROVE Agree(s, s)
<1> SUFFICES ASSUME NEW i, NEW j, Precedes(s, i, j), Precedes(s, j, i) PROVE FALSE
  BY DEF Agree
<1>1. DOMAIN s = 1..Len(s) /\ Len(s) \in Nat BY LenProperties
<1>2. PICK k \in DOMAIN s, l \in DOMAIN s : k < l /\ s[k] = i /\ s[l] = j BY DEF Precedes
<1>3. PICK p \in DOMAIN s, q \in DOMAIN s : p < q /\ s[p] = j /\ s[q] = i BY DEF Precedes
<1>4. p = l /\ q = k BY <1>2, <1>3 DEF Injective
<1>5. k \in Nat /\ l \in Nat BY <1>1
<1> QED BY <1>2, <1>3, <1>4, <1>5

\* A number is appended to one of two logs, and nothing follows it in the other.
LEMMA AgreeAppend ==
  ASSUME NEW s \in Seq(Nat), NEW t \in Seq(Nat), NEW n \in Nat, n \notin Values(s),
         Agree(s, t), LastIn(t, n)
  PROVE  Agree(Append(s, n), t) /\ Agree(t, Append(s, n))
<1> DEFINE u == Append(s, n)
<1>1. /\ u \in Seq(Nat) /\ Len(u) = Len(s) + 1 /\ u[Len(s) + 1] = n
      /\ \A i \in 1..Len(s) : u[i] = s[i]
  BY AppendProperties
<1>2. Values(u) = Values(s) \union {n} BY AppendNumber
<1> HIDE DEF u
<1>3. /\ Len(s) \in Nat /\ DOMAIN s = 1..Len(s) /\ DOMAIN u = 1..Len(s) + 1
      /\ Len(t) \in Nat /\ DOMAIN t = 1..Len(t)
  BY <1>1, LenProperties
<1>4. ASSUME NEW i, NEW j, Precedes(u, i, j) PROVE i # n /\ (j = n \/ Precedes(s, i, j))
  <2>1. PICK k \in DOMAIN u, l \in DOMAIN u : k < l /\ u[k] = i /\ u[l] = j
    BY <1>4 DEF Precedes
  <2>2. k \in 1..Len(s) /\ (l \in 1..Len(s) \/ l = Len(s) + 1) BY <1>3, <2>1
  <2>3. s[k] = i /\ i # n BY <1>1, <1>3, <2>1, <2>2 DEF Values
  <2>4. CASE l \in 1..Len(s) BY <1>1, <1>3, <2>1, <2>2, <2>3, <2>4 DEF Precedes
  <2>5. CASE l = Len(s) + 1 BY <1>1, <2>1, <2>3, <2>5
  <2> QED BY <2>2, <2>3, <2>4, <2>5
<1>5. ASSUME NEW i, NEW j, Precedes(t, i, j) PROVE i # n
  <2>1. PICK k \in DOMAIN t, l \in DOMAIN t : k < l /\ t[k] = i /\ t[l] = j
    BY <1>5 DEF Precedes
  <2>2. i = n => k = Len(t) BY <2>1 DEF LastIn
  <2>3. k # Len(t) BY <1>3, <2>1
  <2> QED BY <2>2, <2>3
<1>6. ASSUME NEW i \in Values(u) \intersect Values(t), NEW j \in Values(u) \intersect Values(t),
             Precedes(u, i, j), Precedes(t, j, i)
      PROVE  FALSE
  <2>1. i # n /\ j # n /\ Precedes(s, i, j) BY <1>4, <1>5, <1>6
  <2>2. i \in Values(s) \intersect Values(t) /\ j \in Values(s) \intersect Values(t)
    BY <1>2, <1>6, <2>1
  <2> QED BY <1>6, <2>1, <2>2 DEF Agree
<1>7. Agree(u, t) BY <1>6, Zenon DEF Agree
<1>8. Agree(t, u) BY <1>6, Zenon DEF Agree
<1> QED BY <1>7, <1>8 DEF u

\* One of the logs grows.
LEMMA LogsGrow ==
  ASSUME StoresAgreeOnOrder, NEW s \in Logs, NEW n \in Nat, n \notin Values(s),
         \A t \in Logs : t \in Seq(Nat) /\ LastIn(t, n), Injective(s),
         Logs' \subseteq Logs \union {Append(s, n)}
  PROVE  StoresAgreeOnOrder'
<1> DEFINE u == Append(s, n)
<1>1. \A t \in Logs : \A v \in Logs : Agree(t, v)
  BY Zenon DEF StoresAgreeOnOrder, Logs, Agree
<1>2. u \in Seq(Nat) /\ Injective(u) BY AppendNumber, AppendProperties
<1>3. Agree(u, u) BY <1>2, AgreeSelf
<1>4. \A t \in Logs : Agree(u, t) /\ Agree(t, u) BY <1>1, AgreeAppend
<1> HIDE DEF u
<1>5. Logs' \subseteq Logs \union {u} BY DEF u
<1>6. \A t \in Logs' : \A v \in Logs' : Agree(t, v) BY <1>1, <1>3, <1>4, <1>5
<1>7. \A t \in Logs' : \A v \in Logs' : \A i, j \in Values(t) \intersect Values(v) :
        Precedes(t, i, j) => ~Precedes(v, j, i)
  BY <1>6, Zenon DEF Agree
<1> QED BY <1>7, Zenon DEF StoresAgreeOnOrder, Logs

\* An event that waits below another is in no log yet, as only the first driver
\* complains; the one that is worked on is the last of every log it is in.
Ordered ==
  /\ StoresAgreeOnOrder
  /\ \A k \in DOMAIN stack : k # 1 => stack[k].next = 1
  /\ stack # <<>> => \A s \in Logs : LastIn(s, stack[1].id)

LEMMA LogTypes ==
  ASSUME Dispatched, Recorded
  PROVE  \A s \in Logs : s \in Seq(Nat) /\ Injective(s) /\ Values(s) \subseteq Ids
<1>1. \A r \in Recorders : recorded[r] \in Seq(Nat) BY DEF Dispatched, Typed, TypeOK
<1>2. forwarded \in Seq(Nat) /\ Injective(forwarded) /\ Values(forwarded) \subseteq Ids
  BY DEF Dispatched, Typed, TypeOK, Handed, Errors
<1> QED BY <1>1, <1>2 DEF Logs, Recorded

LEMMA LastAppended ==
  ASSUME NEW s \in Seq(Nat), NEW n \in Nat, n \notin Values(s)
  PROVE  LastIn(Append(s, n), n)
<1> DEFINE u == Append(s, n)
<1>1. /\ u \in Seq(Nat) /\ Len(u) = Len(s) + 1 /\ \A i \in 1..Len(s) : u[i] = s[i]
  BY AppendProperties
<1> HIDE DEF u
<1>2. Len(s) \in Nat /\ DOMAIN s = 1..Len(s) /\ DOMAIN u = 1..Len(s) + 1
  BY <1>1, LenProperties
<1>3. \A m \in 1..Len(s) : u[m] # n BY <1>1, <1>2 DEF Values
<1>4. LastIn(u, n) BY <1>1, <1>2, <1>3 DEF LastIn
<1> QED BY <1>4 DEF u

\* The error of a driver is raised in the first round of the loop.
LEMMA ComplainsFirst ==
  ASSUME Noisy \subseteq {DriverList[1]}, Dispatched, Recorded, Complain
  PROVE  stack[1].next = 1
<1>1. /\ stack # <<>> /\ stack[1].next < Done /\ RecorderList[stack[1].next] \in Noisy
  BY DEF Complain, Dispatching, Top
<1>2. stack[1].next \in Nat /\ stack[1].next >= 1
  <2>1. stack \in Seq(Frames) BY DEF Dispatched, Typed, TypeOK, Frames
  <2>2. 1 \in DOMAIN stack BY <1>1, <2>1, EmptySeq, LenProperties
  <2>3. stack[1] \in Frames BY <1>1, TopTypes DEF Dispatched, Top
  <2> QED BY <2>2, <2>3 DEF Recorded, Frames
<1>3. stack[1].next \in 1..Len(RecorderList) BY <1>1, <1>2, RecorderFacts DEF Done
<1>4. Noisy \subseteq Drivers BY CoreAssumption
<1>5. 1 \in 1..Len(DriverList) BY <1>1, <1>4, RecorderFacts DEF Drivers
<1>6. DriverList \in Seq(Recorders) /\ "elasticsearch" \in Recorders
  BY CoreAssumption, RecorderFacts, SeqMonotonic
<1>7. RecorderList[1] = DriverList[1] /\ 1 \in 1..Len(RecorderList)
  BY <1>5, <1>6, AppendProperties, RecorderFacts DEF RecorderList
<1>8. RecorderList[stack[1].next] = RecorderList[1] BY <1>1, <1>7
<1> QED BY <1>3, <1>7, <1>8, RecordersDiffer

LEMMA OrderedNext ==
  ASSUME Noisy \subseteq {DriverList[1]}
  PROVE  Ordered /\ Recorded /\ Dispatched /\ [Next]_vars => Ordered'
<1> SUFFICES ASSUME Ordered, Recorded, Dispatched, [Next]_vars PROVE Ordered'
  OBVIOUS
<1>a. Recorded' /\ Dispatched' BY RecordedNext, DispatchedNext
<1>b. ASSUME stack' # <<>> PROVE LastIn(forwarded', stack'[1].id)
  <2>1. stack' \in Seq(Frames) BY <1>a DEF Dispatched, Typed, TypeOK, Frames
  <2>2. 1 \in DOMAIN stack' BY <1>b, <2>1, EmptySeq, LenProperties
  <2>3. stack'[1].id \notin Values(forwarded')
    <3>1. stack'[1].id \in IdsOf(stack') BY <2>2 DEF IdsOf
    <3>2. Handed' BY <1>a DEF Dispatched
    <3> QED BY <3>1, <3>2 DEF Handed
  <2> QED BY <2>3 DEF LastIn, Values
<1>c. \A s \in Logs : s \in Seq(Nat) /\ Injective(s) /\ Values(s) \subseteq Ids BY LogTypes
<1>d. \A r \in Recorders : recorded[r] \in Logs BY DEF Logs
<1>e. forwarded \in Logs BY DEF Logs
<1>f. StoresAgreeOnOrder BY DEF Ordered
<1>1. CASE Quiet
  <2>1. Logs' = Logs BY <1>1 DEF Quiet, Logs
  <2>2. StoresAgreeOnOrder'
    BY <1>1, <1>f, Zenon DEF Quiet, StoresAgreeOnOrder
  <2> QED BY <1>1, <2>1, <2>2 DEF Quiet, Ordered
<1>2. CASE Cleared
  <2>1. DOMAIN <<>> = {} OBVIOUS
  <2>2. stack' = <<>> /\ \A s \in Logs' : s = <<>> BY <1>2 DEF Cleared, Logs
  <2>3. \A s \in Logs' : Values(s) = {} BY <2>1, <2>2 DEF Values
  <2>4. StoresAgreeOnOrder' BY <2>3, Zenon DEF StoresAgreeOnOrder, Logs
  <2> QED BY <2>1, <2>2, <2>4 DEF Ordered
<1>3. ASSUME NEW e \in Event, RaisedNow(e), stack = <<>> \/ stack[1].next = 1 PROVE Ordered'
  <2> DEFINE n == Len(raised')
  <2>1. /\ n \in Nat /\ n \notin Ids
        /\ \A k \in DOMAIN stack' :
             \/ k = 1 /\ stack'[k] = Frame(n, FirstRecorder)
             \/ \E l \in DOMAIN stack : stack'[k] = stack[l] /\ (k = l \/ k = l + 1)
        /\ forwarded' = forwarded \/ forwarded' = Append(forwarded, n)
    BY <1>3, RaisedFacts
  <2>2. recorded' = recorded BY <1>3 DEF RaisedNow
  <2> HIDE DEF n
  <2>3. \A s \in Logs : n \notin Values(s) BY <1>c, <2>1
  <2>4. \A s \in Logs : LastIn(s, n) BY <2>3 DEF LastIn, Values
  <2>5. Logs' \subseteq Logs \union {Append(forwarded, n)} BY <2>1, <2>2 DEF Logs
  <2>6. StoresAgreeOnOrder'
    BY <1>c, <1>e, <1>f, <2>1, <2>3, <2>4, <2>5, LogsGrow
  <2>7. \A k \in DOMAIN stack' : k # 1 => stack'[k].next = 1
    <3>1. DOMAIN <<>> = {} OBVIOUS
    <3>2. \A l \in DOMAIN stack : stack[l].next = 1 \/ l = 1 BY DEF Ordered
    <3>3. \A l \in DOMAIN stack : l = 1 => stack[l].next = 1 BY <1>3, <3>1
    <3> QED BY <2>1, <3>2, <3>3
  <2>8. ASSUME stack' # <<>>, NEW r \in Recorders PROVE LastIn(recorded'[r], stack'[1].id)
    <3>1. stack' \in Seq(Frames) BY <1>a DEF Dispatched, Typed, TypeOK, Frames
    <3>2. 1 \in DOMAIN stack' BY <2>8, <3>1, EmptySeq, LenProperties
    <3>3. CASE stack'[1] = Frame(n, FirstRecorder)
      BY <1>d, <2>2, <2>4, <3>3 DEF Frame
    <3>4. CASE \E l \in DOMAIN stack : stack'[1] = stack[l] /\ (1 = l \/ 1 = l + 1)
      <4>1. PICK l \in DOMAIN stack : stack'[1] = stack[l] /\ (1 = l \/ 1 = l + 1) BY <3>4
      <4>2. DOMAIN stack = 1..Len(stack) /\ Len(stack) \in Nat
        BY LenProperties DEF Dispatched, Typed, TypeOK, Frames
      <4>3. l = 1 /\ stack # <<>>
        <5>1. DOMAIN <<>> = {} OBVIOUS
        <5> QED BY <4>1, <4>2, <5>1
      <4> QED BY <1>d, <2>2, <4>1, <4>3 DEF Ordered
    <3> QED BY <2>1, <3>2, <3>3, <3>4
  <2> QED BY <1>b, <2>6, <2>7, <2>8 DEF Ordered, Logs
<1>4. CASE Deliver
  <2> DEFINE n == stack[1].next r == RecorderList[n] id == stack[1].id
  <2>1. /\ stack # <<>> /\ 1 \in DOMAIN stack /\ DOMAIN stack' = DOMAIN stack
        /\ stack'[1].id = id /\ UNCHANGED forwarded
        /\ \A k \in DOMAIN stack : k # 1 => stack'[k] = stack[k]
        /\ n \in 1..Len(RecorderList) /\ r \in Recorders /\ id \in Nat
        /\ recorded' = IF Wanted(r, raised[id])
                         THEN [recorded EXCEPT ![r] = Append(recorded[r], id)] ELSE recorded
    BY <1>4, DeliverFacts
  <2>2. id \notin Values(recorded[r])
    <3>1. n \in n..Len(RecorderList) BY <2>1
    <3> QED BY <2>1, <3>1 DEF Recorded
  <2>3. \A s \in Logs : LastIn(s, id) BY <2>1 DEF Ordered
  <2>4. recorded \in [Recorders -> Seq(Nat)] BY DEF Dispatched, Typed, TypeOK
  <2> HIDE DEF n, r, id
  <2>5. Logs' \subseteq Logs \union {Append(recorded[r], id)} BY <2>1, <2>4 DEF Logs
  <2>6. StoresAgreeOnOrder'
    <3>1. recorded[r] \in Logs BY <1>d, <2>1
    <3> QED BY <1>c, <1>f, <2>1, <2>2, <2>3, <2>5, <3>1, LogsGrow
  <2>7. LastIn(Append(recorded[r], id), id) BY <2>1, <2>2, <2>4, LastAppended
  <2> QED BY <2>1, <2>3, <2>5, <2>6, <2>7 DEF Ordered
<1>5. CASE Return
  <2>1. /\ stack # <<>> /\ stack[1].id \in Nat /\ UNCHANGED recorded
        /\ \A k \in DOMAIN stack' : k + 1 \in DOMAIN stack /\ stack'[k] = stack[k + 1]
        /\ stack[1].id \notin Values(forwarded)
        /\ forwarded' = forwarded \/ forwarded' = Append(forwarded, stack[1].id)
    BY <1>5, ReturnFacts
  <2>2. \A s \in Logs : LastIn(s, stack[1].id) BY <2>1 DEF Ordered
  <2>3. Logs' \subseteq Logs \union {Append(forwarded, stack[1].id)} BY <2>1 DEF Logs
  <2>4. StoresAgreeOnOrder'
    BY <1>c, <1>e, <1>f, <2>1, <2>2, <2>3, LogsGrow
  <2>5. \A k \in DOMAIN stack' : stack'[k].next = 1
    <3>1. stack' \in Seq(Frames) BY <1>a DEF Dispatched, Typed, TypeOK, Frames
    <3>2. \A k \in DOMAIN stack' : k + 1 # 1 BY <3>1, LenProperties
    <3> QED BY <2>1, <3>2 DEF Ordered
  <2>6. ASSUME stack' # <<>>, NEW r \in Recorders PROVE LastIn(recorded'[r], stack'[1].id)
    <3>1. stack' \in Seq(Frames) BY <1>a DEF Dispatched, Typed, TypeOK, Frames
    <3>2. 1 \in DOMAIN stack' BY <2>6, <3>1, EmptySeq, LenProperties
    <3>3. PICK m \in 1..Len(RecorderList) : RecorderList[m] = r
      BY DEF Recorders
    <3>4. m \in stack'[1].next..Len(RecorderList) BY <2>5, <3>2, <3>3
    <3>5. stack'[1].id \notin Values(recorded'[r]) BY <1>a, <3>2, <3>3, <3>4 DEF Recorded
    <3> QED BY <3>5 DEF LastIn, Values
  <2> QED BY <1>b, <2>4, <2>5, <2>6 DEF Ordered, Logs
<1>6. \/ Quiet \/ Cleared \/ Deliver \/ Return
      \/ \E e \in Event : RaisedNow(e) /\ (stack = <<>> \/ stack[1].next = 1)
  <2>1. \A level \in Levels : RaiseError(level) => stack = <<>> BY DEF RaiseError, CanRaise
  <2>2. (Throw => stack = <<>>) /\ (Uncaught => stack = <<>>) /\ (ComplainStats => stack = <<>>)
    BY DEF Throw, Running, Uncaught, ComplainStats
  <2>3. Complain => stack[1].next = 1 BY ComplainsFirst
  <2>4. \/ Quiet \/ Cleared \/ Deliver \/ Return \/ stack = <<>> \/ stack[1].next = 1
    BY <2>1, <2>2, <2>3, EventSteps DEF Dispatched
  <2> QED BY <2>4, StepKinds DEF Dispatched
<1> QED BY <1>1, <1>2, <1>3, <1>4, <1>5, <1>6

\* All the stores, and the engine's own log, hold the events they share in the same
\* order, with any drivers and any depth of nesting, as long as only the first driver
\* of the list raises errors of its own (in the code the sqlite3 driver is both).
THEOREM StoresAgree ==
  ASSUME Noisy \subseteq {DriverList[1]} PROVE Spec => []StoresAgreeOnOrder
<1>1. Init => Ordered
  <2> SUFFICES ASSUME Init PROVE Ordered
    OBVIOUS
  <2>1. DOMAIN <<>> = {} OBVIOUS
  <2>2. stack = <<>> /\ \A s \in Logs : s = <<>> BY Zenon DEF Init, Logs
  <2>3. \A s \in Logs : Values(s) = {} BY <2>1, <2>2 DEF Values
  <2>4. StoresAgreeOnOrder BY <2>3, Zenon DEF StoresAgreeOnOrder, Logs
  <2> QED BY <2>1, <2>2, <2>4 DEF Ordered
<1>2. Ordered => StoresAgreeOnOrder BY DEF Ordered
<1> QED
  BY <1>1, <1>2, OrderedNext, RecordedInit, RecordedNext, DispatchedInit, DispatchedNext,
     PTL DEF Spec

-----------------------------------------------------------------------------
(* Silenced events *)

\* What the flag can express: '@' operands that do not nest and are left through
\* END_SILENCE, and the same drivers from the start of the request to its end.
Plain == ~Unwinds /\ MaxSilence <= 1 /\ ActiveChoices = {TRUE} /\ RuntimeSwitch = {}

\* The flag follows the operator.
Flagged ==
  /\ apm_enabled /\ depth \in {0, 1} /\ (currently_silenced <=> depth = 1)
  /\ depth # 0 => phase = "script" /\ exception = NoException
  /\ phase = "loaded" => raised = <<>>

\* It does not change while an event is dispatched, and no fatal error is muted.
Muted ==
  /\ \A i \in Ids : raised[i].type \in Fatal => ~raised[i].muted
  /\ \A k \in DOMAIN stack : raised[stack[k].id].muted <=> depth = 1
  /\ \A d \in Drivers : \A i \in Values(recorded[d]) : raised[i].muted => d \in StoreSilenced

\* The drivers ahead of the cursor of an event, and those that are to store it: each
\* has stored it already, or is ahead.
Ahead(i) == {RecorderList[m] : m \in {n \in 1..Len(RecorderList) :
                \E k \in DOMAIN stack : stack[k].id = i /\ n >= stack[k].next}}
Expected(i) ==
  {d \in Drivers : /\ raised[i].kind = "error" /\ raised[i].exception = NoException
                   /\ raised[i].watched /\ ~raised[i].muted
                   /\ d \in enabled /\ raised[i].type \in ErrorReporting[d]}
Complete == \A i \in Ids : \A d \in Expected(i) : i \in Values(recorded[d]) \/ d \in Ahead(i)

LEMMA FlaggedInit == ASSUME Plain PROVE Init => Flagged
<1> SUFFICES ASSUME Init PROVE Flagged
  OBVIOUS
<1>1. apm_enabled = TRUE BY DEF Init, Plain
<1>2. currently_silenced = FALSE /\ depth = 0 /\ raised = <<>> BY Zenon DEF Init
<1> QED BY <1>1, <1>2 DEF Flagged

LEMMA FlaggedKept ==
  ASSUME Flagged, UNCHANGED <<apm_enabled, depth, currently_silenced>>, phase' # "loaded",
         depth # 0 => phase' = "script" /\ exception' = NoException
  PROVE  Flagged'
BY DEF Flagged

LEMMA FlaggedNext ==
  ASSUME Plain PROVE Flagged /\ Muted /\ Hooks /\ Dispatched /\ [Next]_vars => Flagged'
<1> SUFFICES ASSUME Flagged, Muted, Hooks, Dispatched, [Next]_vars PROVE Flagged'
  OBVIOUS
<1> USE DEF lifecycle, settings, script, cursors, log
<1>a. MaxSilence \in Nat /\ depth \in {0, 1} /\ apm_enabled BY CoreAssumption DEF Flagged
<1>b. depth # 0 => phase = "script" /\ exception = NoException BY DEF Flagged
<1>c. depth = 0 /\ depth' = 0 /\ UNCHANGED <<apm_enabled, currently_silenced>> /\ phase' # "loaded"
        => Flagged'
  BY DEF Flagged
<1>1. CASE Minit BY <1>1, <1>b, <1>a, <1>c DEF Minit
<1>2. CASE Rinit
  <2>1. apm_enabled' = TRUE BY <1>2 DEF Rinit, Plain
  <2>2. depth = 0 /\ UNCHANGED <<depth, currently_silenced>> /\ phase' = "script"
    BY <1>2, <1>a, <1>b DEF Rinit
  <2> QED BY <2>1, <2>2, <1>c, <1>a
<1>3. CASE Mshutdown BY <1>3, <1>a, <1>b, <1>c DEF Mshutdown
<1>4. ASSUME NEW level \in Levels, RaiseError(level) PROVE Flagged'
  <2>1. /\ UNCHANGED <<apm_enabled, depth, currently_silenced, exception>>
        /\ level \in Fatal => depth = 0
        /\ phase \in {"startup", "script", "ending", "idle"}
        /\ phase' = phase \/ (level \in Fatal /\ phase' = "ending")
    BY <1>4 DEF RaiseError, CanRaise, Plain
  <2> QED BY <2>1, <1>a, <1>b, FlaggedKept
<1>5. CASE Throw
  <2>1. depth = 0 /\ depth' = 0 /\ UNCHANGED <<apm_enabled, currently_silenced>> /\ phase' = "script"
    BY <1>5 DEF Throw, Running, Plain
  <2> QED BY <2>1, <1>c
<1>6. CASE Catch
  <2>1. /\ exception # NoException /\ depth' \in 0..depth /\ phase' = "script"
        /\ UNCHANGED <<apm_enabled, currently_silenced>>
    BY <1>6 DEF Catch
  <2>2. depth = 0 /\ depth' = 0
    <3>1. depth = 0 BY <2>1, <1>b
    <3> QED BY <2>1, <3>1
  <2> QED BY <2>1, <2>2, <1>c
<1>7. CASE Uncaught
  <2>1. /\ exception # NoException /\ depth' = 0 /\ phase' \in {"script", "ending"}
        /\ UNCHANGED <<apm_enabled, currently_silenced>>
    BY <1>7 DEF Uncaught
  <2> QED BY <2>1, <1>b, <1>c
<1>8. CASE BeginSilence
  <2>1. /\ depth < MaxSilence /\ depth' = depth + 1 /\ phase' = "script" /\ exception' = NoException
        /\ UNCHANGED apm_enabled
    BY <1>8 DEF BeginSilence, Running
  <2>2. silence_handler = "apm" BY <1>8, <1>a DEF BeginSilence, Running, Hooks
  <2>3. currently_silenced' = TRUE BY <1>8, <2>2, Zenon DEF BeginSilence
  <2>4. depth' = 1 BY <2>1, <1>a DEF Plain
  <2> QED BY <2>1, <2>3, <2>4, <1>a DEF Flagged
<1>9. CASE EndSilence
  <2>1. /\ depth > 0 /\ depth' = depth - 1 /\ phase' = "script" /\ UNCHANGED apm_enabled
    BY <1>9 DEF EndSilence, Running
  <2>2. silence_handler = "apm" BY <1>9, <1>a DEF EndSilence, Running, Hooks
  <2>3. currently_silenced' = FALSE BY <1>9, <2>2, Zenon DEF EndSilence
  <2>4. depth' = 0 BY <2>1, <1>a
  <2> QED BY <2>1, <2>3, <2>4, <1>a DEF Flagged
<1>10. CASE SwitchEvents BY <1>10, FlaggedKept DEF SwitchEvents, Running
<1>11. ASSUME NEW d \in RuntimeSwitch, SwitchDriver(d) PROVE Flagged'
  BY <1>11 DEF Plain
<1>12. CASE Tick BY <1>12, <1>b, FlaggedKept DEF Tick
<1>13. CASE ScriptEnd
  <2>1. depth = 0 /\ UNCHANGED <<depth, apm_enabled, currently_silenced>> /\ phase' = "ending"
    BY <1>13 DEF ScriptEnd, Running, Plain
  <2> QED BY <2>1, <1>c
<1>14. CASE Deliver
  <2>1. stack # <<>> /\ phase' = phase /\ UNCHANGED <<apm_enabled, depth, currently_silenced, exception>>
    BY <1>14 DEF Deliver, Dispatching
  <2> QED BY <2>1, <1>b, FlaggedKept DEF Dispatched, Activations
<1>15. CASE Complain
  <2>1. stack # <<>> /\ phase' = phase /\ UNCHANGED <<apm_enabled, depth, currently_silenced, exception>>
    BY <1>15 DEF Complain, Dispatching
  <2> QED BY <2>1, <1>b, FlaggedKept DEF Dispatched, Activations
<1>16. CASE Return
  <2>1. /\ stack # <<>> /\ UNCHANGED <<apm_enabled, depth, currently_silenced, exception>>
        /\ phase' = IF raised[stack[1].id].type \in Fatal THEN "ending" ELSE phase
    BY <1>16 DEF Return, Current, Top
  <2>2. 1 \in DOMAIN stack /\ stack[1].id \in Ids BY <1>16, ReturnFacts
  <2>3. raised[stack[1].id].type \in Fatal => depth = 0
    BY <2>2, <1>a, Zenon DEF Muted
  <2>4. phase # "loaded" BY <2>1 DEF Dispatched, Activations
  <2> QED BY <2>1, <2>3, <2>4, <1>b, FlaggedKept
<1>17. CASE RshutdownBegin
  <2>1. UNCHANGED <<depth, apm_enabled, currently_silenced>> /\ phase = "ending" /\ phase' # "loaded"
    BY <1>17 DEF RshutdownBegin
  <2> QED BY <2>1, <1>b, <1>c
<1>18. CASE RshutdownStats BY <1>18, <1>b, <1>c DEF RshutdownStats
<1>19. CASE RshutdownElasticsearch BY <1>19, <1>b, <1>c DEF RshutdownElasticsearch
<1>20. CASE RshutdownDrivers BY <1>20, <1>b, <1>c DEF RshutdownDrivers
<1>21. CASE EndRequest BY <1>21, <1>b, <1>c DEF EndRequest
<1>22. CASE ComplainStats BY <1>22, <1>b, <1>c DEF ComplainStats
<1>23. CASE UNCHANGED vars BY <1>23 DEF vars, Flagged
<1> QED
  BY <1>1, <1>2, <1>3, <1>4, <1>5, <1>6, <1>7, <1>8, <1>9, <1>10, <1>11, <1>12,
     <1>13, <1>14, <1>15, <1>16, <1>17, <1>18, <1>19, <1>20, <1>21, <1>22, <1>23
  DEF Next, Script, Dispatch, Shutdown, Terminated

\* '@' operands begin and end while no event is dispatched.
LEMMA DepthStands ==
  ASSUME Dispatched, [Next]_vars PROVE stack = <<>> \/ depth' = depth
<1> SUFFICES ASSUME stack # <<>> PROVE depth' = depth
  OBVIOUS
<1>1. phase \notin {"loaded", "flush", "drivers", "closing", "down"}
  BY DEF Dispatched, Activations
<1> USE DEF script
<1>2. ~Running BY DEF Running
<1>3. ~Minit /\ ~Rinit /\ ~Mshutdown BY <1>1 DEF Minit, Rinit, Mshutdown
<1>4. Script => FALSE
  BY <1>2 DEF Script, RaiseError, CanRaise, Throw, Catch, Uncaught, BeginSilence, EndSilence,
              SwitchEvents, SwitchDriver, Tick, ScriptEnd
<1>5. Deliver \/ Return \/ Complain \/ ComplainStats => depth' = depth
  BY DEF Deliver, Return, Complain, ComplainStats
<1>6. Shutdown => depth' = depth
  BY <1>1 DEF Shutdown, RshutdownBegin, RshutdownStats, RshutdownElasticsearch,
              RshutdownDrivers, EndRequest
<1>7. Terminated \/ UNCHANGED vars => depth' = depth BY DEF Terminated, vars
<1> QED BY <1>3, <1>4, <1>5, <1>6, <1>7 DEF Next, Dispatch

LEMMA MutedRaised ==
  ASSUME Muted, Recorded, Dispatched, NEW e \in Event, RaisedNow(e), e.muted <=> depth' = 1,
         e.type \in Fatal => ~e.muted, stack = <<>> \/ depth' = depth
  PROVE  Muted'
<1> DEFINE n == Len(raised')
<1>1. /\ n \notin Ids /\ Ids' = Ids \union {n} /\ raised'[n] = e
      /\ \A i \in Ids : raised'[i] = raised[i]
      /\ \A k \in DOMAIN stack' : stack'[k] = Frame(n, FirstRecorder)
                                  \/ \E l \in DOMAIN stack : stack'[k] = stack[l]
  BY RaisedFacts
<1>2. recorded' = recorded BY DEF RaisedNow
<1> HIDE DEF n
<1>3. \A i \in Ids' : raised'[i].type \in Fatal => ~raised'[i].muted
  BY <1>1, Zenon DEF Muted
<1>4. ASSUME NEW k \in DOMAIN stack' PROVE raised'[stack'[k].id].muted <=> depth' = 1
  <2>1. CASE stack'[k] = Frame(n, FirstRecorder)
    <3>1. stack'[k].id = n BY <2>1 DEF Frame
    <3> QED BY <1>1, <3>1, Zenon
  <2>2. CASE \E l \in DOMAIN stack : stack'[k] = stack[l]
    <3>1. PICK l \in DOMAIN stack : stack'[k] = stack[l] BY <2>2
    <3>2. stack[l].id \in Ids BY DEF Dispatched, Activations, IdsOf
    <3>3. depth' = depth
      <4>1. DOMAIN <<>> = {} OBVIOUS
      <4> QED BY <3>1, <4>1
    <3>4. raised'[stack'[k].id] = raised[stack[l].id] BY <1>1, <3>1, <3>2
    <3>5. raised[stack[l].id].muted <=> depth = 1 BY Zenon DEF Muted
    <3> QED BY <3>3, <3>4, <3>5, Zenon
  <2> QED BY <1>1, <2>1, <2>2
<1>5. ASSUME NEW d \in Drivers, NEW i \in Values(recorded'[d]), raised'[i].muted
      PROVE  d \in StoreSilenced
  <2>1. d \in Recorders BY RecorderFacts
  <2>2. i \in Values(recorded[d]) BY <1>2, <1>5
  <2>3. i \in Ids BY <2>1, <2>2 DEF Recorded
  <2>4. raised'[i] = raised[i] BY <1>1, <2>3
  <2> QED BY <1>5, <2>2, <2>4, Zenon DEF Muted
<1> QED BY <1>3, <1>4, <1>5, Zenon DEF Muted

LEMMA MutedInit == Init => Muted
<1> SUFFICES ASSUME Init PROVE Muted
  OBVIOUS
<1>1. DOMAIN <<>> = {} /\ Len(<<>>) = 0 OBVIOUS
<1>2. stack = <<>> /\ raised = <<>> /\ \A d \in Drivers : recorded[d] = <<>>
  BY RecorderFacts, Zenon DEF Init
<1>3. Ids = {} /\ DOMAIN stack = {} /\ \A d \in Drivers : Values(recorded[d]) = {}
  BY <1>1, <1>2 DEF Ids, Values
<1> QED BY <1>3, Zenon DEF Muted

LEMMA MutedNext ==
  ASSUME Plain PROVE Muted /\ Flagged /\ Recorded /\ Dispatched /\ [Next]_vars => Muted'
<1> SUFFICES ASSUME Muted, Flagged, Recorded, Dispatched, [Next]_vars PROVE Muted'
  OBVIOUS
<1>a. stack = <<>> \/ depth' = depth BY DepthStands
<1>b. depth \in {0, 1} BY DEF Flagged
<1>c. ASSUME NEW d \in Drivers, NEW i \in Values(recorded'[d]), raised'[i].muted
      PROVE  d \in StoreSilenced
  <2>1. d \in Recorders /\ d # "elasticsearch" BY CoreAssumption, RecorderFacts
  <2>2. /\ i \in Ids /\ raised'[i] = raised[i]
        /\ i \in Values(recorded[d]) \/ (Deliver /\ i = stack[1].id /\ Wanted(d, raised[i]))
    BY <1>c, <2>1, Additions
  <2>3. CASE i \in Values(recorded[d]) BY <1>c, <2>2, <2>3, Zenon DEF Muted
  <2>4. CASE Deliver /\ i = stack[1].id /\ Wanted(d, raised[i])
    <3>1. want_event(d, raised[i]) BY <2>1, <2>4 DEF Wanted
    <3>2. ~currently_silenced \/ d \in StoreSilenced BY <3>1, Zenon DEF want_event
    <3>3. 1 \in DOMAIN stack BY <2>4, DeliverFacts
    <3>4. raised[i].muted BY <1>c, <2>2
    <3>5. depth = 1 BY <2>4, <3>3, <3>4, Zenon DEF Muted
    <3>6. currently_silenced BY <3>5, Zenon DEF Flagged
    <3> QED BY <3>2, <3>6
  <2> QED BY <2>2, <2>3, <2>4
<1>1. CASE Quiet
  <2>1. UNCHANGED <<raised, stack, recorded>> /\ Ids' = Ids BY <1>1 DEF Quiet, Ids
  <2>2. \A k \in DOMAIN stack : depth' = depth
    <3>1. DOMAIN <<>> = {} OBVIOUS
    <3> QED BY <1>a, <3>1
  <2> QED BY <2>1, <2>2, Zenon DEF Muted
<1>2. CASE Cleared
  <2>1. DOMAIN <<>> = {} /\ Len(<<>>) = 0 OBVIOUS
  <2>2. stack' = <<>> /\ raised' = <<>> BY <1>2 DEF Cleared
  <2>3. Ids' = {} /\ DOMAIN stack' = {} BY <2>1, <2>2 DEF Ids
  <2> QED BY <1>c, <2>3, Zenon DEF Muted
<1>3. ASSUME NEW level \in Levels, RaisedNow(PlainError(level)), depth' = depth,
             level \in Fatal => depth = 0
      PROVE  Muted'
  <2> DEFINE e == PlainError(level)
  <2>1. e \in Event BY EventTypes DEF Dispatched
  <2>2. e.muted = (depth > 0) /\ e.type = level BY DEF PlainError, AnError
  <2>3. RaisedNow(e) BY <1>3
  <2> HIDE DEF e
  <2>4. (depth > 0 <=> depth' = 1) /\ (e.type \in Fatal => ~(depth > 0)) BY <1>3, <1>b, <2>2
  <2>5. (e.muted <=> depth' = 1) /\ (e.type \in Fatal => ~e.muted) BY <2>2, <2>4, Zenon
  <2> QED BY <1>a, <2>1, <2>3, <2>5, MutedRaised
<1>4. CASE Throw /\ RaisedNow(AnException(exception'))
  <2> DEFINE e == AnException(exception')
  <2>1. /\ exception' \in Nat /\ "E_ERROR" \in Levels /\ depth' = depth
    BY <1>4 DEF Throw, Dispatched, Typed, TypeOK, Levels, Fatal
  <2>2. e \in Event BY <2>1, EventTypes DEF Dispatched
  <2>3. e.muted = (depth > 0) /\ e.type \notin Fatal BY DEF AnException, Fatal
  <2>4. RaisedNow(e) BY <1>4
  <2> HIDE DEF e
  <2>5. depth > 0 <=> depth' = 1 BY <1>b, <2>1
  <2>6. e.muted <=> depth' = 1 BY <2>3, <2>5, Zenon
  <2> QED BY <1>a, <2>2, <2>3, <2>4, <2>6, MutedRaised
<1>5. CASE Uncaught /\ RaisedNow(Uncaughts)
  <2>1. UncaughtPrefix \in BOOLEAN /\ exception \in Nat /\ "E_ERROR" \in Levels
    BY CoreAssumption DEF Dispatched, Typed, TypeOK, Levels, Fatal
  <2>2. Uncaughts \in Event BY <2>1, EventTypes DEF Uncaughts, Dispatched
  <2>3. Uncaughts.muted = FALSE /\ depth' = 0 BY <1>5 DEF Uncaughts, AnError, Uncaught
  <2>4. Uncaughts.muted <=> depth' = 1 BY <2>3
  <2> QED BY <1>5, <1>a, <2>2, <2>3, <2>4, MutedRaised
<1>6. CASE Deliver
  <2>1. /\ \A k \in DOMAIN stack : stack'[k].id = stack[k].id
        /\ DOMAIN stack' = DOMAIN stack /\ UNCHANGED raised /\ stack # <<>>
    BY <1>6, DeliverFacts
  <2>2. depth' = depth /\ Ids' = Ids BY <1>a, <2>1 DEF Ids
  <2> QED BY <1>c, <2>1, <2>2, Zenon DEF Muted
<1>7. CASE Return
  <2>1. /\ \A k \in DOMAIN stack' : k + 1 \in DOMAIN stack /\ stack'[k] = stack[k + 1]
        /\ UNCHANGED raised /\ stack # <<>>
    BY <1>7, ReturnFacts
  <2>2. depth' = depth /\ Ids' = Ids BY <1>a, <2>1 DEF Ids
  <2> QED BY <1>c, <2>1, <2>2, Zenon DEF Muted
<1>8. \A level \in Levels : RaiseError(level) =>
        depth' = depth /\ (level \in Fatal => depth = 0)
  BY DEF RaiseError, Plain, script
<1>9. Complain \/ ComplainStats => depth' = depth BY DEF Complain, ComplainStats, script
<1>10. "E_CORE_WARNING" \in Levels /\ "E_CORE_WARNING" \notin Fatal BY DEF Levels, Fatal
<1> QED
  BY <1>1, <1>2, <1>3, <1>4, <1>5, <1>6, <1>7, <1>8, <1>9, <1>10, EventSteps DEF Dispatched

\* No activation leaves the stack while a new one is put on it.
LEMMA FramesKept ==
  ASSUME Dispatched, NEW e \in Event, RaisedNow(e)
  PROVE  \A l \in DOMAIN stack : \E k \in DOMAIN stack' : stack'[k] = stack[l]
<1> DEFINE f == Frame(Len(raised'), FirstRecorder)
<1>1. CASE UNCHANGED stack BY <1>1
<1>2. CASE stack' = <<f>> \o stack
  <2>1. stack \in Seq(Frames) BY DEF Dispatched, Typed, TypeOK, Frames
  <2>2. f \in Frames BY RaisedFacts, RecorderFacts DEF Frame, Frames, FirstRecorder
  <2> HIDE DEF f
  <2>3. DOMAIN stack' = 1..Len(stack) + 1 /\ \A j \in 1..Len(stack) : stack'[j + 1] = stack[j]
    BY <1>2, <2>1, <2>2, PushFrame
  <2>4. DOMAIN stack = 1..Len(stack) /\ Len(stack) \in Nat BY <2>1, LenProperties
  <2>5. \A j \in 1..Len(stack) : j + 1 \in DOMAIN stack' BY <2>3, <2>4
  <2> QED BY <2>3, <2>4, <2>5
<1> QED BY <1>1, <1>2 DEF RaisedNow

\* The drivers stay enabled as long as there are events.
LEMMA EnabledStands ==
  ASSUME Plain, Flagged, [Next]_vars PROVE (Quiet /\ raised = <<>>) \/ Cleared \/ enabled' = enabled
<1>1. Minit => Quiet /\ raised = <<>> BY DEF Minit, Quiet, Flagged, cursors, log
<1>2. Rinit => Cleared BY DEF Rinit, Cleared, cursors
<1>3. Script => enabled' = enabled
  BY DEF Plain, Script, RaiseError, Throw, Catch, Uncaught, BeginSilence, EndSilence,
         SwitchEvents, Tick, ScriptEnd, settings
<1>4. Mshutdown \/ Dispatch \/ Complain \/ ComplainStats \/ Shutdown => enabled' = enabled
  BY DEF Mshutdown, Dispatch, Deliver, Return, Complain, ComplainStats, Shutdown, RshutdownBegin,
         RshutdownStats, RshutdownElasticsearch, RshutdownDrivers, EndRequest, settings
<1>5. Terminated \/ UNCHANGED vars => enabled' = enabled BY DEF Terminated, vars, settings
<1> QED BY <1>1, <1>2, <1>3, <1>4, <1>5 DEF Next

\* A watched error enters the callback with the cursor at the first driver.
LEMMA WatchedIsAhead ==
  ASSUME Dispatched, Hooks, NEW e \in Event, RaiseEvent(e), RaisedNow(e), e.watched = Watched, Watched
  PROVE  Drivers \subseteq Ahead(Len(raised))'
<1>1. apm_enabled /\ event_enabled /\ phase \in {"script", "ending", "stats"}
  BY Zenon DEF Watched
<1>2. zend_error_cb = "apm" BY <1>1 DEF Hooks, InRequest
<1>3. FirstRecorder = 1 BY <1>1 DEF FirstRecorder
<1> DEFINE n == Len(raised') f == Frame(n, 1)
<1>4. stack' = <<f>> \o stack BY <1>2, <1>3 DEF RaiseEvent
<1>5. stack \in Seq(Frames) BY DEF Dispatched, Typed, TypeOK, Frames
<1>6. n \in Nat BY RaisedFacts
<1>7. f \in Frames BY <1>6 DEF Frame, Frames
<1>8. f.id = n /\ f.next = 1 BY DEF Frame
<1> HIDE DEF f
<1>9. DOMAIN stack' = 1..Len(stack) + 1 /\ stack'[1] = f BY <1>4, <1>5, <1>7, PushFrame
<1>10. 1 \in DOMAIN stack' BY <1>5, <1>9, LenProperties
<1>11. \A m \in 1..Len(RecorderList) : \E k \in DOMAIN stack' : stack'[k].id = n /\ m >= stack'[k].next
  BY <1>8, <1>9, <1>10, RecorderFacts
<1> HIDE DEF n
<1>12. \A d \in Drivers : \E m \in 1..Len(RecorderList) : RecorderList[m] = d
  BY RecorderFacts DEF Recorders
<1>13. {RecorderList[m] : m \in {j \in 1..Len(RecorderList) :
          \E k \in DOMAIN stack' : stack'[k].id = n /\ j >= stack'[k].next}} = Ahead(Len(raised))'
  BY DEF Ahead, n
<1> QED BY <1>11, <1>12, <1>13 DEF n

\* After an event was raised.
LEMMA CompleteRaised ==
  ASSUME Complete, Recorded, Dispatched, UNCHANGED enabled, NEW e \in Event, RaisedNow(e),
         Len(raised) + 1 = Len(raised'),
         e.kind = "error" /\ e.exception = NoException /\ e.watched =>
           Drivers \subseteq Ahead(Len(raised))'
  PROVE  Complete'
<1> DEFINE n == Len(raised')
<1>1. /\ n \notin Ids /\ Ids' = Ids \union {n} /\ raised'[n] = e
      /\ \A i \in Ids : raised'[i] = raised[i]
  BY RaisedFacts
<1>2. UNCHANGED recorded BY DEF RaisedNow
<1>3. ASSUME NEW i \in Ids', NEW d \in Expected(i)'
      PROVE  i \in Values(recorded'[d]) \/ d \in Ahead(i)'
  <2>1. CASE i = n
    <3>1. e.kind = "error" /\ e.exception = NoException /\ e.watched /\ d \in Drivers
      BY <1>1, <1>3, <2>1, Zenon DEF Expected
    <3>2. Ahead(Len(raised))' = Ahead(i)' BY <2>1 DEF Ahead
    <3> QED BY <3>1, <3>2
  <2>2. CASE i \in Ids
    <3>1. raised'[i] = raised[i] BY <1>1, <2>2
    <3>2. d \in Expected(i) BY <1>3, <3>1, Zenon DEF Expected
    <3>3. i \in Values(recorded[d]) \/ d \in Ahead(i) BY <2>2, <3>2 DEF Complete
    <3>4. d \in Ahead(i) => d \in Ahead(i)'
      <4>1. \A l \in DOMAIN stack : \E k \in DOMAIN stack' : stack'[k] = stack[l] BY FramesKept
      <4> QED BY <4>1 DEF Ahead
    <3> QED BY <1>2, <3>3, <3>4
  <2> QED BY <1>1, <1>3, <2>1, <2>2
<1> QED BY <1>3 DEF Complete

LEMMA CompleteNext ==
  ASSUME Plain
  PROVE  Complete /\ Flagged /\ Muted /\ Numbered /\ Recorded /\ Hooks /\ Dispatched /\ [Next]_vars
           => Complete'
<1> SUFFICES ASSUME Complete, Flagged, Muted, Numbered, Recorded, Hooks, Dispatched, [Next]_vars
             PROVE  Complete'
  OBVIOUS
<1>1. CASE raised' = <<>>
  <2>1. Len(<<>>) = 0 OBVIOUS
  <2>2. Ids' = {} BY <1>1, <2>1 DEF Ids
  <2> QED BY <2>2 DEF Complete
<1>2. CASE Quiet /\ enabled' = enabled
  <2>1. UNCHANGED <<raised, stack, recorded>> /\ Ids' = Ids BY <1>2 DEF Quiet, Ids
  <2>2. \A i : Expected(i)' = Expected(i) /\ Ahead(i)' = Ahead(i)
    BY <1>2, <2>1, Zenon DEF Expected, Ahead
  <2> QED BY <2>1, <2>2 DEF Complete
<1>3. ASSUME NEW level \in Levels, RaiseEvent(PlainError(level)),
             RaisedNow(PlainError(level)), enabled' = enabled
      PROVE  Complete'
  <2> DEFINE e == PlainError(level)
  <2>1. e \in Event BY EventTypes DEF Dispatched
  <2>2. e.watched = Watched BY DEF PlainError, AnError
  <2>3. RaiseEvent(e) /\ RaisedNow(e) BY <1>3
  <2> HIDE DEF e
  <2>4. e.watched => Drivers \subseteq Ahead(Len(raised))'
    <3>1. e.watched => Watched BY <2>2, Zenon
    <3> QED BY <2>1, <2>2, <2>3, <3>1, WatchedIsAhead
  <2>5. Len(raised) + 1 = Len(raised')
    <3>1. raised' = Append(raised, e) BY <2>3 DEF RaisedNow
    <3> QED BY <2>1, <3>1, OneMoreEvent
  <2> QED BY <1>3, <2>1, <2>3, <2>4, <2>5, CompleteRaised
<1>4. CASE Throw /\ RaisedNow(AnException(exception')) /\ enabled' = enabled
  <2> DEFINE e == AnException(exception')
  <2>1. exception' \in Nat /\ "E_ERROR" \in Levels
    BY <1>4 DEF Throw, Dispatched, Typed, TypeOK, Levels, Fatal
  <2>2. e \in Event BY <2>1, EventTypes DEF Dispatched
  <2>3. e.kind # "error" BY DEF AnException
  <2>4. RaisedNow(e) BY <1>4
  <2> HIDE DEF e
  <2>5. Len(raised) + 1 = Len(raised')
    <3>1. raised' = Append(raised, e) BY <2>4 DEF RaisedNow
    <3> QED BY <2>2, <3>1, OneMoreEvent
  <2> QED BY <1>4, <2>2, <2>3, <2>4, <2>5, CompleteRaised
<1>5. CASE Uncaught /\ RaisedNow(Uncaughts) /\ enabled' = enabled
  <2>1. UncaughtPrefix \in BOOLEAN /\ exception \in Nat /\ "E_ERROR" \in Levels
    BY CoreAssumption DEF Dispatched, Typed, TypeOK, Levels, Fatal
  <2>2. Uncaughts \in Event BY <2>1, EventTypes DEF Uncaughts, Dispatched
  <2>3. Uncaughts.exception # NoException BY <1>5 DEF Uncaughts, AnError, Uncaught
  <2>4. Len(raised) + 1 = Len(raised')
    <3>1. raised' = Append(raised, Uncaughts) BY <1>5 DEF RaisedNow
    <3> QED BY <2>2, <3>1, OneMoreEvent
  <2> QED BY <1>5, <2>2, <2>3, <2>4, CompleteRaised
<1>6. CASE Deliver /\ enabled' = enabled
  <2> DEFINE n == stack[1].next r == RecorderList[n] id == stack[1].id
  <2>1. /\ 1 \in DOMAIN stack /\ DOMAIN stack' = DOMAIN stack
        /\ stack'[1] = Frame(id, n + 1) /\ UNCHANGED raised
        /\ \A k \in DOMAIN stack : k # 1 => stack'[k] = stack[k]
        /\ n \in 1..Len(RecorderList) /\ r \in Recorders /\ id \in Ids /\ id \in Nat
        /\ recorded' = IF Wanted(r, raised[id])
                         THEN [recorded EXCEPT ![r] = Append(recorded[r], id)] ELSE recorded
    BY <1>6, DeliverFacts
  <2>2. recorded \in [Recorders -> Seq(Nat)] BY DEF Dispatched, Typed, TypeOK
  <2>3. ASSUME NEW d \in Expected(id), d = r PROVE Wanted(r, raised[id])
    <3>1. d # "elasticsearch" /\ d \in Drivers BY CoreAssumption DEF Expected
    <3>2. ~raised[id].muted /\ raised[id].kind = "error" /\ raised[id].exception = NoException
          /\ d \in enabled /\ raised[id].type \in ErrorReporting[d]
      BY <2>3, Zenon DEF Expected
    <3>3. raised[id].uncaught = FALSE
      <4>1. raised[id].uncaught = (UncaughtPrefix /\ raised[id].exception # NoException)
        BY <2>1, <3>2 DEF Numbered
      <4> QED BY <3>2, <4>1
    <3>4. depth # 1 BY <2>1, <3>2, Zenon DEF Muted
    <3>5. ~currently_silenced BY <3>4, Zenon DEF Flagged
    <3>6. want_event(d, raised[id]) BY <3>2, <3>3, <3>5, Zenon DEF want_event
    <3> QED BY <2>3, <3>1, <3>6 DEF Wanted
  <2> HIDE DEF n, r, id
  <2>4. Values(Append(recorded[r], id)) = Values(recorded[r]) \union {id}
    BY <2>1, <2>2, AppendNumber
  <2>5. \A q \in Recorders : Values(recorded[q]) \subseteq Values(recorded'[q])
    BY <2>1, <2>2, <2>4
  <2>6. Wanted(r, raised[id]) => id \in Values(recorded'[r]) BY <2>1, <2>2, <2>4
  <2>7. ASSUME NEW i \in Ids, NEW d \in Drivers, d \in Ahead(i)
        PROVE  d \in Ahead(i)' \/ (i = id /\ d = r)
    <3>1. PICK m \in 1..Len(RecorderList) :
            d = RecorderList[m] /\ \E k \in DOMAIN stack : stack[k].id = i /\ m >= stack[k].next
      BY <2>7 DEF Ahead
    <3>2. PICK k \in DOMAIN stack : stack[k].id = i /\ m >= stack[k].next BY <3>1
    <3>3. CASE k # 1
      <4>1. k \in DOMAIN stack' /\ stack'[k] = stack[k] BY <2>1, <3>3
      <4> QED BY <3>1, <3>2, <4>1 DEF Ahead
    <3>4. CASE k = 1 /\ m = n BY <3>1, <3>2, <3>4 DEF id, r
    <3>5. CASE k = 1 /\ m # n
      <4>1. m >= n + 1 BY <2>1, <3>2, <3>5, RecorderFacts DEF n
      <4>2. stack'[1].id = i /\ stack'[1].next = n + 1 /\ 1 \in DOMAIN stack'
        BY <2>1, <3>2, <3>5 DEF Frame, id
      <4> QED BY <3>1, <4>1, <4>2 DEF Ahead
    <3> QED BY <3>3, <3>4, <3>5
  <2>8. \A i : Expected(i)' = Expected(i) BY <1>6, <2>1, Zenon DEF Expected
  <2>9. ASSUME NEW i \in Ids, NEW d \in Expected(i)
        PROVE  i \in Values(recorded'[d]) \/ d \in Ahead(i)'
    <3>1. d \in Drivers /\ d \in Recorders BY RecorderFacts DEF Expected
    <3>2. i \in Values(recorded[d]) \/ d \in Ahead(i) BY DEF Complete
    <3>3. i = id /\ d = r => i \in Values(recorded'[d]) BY <2>3, <2>6, <2>9
    <3> QED BY <2>5, <2>7, <3>1, <3>2, <3>3
  <2> QED BY <2>1, <2>8, <2>9 DEF Complete, Ids
<1>7. CASE Return /\ enabled' = enabled
  <2>1. /\ 1 \in DOMAIN stack /\ UNCHANGED <<raised, recorded>> /\ stack[1].next = Done
        /\ \A k \in DOMAIN stack : k # 1 => \E l \in DOMAIN stack' : stack'[l] = stack[k]
    BY <1>7, ReturnFacts
  <2>2. \A i : Ahead(i) \subseteq Ahead(i)'
    <3> SUFFICES ASSUME NEW i, NEW d \in Ahead(i) PROVE d \in Ahead(i)'
      OBVIOUS
    <3>1. PICK m \in 1..Len(RecorderList) :
            d = RecorderList[m] /\ \E k \in DOMAIN stack : stack[k].id = i /\ m >= stack[k].next
      BY DEF Ahead
    <3>2. PICK k \in DOMAIN stack : stack[k].id = i /\ m >= stack[k].next BY <3>1
    <3>3. k # 1 BY <2>1, <3>2, RecorderFacts DEF Done
    <3>4. PICK l \in DOMAIN stack' : stack'[l] = stack[k] BY <2>1, <3>3
    <3> QED BY <3>1, <3>2, <3>4 DEF Ahead
  <2>3. \A i : Expected(i)' = Expected(i) BY <1>7, <2>1, Zenon DEF Expected
  <2> QED BY <2>1, <2>2, <2>3 DEF Complete, Ids
<1>8. Cleared => raised' = <<>> BY DEF Cleared
<1>9. Quiet /\ raised = <<>> => raised' = <<>> BY DEF Quiet
<1>10. \A level \in Levels : RaiseError(level) => RaiseEvent(PlainError(level)) BY DEF RaiseError
<1>11. Complain \/ ComplainStats => RaiseEvent(PlainError("E_CORE_WARNING"))
  BY DEF Complain, ComplainStats
<1>12. "E_CORE_WARNING" \in Levels BY DEF Levels
<1>13. raised' = <<>> \/ enabled' = enabled BY <1>8, <1>9, EnabledStands
<1> QED
  BY <1>1, <1>2, <1>3, <1>4, <1>5, <1>6, <1>7, <1>8, <1>10, <1>11, <1>12, <1>13, EventSteps
  DEF Dispatched

\* An event muted with '@' is stored by no driver that does not process silenced
\* events and one that is not muted is missed by none that reports it, with any drivers,
\* settings and complaints, in a process with apm.enabled, where drivers are not
\* switched with ini_set, and where '@' operands neither nest nor are left by an
\* exception or a fatal error: the one flag cannot tell the rest.
THEOREM SilenceIsRespected ==
  ASSUME ~Unwinds, MaxSilence <= 1, ActiveChoices = {TRUE}, RuntimeSwitch = {}
  PROVE  Spec => []SilenceRespected
<1>a. Plain BY DEF Plain
<1>1. ASSUME Complete, Muted, Dispatched PROVE SilenceRespected
  <2> SUFFICES ASSUME NEW i \in Ids, i \notin IdsOf(stack), NEW d \in Drivers
               PROVE  /\ i \in Values(recorded[d]) /\ raised[i].muted => d \in StoreSilenced
                      /\ d \in Expected(i) => i \in Values(recorded[d])
    BY Zenon DEF SilenceRespected, Expected, IdsOf
  <2>1. Ahead(i) = {} BY DEF Ahead, IdsOf
  <2>2. d \in Expected(i) => i \in Values(recorded[d]) BY <1>1, <2>1 DEF Complete
  <2>3. i \in Values(recorded[d]) /\ raised[i].muted => d \in StoreSilenced
    BY <1>1, Zenon DEF Muted
  <2> QED BY <2>2, <2>3
<1>2. Init => Complete
  <2> SUFFICES ASSUME Init PROVE Complete
    OBVIOUS
  <2>1. raised = <<>> /\ Len(<<>>) = 0 BY Zenon DEF Init
  <2>2. Ids = {} BY <2>1 DEF Ids
  <2> QED BY <2>2 DEF Complete
<1>3. Init => Flagged BY <1>a, FlaggedInit
<1>4. Flagged /\ Muted /\ Hooks /\ Dispatched /\ [Next]_vars => Flagged' BY <1>a, FlaggedNext
<1>5. Muted /\ Flagged /\ Recorded /\ Dispatched /\ [Next]_vars => Muted' BY <1>a, MutedNext
<1>6. Complete /\ Flagged /\ Muted /\ Numbered /\ Recorded /\ Hooks /\ Dispatched /\ [Next]_vars
        => Complete'
  BY <1>a, CompleteNext
<1> QED
  BY <1>1, <1>2, <1>3, <1>4, <1>5, <1>6, MutedInit, NumberedInit, NumberedNext, RecordedInit,
     RecordedNext, HooksInit, HooksNext, DispatchedInit, DispatchedNext, PTL DEF Spec
=============================================================================
