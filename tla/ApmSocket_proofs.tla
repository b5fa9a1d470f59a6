--------------------------- MODULE ApmSocket_proofs ---------------------------
(***************************************************************************)
(* Theorems of ApmSocket, for every value of its constants: what ApmCore   *)
(* makes of the socket driver's event list.  The core's own invariants     *)
(* carry over, as every step of the composition is a step of the core or   *)
(* leaves it alone (CoreSteps).                                            *)
(***************************************************************************)
EXTENDS ApmSocket, ApmCore_proofs

\* A process with apm.enabled for every host, whose scripts do not switch the driver,
\* and whose start raises no error: outside of it the driver does follow a list it
\* does not have.
Regular == QuietStart /\ ActiveChoices = {TRUE} /\ "socket" \notin RuntimeSwitch

\* The hooks are entered in a request only, and before its drivers are shut down.
Sequenced ==
  /\ apm_enabled
  /\ stack # <<>> => phase \in {"script", "ending", "stats"}

\* Where the driver is in its own life, by where the core is in the request's.
Called ==
  /\ pc \in {"idle", "connect", "send", "close", "stuck"}
  /\ rshutdown_called => phase = "drivers"
  /\ ~rshutdown_called => pc = "idle"
  /\ pc # "idle" => "socket" \in enabled

Listed ==
  /\ ~damaged
  /\ socket_events = "live" =>
       InRequest /\ "socket" \in enabled /\ pc \in {"idle", "connect", "send", "stuck"}
  /\ InRequest /\ "socket" \in enabled
       /\ (rshutdown_called => pc \in {"connect", "send", "stuck"})
       => socket_events = "live"
  /\ rshutdown_called /\ pc = "idle" => socket_events # "live"

\* The list is what the core recorded, in this request.
Noted == [k \in DOMAIN recorded["socket"] |-> <<request, recorded["socket"][k]>>]
Filled == socket_events = "live" => list = Noted

\* Where the driver wants statistics, the request was measured before its drivers are
\* shut down, and the clock has stood since.
Measured ==
  phase \in {"stats", "flush", "drivers"} /\ "socket" \in enabled
    => duration = clock - begin_tp

-----------------------------------------------------------------------------
(* The core's invariants in the composition *)

\* What the proofs use of the core.
CoreHolds == Hooks /\ Dispatched

LEMMA CoreSteps == [ComposedNext]_all => [Next]_vars
<1> SUFFICES ASSUME [ComposedNext]_all PROVE [Next]_vars
  OBVIOUS
<1>1. CASE StartRequest BY <1>1 DEF StartRequest, Next
<1>2. CASE DeliverEvent BY <1>2 DEF DeliverEvent, Next, Dispatch
<1>3. CASE CallRshutdown BY <1>3 DEF CallRshutdown
<1>4. CASE SocketRshutdown BY <1>4 DEF SocketRshutdown
<1>5. CASE FinishRequest BY <1>5 DEF FinishRequest, Next, Shutdown
<1>6. CASE Elsewhere BY <1>6 DEF Elsewhere, Next, Dispatch, Shutdown
<1>7. CASE UNCHANGED all BY <1>7 DEF all
<1>8. CASE SocketBlocks BY <1>8 DEF SocketBlocks
<1> QED BY <1>1, <1>2, <1>3, <1>4, <1>5, <1>6, <1>7, <1>8 DEF ComposedNext, Stuck

LEMMA CoreHoldsNext == CoreHolds /\ [ComposedNext]_all => CoreHolds'
BY CoreSteps, HooksNext, DispatchedNext DEF CoreHolds

\* The types of what is recorded and worked on.
LEMMA AtWork ==
  ASSUME CoreHolds
  PROVE  /\ stack # <<>> => Top.id \in Nat
         /\ request \in Nat
         /\ "socket" \in enabled =>
              /\ recorded \in [Recorders -> Seq(Nat)] /\ "socket" \in Recorders
              /\ recorded["socket"] \in Seq(Nat)
<1>1. Typed /\ TypeOK BY DEF CoreHolds, Dispatched, Typed
<1>2. "socket" \in enabled => "socket" \in Recorders
  BY <1>1, RecorderFacts DEF TypeOK
<1>3. stack # <<>> => Top.id \in Nat
  BY <1>1, TopTypes DEF Frames
<1> QED BY <1>1, <1>2, <1>3 DEF TypeOK

-----------------------------------------------------------------------------
(* The steps of the core that do not call the driver *)

\* They keep the process within, or outside of, a request, and the drivers of the
\* request with it; the hooks are entered where Sequenced says.
LEMMA ElsewhereFacts ==
  ASSUME Regular, CoreHolds, Sequenced, Elsewhere
  PROVE  /\ UNCHANGED <<request, recorded, driver, rshutdown_called>>
         /\ Sequenced'
         /\ phase # "drivers" /\ (InRequest' <=> InRequest)
         /\ InRequest => ("socket" \in enabled' <=> "socket" \in enabled)
<1> DEFINE Kept == /\ UNCHANGED <<request, recorded>>
                   /\ Sequenced'
                   /\ phase # "drivers" /\ (InRequest' <=> InRequest)
                   /\ InRequest => ("socket" \in enabled' <=> "socket" \in enabled)
<1>0. UNCHANGED <<driver, rshutdown_called>> /\ (phase = "startup" => stack' = <<>>)
  BY DEF Elsewhere, Regular
<1>q. zend_error_cb # "apm" \/ phase # "idle"
  BY DEF CoreHolds, Hooks, Sequenced
<1> SUFFICES Kept
  BY <1>0
<1> USE <1>0, <1>q DEF Sequenced, InRequest, lifecycle, settings, data, script, log,
        calls, cursors
<1>1. CASE Minit
  <2>1. stack = <<>> BY <1>1 DEF Minit, CoreHolds, Dispatched, Activations
  <2> QED BY <1>1, <2>1 DEF Minit
<1>2. CASE Mshutdown BY <1>2 DEF Mshutdown
<1>3. CASE EndRequest BY <1>3 DEF EndRequest
<1>4. ASSUME NEW level \in Levels, RaiseError(level) PROVE Kept
  <2>1. phase \in {"startup", "script", "ending", "idle"}
        /\ phase' \in {phase, "ending"} /\ (phase' # phase => phase = "script")
    BY <1>4 DEF RaiseError, CanRaise
  <2>2. stack' # <<>> => phase \in {"script", "ending"}
    BY <1>4, <2>1 DEF RaiseError, RaiseEvent, CanRaise
  <2> QED BY <1>4, <2>1, <2>2 DEF RaiseError
<1>5. CASE Throw BY <1>5 DEF Throw, Running
<1>6. CASE Catch BY <1>6 DEF Catch
<1>7. CASE Uncaught BY <1>7 DEF Uncaught
<1>8. CASE BeginSilence BY <1>8 DEF BeginSilence, Running
<1>9. CASE EndSilence BY <1>9 DEF EndSilence, Running
<1>10. CASE SwitchEvents BY <1>10 DEF SwitchEvents, Running
<1>11. ASSUME NEW d \in RuntimeSwitch, SwitchDriver(d) PROVE Kept
  <2>1. d # "socket" BY DEF Regular
  <2> QED BY <1>11, <2>1 DEF SwitchDriver, Running
<1>12. CASE Tick BY <1>12 DEF Tick
<1>13. CASE ScriptEnd BY <1>13 DEF ScriptEnd, Running
<1>14. CASE Return BY <1>14 DEF Return
<1>15. CASE Complain BY <1>15 DEF Complain, Dispatching
<1>16. CASE RshutdownBegin BY <1>16 DEF RshutdownBegin
<1>17. CASE RshutdownStats BY <1>17 DEF RshutdownStats
<1>18. CASE ComplainStats BY <1>18 DEF ComplainStats
<1>19. CASE RshutdownElasticsearch
  <2>1. stack = <<>>
    BY <1>19 DEF RshutdownElasticsearch
  <2> QED BY <1>19, <2>1 DEF RshutdownElasticsearch
<1>20. CASE Terminated BY <1>20 DEF Terminated, vars
<1> QED
  BY <1>1, <1>2, <1>3, <1>4, <1>5, <1>6, <1>7, <1>8, <1>9, <1>10, <1>11, <1>12,
     <1>13, <1>14, <1>15, <1>16, <1>17, <1>18, <1>19, <1>20 DEF Elsewhere, Script

-----------------------------------------------------------------------------
(* The life of the driver in the life of a request *)

Protocol == Sequenced /\ Called /\ Listed

LEMMA ProtocolInit == ASSUME Regular PROVE ComposedInit => Protocol
BY DEF Regular, ComposedInit, Init, Socket!InitDriver, Protocol, Sequenced, Called,
       Listed, InRequest

\* One step of rshutdown: the list is given up at its end, and not looked at after.
LEMMA RshutdownFacts ==
  ASSUME Protocol, SocketRshutdown
  PROVE  /\ UNCHANGED <<vars, rshutdown_called>> /\ pc # "idle" /\ ~damaged'
         /\ pc' \in {"idle", "connect", "send", "close"}
         /\ \/ /\ UNCHANGED socket_events /\ list' = list
               /\ pc \in {"connect", "send"} /\ pc' \in {"connect", "send"}
            \/ socket_events' = "freed" /\ pc' = "close" /\ pc = "send"
            \/ UNCHANGED socket_events /\ pc = "close" /\ pc' \in {"idle", "close"}
<1> USE DEF Protocol, Called, Listed, SocketRshutdown
<1>1. CASE Socket!Connect
  BY <1>1 DEF Socket!Connect, Socket!Attempt
<1>2. CASE Socket!Refused
  BY <1>2 DEF Socket!Refused, Socket!Attempt
<1>3. CASE Socket!UnknownEntry
  BY <1>3 DEF Socket!UnknownEntry, Socket!Attempt
<1>4. CASE Socket!EndConnect
  <2>1. pc = "connect" /\ pc' = "send" /\ damaged' = (damaged \/ socket_events # "live")
        /\ UNCHANGED <<socket_events, list>>
    BY <1>4 DEF Socket!EndConnect
  <2>2. rshutdown_called /\ phase = "drivers" /\ "socket" \in enabled
    BY <2>1
  <2>3. socket_events = "live"
    BY <2>1, <2>2 DEF InRequest
  <2> QED BY <2>1, <2>3
<1>5. ASSUME NEW ok \in BOOLEAN, Socket!Send(SlowRequest, ok)
      PROVE  UNCHANGED <<socket_events, list, pc, damaged>> /\ pc = "send"
  BY <1>5 DEF Socket!Send
<1>6. CASE Socket!clear_events
  BY <1>6 DEF Socket!clear_events
<1>7. CASE Socket!Close
  BY <1>7 DEF Socket!Close
<1> QED
  BY <1>1, <1>2, <1>3, <1>4, <1>5, <1>6, <1>7 DEF Socket!rshutdown

LEMMA ProtocolNext ==
  ASSUME Regular PROVE Protocol /\ CoreHolds /\ [ComposedNext]_all => Protocol'
<1> SUFFICES ASSUME Protocol, CoreHolds, [ComposedNext]_all PROVE Protocol'
  OBVIOUS
<1>1. CASE StartRequest
  <2>1. /\ phase \in {"startup", "idle"} /\ phase' = "script" /\ stack' = stack /\ stack = <<>>
        /\ apm_enabled'
    BY <1>1 DEF StartRequest, Rinit, Regular, cursors
  <2>2. ~rshutdown_called /\ ~rshutdown_called' /\ pc = "idle" /\ socket_events # "live"
    BY <1>1, <2>1 DEF StartRequest, Protocol, Called, Listed, InRequest
  <2>3. CASE "socket" \in enabled'
    <3>1. Socket!rinit BY <1>1, <2>1, <2>3 DEF StartRequest
    <3>2. socket_events' = "live" /\ pc' = pc /\ damaged' = damaged
      BY <3>1 DEF Socket!rinit, Socket!cursor
    <3> QED BY <2>1, <2>2, <2>3, <3>2 DEF Protocol, Sequenced, Called, Listed, InRequest
  <2>4. CASE "socket" \notin enabled'
    <3>1. UNCHANGED driver BY <1>1, <2>4 DEF StartRequest
    <3> QED BY <2>1, <2>2, <2>4, <3>1 DEF driver, Protocol, Sequenced, Called, Listed, InRequest
  <2> QED BY <2>3, <2>4
<1>2. CASE DeliverEvent
  <2>1. stack # <<>> /\ UNCHANGED <<phase, apm_enabled, enabled, rshutdown_called>>
    BY <1>2 DEF DeliverEvent, Deliver, Dispatching, lifecycle, settings
  <2>2. phase \in {"script", "ending", "stats"} /\ InRequest /\ ~rshutdown_called
    BY <2>1 DEF Protocol, Sequenced, Called, InRequest
  <2>3. UNCHANGED <<socket_events, pc, damaged>>
    <3>1. CASE RecorderList[Top.next] = "socket" /\ Wanted("socket", Current)
      <4>1. "socket" \in enabled BY <3>1 DEF Wanted, want_event
      <4>2. socket_events = "live" BY <4>1, <2>2 DEF Protocol, Listed
      <4>3. Socket!process_event(<<request, Top.id>>) BY <1>2, <3>1 DEF DeliverEvent
      <4> QED BY <4>2, <4>3 DEF Socket!process_event, Socket!cursor
    <3>2. CASE ~(RecorderList[Top.next] = "socket" /\ Wanted("socket", Current))
      BY <1>2, <3>2 DEF DeliverEvent, driver
    <3> QED BY <3>1, <3>2
  <2> QED BY <2>1, <2>2, <2>3 DEF Protocol, Sequenced, Called, Listed, InRequest
<1>3. CASE CallRshutdown
  <2>1. UNCHANGED <<phase, stack, apm_enabled, enabled>> /\ phase = "drivers"
        /\ ~rshutdown_called /\ rshutdown_called'
    BY <1>3 DEF CallRshutdown, vars, lifecycle, settings, cursors
  <2>2. CASE "socket" \in enabled
    <3>1. Socket!Enter BY <1>3, <2>2 DEF CallRshutdown
    <3>2. pc' = "connect" /\ UNCHANGED <<socket_events, damaged>>
      BY <3>1 DEF Socket!Enter
    <3> QED BY <2>1, <2>2, <3>2 DEF Protocol, Sequenced, Called, Listed, InRequest
  <2>3. CASE "socket" \notin enabled
    <3>1. UNCHANGED driver BY <1>3, <2>3 DEF CallRshutdown
    <3> QED BY <2>1, <2>3, <3>1 DEF driver, Protocol, Sequenced, Called, Listed, InRequest
  <2> QED BY <2>2, <2>3
<1>4. CASE SocketRshutdown
  <2>1. UNCHANGED <<phase, stack, apm_enabled, enabled, rshutdown_called>>
    BY <1>4, RshutdownFacts DEF vars, lifecycle, settings, cursors
  <2>2. rshutdown_called /\ phase = "drivers" /\ "socket" \in enabled
    BY <1>4, RshutdownFacts DEF Protocol, Called
  <2>3. InRequest /\ InRequest' BY <2>1, <2>2 DEF InRequest
  <2>4. Sequenced' BY <2>1 DEF Protocol, Sequenced
  <2>5. Called' BY <1>4, <2>1, <2>2, RshutdownFacts DEF Called
  <2>6. Listed' BY <1>4, <2>1, <2>2, <2>3, RshutdownFacts DEF Protocol, Listed
  <2> QED BY <2>4, <2>5, <2>6 DEF Protocol
<1>5. CASE FinishRequest
  <2>1. /\ UNCHANGED <<stack, apm_enabled, enabled>> /\ phase = "drivers" /\ phase' = "closing"
        /\ UNCHANGED driver /\ ~rshutdown_called' /\ rshutdown_called /\ pc = "idle"
    BY <1>5 DEF FinishRequest, RshutdownDrivers, settings, cursors
  <2> QED BY <2>1 DEF driver, Protocol, Sequenced, Called, Listed, InRequest
<1>6. CASE Elsewhere
  <2>1. /\ UNCHANGED <<driver, rshutdown_called>> /\ Sequenced' /\ phase # "drivers"
        /\ (InRequest' <=> InRequest)
        /\ InRequest => ("socket" \in enabled' <=> "socket" \in enabled)
    BY <1>6, ElsewhereFacts DEF Protocol
  <2> QED BY <2>1 DEF driver, Protocol, Called, Listed
<1>7. CASE UNCHANGED all
  BY <1>7 DEF all, vars, driver, lifecycle, settings, cursors, Protocol, Sequenced, Called,
              Listed, InRequest
<1>8. CASE SocketBlocks
  <2>1. /\ pc \in {"connect", "send"} /\ pc' = "stuck"
        /\ UNCHANGED <<socket_events, damaged, vars, rshutdown_called>>
    BY <1>8 DEF SocketBlocks, Socket!Block, Socket!Attempt
  <2>2. UNCHANGED <<phase, stack, apm_enabled, enabled>>
    BY <2>1 DEF vars, lifecycle, settings, cursors
  <2> QED BY <2>1, <2>2 DEF Protocol, Sequenced, Called, Listed, InRequest
<1> QED BY <1>1, <1>2, <1>3, <1>4, <1>5, <1>6, <1>7, <1>8 DEF ComposedNext, Stuck

LEMMA CoreHoldsInit == ComposedInit => CoreHolds
BY HooksInit, DispatchedInit DEF ComposedInit, CoreHolds

\* For any drivers, events, complaints and settings per request, and any socket_path,
\* the core's calls reach the driver in the order its list needs.
THEOREM QueueIsDisciplined == ASSUME Regular PROVE ComposedSpec => []QueueDiscipline
<1>1. Protocol => QueueDiscipline
  BY DEF Protocol, Listed, QueueDiscipline, InRequest
<1> QED
  BY <1>1, ProtocolInit, ProtocolNext, CoreHoldsInit, CoreHoldsNext, PTL DEF ComposedSpec

-----------------------------------------------------------------------------
(* What is in the list *)

\* Another entry of a list that notes what is recorded.
LEMMA NotedAppend ==
  ASSUME NEW s \in Seq(Nat), NEW i \in Nat, NEW r \in Nat
  PROVE  Append([k \in DOMAIN s |-> <<r, s[k]>>], <<r, i>>)
           = [k \in DOMAIN Append(s, i) |-> <<r, Append(s, i)[k]>>]
<1> DEFINE f == [k \in DOMAIN s |-> <<r, s[k]>>]
           t == Append(s, i)
           g == [k \in DOMAIN t |-> <<r, t[k]>>]
<1>1. Len(s) \in Nat /\ DOMAIN s = 1..Len(s) /\ \A k \in 1..Len(s) : s[k] \in Nat
  BY LenProperties, ElementOfSeq
<1>2. /\ t \in Seq(Nat) /\ DOMAIN t = 1..(Len(s) + 1) /\ t[Len(s) + 1] = i
      /\ \A k \in 1..Len(s) : t[k] = s[k]
  BY <1>1, AppendProperties, LenProperties
<1>3. f \in Seq(Nat \X Nat) /\ Len(f) = Len(s)
  BY <1>1
<1>4. /\ Append(f, <<r, i>>) \in Seq(Nat \X Nat)
      /\ DOMAIN Append(f, <<r, i>>) = 1..(Len(s) + 1)
      /\ Append(f, <<r, i>>)[Len(s) + 1] = <<r, i>>
      /\ \A k \in 1..Len(s) : Append(f, <<r, i>>)[k] = f[k]
  <2>1. <<r, i>> \in Nat \X Nat OBVIOUS
  <2> HIDE DEF f
  <2> QED BY <1>1, <1>3, <2>1, AppendProperties, LenProperties
<1>5. \A k \in 1..(Len(s) + 1) : k \in 1..Len(s) \/ k = Len(s) + 1
  BY <1>1
<1>6. \A k \in 1..(Len(s) + 1) : Append(f, <<r, i>>)[k] = g[k]
  BY <1>1, <1>2, <1>4, <1>5
<1>7. g \in Seq(Nat \X Nat) /\ DOMAIN g = 1..(Len(s) + 1)
  BY <1>1, <1>2, ElementOfSeq
<1> HIDE DEF f, g
<1>8. Append(f, <<r, i>>) = [k \in 1..(Len(s) + 1) |-> Append(f, <<r, i>>)[k]]
  BY <1>4
<1>9. g = [k \in 1..(Len(s) + 1) |-> g[k]]
  BY <1>7 DEF g
<1>10. Append(f, <<r, i>>) = g
  BY <1>6, <1>8, <1>9
<1> QED BY <1>10 DEF f, g

LEMMA FilledNext ==
  Filled /\ Protocol /\ CoreHolds /\ [ComposedNext]_all /\ Regular => Filled'
<1> SUFFICES ASSUME Filled, Protocol, CoreHolds, [ComposedNext]_all, Regular,
                    socket_events' = "live"
             PROVE  list' = Noted'
  BY DEF Filled
<1>k. ASSUME socket_events = "live", list' = list, UNCHANGED <<request, recorded>>
      PROVE  list' = Noted'
  BY <1>k DEF Filled, Noted
<1>1. CASE StartRequest
  <2>1. CASE "socket" \in enabled'
    <3>1. list' = <<>>
      BY <1>1, <2>1 DEF StartRequest, Rinit, Regular, Socket!rinit
    <3>2. "socket" \in Recorders
      <4>1. enabled' \subseteq Drivers BY <1>1, CoreAssumption DEF StartRequest, Rinit
      <4> QED BY <2>1, <4>1, RecorderFacts
    <3>3. recorded'["socket"] = <<>>
      BY <1>1, <3>2 DEF StartRequest, Rinit
    <3> QED BY <3>1, <3>3 DEF Noted
  <2>2. CASE "socket" \notin enabled'
    <3>1. UNCHANGED driver BY <1>1, <2>2 DEF StartRequest
    <3>2. phase \in {"startup", "idle"} BY <1>1 DEF StartRequest, Rinit
    <3> QED BY <3>1, <3>2 DEF driver, Protocol, Listed, InRequest
  <2> QED BY <2>1, <2>2
<1>2. CASE DeliverEvent
  <2>0. Deliver BY <1>2 DEF DeliverEvent
  <2>1. stack # <<>> /\ UNCHANGED <<request, enabled>>
    BY ONLY <2>0 DEF Deliver, Dispatching, lifecycle, settings
  <2>2. CASE RecorderList[Top.next] = "socket" /\ Wanted("socket", Current)
    <3>1. "socket" \in enabled BY <2>2 DEF Wanted, want_event
    <3>2. phase \in {"script", "ending", "stats"} BY <2>1 DEF Protocol, Sequenced
    <3>3. socket_events = "live" /\ list = Noted
      BY <3>1, <3>2 DEF Protocol, Called, Listed, InRequest, Filled
    <3>4. list' = Append(list, <<request, Top.id>>)
      BY <1>2, <2>2, <3>3 DEF DeliverEvent, Socket!process_event
    <3>5. recorded'["socket"] = Append(recorded["socket"], Top.id)
      BY <1>2, <2>2, <3>1, AtWork DEF DeliverEvent, Deliver, Record
    <3>6. recorded["socket"] \in Seq(Nat) /\ Top.id \in Nat /\ request \in Nat
      BY <2>1, <3>1, AtWork
    <3>7. Append(Noted, <<request, Top.id>>)
            = [k \in DOMAIN Append(recorded["socket"], Top.id) |->
                 <<request, Append(recorded["socket"], Top.id)[k]>>]
      BY <3>6, NotedAppend DEF Noted
    <3>8. Noted' = Append(Noted, <<request, Top.id>>)
      BY ONLY <2>1, <3>5, <3>7 DEF Noted
    <3> QED BY ONLY <3>3, <3>4, <3>8
  <2>3. CASE ~(RecorderList[Top.next] = "socket" /\ Wanted("socket", Current))
    <3>1. UNCHANGED <<socket_events, list>>
      BY <1>2, <2>3 DEF DeliverEvent, driver
    <3>2. "socket" \in enabled BY <3>1 DEF Protocol, Listed
    <3>3. recorded'["socket"] = recorded["socket"]
      <4>1. recorded' = recorded \/ (/\ RecorderList[Top.next] # "socket"
                                     /\ Record(RecorderList[Top.next], Top.id))
        BY <1>2, <2>3 DEF DeliverEvent, Deliver
      <4> QED BY <4>1, <3>2, AtWork DEF Record
    <3> QED BY <2>1, <3>1, <3>3 DEF Filled, Noted
  <2> QED BY <2>2, <2>3
<1>3. CASE CallRshutdown
  <2>1. UNCHANGED <<socket_events, list, request, recorded>>
    BY <1>3 DEF CallRshutdown, Socket!Enter, driver, vars, lifecycle, log
  <2> QED BY <2>1, <1>k
<1>4. CASE SocketRshutdown
  <2>1. UNCHANGED <<request, recorded>>
    BY <1>4 DEF SocketRshutdown, vars, lifecycle, log
  <2>2. UNCHANGED socket_events /\ (list' = list \/ pc = "close")
    BY <1>4, RshutdownFacts
  <2>3. pc # "close" BY <2>2 DEF Protocol, Listed
  <2> QED BY <2>1, <2>2, <2>3, <1>k
<1>5. CASE FinishRequest
  <2>1. UNCHANGED <<socket_events, list, request, recorded>>
    BY <1>5 DEF FinishRequest, RshutdownDrivers, driver, log
  <2> QED BY <2>1, <1>k
<1>6. CASE Elsewhere
  <2>1. UNCHANGED <<socket_events, list, request, recorded>>
    BY <1>6, ElsewhereFacts DEF Protocol, driver
  <2> QED BY <2>1, <1>k
<1>7. CASE UNCHANGED all
  BY <1>7, <1>k DEF all, vars, driver, lifecycle, log
<1>8. CASE SocketBlocks
  BY <1>8, <1>k DEF SocketBlocks, Socket!Block, vars, lifecycle, log
<1> QED BY <1>1, <1>2, <1>3, <1>4, <1>5, <1>6, <1>7, <1>8 DEF ComposedNext, Stuck

\* The report has the events the core gave the driver in this request, all of them and
\* in their order, for any drivers, any nesting of complaints and any socket_path.
THEOREM ReportIsOfThisRequest ==
  ASSUME Regular PROVE ComposedSpec => []ReportsThisRequest
<1>1. Protocol /\ Filled => ReportsThisRequest
  BY DEF Protocol, Called, Listed, Filled, Noted, ReportsThisRequest, InRequest
<1>2. ComposedInit => Filled
  BY DEF ComposedInit, Socket!InitDriver, Filled
<1> QED
  BY <1>1, <1>2, FilledNext, ProtocolInit, ProtocolNext, CoreHoldsInit, CoreHoldsNext, PTL
  DEF ComposedSpec

-----------------------------------------------------------------------------
(* How long the request took *)

LEMMA MeasuredNext ==
  ASSUME Regular, "socket" \in StatsEnabled
  PROVE  Measured /\ Protocol /\ CoreHolds /\ [ComposedNext]_all => Measured'
<1> SUFFICES ASSUME Measured, Protocol, CoreHolds, [ComposedNext]_all,
                    phase' \in {"stats", "flush", "drivers"}, "socket" \in enabled'
             PROVE  duration' = clock' - begin_tp'
  BY DEF Measured
<1>k. ASSUME phase \in {"stats", "flush", "drivers"}, enabled' = enabled,
             UNCHANGED <<duration, clock, begin_tp>>
      PROVE  duration' = clock' - begin_tp'
  BY <1>k DEF Measured
<1> USE DEF lifecycle, timing, settings
<1>1. CASE StartRequest BY <1>1 DEF StartRequest, Rinit
<1>2. CASE DeliverEvent BY <1>2, <1>k DEF DeliverEvent, Deliver
<1>3. CASE CallRshutdown BY <1>3, <1>k DEF CallRshutdown, vars
<1>4. CASE SocketRshutdown BY <1>4, <1>k DEF SocketRshutdown, vars
<1>5. CASE FinishRequest BY <1>5 DEF FinishRequest, RshutdownDrivers
<1>6. CASE Elsewhere
  <2> USE <1>6
  <2>1. CASE Minit BY <2>1 DEF Minit
  <2>2. CASE Mshutdown BY <2>2 DEF Mshutdown
  <2>3. CASE EndRequest BY <2>3 DEF EndRequest
  <2>4. ASSUME NEW level \in Levels, RaiseError(level)
        PROVE  phase' \notin {"stats", "flush", "drivers"}
    <3>1. phase \in {"startup", "script", "ending", "idle"} /\ phase' \in {phase, "ending"}
      BY <2>4 DEF RaiseError, CanRaise
    <3> QED BY <3>1
  <2>5. CASE Throw BY <2>5 DEF Throw, Running
  <2>6. CASE Catch BY <2>6 DEF Catch
  <2>7. CASE Uncaught BY <2>7 DEF Uncaught
  <2>8. CASE BeginSilence BY <2>8 DEF BeginSilence, Running
  <2>9. CASE EndSilence BY <2>9 DEF EndSilence, Running
  <2>10. CASE SwitchEvents BY <2>10 DEF SwitchEvents, Running
  <2>11. ASSUME NEW d \in RuntimeSwitch, SwitchDriver(d)
         PROVE  phase' \notin {"stats", "flush", "drivers"}
    BY <2>11 DEF SwitchDriver, Running
  <2>12. CASE Tick BY <2>12 DEF Tick
  <2>13. CASE ScriptEnd BY <2>13 DEF ScriptEnd
  <2>14. CASE Return BY <2>14, <1>k DEF Return
  <2>15. CASE Complain BY <2>15, <1>k DEF Complain
  <2>16. CASE RshutdownBegin
    <3>1. enabled' = enabled /\ enabled \subseteq Drivers /\ apm_enabled
      BY <2>16 DEF RshutdownBegin, CoreHolds, Dispatched, Typed, TypeOK, Protocol, Sequenced
    <3>2. \E d \in Drivers : want_stats(d)
      BY <3>1 DEF want_stats
    <3> QED BY <2>16, <3>1, <3>2 DEF RshutdownBegin
  <2>17. CASE RshutdownStats BY <2>17, <1>k DEF RshutdownStats
  <2>18. CASE ComplainStats BY <2>18, <1>k DEF ComplainStats
  <2>19. CASE RshutdownElasticsearch BY <2>19, <1>k DEF RshutdownElasticsearch
  <2>20. CASE Terminated BY <2>20, <1>k DEF Terminated, vars
  <2> QED
    BY <2>1, <2>2, <2>3, <2>4, <2>5, <2>6, <2>7, <2>8, <2>9, <2>10, <2>11, <2>12, <2>13,
       <2>14, <2>15, <2>16, <2>17, <2>18, <2>19, <2>20 DEF Elsewhere, Script
<1>7. CASE UNCHANGED all BY <1>7, <1>k DEF all, vars
<1>8. CASE SocketBlocks BY <1>8, <1>k DEF SocketBlocks, vars
<1> QED BY <1>1, <1>2, <1>3, <1>4, <1>5, <1>6, <1>7, <1>8 DEF ComposedNext, Stuck

\* The report has the details of the request if an error was recorded or the threshold
\* was reached in this request, and only then, when the driver collects statistics
\* (without them `duration' may be an earlier request's) and php.ini leaves
\* apm.event_enabled on.
THEOREM DetailsAreDue ==
  ASSUME Regular, EventEnabled, "socket" \in StatsEnabled
  PROVE  ComposedSpec => []DetailsWhenDue
<1> DEFINE I == Protocol /\ CoreHolds /\ Filled /\ Measured /\ Timed
<1>1. I => DetailsWhenDue
  <2> SUFFICES ASSUME I, pc = "send"
               PROVE  Socket!Report(SlowRequest).extras
                        <=> recorded["socket"] # <<>> \/ clock - started > Threshold
    BY DEF DetailsWhenDue
  <2>1. phase = "drivers" /\ "socket" \in enabled /\ socket_events = "live" /\ apm_enabled
    BY DEF Protocol, Sequenced, Called, Listed, InRequest
  <2>2. list = Noted /\ duration = clock - started
    BY <2>1 DEF Filled, Measured, Timed, InRequest
  <2>3. recorded["socket"] \in Seq(Nat) BY <2>1, AtWork
  <2>4. list # <<>> <=> recorded["socket"] # <<>>
    <3>1. CASE recorded["socket"] = <<>>
      BY <2>2, <3>1 DEF Noted
    <3>2. CASE recorded["socket"] # <<>>
      <4>1. 1 \in DOMAIN recorded["socket"]
        BY <2>3, <3>2, EmptySeq, LenProperties
      <4>2. 1 \in DOMAIN list BY <2>2, <4>1 DEF Noted
      <4> QED BY <3>2, <4>2
    <3> QED BY <3>1, <3>2
  <2>5. Socket!Report(SlowRequest).extras <=> list # <<>> \/ duration > Threshold
    BY DEF Socket!Report, SlowRequest, Slow
  <2> QED BY <2>2, <2>4, <2>5
<1>2. ComposedInit => I
  BY ProtocolInit, CoreHoldsInit
  DEF ComposedInit, Init, Socket!InitDriver, Filled, Measured, Timed, InRequest
<1>3. I /\ [ComposedNext]_all => I'
  <2>1. Timed /\ CoreHolds /\ [ComposedNext]_all => Timed'
    BY CoreSteps, TimedNext DEF CoreHolds, Dispatched
  <2> QED BY <2>1, ProtocolNext, CoreHoldsNext, FilledNext, MeasuredNext
<1> QED BY <1>1, <1>2, <1>3, PTL DEF ComposedSpec

-----------------------------------------------------------------------------
(* What the peers receive *)

Entries == DOMAIN Path
Notes == Nat \X Nat
Messages == [events : Seq(Notes), extras : BOOLEAN]

\* The sockets are distinct entries, and the loop that opens them is past them.
Cursor ==
  /\ at \in Nat \ {0} /\ it \in Nat \ {0} /\ sds \in Seq(Entries)
  /\ \A k \in 1..Len(sds) : sds[k] < at
  /\ \A k, l \in 1..Len(sds) : sds[k] = sds[l] => k = l
  /\ pc = "connect" => it = 1

\* The list and the inboxes.
Contents ==
  /\ list \in Seq(Notes) /\ inbox \in [Entries -> Seq(Messages)]
  /\ socket_events # "live" => list = <<>>

LEMMA EntryFacts == Len(Path) \in Nat /\ Entries = 1..Len(Path) /\ Entries \subseteq Nat
<1>1. Len(Path) \in Nat /\ DOMAIN Path = 1..Len(Path) BY PathAssumption, LenProperties
<1> QED BY <1>1 DEF Entries

LEMMA ContentsInit == ComposedInit => Cursor /\ Contents
<1> SUFFICES ASSUME ComposedInit PROVE Cursor /\ Contents
  OBVIOUS
<1>1. /\ list = <<>> /\ at = 1 /\ sds = <<>> /\ it = 1 /\ inbox = [i \in Entries |-> <<>>]
  BY Zenon DEF ComposedInit, Socket!InitDriver, Socket!Entries, Entries
<1>2. /\ <<>> \in Seq(Notes) /\ <<>> \in Seq(Messages) /\ <<>> \in Seq(Entries)
      /\ Len(<<>>) = 0 /\ 1..0 = {}
  OBVIOUS
<1> QED BY <1>1, <1>2 DEF Cursor, Contents

\* One more socket: the entry is none of the earlier ones.
LEMMA SocketAdded ==
  ASSUME Cursor, at \in Entries, sds' = Append(sds, at), at' = at + 1
  PROVE  /\ sds' \in Seq(Entries) /\ at' \in Nat \ {0}
         /\ \A k \in 1..Len(sds') : sds'[k] < at'
         /\ \A k, l \in 1..Len(sds') : sds'[k] = sds'[l] => k = l
<1> DEFINE n == Len(sds)
<1>1. /\ n \in Nat /\ sds \in Seq(Entries) /\ at \in Nat
      /\ \A k \in 1..n : sds[k] \in Nat /\ sds[k] < at
      /\ \A k, l \in 1..n : sds[k] = sds[l] => k = l
  BY EntryFacts, LenProperties, ElementOfSeq DEF Cursor
<1>2. /\ sds' \in Seq(Entries) /\ Len(sds') = n + 1 /\ sds'[n + 1] = at
      /\ \A k \in 1..n : sds'[k] = sds[k]
  BY <1>1, AppendProperties
<1> HIDE DEF n
<1>3. /\ \A k \in 1..n + 1 : k \in 1..n \/ k = n + 1
      /\ \A k \in 1..n : k \in 1..n + 1
  BY ONLY <1>1
<1>4. \A k \in 1..n : sds[k] # at /\ sds[k] < at + 1 BY ONLY <1>1
<1>5. \A k \in 1..n + 1 : sds'[k] < at' BY <1>1, <1>2, <1>3, <1>4
<1>6. ASSUME NEW k \in 1..n + 1, NEW l \in 1..n + 1, sds'[k] = sds'[l] PROVE k = l
  <2>1. CASE k \in 1..n /\ l \in 1..n BY <1>1, <1>2, <1>6, <2>1
  <2>2. CASE k = n + 1 \/ l = n + 1 BY <1>2, <1>3, <1>4, <1>6, <2>2
  <2> QED BY <1>3, <1>6, <2>1, <2>2
<1>7. at' \in Nat \ {0} BY <1>1
<1> QED BY <1>2, <1>5, <1>6, <1>7

\* The report goes to the next socket, or is lost on its way.
LEMMA SendFacts ==
  ASSUME Cursor, Contents, Protocol, NEW ok \in BOOLEAN, Socket!Send(SlowRequest, ok)
  PROVE  /\ pc = "send" /\ socket_events = "live"
         /\ UNCHANGED <<socket_events, list, pc, at, sds>> /\ it' \in Nat \ {0}
         /\ \E e \in Entries : \E m \in Messages :
              /\ e \notin {sds[k] : k \in 1..(it - 1)}
              /\ {sds[k] : k \in 1..(it' - 1)} = {sds[k] : k \in 1..(it - 1)} \union {e}
              /\ m.events = list
              /\ \/ inbox' = inbox
                 \/ inbox' = [inbox EXCEPT ![e] = Append(@, m)]
<1>1. /\ pc = "send" /\ it <= Len(sds) /\ it' = it + 1
      /\ UNCHANGED <<socket_events, list, pc, at, sds>>
  BY DEF Socket!Send
<1>2. socket_events = "live"
  <2>1. rshutdown_called /\ phase = "drivers" /\ "socket" \in enabled
    BY <1>1 DEF Protocol, Called
  <2> QED BY <1>1, <2>1 DEF Protocol, Listed, InRequest
<1> DEFINE e == sds[it]
           m == Socket!Report(SlowRequest)
<1>3. \/ inbox' = inbox
      \/ inbox' = [inbox EXCEPT ![e] = Append(@, m)]
  BY DEF Socket!Send
<1>4. it \in 1..Len(sds) /\ Len(sds) \in Nat /\ it \in Nat /\ it' \in Nat \ {0}
  BY <1>1, LenProperties DEF Cursor
<1>5. e \in Entries BY <1>4, ElementOfSeq DEF Cursor
<1>6. m \in Messages /\ m.events = list
  BY DEF Socket!Report, Messages, Contents
<1> HIDE DEF m
<1>7. \A k \in 1..(it - 1) : sds[k] # e
  <2>1. \A k \in 1..(it - 1) : k \in 1..Len(sds) /\ k # it BY ONLY <1>4
  <2> QED BY <1>4, <2>1 DEF Cursor
<1>8. 1..(it' - 1) = 1..(it - 1) \union {it} BY ONLY <1>1, <1>4
<1> HIDE DEF e
<1>9. {sds[k] : k \in 1..(it' - 1)} = {sds[k] : k \in 1..(it - 1)} \union {e}
  BY ONLY <1>8 DEF e
<1>10. e \notin {sds[k] : k \in 1..(it - 1)} BY ONLY <1>7
<1> QED BY ONLY <1>1, <1>2, <1>3, <1>4, <1>5, <1>6, <1>9, <1>10, Zenon

LEMMA CursorNext == Cursor /\ Contents /\ Protocol /\ [ComposedNext]_all => Cursor'
<1> SUFFICES ASSUME Cursor, Contents, Protocol, [ComposedNext]_all PROVE Cursor'
  OBVIOUS
<1>k. ASSUME UNCHANGED <<pc, at, sds, it>> PROVE Cursor' BY <1>k DEF Cursor
<1>1. CASE UNCHANGED driver BY <1>1, <1>k DEF driver
<1>2. CASE StartRequest
  BY <1>1, <1>2, <1>k DEF StartRequest, Socket!rinit, Socket!cursor
<1>3. CASE DeliverEvent
  BY <1>1, <1>3, <1>k DEF DeliverEvent, Socket!process_event, Socket!cursor
<1>4. CASE CallRshutdown
  <2>1. CASE Socket!Enter
    <3>1. sds' = <<>> /\ at' = 1 /\ it' = 1 BY <2>1 DEF Socket!Enter
    <3>2. <<>> \in Seq(Entries) /\ Len(<<>>) = 0 /\ 1..0 = {} OBVIOUS
    <3> QED BY <3>1, <3>2 DEF Cursor
  <2> QED BY <1>1, <1>4, <2>1 DEF CallRshutdown
<1>5. CASE Socket!Connect
  <2>1. /\ pc' = pc /\ it' = it /\ sds' = Append(sds, at) /\ at' = at + 1 /\ at <= Len(Path)
    BY <1>5 DEF Socket!Connect, Socket!Attempt, Socket!MoreEntries
  <2>2. at \in Entries BY <2>1, EntryFacts DEF Cursor
  <2> QED BY <2>1, <2>2, SocketAdded DEF Cursor
<1>6. CASE Socket!Refused \/ Socket!UnknownEntry
  <2>1. UNCHANGED <<pc, sds, it>> /\ at' = at + 1
    BY <1>6 DEF Socket!Refused, Socket!UnknownEntry
  <2>2. /\ \A k \in 1..Len(sds) : sds[k] \in Nat /\ sds[k] < at
        /\ at \in Nat
    BY EntryFacts, LenProperties, ElementOfSeq DEF Cursor
  <2>3. at' \in Nat \ {0} /\ \A k \in 1..Len(sds) : sds[k] < at' BY ONLY <2>1, <2>2
  <2> QED BY <2>1, <2>3 DEF Cursor
<1>7. CASE Socket!EndConnect BY <1>7 DEF Socket!EndConnect, Cursor
<1>8. ASSUME NEW ok \in BOOLEAN, Socket!Send(SlowRequest, ok) PROVE Cursor'
  BY <1>8, SendFacts DEF Cursor
<1>9. CASE Socket!clear_events BY <1>9 DEF Socket!clear_events, Cursor
<1>10. CASE Socket!Close
  <2>1. pc' # "connect" /\ it' \in Nat \ {0} /\ UNCHANGED <<at, sds>>
    BY <1>10 DEF Socket!Close, Cursor
  <2> QED BY <2>1 DEF Cursor
<1>11. CASE Socket!Block BY <1>11 DEF Socket!Block, Cursor
<1> QED
  BY <1>1, <1>2, <1>3, <1>4, <1>5, <1>6, <1>7, <1>8, <1>9, <1>10, <1>11
  DEF ComposedNext, SocketRshutdown, Socket!rshutdown, SocketBlocks, Stuck, FinishRequest,
      Elsewhere, all

LEMMA ContentsNext ==
  Cursor /\ Contents /\ Protocol /\ CoreHolds /\ [ComposedNext]_all => Contents'
<1> SUFFICES ASSUME Cursor, Contents, Protocol, CoreHolds, [ComposedNext]_all
             PROVE  Contents'
  OBVIOUS
<1>k. ASSUME UNCHANGED <<socket_events, list, inbox>> PROVE Contents' BY <1>k DEF Contents
<1>1. CASE UNCHANGED driver BY <1>1, <1>k DEF driver
<1>e. <<>> \in Seq(Notes) OBVIOUS
<1>2. CASE StartRequest
  <2>1. CASE Socket!rinit
    BY <1>e, <2>1 DEF Socket!rinit, Contents
  <2> QED BY <1>1, <1>2, <2>1 DEF StartRequest
<1>3. CASE DeliverEvent
  <2>1. CASE Socket!process_event(<<request, Top.id>>)
    <3>1. UNCHANGED <<socket_events, inbox>> BY <2>1 DEF Socket!process_event
    <3>2. CASE socket_events # "live"
      BY <1>k, <2>1, <3>1, <3>2 DEF Socket!process_event
    <3>3. CASE socket_events = "live"
      <4>1. list' = Append(list, <<request, Top.id>>)
        BY <2>1, <3>3 DEF Socket!process_event
      <4>2. stack # <<>> BY <1>3 DEF DeliverEvent, Deliver, Dispatching
      <4>3. <<request, Top.id>> \in Notes BY <4>2, AtWork DEF Notes
      <4>4. list' \in Seq(Notes) BY <4>1, <4>3, AppendProperties DEF Contents
      <4> QED BY <3>1, <3>3, <4>4 DEF Contents
    <3> QED BY <3>2, <3>3
  <2> QED BY <1>1, <1>3, <2>1 DEF DeliverEvent
<1>4. CASE CallRshutdown
  BY <1>1, <1>4, <1>k DEF CallRshutdown, Socket!Enter
<1>5. CASE Socket!Connect \/ Socket!Refused \/ Socket!UnknownEntry \/ Socket!EndConnect
             \/ Socket!Close
  BY <1>5, <1>k DEF Socket!Connect, Socket!Refused, Socket!UnknownEntry, Socket!EndConnect,
                    Socket!Close
<1>6. ASSUME NEW ok \in BOOLEAN, Socket!Send(SlowRequest, ok) PROVE Contents'
  <2>1. UNCHANGED <<socket_events, list>> BY <1>6, SendFacts
  <2>2. PICK e \in Entries, m \in Messages :
          inbox' = inbox \/ inbox' = [inbox EXCEPT ![e] = Append(@, m)]
    BY <1>6, SendFacts
  <2>3. Append(inbox[e], m) \in Seq(Messages) BY AppendProperties DEF Contents
  <2>4. inbox' \in [Entries -> Seq(Messages)] BY <2>2, <2>3 DEF Contents
  <2> QED BY <2>1, <2>4 DEF Contents
<1>7. CASE Socket!clear_events
  BY <1>7, <1>e DEF Socket!clear_events, Contents
<1>8. CASE Socket!Block BY <1>8, <1>k DEF Socket!Block
<1> QED
  BY <1>1, <1>2, <1>3, <1>4, <1>5, <1>6, <1>7, <1>8
  DEF ComposedNext, SocketRshutdown, Socket!rshutdown, SocketBlocks, Stuck, FinishRequest,
      Elsewhere, all

\* A report more in an inbox is a batch more.
LEMMA OneMoreBatch ==
  ASSUME NEW s \in Seq(Messages), NEW m \in Messages
  PROVE  [k \in DOMAIN Append(s, m) |-> Append(s, m)[k].events]
           = Append([k \in DOMAIN s |-> s[k].events], m.events)
<1> DEFINE t == Append(s, m)
           n == Len(s)
           b == [k \in 1..n |-> s[k].events]
           a == Append(b, m.events)
<1>1. /\ t \in Seq(Messages) /\ Len(t) = n + 1 /\ t[n + 1] = m
      /\ \A k \in 1..n : t[k] = s[k]
  BY AppendProperties
<1>2. n \in Nat /\ DOMAIN s = 1..n /\ DOMAIN t = 1..n + 1
  BY <1>1, LenProperties
<1>3. \A k \in 1..n : s[k].events \in Seq(Notes)
  <2>1. \A k \in 1..n : s[k] \in Messages BY ElementOfSeq
  <2> QED BY <2>1 DEF Messages
<1>4. m.events \in Seq(Notes) BY DEF Messages
<1> HIDE DEF t, n
<1>5. b \in Seq(Seq(Notes)) /\ Len(b) = n
  <2>1. b \in [1..n -> Seq(Notes)] BY ONLY <1>3
  <2>2. n \in Nat /\ DOMAIN b = 1..n BY ONLY <1>2
  <2> HIDE DEF b
  <2>3. b \in Seq(Seq(Notes)) BY ONLY <2>1, <2>2
  <2> QED BY ONLY <2>2, <2>3, LenProperties
<1>6. /\ a \in Seq(Seq(Notes)) /\ Len(a) = n + 1 /\ DOMAIN a = 1..n + 1
      /\ a[n + 1] = m.events /\ \A k \in 1..n : a[k] = b[k]
  <2> DEFINE v == m.events
  <2> HIDE DEF b, v
  <2>1. /\ Append(b, v) \in Seq(Seq(Notes)) /\ Len(Append(b, v)) = n + 1
        /\ Append(b, v)[n + 1] = v /\ \A k \in 1..n : Append(b, v)[k] = b[k]
    BY <1>4, <1>5, AppendProperties DEF v
  <2>2. DOMAIN Append(b, v) = 1..n + 1 BY ONLY <2>1, LenProperties
  <2> QED BY ONLY <2>1, <2>2 DEF v
<1>7. \A k \in 1..n : b[k] = s[k].events OBVIOUS
<1> HIDE DEF a
<1>8. a = [k \in 1..n + 1 |-> a[k]]
  BY <1>6
<1>9. \A k \in 1..n + 1 : a[k] = t[k].events
  <2>1. \A k \in 1..n + 1 : k \in 1..n \/ k = n + 1 BY ONLY <1>2
  <2> QED BY ONLY <1>1, <1>6, <1>7, <2>1
<1>10. a = [k \in 1..n + 1 |-> t[k].events]
  BY ONLY <1>8, <1>9
<1> QED BY <1>2, <1>10 DEF a, t, n

LEMMA ReportedInit == ComposedInit => Reported!Init
<1> SUFFICES ASSUME ComposedInit PROVE Reported!Init
  OBVIOUS
<1>1. /\ socket_events = "null" /\ list = <<>> /\ pc = "idle"
      /\ inbox = [i \in DOMAIN Path |-> <<>>]
  BY Zenon DEF ComposedInit, Socket!InitDriver, Socket!Entries
<1>2. [k \in DOMAIN <<>> |-> <<>>[k].events] = <<>>
  OBVIOUS
<1>3. \A i \in DOMAIN Path : [k \in DOMAIN inbox[i] |-> inbox[i][k].events] = <<>>
  BY <1>1, <1>2
<1> QED BY <1>1, <1>3 DEF Reported!Init

LEMMA OfferedBatch ==
  ASSUME Contents, NEW e \in Entries, NEW m \in Messages, m.events = list,
         inbox' = inbox \/ inbox' = [inbox EXCEPT ![e] = Append(@, m)]
  PROVE  LET out == [i \in DOMAIN Path |-> [k \in DOMAIN inbox[i] |-> inbox[i][k].events]] IN
         out' \in {out, [out EXCEPT ![e] = Append(@, list)]}
<1> DEFINE Batches(s) == [k \in DOMAIN s |-> s[k].events]
           out == [i \in Entries |-> Batches(inbox[i])]
           new == [i \in Entries |-> Batches(inbox'[i])]
<1>1. CASE inbox' = inbox BY <1>1 DEF Entries
<1>2. CASE inbox' = [inbox EXCEPT ![e] = Append(@, m)]
  <2>1. inbox[e] \in Seq(Messages) BY DEF Contents
  <2>2. inbox'[e] = Append(inbox[e], m) /\ \A i \in Entries : i # e => inbox'[i] = inbox[i]
    BY <1>2 DEF Contents
  <2>3. Batches(Append(inbox[e], m)) = Append(Batches(inbox[e]), list)
    BY <2>1, OneMoreBatch
  <2> HIDE DEF Batches
  <2>4. \A i \in Entries : new[i] = IF i = e THEN Append(out[e], list) ELSE out[i]
    BY <2>2, <2>3
  <2>5. new = [out EXCEPT ![e] = Append(@, list)]
    BY <2>4
  <2> QED BY <2>5 DEF Batches, Entries
<1> QED BY <1>1, <1>2

LEMMA ReportedNext ==
  ASSUME Regular
  PROVE  Cursor /\ Contents /\ Protocol /\ CoreHolds /\ [ComposedNext]_all
           => [Reported!Next]_(Reported!vars)
<1> SUFFICES ASSUME Cursor, Contents, Protocol, CoreHolds, [ComposedNext]_all
             PROVE  [Reported!Next]_(Reported!vars)
  OBVIOUS
\* A step that leaves the list and the inboxes alone, and the phase of the report.
<1>k. ASSUME UNCHANGED <<socket_events, list, inbox>>,
             pc \in {"connect", "send"} <=> pc' \in {"connect", "send"},
             pc = "stuck" <=> pc' = "stuck",
             (IF pc \in {"send", "stuck"} THEN {sds[k] : k \in 1..(it - 1)} ELSE {})'
               = IF pc \in {"send", "stuck"} THEN {sds[k] : k \in 1..(it - 1)} ELSE {}
      PROVE  UNCHANGED Reported!vars
  BY <1>k DEF Reported!vars
<1>1. CASE UNCHANGED driver BY <1>1 DEF driver, Reported!vars
<1>2. CASE StartRequest
  <2>1. CASE Socket!rinit
    <3>1. phase \in {"startup", "idle"} BY <1>2 DEF StartRequest, Rinit
    <3>2. socket_events # "live" /\ pc = "idle" BY <3>1 DEF Protocol, Called, Listed, InRequest
    <3>3. /\ socket_events' = "live" /\ list' = <<>> /\ UNCHANGED <<pc, sds, it, inbox>>
      BY <2>1 DEF Socket!rinit, Socket!cursor
    <3>4. Reported!Begin
      BY <3>2, <3>3 DEF Reported!Begin, Contents
    <3> QED BY <3>4 DEF Reported!Next
  <2> QED BY <1>1, <1>2, <2>1 DEF StartRequest
<1>3. CASE DeliverEvent
  <2>1. CASE Socket!process_event(<<request, Top.id>>) /\ Wanted("socket", Current)
    <3>1. UNCHANGED <<socket_events, pc, sds, it, inbox>>
      BY <2>1 DEF Socket!process_event, Socket!cursor
    <3>2. stack # <<>> BY <1>3 DEF DeliverEvent, Deliver, Dispatching
    <3>3. socket_events = "live" /\ pc = "idle"
      BY <2>1, <3>2 DEF Wanted, want_event, Protocol, Sequenced, Called, Listed, InRequest
    <3>4. list' = Append(list, <<request, Top.id>>)
      BY <2>1, <3>3 DEF Socket!process_event
    <3>5. <<request, Top.id>> \in Nat \X Nat BY <3>2, AtWork
    <3>6. Reported!Collect
      BY <3>1, <3>3, <3>4, <3>5 DEF Reported!Collect
    <3> QED BY <3>6 DEF Reported!Next
  <2> QED BY <1>1, <1>3, <2>1 DEF DeliverEvent
<1>4. CASE CallRshutdown
  <2>1. CASE Socket!Enter /\ "socket" \in enabled
    <3>1. pc = "idle" /\ pc' = "connect" /\ UNCHANGED <<socket_events, list, inbox>>
      BY <2>1 DEF Socket!Enter
    <3>2. socket_events = "live"
      BY <1>4, <2>1 DEF CallRshutdown, Protocol, Listed, InRequest
    <3>3. Reported!Finish BY <3>1, <3>2 DEF Reported!Finish
    <3> QED BY <3>3 DEF Reported!Next
  <2> QED BY <1>1, <1>4, <2>1 DEF CallRshutdown
<1>5. CASE Socket!Connect \/ Socket!Refused \/ Socket!UnknownEntry
  <2>1. pc = "connect" /\ pc' = "connect" /\ UNCHANGED <<socket_events, list, inbox>>
    BY <1>5 DEF Socket!Connect, Socket!Refused, Socket!UnknownEntry, Socket!Attempt
  <2> QED BY <1>k, <2>1
<1>6. CASE Socket!EndConnect
  <2>1. /\ pc = "connect" /\ pc' = "send" /\ it' = 1
        /\ UNCHANGED <<socket_events, list, inbox>>
    BY <1>6 DEF Socket!EndConnect, Cursor
  <2>2. 1..(it' - 1) = {} BY <2>1
  <2>3. {sds'[k] : k \in 1..(it' - 1)} = {} BY <2>2
  <2> QED BY <1>k, <2>1, <2>3
<1>7. ASSUME NEW ok \in BOOLEAN, Socket!Send(SlowRequest, ok) PROVE Reported!Next
  <2>1. pc = "send" /\ socket_events = "live" /\ UNCHANGED <<socket_events, list, pc, sds>>
    BY <1>7, SendFacts
  <2>2. PICK e \in Entries, m \in Messages :
          /\ e \notin {sds[k] : k \in 1..(it - 1)}
          /\ {sds[k] : k \in 1..(it' - 1)} = {sds[k] : k \in 1..(it - 1)} \union {e}
          /\ m.events = list
          /\ inbox' = inbox \/ inbox' = [inbox EXCEPT ![e] = Append(@, m)]
    BY <1>7, SendFacts
  <2>3. LET out == [i \in DOMAIN Path |-> [k \in DOMAIN inbox[i] |-> inbox[i][k].events]] IN
        out' \in {out, [out EXCEPT ![e] = Append(@, list)]}
    BY <2>2, OfferedBatch
  <2>4. Reported!Offer(e)
    <3> DEFINE offered == IF pc \in {"send", "stuck"} THEN {sds[k] : k \in 1..(it - 1)} ELSE {}
    <3>1. UNCHANGED <<socket_events, list, pc>> BY <2>1
    <3>2. e \notin offered /\ offered' = offered \union {e} BY <2>1, <2>2
    <3> QED BY <2>1, <2>3, <3>1, <3>2 DEF Reported!Offer
  <2>5. e \in DOMAIN Path BY DEF Entries
  <2> QED BY <2>4, <2>5 DEF Reported!Next
<1>8. CASE Socket!clear_events
  <2>1. /\ pc = "send" /\ pc' = "close" /\ socket_events' = "freed" /\ list' = <<>>
        /\ UNCHANGED inbox
    BY <1>8 DEF Socket!clear_events
  <2>2. socket_events = "live" BY <2>1 DEF Protocol, Called, Listed, InRequest
  <2>3. Reported!Forget BY <2>1, <2>2 DEF Reported!Forget
  <2> QED BY <2>3 DEF Reported!Next
<1>9. CASE Socket!Close
  <2>1. pc = "close" /\ pc' \in {"close", "idle"} /\ UNCHANGED <<socket_events, list, inbox>>
    BY <1>9 DEF Socket!Close
  <2> QED BY <1>k, <2>1
<1>10. CASE Socket!Block
  <2>1. /\ pc \in {"connect", "send"} /\ pc' = "stuck" /\ (pc = "connect" => it = 1)
        /\ UNCHANGED <<socket_events, list, inbox, sds, it>>
    BY <1>10 DEF Socket!Block, Socket!Attempt, Cursor
  <2>2. socket_events = "live" BY <2>1 DEF Protocol, Called, Listed, InRequest
  <2>3. it = 1 => {sds[k] : k \in 1..(it - 1)} = {} OBVIOUS
  <2>4. Reported!Stall BY <2>1, <2>2, <2>3 DEF Reported!Stall
  <2> QED BY <2>4 DEF Reported!Next
<1> QED
  BY <1>1, <1>2, <1>3, <1>4, <1>5, <1>6, <1>7, <1>8, <1>9, <1>10
  DEF ComposedNext, SocketRshutdown, Socket!rshutdown, SocketBlocks, Stuck, FinishRequest,
      Elsewhere, all

\* What the composition is shown by, from its first state on.
Composed == Cursor /\ Contents /\ Protocol /\ CoreHolds

LEMMA ComposedHolds == ASSUME Regular PROVE ComposedSpec => []Composed
<1>1. ComposedInit => Composed
  BY ContentsInit, ProtocolInit, CoreHoldsInit DEF Composed
<1>2. Composed /\ [ComposedNext]_all => Composed'
  BY CursorNext, ContentsNext, ProtocolNext, CoreHoldsNext DEF Composed
<1> QED BY <1>1, <1>2, PTL DEF ComposedSpec

\* The driver keeps its promise under the calls the core makes of it, whichever
\* drivers each request enables and however their complaints nest: what a request's
\* events are is collected in order, offered whole to each peer at most once when the
\* request ends, and forgotten before the next one begins.
THEOREM CoreReportsEachRequest == ASSUME Regular PROVE ComposedSpec => ReportsEachRequest
<1>1. Composed /\ [ComposedNext]_all => [Reported!Next]_(Reported!vars)
  BY ReportedNext DEF Composed
<1> QED BY <1>1, ReportedInit, ComposedHolds, PTL DEF ComposedSpec, ReportsEachRequest


-----------------------------------------------------------------------------
(* No peer is told of an event twice *)

\* The reports a peer received tell of a request; none of their events is another's.
Told(s, n) == \E k \in DOMAIN s : \E a \in DOMAIN s[k].events : s[k].events[a][1] = n
Once(s) == \A k, l \in DOMAIN s : \A a \in DOMAIN s[k].events : \A b \in DOMAIN s[l].events :
             s[k].events[a] = s[l].events[b] => k = l /\ a = b

\* No peer was told of a request to come; and of the one whose list the driver has,
\* only those that its loop has passed.
Dated ==
  /\ \A i \in Entries : /\ Once(inbox[i])
                        /\ \A n \in Nat : Told(inbox[i], n) => n <= request
  /\ socket_events = "live" =>
       \A i \in Entries : Told(inbox[i], request)
                            => pc \in {"send", "stuck"} /\ i \in {sds[k] : k \in 1..(it - 1)}

\* A report more, of a request the peer was not told of.
LEMMA OneMoreReport ==
  ASSUME NEW s \in Seq(Messages), NEW m \in Messages, NEW n \in Nat,
         Once(s), ~Told(s, n), Injective(m.events),
         \A a \in DOMAIN m.events : m.events[a][1] = n
  PROVE  /\ Once(Append(s, m))
         /\ \A r \in Nat : Told(Append(s, m), r) => Told(s, r) \/ r = n
<1> DEFINE t == Append(s, m)
           z == Len(s)
<1>1. /\ t \in Seq(Messages) /\ Len(t) = z + 1 /\ t[z + 1] = m
      /\ \A k \in 1..z : t[k] = s[k]
  BY AppendProperties
<1>2. z \in Nat /\ DOMAIN s = 1..z /\ DOMAIN t = 1..z + 1
  BY <1>1, LenProperties
<1> HIDE DEF t, z
<1>3. \A k \in DOMAIN t : (k \in DOMAIN s /\ t[k] = s[k]) \/ (k = z + 1 /\ t[k] = m)
  <2>1. \A k \in 1..z + 1 : k \in 1..z \/ k = z + 1 BY ONLY <1>2
  <2> QED BY <1>1, <1>2, <2>1
<1>4. \A r \in Nat : Told(t, r) => Told(s, r) \/ r = n
  BY <1>3 DEF Told
<1>5. ASSUME NEW k \in DOMAIN t, NEW l \in DOMAIN t,
             NEW a \in DOMAIN t[k].events, NEW b \in DOMAIN t[l].events,
             t[k].events[a] = t[l].events[b]
      PROVE  k = l /\ a = b
  <2>1. CASE k \in DOMAIN s /\ t[k] = s[k] /\ l \in DOMAIN s /\ t[l] = s[l]
    <3>1. /\ a \in DOMAIN s[k].events /\ b \in DOMAIN s[l].events
          /\ s[k].events[a] = s[l].events[b]
      BY <1>5, <2>1
    <3> QED BY <2>1, <3>1 DEF Once
  <2>2. CASE k = z + 1 /\ t[k] = m /\ l = z + 1 /\ t[l] = m
    BY <1>5, <2>2 DEF Injective
  <2>3. CASE k \in DOMAIN s /\ t[k] = s[k] /\ l = z + 1 /\ t[l] = m
    <3>1. s[k].events[a][1] = n BY <1>5, <2>3, Zenon
    <3> QED BY <2>3, <3>1, Zenon DEF Told
  <2>4. CASE k = z + 1 /\ t[k] = m /\ l \in DOMAIN s /\ t[l] = s[l]
    <3>1. s[l].events[b][1] = n BY <1>5, <2>4, Zenon
    <3> QED BY <2>4, <3>1, Zenon DEF Told
  <2> QED BY <1>3, <2>1, <2>2, <2>3, <2>4, Zenon
<1>6. Once(t) BY <1>5, Zenon DEF Once
<1> QED BY <1>4, <1>6 DEF t

LEMMA DatedInit == ComposedInit => Dated
<1> SUFFICES ASSUME ComposedInit PROVE Dated
  OBVIOUS
<1>1. /\ socket_events = "null" /\ \A i \in Entries : inbox[i] = <<>>
  BY Zenon DEF ComposedInit, Socket!InitDriver, Socket!Entries, Entries
<1>2. DOMAIN <<>> = {} OBVIOUS
<1>3. Once(<<>>) /\ \A n : ~Told(<<>>, n) BY <1>2, Zenon DEF Once, Told
<1> QED BY <1>1, <1>3 DEF Dated

LEMMA DatedNext ==
  ASSUME Regular
  PROVE  Dated /\ Composed /\ Filled /\ Recorded /\ [ComposedNext]_all => Dated'
<1> SUFFICES ASSUME Dated, Composed, Filled, Recorded, [ComposedNext]_all PROVE Dated'
  OBVIOUS
<1> USE DEF Composed
<1>k. ASSUME UNCHANGED <<inbox, request>>,
             socket_events' = "live" =>
               /\ socket_events = "live"
               /\ pc \in {"send", "stuck"} => UNCHANGED <<pc, sds, it>>
      PROVE  Dated'
  BY <1>k DEF Dated
<1>d. ASSUME UNCHANGED driver, UNCHANGED request PROVE Dated' BY <1>d, <1>k DEF driver
<1>1. CASE UNCHANGED all BY <1>1, <1>d DEF all, vars, lifecycle
<1>2. CASE StartRequest
  <2>1. request' = request + 1 /\ request \in Nat /\ phase \in {"startup", "idle"}
    BY <1>2, AtWork DEF StartRequest, Rinit
  <2>2. UNCHANGED inbox /\ (socket_events' = "live" => socket_events = "live" \/ Socket!rinit)
    BY <1>2 DEF StartRequest, driver, Socket!rinit
  <2>3. \A i \in Entries : Once(inbox'[i]) /\ \A n \in Nat : Told(inbox'[i], n) => n <= request'
    <3>1. \A n \in Nat : n <= request => n <= request' BY ONLY <2>1
    <3> QED BY <2>2, <3>1 DEF Dated
  <2>4. \A i \in Entries : ~Told(inbox'[i], request')
    <3>1. request' \in Nat /\ ~(request' <= request) BY ONLY <2>1
    <3> QED BY <2>2, <3>1 DEF Dated
  <2> QED BY <2>3, <2>4 DEF Dated
<1>3. CASE DeliverEvent
  <2>1. UNCHANGED request BY <1>3 DEF DeliverEvent, Deliver, lifecycle
  <2>2. UNCHANGED <<inbox, socket_events, pc, sds, it>>
    BY <1>3 DEF DeliverEvent, driver, Socket!process_event, Socket!cursor
  <2> QED BY <2>1, <2>2, <1>k
<1>4. CASE CallRshutdown
  <2>1. UNCHANGED request BY <1>4 DEF CallRshutdown, vars, lifecycle
  <2>2. UNCHANGED <<inbox, socket_events>> /\ pc = "idle"
    BY <1>4 DEF CallRshutdown, driver, Socket!Enter, Protocol, Called
  <2> QED BY <2>1, <2>2, <1>k
<1>5. CASE SocketRshutdown
  <2>0. UNCHANGED request BY <1>5 DEF SocketRshutdown, vars, lifecycle
  <2>1. CASE Socket!Connect \/ Socket!Refused \/ Socket!UnknownEntry \/ Socket!EndConnect
    <3>1. UNCHANGED <<inbox, socket_events>> /\ pc = "connect"
      BY <2>1 DEF Socket!Connect, Socket!Refused, Socket!UnknownEntry, Socket!EndConnect,
                  Socket!Attempt
    <3> QED BY <2>0, <3>1, <1>k
  <2>2. CASE Socket!clear_events
    <3>1. UNCHANGED inbox /\ socket_events' # "live" BY <2>2 DEF Socket!clear_events
    <3> QED BY <2>0, <3>1, <1>k
  <2>3. CASE Socket!Close
    <3>1. UNCHANGED <<inbox, socket_events>> /\ pc = "close" BY <2>3 DEF Socket!Close
    <3> QED BY <2>0, <3>1, <1>k DEF Protocol, Listed
  <2>4. ASSUME NEW ok \in BOOLEAN, Socket!Send(SlowRequest, ok) PROVE Dated'
    <3>1. PICK e \in Entries, m \in Messages :
            /\ e \notin {sds[k] : k \in 1..(it - 1)}
            /\ {sds[k] : k \in 1..(it' - 1)} = {sds[k] : k \in 1..(it - 1)} \union {e}
            /\ m.events = list
            /\ inbox' = inbox \/ inbox' = [inbox EXCEPT ![e] = Append(@, m)]
      BY <2>4, SendFacts
    <3>2. /\ pc = "send" /\ pc' = "send" /\ socket_events = "live"
          /\ request \in Nat /\ "socket" \in enabled
      BY <2>4, SendFacts, AtWork DEF Protocol, Listed
    <3>3. Injective(list) /\ \A a \in DOMAIN list : list[a][1] = request
      <4>1. list = Noted BY <3>2 DEF Filled
      <4>2. Injective(recorded["socket"]) BY <3>2, AtWork DEF Recorded
      <4>3. Injective(Noted) BY <4>2 DEF Noted, Injective
      <4>4. \A a \in DOMAIN Noted : Noted[a][1] = request BY DEF Noted
      <4> QED BY <4>1, <4>3, <4>4
    <3>4. Once(inbox[e]) /\ ~Told(inbox[e], request) /\ inbox[e] \in Seq(Messages)
      BY <3>1, <3>2 DEF Dated, Contents
    <3>5. /\ Once(Append(inbox[e], m))
          /\ \A n \in Nat : Told(Append(inbox[e], m), n) => Told(inbox[e], n) \/ n = request
      BY <3>1, <3>2, <3>3, <3>4, OneMoreReport
    <3>6. \A i \in Entries : inbox'[i] = inbox[i] \/ (i = e /\ inbox'[i] = Append(inbox[e], m))
      BY <3>1 DEF Contents
    <3>7. \A i \in Entries : /\ Once(inbox'[i])
                             /\ \A n \in Nat : Told(inbox'[i], n)
                                  => Told(inbox[i], n) \/ (n = request /\ i = e)
      BY <3>5, <3>6 DEF Dated
    <3>8. \A i \in Entries : \A n \in Nat : Told(inbox'[i], n) => n <= request'
      BY <2>0, <3>2, <3>7 DEF Dated
    <3>9. \A i \in Entries : Told(inbox'[i], request)
                               => i \in {sds[k] : k \in 1..(it' - 1)}
      BY <3>1, <3>2, <3>7 DEF Dated
    <3>10. sds' = sds BY <2>4, SendFacts
    <3> QED BY <2>0, <3>2, <3>7, <3>8, <3>9, <3>10 DEF Dated
  <2> QED BY <1>5, <2>1, <2>2, <2>3, <2>4 DEF SocketRshutdown, Socket!rshutdown
<1>6. CASE FinishRequest
  BY <1>6, <1>d DEF FinishRequest, RshutdownDrivers, lifecycle
<1>7. CASE Elsewhere
  <2>1. UNCHANGED <<driver, request>> BY <1>7, ElsewhereFacts DEF Protocol
  <2> QED BY <2>1, <1>d
<1>8. CASE SocketBlocks
  <2>1. UNCHANGED <<inbox, socket_events, sds, it, request>>
        /\ pc \in {"connect", "send"} /\ pc' = "stuck"
    BY <1>8 DEF SocketBlocks, Socket!Block, Socket!Attempt, vars, lifecycle
  <2> QED BY <2>1 DEF Dated
<1> QED BY <1>1, <1>2, <1>3, <1>4, <1>5, <1>6, <1>7, <1>8 DEF ComposedNext, Stuck

\* No peer is told of an event twice, in one report or in two, in any number of
\* requests: the core gives the driver an event at most once, the driver a peer its
\* list at most once, and no list reaches into the next request.
THEOREM EventsAreReportedOnce ==
  ASSUME Regular PROVE ComposedSpec => []EventsReportedOnce
<1>1. Dated => EventsReportedOnce
  BY DEF Dated, Once, EventsReportedOnce, Entries
<1>2. ComposedInit => Filled /\ Recorded
  BY RecordedInit DEF ComposedInit, Socket!InitDriver, Filled
<1>3. Composed /\ Filled /\ [ComposedNext]_all => Filled'
  BY FilledNext DEF Composed
<1>4. Composed /\ Recorded /\ [ComposedNext]_all => Recorded'
  BY CoreSteps, RecordedNext DEF Composed, CoreHolds
<1>5. Composed /\ Filled /\ Recorded /\ Dated /\ [ComposedNext]_all => Dated'
  BY DatedNext
<1> QED BY <1>1, <1>2, <1>3, <1>4, <1>5, DatedInit, ComposedHolds, PTL DEF ComposedSpec

=============================================================================
