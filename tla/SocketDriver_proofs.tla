------------------------- MODULE SocketDriver_proofs -------------------------
(***************************************************************************)
(* Theorems of SocketDriver, for every socket path, every MAX_SOCKETS and  *)
(* every answer of the peers: no descriptor is left open, the event list   *)
(* is never followed while it is not there, and what the peers receive are *)
(* the batches of RequestReport.                                           *)
(***************************************************************************)
EXTENDS SocketDriver, SequenceTheorems, FiniteSetTheorems, TLAPS

-----------------------------------------------------------------------------
(* The invariant *)

\* The entries whose descriptors the rest of rshutdown has to close.
Connected == {sds[k] : k \in 1..Len(sds)}
Pending == CASE pc = "idle" -> {}
             [] pc = "close" -> {sds[k] : k \in it..Len(sds)}
             [] OTHER -> Connected

\* Each entry has at most one socket, and the loop is past it.
Distinct ==
  /\ \A k \in 1..Len(sds) : sds[k] < at
  /\ \A k, l \in 1..Len(sds) : sds[k] = sds[l] => k = l

\* The list is live exactly while there is something to report.
Listed ==
  /\ pc = "connect" => it = 1
  /\ pc \in {"connect", "send", "stuck"} => socket_events = "live"
  /\ pc = "close" => socket_events = "freed"
  /\ socket_events # "live" => list = <<>>
  /\ ~damaged

\* The sockets open are the ones still to close.
Sockets == TypeOK /\ Distinct /\ open = Pending /\ Listed

LEMMA PathFacts ==
  Len(Path) \in Nat /\ Entries = 1..Len(Path) /\ MaxSockets \in Nat
BY SocketAssumption, LenProperties DEF Entries

\* What the types say of the numbers in the cursor.
LEMMA CursorFacts ==
  ASSUME TypeOK
  PROVE  /\ sds \in Seq(Entries) /\ Len(sds) \in Nat /\ at \in Nat /\ it \in Nat /\ it >= 1
         /\ at >= 1 /\ at <= Len(Path) + 1 /\ it <= Len(sds) + 1 /\ Len(sds) <= MaxSockets
         /\ \A k \in 1..Len(sds) : sds[k] \in Entries /\ sds[k] \in Nat
<1>1. sds \in Seq(Entries) /\ at \in 1..(Len(Path) + 1) /\ it \in 1..(Len(sds) + 1)
      /\ Len(sds) <= MaxSockets
  BY DEF TypeOK
<1>2. Len(sds) \in Nat BY <1>1, LenProperties
<1>3. \A k \in 1..Len(sds) : sds[k] \in Entries BY <1>1, ElementOfSeq
<1>4. \A k \in 1..Len(sds) : sds[k] \in Nat BY <1>3, PathFacts
<1> QED BY <1>1, <1>2, <1>3, <1>4, PathFacts

LEMMA SocketsInit == Init => Sockets
<1> SUFFICES ASSUME Init PROVE Sockets
  OBVIOUS
<1>1. <<>> \in Seq(Nat) /\ <<>> \in Seq(Entries) /\ <<>> \in Seq(Reports) /\ Len(<<>>) = 0
  OBVIOUS
<1>2. peer \in PossiblePeers /\ inbox \in [Entries -> Seq(Reports)]
  BY <1>1 DEF Init, InitDriver, PossiblePeers, PeerStates
<1>3. exhausted \in BOOLEAN /\ damaged \in BOOLEAN /\ ~damaged
  BY Zenon DEF Init, InitDriver
<1>4. /\ socket_events = "null" /\ list = <<>> /\ pc = "idle" /\ at = 1 /\ sds = <<>>
      /\ it = 1 /\ open = {} /\ seen = 0 /\ reports = 0
  BY Zenon DEF Init, InitDriver
<1>5. TypeOK BY <1>1, <1>2, <1>3, <1>4, PathFacts DEF TypeOK
<1>6. Distinct BY <1>1, <1>4 DEF Distinct
<1>7. open = Pending /\ Listed BY <1>3, <1>4 DEF Pending, Listed
<1> QED BY <1>5, <1>6, <1>7 DEF Sockets

\* A step that leaves the sockets alone, and moves the loop no further back.
LEMMA SocketsKept ==
  ASSUME TypeOK, Distinct, sds' = sds, at' = at \/ at' = at + 1
  PROVE  Distinct'
<1>1. /\ \A k \in 1..Len(sds) : sds[k] < at /\ sds[k] \in Nat
      /\ \A k, l \in 1..Len(sds) : sds[k] = sds[l] => k = l
      /\ at \in Nat
  BY CursorFacts DEF Distinct
<1>2. \A k \in 1..Len(sds) : sds[k] < at' BY <1>1
<1> QED BY <1>1, <1>2 DEF Distinct

\* One more socket: the entry is none of the earlier ones.
LEMMA SocketAdded ==
  ASSUME TypeOK, Distinct, at \in Entries, sds' = Append(sds, at), at' = at + 1
  PROVE  Distinct' /\ Connected' = Connected \union {at} /\ sds' \in Seq(Entries)
         /\ Len(sds') = Len(sds) + 1
<1> DEFINE n == Len(sds)
<1>1. /\ n \in Nat /\ sds \in Seq(Entries) /\ at \in Nat
      /\ \A k \in 1..n : sds[k] \in Nat /\ sds[k] < at
      /\ \A k, l \in 1..n : sds[k] = sds[l] => k = l
  BY CursorFacts DEF Distinct
<1>2. /\ sds' \in Seq(Entries) /\ Len(sds') = n + 1 /\ sds'[n + 1] = at
      /\ \A k \in 1..n : sds'[k] = sds[k]
  BY <1>1, AppendProperties
<1> HIDE DEF n
<1>3. /\ \A k \in 1..n + 1 : k \in 1..n \/ k = n + 1
      /\ \A k \in 1..n : k \in 1..n + 1
      /\ n + 1 \in 1..n + 1
  BY <1>1
<1>4. \A k \in 1..n : sds[k] # at BY <1>1
<1>5. \A k \in 1..n + 1 : sds'[k] < at' BY <1>1, <1>2, <1>3
<1>6. ASSUME NEW k \in 1..n + 1, NEW l \in 1..n + 1, sds'[k] = sds'[l] PROVE k = l
  <2>1. CASE k \in 1..n /\ l \in 1..n BY <1>1, <1>2, <1>6, <2>1
  <2>2. CASE k = n + 1 \/ l = n + 1 BY <1>2, <1>3, <1>4, <1>6, <2>2
  <2> QED BY <1>3, <1>6, <2>1, <2>2
<1>7. {sds'[k] : k \in 1..n + 1} = {sds[k] : k \in 1..n} \union {at}
  <2>1. \A k \in 1..n + 1 : sds'[k] \in {sds[l] : l \in 1..n} \union {at} BY <1>2, <1>3
  <2>2. \A k \in 1..n : sds[k] \in {sds'[l] : l \in 1..n + 1} BY <1>2, <1>3
  <2>3. at \in {sds'[l] : l \in 1..n + 1} BY <1>2, <1>3
  <2> QED BY <2>1, <2>2, <2>3
<1> QED BY <1>2, <1>5, <1>6, <1>7 DEF Distinct, Connected, n

LEMMA SocketsNext == Sockets /\ [Next]_vars => Sockets'
<1> SUFFICES ASSUME Sockets, [Next]_vars PROVE Sockets'
  OBVIOUS
<1>0. TypeOK /\ Distinct /\ open = Pending /\ Listed BY DEF Sockets
<1>a. /\ Len(sds) \in Nat /\ sds \in Seq(Entries) /\ at \in Nat /\ it \in Nat
      /\ \A k \in 1..Len(sds) : sds[k] \in Entries
  BY <1>0, CursorFacts
<1>b. Len(Path) \in Nat /\ Entries = 1..Len(Path) /\ MaxSockets \in Nat BY PathFacts
<1>1. CASE Rinit
  <2>1. /\ pc = "idle" /\ socket_events' = "live" /\ list' = <<>> /\ <<>> \in Seq(Nat)
        /\ UNCHANGED <<pc, at, sds, it, open, exhausted, damaged, peer, inbox, seen, reports>>
    BY <1>1 DEF Rinit, rinit, cursor, world
  <2>2. TypeOK' BY <1>0, <2>1 DEF TypeOK
  <2>3. Distinct' BY <1>0, <2>1, SocketsKept
  <2>4. (open = Pending)' /\ Listed' BY <1>0, <2>1 DEF Pending, Listed
  <2> QED BY <2>2, <2>3, <2>4 DEF Sockets
<1>2. CASE Event
  <2>1. pc = "idle" /\ socket_events = "live" /\ seen' = seen + 1
    BY <1>2 DEF Event
  <2>2. /\ list' = Append(list, seen') /\ UNCHANGED reports
        /\ UNCHANGED <<damaged, socket_events, cursor, open, exhausted, peer, inbox>>
    BY <1>2, <2>1, Zenon DEF Event, process_event
  <2>3. list' \in Seq(Nat)
    <3>1. list \in Seq(Nat) /\ seen' \in Nat BY <1>0, <2>1 DEF TypeOK
    <3> QED BY <2>2, <3>1, AppendProperties
  <2>4. TypeOK' BY <1>0, <2>1, <2>2, <2>3 DEF TypeOK, cursor
  <2>5. Distinct' BY <1>0, <2>2, SocketsKept DEF cursor
  <2>6. (open = Pending)' /\ Listed' BY <1>0, <2>1, <2>2 DEF Pending, Connected, Listed, cursor
  <2> QED BY <2>4, <2>5, <2>6 DEF Sockets
<1>3. CASE EnterRshutdown
  <2>1. <<>> \in Seq(Entries) /\ Len(<<>>) = 0
    OBVIOUS
  <2>2. /\ socket_events = "live" /\ pc = "idle" /\ pc' = "connect" /\ at' = 1
        /\ sds' = <<>> /\ it' = 1 /\ peer' \in PossiblePeers /\ exhausted' = FALSE
        /\ reports' = reports + 1 /\ UNCHANGED <<socket_events, list, open, damaged, inbox, seen>>
    BY <1>3, Zenon DEF EnterRshutdown, Enter
  <2>3. TypeOK'
    <3>1. exhausted' \in BOOLEAN BY <2>2
    <3>2. at' \in 1..(Len(Path) + 1) /\ it' \in 1..(Len(sds') + 1) /\ Len(sds') <= MaxSockets
      BY <1>b, <2>1, <2>2
    <3>3. sds' \in Seq(Entries) BY <2>1, <2>2
    <3> QED BY <1>0, <2>2, <3>1, <3>2, <3>3 DEF TypeOK
  <2>4. 1..Len(sds') = {} BY <2>1, <2>2
  <2>5. Distinct' BY <2>4 DEF Distinct
  <2>6. open = {} /\ Pending' = {} BY <1>0, <2>2, <2>4 DEF Pending, Connected
  <2>7. Listed' BY <1>0, <2>2 DEF Listed
  <2> QED BY <2>2, <2>3, <2>5, <2>6, <2>7 DEF Sockets
<1>4. CASE Connect /\ UNCHANGED world
  <2>1. /\ pc = "connect" /\ at <= Len(Path) /\ Len(sds) < MaxSockets
        /\ sds' = Append(sds, at) /\ open' = open \union {at} /\ at' = at + 1
        /\ UNCHANGED <<socket_events, list, pc, it, exhausted, damaged, peer, inbox, seen, reports>>
    BY <1>4 DEF Connect, Attempt, MoreEntries, world
  <2>2. at \in Entries /\ at' \in 1..(Len(Path) + 1)
    BY <1>0, <1>b, <2>1 DEF TypeOK
  <2>3. /\ Distinct' /\ Connected' = Connected \union {at} /\ sds' \in Seq(Entries)
        /\ Len(sds') = Len(sds) + 1
    BY <1>0, <2>1, <2>2, SocketAdded
  <2>4. TypeOK'
    <3>1. Len(sds') <= MaxSockets /\ it' \in 1..(Len(sds') + 1)
      <4>1. it = 1 BY <1>0, <2>1 DEF Listed
      <4> QED BY <1>a, <1>b, <2>1, <2>3, <4>1
    <3>2. open' \subseteq Entries BY <1>0, <2>1, <2>2 DEF TypeOK
    <3> QED BY <1>0, <2>1, <2>2, <2>3, <3>1, <3>2 DEF TypeOK
  <2>5. (open = Pending)' BY <1>0, <2>1, <2>3 DEF Pending
  <2>6. Listed' BY <1>0, <2>1 DEF Listed
  <2> QED BY <2>3, <2>4, <2>5, <2>6 DEF Sockets
<1>5. CASE (Refused \/ UnknownEntry) /\ UNCHANGED world
  <2>1. /\ pc = "connect" /\ at <= Len(Path) /\ at' = at + 1
        /\ UNCHANGED <<socket_events, list, pc, sds, it, open, exhausted, damaged, peer,
                       inbox, seen, reports>>
    BY <1>5 DEF Refused, UnknownEntry, Attempt, MoreEntries, world
  <2>2. at' \in 1..(Len(Path) + 1) BY <1>0, <1>b, <2>1 DEF TypeOK
  <2>3. TypeOK' BY <1>0, <2>1, <2>2 DEF TypeOK
  <2>4. Distinct' BY <1>0, <2>1, SocketsKept
  <2>5. (open = Pending)' /\ Listed' BY <1>0, <2>1 DEF Pending, Connected, Listed
  <2> QED BY <2>3, <2>4, <2>5 DEF Sockets
<1>6. CASE EndConnect /\ UNCHANGED world
  <2>1. /\ pc = "connect" /\ pc' = "send"
        /\ UNCHANGED <<socket_events, list, at, sds, it, open, peer, inbox, seen, reports>>
    BY <1>6 DEF EndConnect, world
  <2>2. exhausted' \in BOOLEAN
    <3>1. exhausted' = exhausted \/ exhausted' = TRUE
      BY <1>6, Zenon DEF EndConnect
    <3> QED BY <1>0, <3>1 DEF TypeOK
  <2>3. damaged' = (damaged \/ socket_events # "live")
    BY <1>6 DEF EndConnect
  <2>4. damaged' \in BOOLEAN /\ ~damaged'
    BY <1>0, <2>1, <2>3 DEF TypeOK, Listed
  <2>5. TypeOK' BY <1>0, <2>1, <2>2, <2>4 DEF TypeOK
  <2>6. Distinct' BY <1>0, <2>1, SocketsKept
  <2>7. (open = Pending)' /\ Listed' BY <1>0, <2>1, <2>4 DEF Pending, Connected, Listed
  <2> QED BY <2>5, <2>6, <2>7 DEF Sockets
<1>7. ASSUME NEW slow \in BOOLEAN, NEW ok \in BOOLEAN, Send(slow, ok), UNCHANGED world
      PROVE  Sockets'
  <2>1. /\ pc = "send" /\ it <= Len(sds) /\ it' = it + 1
        /\ UNCHANGED <<socket_events, list, pc, at, sds, open, exhausted, damaged, peer, seen, reports>>
        /\ \/ inbox' = [inbox EXCEPT ![sds[it]] = Append(@, Report(slow))]
           \/ inbox' = inbox
    BY <1>7 DEF Send, world
  <2>2. it \in 1..Len(sds) /\ it' \in 1..(Len(sds) + 1)
    BY <1>0, <1>a, <2>1 DEF TypeOK
  <2>3. list \in Seq(Nat) /\ inbox \in [Entries -> Seq(Reports)] BY <1>0 DEF TypeOK
  <2>4. Report(slow) \in Reports
    BY <1>7, <2>3 DEF Report, Reports
  <2>5. inbox' \in [Entries -> Seq(Reports)]
    <3>1. sds[it] \in Entries BY <1>a, <2>2
    <3>2. Append(inbox[sds[it]], Report(slow)) \in Seq(Reports)
      BY <2>3, <2>4, <3>1, AppendProperties
    <3> QED BY <2>1, <2>3, <3>1, <3>2
  <2>6. TypeOK' BY <1>0, <2>1, <2>2, <2>5 DEF TypeOK
  <2>7. Distinct' BY <1>0, <2>1, SocketsKept
  <2>8. (open = Pending)' /\ Listed' BY <1>0, <2>1 DEF Pending, Connected, Listed
  <2> QED BY <2>6, <2>7, <2>8 DEF Sockets
<1>8. CASE clear_events /\ UNCHANGED world
  <2>1. /\ pc = "send" /\ it > Len(sds) /\ socket_events' = "freed" /\ list' = <<>>
        /\ pc' = "close" /\ it' = 1
        /\ UNCHANGED <<at, sds, open, exhausted, damaged, peer, inbox, seen, reports>>
    BY <1>8 DEF clear_events, world
  <2>2. <<>> \in Seq(Nat) /\ it' \in 1..(Len(sds) + 1)
    BY <1>a, <2>1
  <2>3. TypeOK' BY <1>0, <2>1, <2>2 DEF TypeOK
  <2>4. Distinct' BY <1>0, <2>1, SocketsKept
  <2>5. (open = Pending)' /\ Listed' BY <1>0, <2>1 DEF Pending, Connected, Listed
  <2> QED BY <2>3, <2>4, <2>5 DEF Sockets
<1>9. CASE Close /\ UNCHANGED world
  <2>1. /\ pc = "close"
        /\ UNCHANGED <<socket_events, list, at, sds, exhausted, damaged, peer, inbox, seen, reports>>
    BY <1>9 DEF Close, world
  <2>2. Distinct' BY <1>0, <2>1, SocketsKept
  <2>3. it >= 1 /\ it <= Len(sds) + 1 /\ open \subseteq Entries
        /\ open = {sds[k] : k \in it..Len(sds)}
    BY <1>0, <2>1, CursorFacts DEF TypeOK, Pending
  <2>4. CASE it <= Len(sds)
    <3>1. open' = open \ {sds[it]} /\ it' = it + 1 /\ pc' = pc
      BY <1>9, <2>4 DEF Close
    <3>2. /\ it \in 1..Len(sds) /\ it' \in 1..(Len(sds) + 1)
          /\ \A k \in it..Len(sds) : k = it \/ k \in (it + 1)..Len(sds)
          /\ \A k \in (it + 1)..Len(sds) : k \in 1..Len(sds) /\ k \in it..Len(sds) /\ k # it
      BY <1>a, <2>3, <2>4, <3>1
    <3>3. {sds[k] : k \in it..Len(sds)} \ {sds[it]} = {sds[k] : k \in (it + 1)..Len(sds)}
      <4>1. \A k \in (it + 1)..Len(sds) : k \in it..Len(sds) /\ sds[k] # sds[it]
        BY <1>0, <3>2 DEF Distinct
      <4>2. \A k \in it..Len(sds) :
              sds[k] = sds[it] \/ sds[k] \in {sds[l] : l \in (it + 1)..Len(sds)}
        BY <3>2
      <4> QED BY <4>1, <4>2
    <3>4. open' = Pending'
      <4>1. Pending' = {sds[k] : k \in (it + 1)..Len(sds)} BY <2>1, <3>1 DEF Pending
      <4> QED BY <2>3, <3>1, <3>3, <4>1
    <3>5. TypeOK' BY <1>0, <2>1, <2>3, <3>1, <3>2 DEF TypeOK
    <3>6. Listed' BY <1>0, <2>1, <3>1 DEF Listed
    <3> QED BY <2>2, <3>4, <3>5, <3>6 DEF Sockets
  <2>5. CASE it > Len(sds)
    <3>1. pc' = "idle" /\ UNCHANGED <<open, it>>
      BY <1>9, <1>a, <2>5 DEF Close
    <3>2. it..Len(sds) = {} BY <1>a, <2>5
    <3>3. open' = {} /\ Pending' = {} BY <2>3, <3>1, <3>2 DEF Pending
    <3>4. TypeOK' BY <1>0, <2>1, <3>1 DEF TypeOK
    <3>5. Listed' BY <1>0, <2>1, <3>1 DEF Listed
    <3> QED BY <2>2, <3>3, <3>4, <3>5 DEF Sockets
  <2> QED BY <1>a, <2>4, <2>5
<1>10. CASE UNCHANGED vars
  <2>1. UNCHANGED <<socket_events, list, pc, at, sds, it, open, exhausted, damaged, peer,
                    inbox, seen, reports>>
    BY <1>10 DEF vars, cursor, world
  <2>2. TypeOK' BY <1>0, <2>1 DEF TypeOK
  <2>3. Distinct' BY <1>0, <2>1, SocketsKept
  <2>4. (open = Pending)' /\ Listed' BY <1>0, <2>1 DEF Pending, Connected, Listed
  <2> QED BY <2>2, <2>3, <2>4 DEF Sockets
<1>11. CASE RshutdownBlocks
  <2>1. /\ pc \in {"connect", "send"} /\ pc' = "stuck"
        /\ UNCHANGED <<socket_events, list, at, sds, it, open, exhausted, damaged, peer,
                       inbox, seen, reports>>
    BY <1>11 DEF RshutdownBlocks, Block, Attempt, world
  <2>2. TypeOK' BY <1>0, <2>1 DEF TypeOK
  <2>3. Distinct' BY <1>0, <2>1, SocketsKept
  <2>4. (open = Pending)' /\ Listed' BY <1>0, <2>1 DEF Pending, Connected, Listed
  <2> QED BY <2>2, <2>3, <2>4 DEF Sockets
<1> QED
  BY <1>1, <1>2, <1>3, <1>4, <1>5, <1>6, <1>7, <1>8, <1>9, <1>10, <1>11
  DEF Next, Rshutdown, rshutdown, Terminated

\* The variables keep their types and the array of sockets its size.
THEOREM SocketTypes == Spec => []TypeOK
<1>1. Sockets => TypeOK
  BY DEF Sockets
<1> QED BY <1>1, SocketsInit, SocketsNext, PTL DEF Spec

\* Whatever the peers answer and wherever the loop stops, rshutdown closes what it
\* opened and uses the event list only while it is live.
THEOREM NothingLeftOpen == Spec => []DescriptorsClosed
<1>1. Sockets => DescriptorsClosed
  BY DEF Sockets, Listed, DescriptorsClosed, Pending
<1> QED BY <1>1, SocketsInit, SocketsNext, PTL DEF Spec

-----------------------------------------------------------------------------
(* Whom the report reaches *)

\* The entries the loop has been past, that have or had somebody listening.
Passed(n) == {j \in 1..n : Reachable(j)}

\* The loop has given each of those, and nobody else, a socket; it went past no
\* entry that ends it; and it ended at one, at the end of the path, or with the
\* array full, unless no descriptor was left.
Scanned ==
  pc \in {"connect", "send"} =>
    /\ \A j \in 1..(at - 1) : /\ ~Abandons(j)
                              /\ Reachable(j) => \E k \in 1..Len(sds) : sds[k] = j
    /\ Len(sds) = Cardinality(Passed(at - 1))
    /\ pc = "send" /\ ~exhausted => ~MoreEntries \/ Abandons(at)

LEMMA PassedIsFinite ==
  ASSUME NEW n \in Nat PROVE IsFiniteSet(Passed(n)) /\ Cardinality(Passed(n)) \in Nat
<1>1. IsFiniteSet(1..n) BY FS_Interval
<1>2. Passed(n) \subseteq 1..n BY DEF Passed
<1> QED BY <1>1, <1>2, FS_Subset, FS_CardinalityType

LEMMA ScannedNext == Sockets /\ Scanned /\ [Next]_vars => Scanned'
<1> SUFFICES ASSUME Sockets, Scanned, [Next]_vars PROVE Scanned'
  OBVIOUS
<1>0. /\ at \in 1..(Len(Path) + 1) /\ sds \in Seq(Entries) /\ Len(sds) \in Nat
      /\ Len(Path) \in Nat /\ Entries = 1..Len(Path)
  BY PathFacts, LenProperties DEF Sockets, TypeOK
<1>1. CASE EnterRshutdown
  <2>1. /\ pc' = "connect" /\ at' = 1 /\ sds' = <<>>
    BY <1>1, Zenon DEF EnterRshutdown, Enter
  <2>2. Len(<<>>) = 0 /\ 1..0 = {} OBVIOUS
  <2>3. 1..(at' - 1) = {} /\ Len(sds') = 0 BY <2>1, <2>2
  <2>4. Passed(at - 1)' = {} BY <2>3 DEF Passed
  <2> QED BY <2>1, <2>3, <2>4, FS_EmptySet DEF Scanned
<1>2. ASSUME pc = "connect", pc' = "connect", at \in Entries, at' = at + 1, ~Abandons(at),
             peer' = peer,
             \/ Reachable(at) /\ sds' = Append(sds, at)
             \/ ~Reachable(at) /\ sds' = sds
      PROVE  Scanned'
  <2>1. \A j : Reachable(j)' = Reachable(j) /\ Abandons(j)' = Abandons(j)
    BY <1>2 DEF Reachable, Abandons
  <2>2. /\ \A j \in 1..(at - 1) : /\ ~Abandons(j)
                                  /\ Reachable(j) => \E k \in 1..Len(sds) : sds[k] = j
        /\ Len(sds) = Cardinality(Passed(at - 1))
    BY <1>2 DEF Scanned
  <2>3. at - 1 \in Nat /\ at' - 1 = at /\ at \notin 1..(at - 1)
        /\ 1..at = 1..(at - 1) \union {at}
    BY <1>0, <1>2
  <2>4. Passed(at - 1)' = Passed(at - 1) \union (IF Reachable(at) THEN {at} ELSE {})
    BY <2>1, <2>3 DEF Passed
  <2>5. CASE Reachable(at) /\ sds' = Append(sds, at)
    <3>1. /\ Len(sds') = Len(sds) + 1 /\ sds'[Len(sds) + 1] = at
          /\ \A k \in 1..Len(sds) : sds'[k] = sds[k]
      BY <1>0, <1>2, <2>5, AppendProperties
    <3>2. at \notin Passed(at - 1) BY <2>3 DEF Passed
    <3>3. Len(sds') = Cardinality(Passed(at - 1)')
      <4>1. IsFiniteSet(Passed(at - 1)) BY <2>3, PassedIsFinite
      <4>2. Cardinality(Passed(at - 1) \union {at}) = Cardinality(Passed(at - 1)) + 1
        BY <3>2, <4>1, FS_AddElement
      <4> QED BY <2>2, <2>4, <2>5, <3>1, <4>2
    <3>4. 1..Len(sds) \subseteq 1..Len(sds') /\ Len(sds) + 1 \in 1..Len(sds')
      BY <1>0, <3>1
    <3>5. ASSUME NEW j \in 1..at
          PROVE  ~Abandons(j) /\ (Reachable(j) => \E k \in 1..Len(sds') : sds'[k] = j)
      <4>1. CASE j = at BY <1>2, <3>1, <3>4, <4>1
      <4>2. CASE j \in 1..(at - 1) BY <2>2, <3>1, <3>4, <4>2
      <4> QED BY <2>3, <4>1, <4>2
    <3> QED BY <1>2, <2>1, <2>3, <3>3, <3>5 DEF Scanned
  <2>6. CASE ~Reachable(at) /\ sds' = sds
    <3>1. Len(sds') = Cardinality(Passed(at - 1)') BY <2>2, <2>4, <2>6
    <3>2. ASSUME NEW j \in 1..at
          PROVE  ~Abandons(j) /\ (Reachable(j) => \E k \in 1..Len(sds') : sds'[k] = j)
      BY <1>2, <2>2, <2>3, <2>6
    <3> QED BY <1>2, <2>1, <2>3, <3>1, <3>2 DEF Scanned
  <2> QED BY <1>2, <2>5, <2>6
<1>3. CASE Connect
  <2>1. /\ pc = "connect" /\ at <= Len(Path) /\ sds' = Append(sds, at) /\ at' = at + 1
        /\ Path[at].proto # "other" /\ ~Abandons(at) /\ peer[at] = "listening"
        /\ UNCHANGED <<pc, peer>>
    BY <1>3 DEF Connect, Attempt, MoreEntries
  <2>2. Reachable(at) /\ at \in Entries BY <1>0, <2>1 DEF Reachable
  <2> QED BY <1>2, <2>1, <2>2
<1>4. CASE Refused
  <2>1. /\ pc = "connect" /\ at <= Len(Path) /\ at' = at + 1
        /\ ~Abandons(at) /\ peer[at] = "refusing" /\ UNCHANGED <<pc, sds, peer>>
    BY <1>4 DEF Refused, Attempt, MoreEntries
  <2>2. ~Reachable(at) /\ at \in Entries BY <1>0, <2>1 DEF Reachable
  <2> QED BY <1>2, <2>1, <2>2
<1>5. CASE UnknownEntry
  <2>1. /\ pc = "connect" /\ at <= Len(Path) /\ at' = at + 1
        /\ Path[at].proto = "other" /\ UNCHANGED <<pc, sds, peer>>
    BY <1>5 DEF UnknownEntry, Attempt, MoreEntries
  <2>2. ~Reachable(at) /\ ~Abandons(at) /\ at \in Entries
    BY <1>0, <2>1 DEF Reachable, Abandons
  <2> QED BY <1>2, <2>1, <2>2
<1>6. ASSUME UNCHANGED <<at, sds, peer>>, pc' \in {"connect", "send"} => pc \in {"connect", "send"},
             pc' = "send" /\ ~exhausted' => ~MoreEntries \/ Abandons(at)
      PROVE  Scanned'
  <2>1. \A j : Reachable(j)' = Reachable(j) /\ Abandons(j)' = Abandons(j)
    BY <1>6 DEF Reachable, Abandons
  <2>2. Passed(at - 1)' = Passed(at - 1) /\ MoreEntries' = MoreEntries
    BY <1>6, <2>1 DEF Passed, MoreEntries
  <2> QED BY <1>6, <2>1, <2>2 DEF Scanned, Abandons
<1>7. CASE EndConnect
  <2>1. /\ pc = "connect" /\ UNCHANGED <<at, sds, peer>>
        /\ exhausted' \/ ~MoreEntries \/ Abandons(at)
    BY <1>7 DEF EndConnect
  <2> QED BY <1>6, <2>1
<1>8. ASSUME UNCHANGED <<at, sds, peer, exhausted>>,
             pc' = pc \/ pc' \notin {"connect", "send"}
      PROVE  Scanned'
  BY <1>6, <1>8 DEF Scanned
<1>9. CASE Rinit \/ Event \/ UNCHANGED vars
  BY <1>8, <1>9, Zenon DEF Rinit, rinit, Event, process_event, vars, cursor
<1>10. ASSUME NEW slow, NEW ok, Send(slow, ok) PROVE Scanned'
  BY <1>8, <1>10 DEF Send
<1>11. CASE clear_events BY <1>8, <1>11 DEF clear_events
<1>12. CASE Close BY <1>8, <1>12 DEF Close
<1>13. CASE RshutdownBlocks BY <1>8, <1>13 DEF RshutdownBlocks, Block
<1> QED
  BY <1>1, <1>3, <1>4, <1>5, <1>7, <1>9, <1>10, <1>11, <1>12, <1>13
  DEF Next, Rshutdown, rshutdown, Terminated

\* Whatever the path and the answers of the peers, an entry that can be reached has
\* its socket, unless an entry before it ends the loop or the array is full.
THEOREM ReachableAreConnected == Spec => []ReachableConnected
<1>1. Init => Scanned
  <2>1. Init => pc = "idle" BY Zenon DEF Init, InitDriver
  <2> QED BY <2>1 DEF Scanned
<1>2. ASSUME Sockets, Scanned PROVE ReachableConnected
  <2> SUFFICES ASSUME pc = "send", ~exhausted, NEW i \in Entries, Reachable(i),
                      \A j \in 1..i : ~Abandons(j),
                      Cardinality({j \in 1..i : Reachable(j)}) <= MaxSockets,
                      ~\E k \in DOMAIN sds : sds[k] = i
               PROVE  FALSE
    BY DEF ReachableConnected
  <2>1. /\ at \in 1..(Len(Path) + 1) /\ Len(sds) \in Nat /\ DOMAIN sds = 1..Len(sds)
        /\ Len(Path) \in Nat /\ Entries = 1..Len(Path) /\ MaxSockets \in Nat
    BY <1>2, PathFacts, LenProperties DEF Sockets, TypeOK
  <2>2. /\ \A j \in 1..(at - 1) : Reachable(j) => \E k \in 1..Len(sds) : sds[k] = j
        /\ Len(sds) = Cardinality(Passed(at - 1))
        /\ ~MoreEntries \/ Abandons(at)
    BY <1>2 DEF Scanned
  <2>3. i \notin 1..(at - 1) BY <2>1, <2>2
  <2>4. at \in 1..i /\ at - 1 \in Nat /\ at <= Len(Path) /\ i \in Nat BY <2>1, <2>3
  <2>5. Len(sds) >= MaxSockets BY <2>1, <2>2, <2>4 DEF MoreEntries
  <2>6. Passed(at - 1) \union {i} \subseteq Passed(i)
    <3>1. 1..(at - 1) \subseteq 1..i /\ i \in 1..i BY <2>1, <2>4
    <3> QED BY <3>1 DEF Passed
  <2>7. Cardinality(Passed(at - 1) \union {i}) = Cardinality(Passed(at - 1)) + 1
    <3>1. i \notin Passed(at - 1) BY <2>3 DEF Passed
    <3> QED BY <2>4, <3>1, PassedIsFinite, FS_AddElement
  <2>8. Cardinality(Passed(at - 1) \union {i}) <= Cardinality(Passed(i))
    BY <2>4, <2>6, PassedIsFinite, FS_Subset
  <2>9. Cardinality(Passed(i)) <= MaxSockets /\ Cardinality(Passed(i)) \in Nat
    BY <2>4, PassedIsFinite DEF Passed
  <2> QED BY <2>1, <2>2, <2>5, <2>7, <2>8, <2>9
<1> QED BY <1>1, <1>2, SocketsInit, SocketsNext, ScannedNext, PTL DEF Spec

-----------------------------------------------------------------------------
(* The driver implements RequestReport *)

\* What the peers received, without the details of the request.
Batches(i) == [k \in DOMAIN inbox[i] |-> inbox[i][k].events]

\* A report more in an inbox is a batch more.
LEMMA OneMoreBatch ==
  ASSUME NEW s \in Seq(Reports), NEW m \in Reports
  PROVE  [k \in DOMAIN Append(s, m) |-> Append(s, m)[k].events]
           = Append([k \in DOMAIN s |-> s[k].events], m.events)
<1> DEFINE t == Append(s, m)
           b == [k \in 1..Len(s) |-> s[k].events]
           c == [k \in 1..Len(t) |-> t[k].events]
<1>1. /\ t \in Seq(Reports) /\ Len(t) = Len(s) + 1 /\ t[Len(s) + 1] = m
      /\ \A k \in 1..Len(s) : t[k] = s[k]
  BY AppendProperties
<1>2. Len(s) \in Nat /\ DOMAIN s = 1..Len(s) /\ DOMAIN t = 1..Len(t)
  BY <1>1, LenProperties
<1>3. \A k \in 1..Len(s) : s[k].events \in Seq(Nat)
  <2>1. \A k \in 1..Len(s) : s[k] \in Reports
    BY ElementOfSeq
  <2> QED BY <2>1 DEF Reports
<1>4. b \in Seq(Seq(Nat)) /\ Len(b) = Len(s)
  BY <1>2, <1>3
<1>5. m.events \in Seq(Nat)
  BY DEF Reports
<1> DEFINE a == Append(b, m.events)
<1>6. /\ a \in Seq(Seq(Nat)) /\ Len(a) = Len(s) + 1 /\ a[Len(s) + 1] = m.events
      /\ \A k \in 1..Len(s) : a[k] = b[k]
  BY <1>4, <1>5, AppendProperties
<1>7. \A k \in 1..Len(s) + 1 : a[k] = c[k]
  <2> HIDE DEF a, t
  <2>1. \A k \in 1..Len(s) : a[k] = c[k]
    BY <1>1, <1>2, <1>6
  <2>2. a[Len(s) + 1] = c[Len(s) + 1]
    BY <1>1, <1>2, <1>6
  <2>3. \A k \in 1..Len(s) + 1 : k \in 1..Len(s) \/ k = Len(s) + 1
    BY <1>2
  <2> HIDE DEF c, b
  <2> QED BY <2>1, <2>2, <2>3
<1>8. a = [k \in 1..Len(s) + 1 |-> a[k]]
  BY <1>2, <1>6
<1>9. a = c
  <2> HIDE DEF a, t
  <2> QED BY <1>1, <1>2, <1>7, <1>8
<1> QED BY <1>2, <1>9

LEMMA ReportInit == Init => Refined!Init
<1> SUFFICES ASSUME Init PROVE Refined!Init
  OBVIOUS
<1>1. /\ socket_events = "null" /\ list = <<>> /\ pc = "idle"
      /\ inbox = [i \in Entries |-> <<>>]
  BY Zenon DEF Init, InitDriver
<1>2. [k \in DOMAIN <<>> |-> <<>>[k].events] = <<>>
  OBVIOUS
<1>3. \A i \in Entries : [k \in DOMAIN inbox[i] |-> inbox[i][k].events] = <<>>
  BY <1>1, <1>2
<1> QED BY <1>1, <1>3 DEF Refined!Init

LEMMA ReportNext == Sockets /\ [Next]_vars => [Refined!Next]_(Refined!vars)
<1> SUFFICES ASSUME Sockets, [Next]_vars PROVE [Refined!Next]_(Refined!vars)
  OBVIOUS
<1>0. TypeOK /\ Distinct /\ Listed BY DEF Sockets
<1>1. CASE Rinit
  <2>1. /\ pc = "idle" /\ socket_events # "live" /\ socket_events' = "live"
        /\ list' = <<>> /\ UNCHANGED <<pc, sds, it, inbox>>
    BY <1>1 DEF Rinit, rinit, cursor
  <2>2. Refined!Begin
    BY <1>0, <2>1 DEF Refined!Begin, Listed
  <2> QED BY <2>2 DEF Refined!Next
<1>2. CASE Event
  <2>1. /\ pc = "idle" /\ socket_events = "live" /\ seen' = seen + 1 /\ seen < MaxSeen
        /\ list' = Append(list, seen') /\ UNCHANGED <<pc, sds, it, inbox, socket_events>>
    BY <1>2, Zenon DEF Event, process_event, cursor
  <2>2. seen' \in 1..MaxSeen
    BY <1>0, <2>1, SocketAssumption DEF TypeOK
  <2>3. Refined!Collect
    BY <2>1, <2>2 DEF Refined!Collect
  <2> QED BY <2>3 DEF Refined!Next
<1>3. CASE EnterRshutdown
  <2>1. /\ pc = "idle" /\ socket_events = "live" /\ pc' = "connect"
        /\ UNCHANGED <<socket_events, list, inbox>>
    BY <1>3, Zenon DEF EnterRshutdown, Enter
  <2>2. Refined!Finish
    BY <2>1 DEF Refined!Finish
  <2> QED BY <2>2 DEF Refined!Next
<1>4. CASE Connect \/ Refused \/ UnknownEntry
  <2>1. /\ pc = "connect" /\ pc' = "connect" /\ UNCHANGED <<socket_events, list, inbox>>
    BY <1>4, Zenon DEF Connect, Refused, UnknownEntry, Attempt
  <2>2. UNCHANGED Refined!vars
    BY <2>1 DEF Refined!vars
  <2> QED BY <2>2
<1>5. CASE EndConnect
  <2>1. /\ pc = "connect" /\ pc' = "send" /\ it = 1
        /\ UNCHANGED <<socket_events, list, inbox, sds, it>>
    BY <1>0, <1>5 DEF EndConnect, Listed
  <2>2. {sds'[k] : k \in 1..(it' - 1)} = {}
    BY <2>1
  <2>3. UNCHANGED Refined!vars
    BY <2>1, <2>2 DEF Refined!vars
  <2> QED BY <2>3
<1>6. ASSUME NEW slow \in BOOLEAN, NEW ok \in BOOLEAN, Send(slow, ok)
      PROVE  Refined!Next
  <2>1. /\ pc = "send" /\ pc' = "send" /\ it <= Len(sds) /\ it' = it + 1
        /\ socket_events = "live" /\ UNCHANGED <<socket_events, list, sds>>
        /\ \/ inbox' = [inbox EXCEPT ![sds[it]] = Append(@, Report(slow))]
           \/ inbox' = inbox
    BY <1>0, <1>6 DEF Send, Listed
  <2>2. it \in 1..Len(sds) /\ Len(sds) \in Nat
    BY <1>0, <2>1, CursorFacts
  <2>3. PICK e \in Entries : e = sds[it]
    BY <1>0, <2>2, CursorFacts
  <2>4. e \notin {sds[k] : k \in 1..(it - 1)}
    BY <1>0, <2>2, <2>3 DEF Distinct
  <2>5. {sds'[k] : k \in 1..(it' - 1)} = {sds[k] : k \in 1..(it - 1)} \union {e}
    <3>1. 1..(it' - 1) = 1..(it - 1) \union {it}
      BY <2>1, <2>2
    <3> QED BY <2>1, <2>3, <3>1
  <2>6. Report(slow) \in Reports /\ Report(slow).events = list
    BY <1>0, <1>6 DEF Report, Reports, TypeOK
  <2>7. [i \in Entries |-> Batches(i)]' \in
          {[i \in Entries |-> Batches(i)],
           [[i \in Entries |-> Batches(i)] EXCEPT ![e] = Append(@, list)]}
    <3>1. CASE inbox' = inbox
      BY <3>1 DEF Batches
    <3>2. CASE inbox' = [inbox EXCEPT ![e] = Append(@, Report(slow))]
      <4>1. \A i \in Entries : inbox[i] \in Seq(Reports)
        BY <1>0 DEF TypeOK
      <4>2. \A i \in Entries : i # e => inbox'[i] = inbox[i]
        BY <1>0, <3>2 DEF TypeOK
      <4>3. inbox'[e] = Append(inbox[e], Report(slow))
        BY <1>0, <3>2 DEF TypeOK
      <4>4. [k \in DOMAIN Append(inbox[e], Report(slow)) |->
               Append(inbox[e], Report(slow))[k].events]
              = Append([k \in DOMAIN inbox[e] |-> inbox[e][k].events], list)
        BY <2>6, <4>1, OneMoreBatch
      <4>5. Batches(e)' = Append(Batches(e), list)
        BY <4>3, <4>4, Zenon DEF Batches
      <4>6. \A i \in Entries : i # e => Batches(i)' = Batches(i)
        BY <4>2 DEF Batches
      <4> DEFINE old == [i \in Entries |-> Batches(i)]
                 new == [i \in Entries |-> Batches(i)']
      <4>7. \A i \in Entries : new[i] = IF i = e THEN Append(old[e], list) ELSE old[i]
        BY <4>5, <4>6
      <4>8. new = [old EXCEPT ![e] = Append(@, list)]
        BY <4>7
      <4> QED BY <4>8
    <3> QED BY <2>1, <2>3, <3>1, <3>2
  <2>8. Refined!Offer(e)
    BY <2>1, <2>4, <2>5, <2>7 DEF Refined!Offer, Batches
  <2> QED BY <2>8 DEF Refined!Next
<1>7. CASE clear_events
  <2>1. /\ pc = "send" /\ pc' = "close" /\ socket_events = "live" /\ socket_events' = "freed"
        /\ list' = <<>> /\ UNCHANGED inbox
    BY <1>0, <1>7 DEF clear_events, Listed
  <2>2. Refined!Forget
    BY <2>1 DEF Refined!Forget
  <2> QED BY <2>2 DEF Refined!Next
<1>8. CASE Close
  <2>1. /\ pc = "close" /\ pc' \in {"close", "idle"} /\ socket_events = "freed"
        /\ UNCHANGED <<socket_events, list, inbox>>
    BY <1>0, <1>8 DEF Close, Listed
  <2>2. UNCHANGED Refined!vars
    BY <2>1 DEF Refined!vars
  <2> QED BY <2>2
<1>9. CASE UNCHANGED vars
  <2>1. UNCHANGED <<socket_events, list, pc, sds, it, inbox>>
    BY <1>9 DEF vars, cursor
  <2>2. UNCHANGED Refined!vars
    BY <2>1 DEF Refined!vars
  <2> QED BY <2>2
<1>10. CASE RshutdownBlocks
  <2>1. /\ pc \in {"connect", "send"} /\ pc' = "stuck" /\ (pc = "connect" => it = 1)
        /\ socket_events = "live" /\ UNCHANGED <<socket_events, list, inbox, sds, it>>
    BY <1>0, <1>10 DEF RshutdownBlocks, Block, Attempt, Listed
  <2>2. it = 1 => {sds[k] : k \in 1..(it - 1)} = {}
    OBVIOUS
  <2>3. Refined!Stall
    BY <2>1, <2>2 DEF Refined!Stall
  <2> QED BY <2>3 DEF Refined!Next
<1> QED
  BY <1>1, <1>2, <1>3, <1>4, <1>5, <1>6, <1>7, <1>8, <1>9, <1>10
  DEF Next, Rshutdown, rshutdown, Terminated

\* Each request's events reach each peer in one report, complete and in order, or
\* not at all, and never in another request's report: the driver's steps are
\* steps of RequestReport (its fairness is left to the run of ReportsOncePerRequest).
THEOREM ReportsOnce == Spec => Refined!Init /\ [][Refined!Next]_(Refined!vars)
<1> QED BY SocketsInit, SocketsNext, ReportInit, ReportNext, PTL DEF Spec

-----------------------------------------------------------------------------
(* The length of rshutdown *)

LEMMA StepsLeftTypes == Sockets => StepsLeft \in 0..Len(Path) + 2 * MaxSockets + 3
<1> SUFFICES ASSUME Sockets PROVE StepsLeft \in 0..Len(Path) + 2 * MaxSockets + 3
  OBVIOUS
<1>1. TypeOK /\ pc \in {"idle", "connect", "send", "close", "stuck"} BY DEF Sockets, TypeOK
<1> DEFINE n == Len(sds)
           p == Len(Path)
<1>2. /\ n \in Nat /\ at \in Nat /\ it \in Nat /\ it >= 1 /\ at >= 1
      /\ at <= p + 1 /\ it <= n + 1 /\ n <= MaxSockets
      /\ p \in Nat /\ MaxSockets \in Nat
  BY <1>1, CursorFacts, PathFacts
<1> HIDE DEF n, p
<1>3. StepsLeft = CASE pc = "connect" -> (p + 1 - at) + 2 * MaxSockets + 3
                    [] pc = "send"    -> (n + 1 - it) + n + 2
                    [] pc = "close"   -> (n + 1 - it) + 1
                    [] pc \in {"idle", "stuck"} -> 0
  BY DEF StepsLeft, n, p
<1>4. /\ (p + 1 - at) + 2 * MaxSockets + 3 \in 0..p + 2 * MaxSockets + 3
      /\ (n + 1 - it) + n + 2 \in 0..p + 2 * MaxSockets + 3
      /\ (n + 1 - it) + 1 \in 0..p + 2 * MaxSockets + 3
      /\ 0 \in 0..p + 2 * MaxSockets + 3
  BY ONLY <1>2
<1> QED BY ONLY <1>1, <1>3, <1>4 DEF p

LEMMA StepsLeftNext ==
  Sockets /\ [Next]_vars => [pc # "idle" => StepsLeft' < StepsLeft]_vars
<1> SUFFICES ASSUME Sockets, [Next]_vars, vars' # vars, pc # "idle"
             PROVE  StepsLeft' < StepsLeft
  OBVIOUS
<1>1. (\E slow \in BOOLEAN : rshutdown(slow)) \/ RshutdownBlocks
  BY DEF Next, Rinit, Event, EnterRshutdown, Enter, Rshutdown, Terminated
<1> DEFINE n == Len(sds)
           p == Len(Path)
<1>2. /\ n \in Nat /\ at \in Nat /\ it \in Nat /\ it <= n + 1 /\ n <= MaxSockets
      /\ at <= p + 1 /\ p \in Nat /\ MaxSockets \in Nat
  BY CursorFacts, PathFacts DEF Sockets
\* The step as one of the cursor.
<1>3. \/ pc = "connect" /\ pc' = "connect" /\ at' = at + 1
      \/ pc = "connect" /\ pc' = "send" /\ UNCHANGED <<sds, it>> /\ it = 1
      \/ pc = "send" /\ pc' = "send" /\ UNCHANGED sds /\ it' = it + 1
      \/ pc = "send" /\ pc' = "close" /\ UNCHANGED sds /\ it' = 1 /\ it > n
      \/ pc = "close" /\ pc' = "close" /\ UNCHANGED sds /\ it' = it + 1
      \/ pc = "close" /\ pc' = "idle" /\ it > n
      \/ pc \in {"connect", "send"} /\ pc' = "stuck"
  <2>1. CASE Connect \/ Refused \/ UnknownEntry
    BY <2>1 DEF Connect, Refused, UnknownEntry, Attempt
  <2>2. CASE EndConnect BY <2>2 DEF EndConnect, Sockets, Listed
  <2>3. ASSUME NEW slow \in BOOLEAN, NEW ok \in BOOLEAN, Send(slow, ok)
        PROVE  pc = "send" /\ pc' = "send" /\ UNCHANGED sds /\ it' = it + 1
    BY <2>3 DEF Send
  <2>4. CASE clear_events BY <2>4 DEF clear_events
  <2>5. CASE Close
    <3>1. pc = "close" /\ UNCHANGED sds
          /\ (\/ it <= n /\ it' = it + 1 /\ UNCHANGED pc
              \/ ~(it <= n) /\ pc' = "idle")
      BY <2>5 DEF Close
    <3> QED BY ONLY <1>2, <3>1
  <2>6. CASE RshutdownBlocks BY <2>6 DEF RshutdownBlocks, Block, Attempt
  <2> QED BY <1>1, <2>1, <2>2, <2>3, <2>4, <2>5, <2>6 DEF rshutdown
<1> HIDE DEF n, p
<1>4. /\ pc = "connect" => StepsLeft = (p + 1 - at) + 2 * MaxSockets + 3
      /\ pc = "send" => StepsLeft = (n + 1 - it) + n + 2
      /\ pc = "close" => StepsLeft = (n + 1 - it) + 1
  BY DEF StepsLeft, n, p
<1>5. /\ pc' = "connect" => StepsLeft' = (p + 1 - at') + 2 * MaxSockets + 3
      /\ pc' = "send" /\ sds' = sds => StepsLeft' = (n + 1 - it') + n + 2
      /\ pc' = "close" /\ sds' = sds => StepsLeft' = (n + 1 - it') + 1
      /\ pc' \in {"idle", "stuck"} => StepsLeft' = 0
  BY DEF StepsLeft, n, p
<1>6. CASE pc' = "connect" BY ONLY <1>2, <1>3, <1>4, <1>5, <1>6
<1>7. CASE pc' = "send" BY ONLY <1>2, <1>3, <1>4, <1>5, <1>7
<1>8. CASE pc' = "close" BY ONLY <1>2, <1>3, <1>4, <1>5, <1>8
<1>9. CASE pc' = "idle" BY ONLY <1>2, <1>3, <1>4, <1>5, <1>9
<1>10. CASE pc' = "stuck" BY ONLY <1>2, <1>3, <1>4, <1>5, <1>10
<1> QED BY <1>3, <1>6, <1>7, <1>8, <1>9, <1>10

\* Whatever the peers answer and the path is, rshutdown takes a bounded number of
\* steps, the last of which may be a call that does not return: what RshutdownEnds
\* says, less the fairness.
THEOREM RshutdownTakesBoundedSteps == Spec => RshutdownIsBounded
<1> QED
  BY SocketsInit, SocketsNext, StepsLeftTypes, StepsLeftNext, PTL
  DEF Spec, RshutdownIsBounded

=============================================================================
