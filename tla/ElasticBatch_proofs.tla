-------------------------- MODULE ElasticBatch_proofs --------------------------
(* Theorems of ElasticBatch, for every value of its constants.             *)
EXTENDS ElasticBatch, SequenceTheorems, TLAPS

-----------------------------------------------------------------------------
(* Types *)

\* The two ways a call of send_to_elasticsearch or append_to_batch leaves the
\* documents b: kept in the buffer, or gone from it.
Kept(b) ==
  /\ memory' = "live" /\ batch' = b /\ batch_count' = Len(b)
  /\ uninit' \in {uninit, uninit \union {request}}
  /\ UNCHANGED <<index, unanswered>>
Gone(b) ==
  /\ memory' = "none" /\ batch' = <<>> /\ batch_count' = 0
  /\ UNCHANGED uninit
  /\ \/ unanswered' = unanswered \union {request} /\ index' \in {index, index \o b}
     \/ UNCHANGED unanswered /\ index' = index \o b
     \/ UNCHANGED <<unanswered, index>> /\ \E i \in DOMAIN b : b[i] \in torn'

LEMMA SendOutcome ==
  ASSUME NEW b, send_to_elasticsearch(b)
  PROVE  \/ Kept(b) /\ uninit' = uninit \union {request}
         \/ Gone(b)
BY DEF send_to_elasticsearch, Answered, Unanswered, Uninitialised, Readable, Reset,
       Kept, Gone, transfers

LEMMA AppendOutcome ==
  ASSUME TypeOK, NEW b, Len(b) = batch_count + 1, append_to_batch(b)
  PROVE  \/ Kept(b) /\ (request \notin uninit' => ~Full(Len(b)))
         \/ Gone(b)
BY SendOutcome DEF append_to_batch, Keep, Kept, transfers

LEMMA OutcomeTypes ==
  ASSUME TypeOK, NEW b \in Seq(Nat), Kept(b) \/ Gone(b)
  PROVE  /\ memory' \in {"none", "live", "freed"}
         /\ batch' \in Seq(Nat) /\ batch_count' = Len(batch') /\ index' \in Seq(Nat)
         /\ uninit' \subseteq Nat /\ unanswered' \subseteq Nat
<1>1. <<>> \in Seq(Nat) /\ Len(<<>>) = 0 /\ index \o b \in Seq(Nat)
  BY ConcatProperties DEF TypeOK
<1> QED BY <1>1 DEF TypeOK, Kept, Gone

LEMMA DocumentAppended ==
  ASSUME TypeOK
  PROVE  /\ Document \in Nat \ {0} /\ Document = Len(owner) + 1
         /\ Append(batch, Document) \in Seq(Nat)
         /\ Len(Append(batch, Document)) = batch_count + 1
<1>1. Len(owner) \in Nat BY LenProperties DEF TypeOK
<1> QED BY <1>1, AppendProperties DEF Document, TypeOK

LEMMA TypesInit == Init => TypeOK
<1> SUFFICES ASSUME Init PROVE TypeOK
  OBVIOUS
<1>1. <<>> \in Seq(Nat) /\ Len(<<>>) = 0 OBVIOUS
<1>2. enabled \in BOOLEAN /\ stats_enabled \in BOOLEAN BY Zenon DEF Init
<1> QED BY <1>1, <1>2 DEF Init, TypeOK

LEMMA ProduceTypes ==
  ASSUME TypeOK, NEW next \in {"minit", "out", "script", "flush"}, Produce(next)
  PROVE  TypeOK'
<1>1. CASE memory = "freed"
  BY <1>1 DEF Produce, TypeOK, settings, buffer, transfers
<1>2. CASE memory # "freed"
  <2> DEFINE b == Append(batch, Document)
  <2>1. /\ owner' = Append(owner, request) /\ phase' = next /\ append_to_batch(b)
        /\ torn' \in {torn, torn \union {Document}}
        /\ UNCHANGED <<hooks, settings, request, unstarted>>
    BY <1>2 DEF Produce
  <2>2. b \in Seq(Nat) /\ (Kept(b) \/ Gone(b))
    BY <2>1, DocumentAppended, AppendOutcome
  <2>3. owner' \in Seq(Nat) /\ torn' \subseteq Nat
    BY <2>1, DocumentAppended, AppendProperties DEF TypeOK
  <2> QED BY <2>1, <2>2, <2>3, OutcomeTypes DEF TypeOK, settings
<1> QED BY <1>1, <1>2

LEMMA TypesNext == TypeOK /\ [Next]_vars => TypeOK'
<1> SUFFICES ASSUME TypeOK, [Next]_vars PROVE TypeOK'
  OBVIOUS
<1>1. CASE process_event
  BY <1>1, ProduceTypes DEF process_event
<1>2. CASE EndStartup \/ EndRequest
  BY <1>2 DEF EndStartup, EndRequest, Release, TypeOK, settings, transfers
<1>3. CASE Rinit
  <2>1. /\ phase' = "script" /\ request' \in Nat
        /\ hooks' \in {hooks, "rinit"} /\ unstarted' \in {unstarted, unstarted \union {request'}}
    BY <1>3 DEF Rinit, TypeOK
  <2>2. enabled' \in BOOLEAN /\ stats_enabled' \in BOOLEAN /\ batch_size' \in Sizes
    BY <1>3, Zenon DEF Rinit
  <2> QED BY <1>3, <2>1, <2>2 DEF Rinit, TypeOK, buffer, transfers
<1>4. CASE process_stats
  <2>1. CASE Produce("flush") BY <2>1, ProduceTypes
  <2>2. CASE /\ phase' = "flush"
             /\ UNCHANGED <<hooks, settings, buffer, index, request, unstarted, owner,
                            torn, transfers>>
    BY <2>2 DEF TypeOK, settings, buffer, transfers
  <2> QED BY <1>4, <2>1, <2>2 DEF process_stats
<1>5. CASE rshutdown
  <2>1. /\ phase' \in {"closing", "corrupt"}
        /\ UNCHANGED <<settings, request, unstarted, owner, torn>>
        /\ hooks' \in {hooks, "none"}
        /\ UNCHANGED <<buffer, index, transfers>> \/ send_to_elasticsearch(batch)
    BY <1>5 DEF rshutdown, Unhook
  <2>2. CASE UNCHANGED <<buffer, index, transfers>>
    BY <2>1, <2>2 DEF TypeOK, settings, buffer, transfers
  <2>3. CASE send_to_elasticsearch(batch)
    BY <2>1, <2>3, SendOutcome, OutcomeTypes DEF TypeOK, settings
  <2> QED BY <2>1, <2>2, <2>3
<1>6. CASE Mshutdown
  BY <1>6 DEF Mshutdown, TypeOK, settings, buffer, transfers
<1>7. CASE UNCHANGED vars
  BY <1>7 DEF vars, TypeOK, settings, buffer, transfers
<1> QED BY <1>1, <1>2, <1>3, <1>4, <1>5, <1>6, <1>7 DEF Next, Terminated

\* The variables keep their types, and the counter counts what is in the buffer.
THEOREM ElasticTypes == Spec => []TypeOK
BY TypesInit, TypesNext, PTL DEF Spec

-----------------------------------------------------------------------------
(* The driver implements Outbox *)

\* Every step is one of Outbox, or leaves its variables alone.
LEMMA StepStores == TypeOK /\ [Next]_vars => [Queue!Next]_(Queue!vars)
<1> SUFFICES ASSUME TypeOK, [Next]_vars PROVE [Queue!Next]_(Queue!vars)
  OBVIOUS
<1>1. ASSUME NEW b, Kept(b) \/ Gone(b) PROVE Queue!Settle(b)
  BY <1>1 DEF Kept, Gone, Queue!Settle
<1>2. ASSUME NEW next, Produce(next) PROVE [Queue!Next]_(Queue!vars)
  <2>1. CASE memory = "freed"
    BY <1>2, <2>1 DEF Produce, buffer, Queue!vars
  <2>2. CASE memory # "freed"
    <3>1. /\ owner' = Append(owner, request)
          /\ append_to_batch(Append(batch, Document))
      BY <1>2, <2>2 DEF Produce
    <3>2. Len(owner') = Document
      BY <3>1, AppendProperties DEF Document, TypeOK
    <3>3. Queue!Settle(Append(batch, Document))
      BY <1>1, <3>1, DocumentAppended, AppendOutcome
    <3> QED BY <3>2, <3>3 DEF Queue!Next, Queue!Put, Document
  <2> QED BY <2>1, <2>2
<1>3. ASSUME send_to_elasticsearch(batch), UNCHANGED owner PROVE Queue!Next
  BY <1>1, <1>3, SendOutcome DEF Queue!Next, Queue!Flush
<1> QED BY <1>2, <1>3 DEF Next, process_event, EndStartup, Rinit, process_stats,
             rshutdown, EndRequest, Mshutdown, Terminated, vars, buffer, Queue!vars

\* Whatever fails: the server stores the documents in order, each at most once, and
\* of a batch all or none.
THEOREM BatchesAreStored == Spec => StoresInOrder
<1>1. Init => Queue!Init
  BY DEF Init, Queue!Init
<1> QED BY <1>1, TypesInit, TypesNext, StepStores, PTL DEF Spec, StoresInOrder

\* The numbers of the documents: none is larger than how many there are.
Counted(s) == \A i \in DOMAIN s : s[i] <= Len(owner)
Ordered == Queue!InOrder /\ Counted(batch) /\ Counted(index)

LEMMA ConcatIncreasing ==
  ASSUME NEW s \in Seq(Nat), NEW t \in Seq(Nat),
         Queue!Increasing(s), Queue!Increasing(t),
         \A i \in DOMAIN s : \A j \in DOMAIN t : s[i] < t[j]
  PROVE  /\ Queue!Increasing(s \o t)
         /\ \A k \in DOMAIN (s \o t) : \/ \E i \in DOMAIN s : (s \o t)[k] = s[i]
                                       \/ \E j \in DOMAIN t : (s \o t)[k] = t[j]
<1> DEFINE u == s \o t
<1>1. /\ u \in Seq(Nat) /\ Len(u) = Len(s) + Len(t)
      /\ \A i \in 1..Len(s) + Len(t) : u[i] = IF i <= Len(s) THEN s[i] ELSE t[i - Len(s)]
  BY ConcatProperties
<1>2. /\ DOMAIN s = 1..Len(s) /\ DOMAIN t = 1..Len(t)
      /\ Len(s) \in Nat /\ Len(t) \in Nat
  BY LenProperties
<1> HIDE DEF u
<1>3. DOMAIN u = 1..Len(s) + Len(t) BY <1>1, LenProperties
<1>4. \A k \in DOMAIN u : \/ k \in DOMAIN s /\ u[k] = s[k]
                          \/ /\ k > Len(s) /\ k - Len(s) \in DOMAIN t
                             /\ u[k] = t[k - Len(s)]
  <2> DEFINE m == Len(s) n == Len(t)
  <2>1. m \in Nat /\ n \in Nat /\ DOMAIN s = 1..m /\ DOMAIN t = 1..n /\ DOMAIN u = 1..m + n
    BY <1>2, <1>3
  <2>2. \A k \in DOMAIN u : u[k] = IF k <= m THEN s[k] ELSE t[k - m] BY <1>1, <1>3
  <2> HIDE DEF m, n
  <2>3. ASSUME NEW k \in 1..m + n
        PROVE  (k \in 1..m /\ k <= m) \/ (k > m /\ k - m \in 1..n /\ ~(k <= m))
    BY ONLY <2>1, k \in 1..m + n
  <2>4. \A k \in DOMAIN u : \/ k \in DOMAIN s /\ u[k] = s[k]
                            \/ k > m /\ k - m \in DOMAIN t /\ u[k] = t[k - m]
    <3> TAKE k \in DOMAIN u
    <3>1. \/ k \in DOMAIN s /\ k <= m
          \/ k > m /\ k - m \in DOMAIN t /\ ~(k <= m)
      BY <2>1, <2>3
    <3>2. u[k] = IF k <= m THEN s[k] ELSE t[k - m] BY <2>2
    <3> QED BY ONLY <3>1, <3>2
  <2> QED BY <2>4 DEF m, n
<1>5. ASSUME NEW i \in DOMAIN u, NEW j \in DOMAIN u, i < j PROVE u[i] < u[j]
  <2>a. i \in Nat /\ j \in Nat /\ DOMAIN s = 1..Len(s) BY <1>2, <1>3
  <2>b. /\ i \in DOMAIN s => u[i] = s[i]
        /\ j \in DOMAIN s => u[j] = s[j]
        /\ j \notin DOMAIN s => j - Len(s) \in DOMAIN t /\ u[j] = t[j - Len(s)]
    <3>1. i \in DOMAIN s => ~(i > Len(s)) BY <1>2
    <3>2. j \in DOMAIN s => ~(j > Len(s)) BY <1>2
    <3> QED BY <1>4, <3>1, <3>2
  <2>1. CASE i \in DOMAIN s /\ j \in DOMAIN s
    BY ONLY <1>5, <2>b, <2>1, Queue!Increasing(s) DEF Queue!Increasing
  <2>2. CASE i \in DOMAIN s /\ j \notin DOMAIN s
    BY ONLY <2>b, <2>2, \A k \in DOMAIN s : \A l \in DOMAIN t : s[k] < t[l]
  <2>3. CASE i \notin DOMAIN s
    <3>1. j \notin DOMAIN s BY <1>2, <1>3, <1>5, <2>3
    <3>2. /\ i - Len(s) \in DOMAIN t /\ u[i] = t[i - Len(s)]
          /\ j - Len(s) \in DOMAIN t /\ u[j] = t[j - Len(s)]
      BY <1>4, <2>3, <3>1
    <3>3. i - Len(s) < j - Len(s) BY <1>2, <1>3, <1>5
    <3> QED BY <3>2, <3>3 DEF Queue!Increasing
  <2> QED BY <2>1, <2>2, <2>3
<1>6. Queue!Increasing(u) BY <1>5 DEF Queue!Increasing
<1> QED BY <1>4, <1>6 DEF u

LEMMA OrderedInit == Init => Ordered
<1> SUFFICES ASSUME Init PROVE Ordered
  OBVIOUS
<1>1. batch = <<>> /\ index = <<>> BY DEF Init
<1> QED BY <1>1 DEF Ordered, Counted, Queue!InOrder, Queue!Increasing

\* A queue that is in order behind what is stored settles in order.
LEMMA SettleOrdered ==
  ASSUME TypeOK, TypeOK', Ordered, NEW queue \in Seq(Nat), Queue!Settle(queue),
         Queue!Increasing(queue), \A j \in DOMAIN queue : queue[j] <= Len(owner'),
         Counted(index)',
         \A i \in DOMAIN index : \A j \in DOMAIN queue : index[i] < queue[j]
  PROVE  Ordered'
<1>1. index \in Seq(Nat) /\ Queue!Increasing(index)
  BY DEF TypeOK, Ordered, Queue!InOrder
<1>2. CASE batch' = queue /\ index' = index
  BY <1>1, <1>2 DEF Ordered, Queue!InOrder, Queue!Increasing, Counted
<1>3. CASE batch' = <<>> /\ index' = index
  BY <1>1, <1>3 DEF Ordered, Queue!InOrder, Queue!Increasing, Counted
<1>4. CASE batch' = <<>> /\ index' = index \o queue
  <2>1. Queue!Increasing(index') BY <1>1, <1>4, ConcatIncreasing
  <2>2. DOMAIN batch' = {} BY <1>4
  <2>3. Queue!InOrder' BY <2>1, <2>2 DEF Queue!InOrder, Queue!Increasing
  <2>4. Counted(batch)' BY <2>2 DEF Counted
  <2> QED BY <2>3, <2>4 DEF Ordered
<1> QED BY <1>2, <1>3, <1>4 DEF Queue!Settle

\* What a queue leaves in the index is no larger than the number of documents.
LEMMA SettleCounted ==
  ASSUME TypeOK, Ordered, NEW queue \in Seq(Nat), Queue!Settle(queue),
         Queue!Increasing(queue), \A j \in DOMAIN queue : queue[j] <= Len(owner'),
         Len(owner) <= Len(owner'), Len(owner') \in Nat,
         \A i \in DOMAIN index : \A j \in DOMAIN queue : index[i] < queue[j]
  PROVE  Counted(index)'
<1>1. index \in Seq(Nat) /\ Queue!Increasing(index) /\ Counted(index)
      /\ Len(owner) \in Nat
  BY LenProperties DEF TypeOK, Ordered, Queue!InOrder
<1>2. \A i \in DOMAIN index : index[i] \in Nat
  BY <1>1, ElementOfSeq, LenProperties
<1>3. \A i \in DOMAIN index : index[i] <= Len(owner')
  BY <1>1, <1>2 DEF Counted
<1>4. CASE index' = index BY <1>3, <1>4 DEF Counted
<1>5. CASE index' = index \o queue
  <2>1. \A k \in DOMAIN index' : \/ \E i \in DOMAIN index : index'[k] = index[i]
                                 \/ \E j \in DOMAIN queue : index'[k] = queue[j]
    BY <1>1, <1>5, ConcatIncreasing
  <2> QED BY <1>3, <2>1 DEF Counted
<1> QED BY <1>4, <1>5 DEF Queue!Settle

LEMMA OrderedNext ==
  TypeOK /\ TypeOK' /\ Ordered /\ [Queue!Next]_(Queue!vars) => Ordered'
<1> SUFFICES ASSUME TypeOK, TypeOK', Ordered, [Queue!Next]_(Queue!vars) PROVE Ordered'
  OBVIOUS
<1>1. batch \in Seq(Nat) /\ index \in Seq(Nat) /\ Len(owner) \in Nat /\ Len(owner') \in Nat
  BY LenProperties DEF TypeOK
<1>2. /\ Queue!Increasing(batch) /\ Counted(batch)
      /\ \A i \in DOMAIN index : index[i] \in Nat /\ index[i] <= Len(owner)
      /\ \A i \in DOMAIN index : \A j \in DOMAIN batch : index[i] < batch[j]
  BY <1>1, ElementOfSeq, LenProperties DEF Ordered, Queue!InOrder, Counted
<1>3. CASE Queue!Put
  <2>0. Append(batch, Len(owner) + 1) \in Seq(Nat)
    BY <1>1, AppendProperties
  <2> PICK queue \in Seq(Nat) : queue = Append(batch, Len(owner) + 1)
    BY <2>0
  <2>1. Len(owner') = Len(owner) + 1 /\ Queue!Settle(queue)
    BY <1>3 DEF Queue!Put
  <2>2. /\ queue \in Seq(Nat) /\ DOMAIN queue = 1..Len(batch) + 1
        /\ DOMAIN batch = 1..Len(batch) /\ Len(batch) \in Nat
        /\ queue[Len(batch) + 1] = Len(owner) + 1
        /\ \A i \in DOMAIN batch : queue[i] = batch[i]
    BY <1>1, AppendProperties, LenProperties
  <2>3. \A j \in DOMAIN batch : batch[j] \in Nat /\ batch[j] <= Len(owner)
    BY <1>1, <1>2, ElementOfSeq, LenProperties DEF Counted
  <2>4. \A j \in DOMAIN queue : \/ j \in DOMAIN batch /\ queue[j] = batch[j]
                                \/ j = Len(batch) + 1 /\ queue[j] = Len(owner) + 1
    <3> SUFFICES ASSUME NEW j \in DOMAIN queue, j \notin DOMAIN batch
                 PROVE  j = Len(batch) + 1
      BY <2>2
    <3> QED BY <2>2
  <2>5. Queue!Increasing(queue)
    <3> SUFFICES ASSUME NEW i \in DOMAIN queue, NEW j \in DOMAIN queue, i < j
                 PROVE  queue[i] < queue[j]
      BY DEF Queue!Increasing
    <3>1. i \in DOMAIN batch /\ queue[i] = batch[i] BY <2>2
    <3>2. CASE j \in DOMAIN batch
      BY <1>2, <2>2, <3>1, <3>2 DEF Queue!Increasing
    <3>3. CASE j = Len(batch) + 1
      BY <1>1, <2>2, <2>3, <3>1, <3>3
    <3> QED BY <2>4, <3>2, <3>3
  <2>6. \A j \in DOMAIN queue : queue[j] <= Len(owner')
    BY <1>1, <2>1, <2>3, <2>4
  <2>7. \A i \in DOMAIN index : \A j \in DOMAIN queue : index[i] < queue[j]
    <3> SUFFICES ASSUME NEW i \in DOMAIN index, NEW j \in DOMAIN queue
                 PROVE  index[i] < queue[j]
      OBVIOUS
    <3>1. index[i] \in Nat /\ index[i] <= Len(owner) BY <1>2
    <3> QED BY <1>1, <1>2, <2>4, <3>1
  <2>8. Counted(index)'
    <3>1. Len(owner) <= Len(owner') BY <1>1, <2>1
    <3> QED BY <1>1, <2>1, <2>5, <2>6, <2>7, <3>1, SettleCounted
  <2> QED BY <2>1, <2>5, <2>6, <2>7, <2>8, SettleOrdered
<1>4. CASE Queue!Flush
  <2>1. Len(owner') = Len(owner) /\ Queue!Settle(batch)
    BY <1>4 DEF Queue!Flush
  <2>2. \A j \in DOMAIN batch : batch[j] <= Len(owner') BY <1>2, <2>1 DEF Counted
  <2> QED BY <1>1, <1>2, <2>1, <2>2, SettleCounted, SettleOrdered DEF Counted
<1>5. CASE UNCHANGED Queue!vars
  BY <1>5 DEF Queue!vars, Ordered, Counted, Queue!InOrder, Queue!Increasing
<1> QED BY <1>3, <1>4, <1>5 DEF Queue!Next

\* What the batches promise in plain words: no document is stored twice, none
\* overtakes another, and none that waits is older than one that is stored.
THEOREM StoredInOrder == Spec => []Queue!InOrder
<1>1. Ordered => Queue!InOrder BY DEF Ordered
<1> QED BY <1>1, TypesInit, TypesNext, StepStores, OrderedInit, OrderedNext, PTL
        DEF Spec

-----------------------------------------------------------------------------
(* What becomes of the documents *)

\* Lost or stored, for a reason; or still in the buffer.
Settled(d) ==
  \/ Stored(d)
  \/ owner[d] \in uninit \union unanswered \union unstarted
  \/ torn \intersect Mates(d) # {}
InBuffer(d) == \E i \in DOMAIN batch : batch[i] = d

\* What waits was left where curl could not be initialised or apm had started no
\* request; or it is of a request that apm has started and will end.
Left(d) == owner[d] \in uninit \union unstarted
Current(d) ==
  /\ owner[d] = request /\ memory = "live" /\ enabled
  /\ hooks = "rinit" /\ phase \in {"script", "flush"}
Waiting ==
  \A i \in DOMAIN batch :
    batch[i] \in Documents /\ (Left(batch[i]) \/ Current(batch[i]))

\* A buffer in use holds documents of this request, or from just before it.
Near(d) == owner[d] = request \/ (owner[d] = request - 1 /\ owner[d] \in unstarted)
Fresh ==
  /\ memory = "live" => \A i \in DOMAIN batch : Near(batch[i])
  /\ memory = "live" /\ phase \in {"minit", "out"}
       => request \in unstarted /\ \A i \in DOMAIN batch : owner[batch[i]] = request
  /\ /\ memory = "live" /\ phase = "script" /\ request \notin uninit
     /\ \A i \in DOMAIN batch : owner[batch[i]] = request
     => ~Full(Len(batch))

\* MINIT's hooks are there only as long as apm has started no request, and RINIT's
\* in a request.
Hooks ==
  /\ hooks = "minit" => request \in unstarted
  /\ hooks = "rinit" => phase \in {"script", "flush", "corrupt"}

Batches ==
  /\ torn \subseteq Documents
  /\ memory = "none" <=> batch = <<>>
  /\ phase = "corrupt" => memory = "freed"
  /\ \A d \in Documents : owner[d] <= request
  /\ Hooks /\ Waiting /\ Fresh
  /\ \A d \in Documents : Settled(d) \/ InBuffer(d)

LEMMA IndexGrows ==
  ASSUME NEW s \in Seq(Nat), NEW t \in Seq(Nat)
  PROVE  /\ \A i \in DOMAIN s : \E k \in DOMAIN (s \o t) : (s \o t)[k] = s[i]
         /\ \A i \in DOMAIN t : \E k \in DOMAIN (s \o t) : (s \o t)[k] = t[i]
<1> DEFINE u == s \o t
<1>1. /\ u \in Seq(Nat) /\ Len(u) = Len(s) + Len(t)
      /\ \A i \in 1..Len(s) + Len(t) : u[i] = IF i <= Len(s) THEN s[i] ELSE t[i - Len(s)]
  BY ConcatProperties
<1>2. /\ DOMAIN s = 1..Len(s) /\ DOMAIN t = 1..Len(t)
      /\ Len(s) \in Nat /\ Len(t) \in Nat
  BY LenProperties
<1> HIDE DEF u
<1>3. DOMAIN u = 1..Len(s) + Len(t) BY <1>1, LenProperties
<1>4. ASSUME NEW i \in DOMAIN s PROVE i \in DOMAIN u /\ u[i] = s[i]
  <2>1. i \in 1..Len(s) + Len(t) /\ i <= Len(s) BY <1>2
  <2> QED BY <1>1, <1>3, <2>1
<1>5. ASSUME NEW i \in DOMAIN t PROVE i + Len(s) \in DOMAIN u /\ u[i + Len(s)] = t[i]
  <2>1. /\ i \in Nat /\ i >= 1 /\ i <= Len(t) /\ ~(i + Len(s) <= Len(s))
        /\ (i + Len(s)) - Len(s) = i /\ i + Len(s) \in 1..Len(s) + Len(t)
    BY <1>2
  <2> QED BY <1>1, <1>3, <2>1
<1> QED BY <1>4, <1>5 DEF u

\* Whatever the outcome, the documents b are accounted for, and the others still are.
LEMMA Accounted ==
  ASSUME TypeOK, NEW b \in Seq(Nat), Kept(b) \/ Gone(b),
         \A d \in Documents : Settled(d) \/ \E i \in DOMAIN b : b[i] = d,
         \A d \in Documents : d \in Documents' /\ owner'[d] = owner[d],
         \A d \in Documents' \ Documents : \E i \in DOMAIN b : b[i] = d,
         \A i \in DOMAIN b :
           /\ b[i] \in Documents'
           /\ \/ owner'[b[i]] = request
              \/ owner'[b[i]] = request - 1 /\ owner'[b[i]] \in unstarted,
         request' = request, unstarted' = unstarted,
         torn \subseteq torn'
  PROVE  \A d \in Documents' : Settled(d)' \/ InBuffer(d)'
<1> SUFFICES ASSUME NEW d \in Documents' PROVE Settled(d)' \/ InBuffer(d)'
  OBVIOUS
<1>1. index' = index \/ index' = index \o b BY DEF Kept, Gone
<1>2. /\ uninit \subseteq uninit' /\ unanswered \subseteq unanswered'
  BY DEF Kept, Gone
<1>3. index' = index \o b =>
        /\ \A i \in DOMAIN index : \E k \in DOMAIN index' : index'[k] = index[i]
        /\ \A i \in DOMAIN b : \E k \in DOMAIN index' : index'[k] = b[i]
  <2>1. index \in Seq(Nat) BY DEF TypeOK
  <2>2. /\ \A i \in DOMAIN index : \E k \in DOMAIN (index \o b) : (index \o b)[k] = index[i]
        /\ \A i \in DOMAIN b : \E k \in DOMAIN (index \o b) : (index \o b)[k] = b[i]
    BY <2>1, IndexGrows
  <2> QED BY <2>2
<1>4. CASE d \in Documents /\ Settled(d)
  <2>1. owner'[d] = owner[d] BY <1>4
  <2>2. Stored(d) => Stored(d)'
    BY <1>1, <1>3 DEF Stored
  <2>3. Mates(d) \subseteq Mates(d)'
    BY <2>1 DEF Mates
  <2> QED BY <1>2, <1>4, <2>1, <2>2, <2>3 DEF Settled
<1>5. ASSUME NEW i \in DOMAIN b, b[i] = d PROVE Settled(d)' \/ InBuffer(d)'
  <2>1. owner'[d] = request \/ owner'[d] \in unstarted BY <1>5
  <2>2. CASE Kept(b) BY <1>5, <2>2 DEF Kept, InBuffer
  <2>3. CASE owner'[d] \in unstarted BY <2>3 DEF Settled
  <2>4. CASE Gone(b) /\ owner'[d] = request
    <3>1. CASE unanswered' = unanswered \union {request}
      BY <2>4, <3>1 DEF Settled
    <3>2. CASE index' = index \o b
      BY <1>5, <1>3, <3>2 DEF Settled, Stored
    <3>3. ASSUME NEW k \in DOMAIN b, b[k] \in torn' PROVE Settled(d)'
      <4>1. b[k] \in Mates(d)' BY <2>4, <3>3 DEF Mates
      <4> QED BY <3>3, <4>1 DEF Settled
    <3> QED BY <2>4, <3>1, <3>2, <3>3 DEF Gone
  <2> QED BY <2>1, <2>2, <2>3, <2>4
<1> QED BY <1>4, <1>5

LEMMA BatchesInit == Init => Batches
<1> SUFFICES ASSUME Init PROVE Batches
  OBVIOUS
<1>1. /\ Documents = {} /\ torn = {} /\ memory = "none" /\ batch = <<>> /\ phase = "minit"
      /\ request = 0 /\ unstarted = {0} /\ hooks \in {"minit", "none"}
  BY DEF Init, Documents
<1> QED BY <1>1 DEF Batches, Hooks, Waiting, Fresh

\* What of Batches only looks at the documents and the buffer survives a step that
\* leaves them alone.
LEMMA BatchesKept ==
  ASSUME TypeOK, Batches,
         UNCHANGED <<enabled, batch_size, batch, index, request, unstarted, owner, torn,
                     transfers>>,
         memory' = memory \/ (memory = "live" /\ memory' = "freed"),
         phase' = "corrupt" => memory' = "freed",
         Hooks',
         \A i \in DOMAIN batch : Left(batch[i]) \/ Current(batch[i])',
         phase' \in {"minit", "out", "script"} => phase' = phase \/ memory' = "freed"
                                                \/ memory = "none"
  PROVE  Batches'
<1>1. Documents' = Documents /\ \A d : Settled(d)' = Settled(d) /\ InBuffer(d)' = InBuffer(d)
  BY DEF Documents, Settled, InBuffer, Stored, Mates, transfers
<1>2. \A d : Left(d)' = Left(d) /\ Near(d)' = Near(d) BY DEF Left, Near, transfers
<1>3. Waiting'
  BY <1>1, <1>2 DEF Batches, Waiting
<1>4. Full(Len(batch))' = Full(Len(batch)) BY DEF Full
<1>5. Fresh'
  BY <1>2, <1>4 DEF Batches, Fresh, transfers, TypeOK
<1> QED BY <1>1, <1>3, <1>5 DEF Batches, TypeOK

\* A document of the request is added.
LEMMA ProduceBatches ==
  ASSUME TypeOK, Batches, NEW next, Produce(next), enabled,
         \/ hooks = "rinit" /\ next \in {"script", "flush"}
         \/ hooks = "minit" /\ next \in {"minit", "out", "script"},
         next = phase \/ next = "flush"
  PROVE  Batches'
<1>0. request \in Nat /\ (hooks = "minit" => request \in unstarted)
  BY DEF TypeOK, Batches, Hooks
<1>1. CASE memory = "freed"
  <2>1. /\ phase' = "corrupt"
        /\ UNCHANGED <<hooks, settings, buffer, index, request, unstarted, owner, torn,
                       transfers>>
    BY <1>1 DEF Produce
  <2>2. \A i \in DOMAIN batch : Left(batch[i])
    BY <1>1 DEF Batches, Waiting, Current
  <2>3. Hooks' BY <1>0, <2>1 DEF Hooks
  <2> QED BY <1>1, <2>1, <2>2, <2>3, BatchesKept DEF settings, buffer
<1>2. CASE memory # "freed"
  <2> DEFINE b == Append(batch, Document)
  <2>1. /\ owner' = Append(owner, request) /\ phase' = next /\ append_to_batch(b)
        /\ torn' \in {torn, torn \union {Document}}
        /\ UNCHANGED <<hooks, settings, request, unstarted>>
    BY <1>2 DEF Produce
  <2>2. /\ owner \in Seq(Nat) /\ Len(owner) \in Nat /\ batch \in Seq(Nat)
        /\ DOMAIN batch = 1..Len(batch) /\ Len(batch) \in Nat
        /\ DOMAIN owner = 1..Len(owner)
    BY LenProperties DEF TypeOK
  <2>3. /\ Len(owner') = Len(owner) + 1 /\ owner'[Document] = request
        /\ \A d \in 1..Len(owner) : owner'[d] = owner[d]
    BY <2>1, <2>2, AppendProperties, LenProperties DEF Document
  <2>4. Documents' = Documents \union {Document} /\ Document \notin Documents
    <3> DEFINE n == Len(owner)
    <3>1. n \in Nat /\ Len(owner') = n + 1 BY <2>2, <2>3
    <3>2. Documents = 1..n /\ Documents' = 1..n + 1 /\ Document = n + 1
      BY <3>1 DEF Documents, Document
    <3> HIDE DEF n
    <3> QED BY ONLY <3>1, <3>2
  <2>5. /\ \A d \in Documents : d \in Documents' /\ owner'[d] = owner[d]
        /\ Document \in Documents' /\ owner'[Document] = request
    BY <2>3, <2>4 DEF Documents
  <2>6. b \in Seq(Nat) /\ Len(b) = batch_count + 1
    BY DocumentAppended
  <2>7. /\ DOMAIN b = 1..Len(batch) + 1 /\ b[Len(batch) + 1] = Document
        /\ \A i \in DOMAIN batch : b[i] = batch[i]
    BY <2>2, AppendProperties, LenProperties, DocumentAppended
  <2>8. \/ Kept(b) /\ (request \notin uninit' => ~Full(Len(b)))
        \/ Gone(b)
    BY <2>1, <2>6, AppendOutcome
  <2> HIDE DEF b
  <2>9. /\ \A i \in DOMAIN b : (i \in DOMAIN batch /\ b[i] = batch[i]) \/ b[i] = Document
        /\ \A i \in DOMAIN batch : i \in DOMAIN b /\ b[i] = batch[i]
        /\ \E i \in DOMAIN b : b[i] = Document
    <3> DEFINE m == Len(batch)
    <3>1. m \in Nat /\ DOMAIN batch = 1..m /\ DOMAIN b = 1..m + 1 BY <2>2, <2>7
    <3> HIDE DEF m
    <3>2. /\ \A i \in DOMAIN b : i \in DOMAIN batch \/ i = m + 1
          /\ \A i \in DOMAIN batch : i \in DOMAIN b
          /\ m + 1 \in DOMAIN b
      BY ONLY <3>1
    <3>3. b[m + 1] = Document /\ \A i \in DOMAIN batch : b[i] = batch[i] BY <2>7 DEF m
    <3> QED BY ONLY <3>2, <3>3
  <2>10. /\ \A i \in DOMAIN batch : batch[i] \in Documents
         /\ \A i \in DOMAIN batch : Near(batch[i])
         /\ \A i \in DOMAIN batch : Left(batch[i]) \/ owner[batch[i]] = request
    <3>1. memory = "none" => DOMAIN batch = {} BY <2>2 DEF Batches
    <3>2. memory \in {"none", "live"} BY <1>2 DEF TypeOK
    <3> QED BY <3>1, <3>2 DEF Batches, Waiting, Fresh, Current
  <2>11. \A i \in DOMAIN b :
           /\ b[i] \in Documents'
           /\ \/ owner'[b[i]] = request
              \/ owner'[b[i]] = request - 1 /\ owner'[b[i]] \in unstarted
    <3>1. ASSUME NEW i \in DOMAIN batch
          PROVE  /\ batch[i] \in Documents' /\ owner'[batch[i]] = owner[batch[i]]
                 /\ \/ owner[batch[i]] = request
                    \/ owner[batch[i]] = request - 1 /\ owner[batch[i]] \in unstarted
      BY <2>5, <2>10 DEF Near
    <3> QED BY <2>5, <2>9, <3>1
  <2>12. \A d \in Documents' : Settled(d)' \/ InBuffer(d)'
    <3>1. \A d \in Documents : Settled(d) \/ \E i \in DOMAIN b : b[i] = d
      <4>1. \A d \in Documents : Settled(d) \/ InBuffer(d) BY DEF Batches
      <4> QED BY ONLY <2>9, <4>1 DEF InBuffer
    <3>2. \A d \in Documents' \ Documents : \E i \in DOMAIN b : b[i] = d
      BY ONLY <2>4, <2>9
    <3>3. torn \subseteq torn' BY <2>1
    <3> QED BY <2>1, <2>5, <2>6, <2>8, <2>11, <3>1, <3>2, <3>3, Accounted
  <2>13. torn' \subseteq Documents' /\ \A d \in Documents' : owner'[d] <= request'
    <3>1. torn' \subseteq Documents' BY <2>1, <2>4 DEF Batches
    <3>2. \A d \in Documents : owner'[d] <= request' BY <2>1, <2>5 DEF Batches
    <3>3. owner'[Document] <= request' BY <1>0, <2>1, <2>5
    <3> QED BY <2>4, <3>1, <3>2, <3>3
  <2>14. Hooks' BY <1>0, <2>1 DEF Hooks
  <2>15. CASE Kept(b) /\ (request \notin uninit' => ~Full(Len(b)))
    <3>1. memory' = "live" /\ batch' = b /\ b # <<>> /\ uninit \subseteq uninit'
      BY <2>2, <2>7, <2>15 DEF Kept
    <3>2. phase' = next /\ enabled' = enabled /\ batch_size' = batch_size
          /\ request' = request /\ hooks' = hooks /\ unstarted' = unstarted
      BY <2>1 DEF settings
    <3>3. Waiting'
      <4>1. ASSUME NEW i \in DOMAIN b PROVE (Left(batch[i]) \/ Current(batch[i]))'
        <5>0. batch'[i] = b[i] BY <3>1
        <5>1. Left(batch[i])' \/ owner'[b[i]] = request
          BY <2>5, <2>9, <2>10, <3>1, <3>2, <5>0 DEF Left
        <5>2. CASE owner'[b[i]] = request /\ hooks = "minit"
          BY <1>0, <3>2, <5>0, <5>2 DEF Left
        <5>3. CASE owner'[b[i]] = request /\ hooks = "rinit"
          BY <3>1, <3>2, <5>0, <5>3 DEF Current
        <5> QED BY <5>1, <5>2, <5>3
      <4> QED BY <2>11, <3>1, <4>1 DEF Waiting
    <3>4. Fresh'
      <4>1. phase' \in {"minit", "out"} => request' \in unstarted'
        BY <1>0, <3>2
      <4>2. phase' \in {"minit", "out"} => \A i \in DOMAIN b : owner'[b[i]] = request'
        <5>1. phase' \in {"minit", "out"} /\ memory = "live"
                => \A i \in DOMAIN batch : owner[batch[i]] = request
          BY <3>2 DEF Batches, Fresh
        <5>2. memory = "none" => DOMAIN batch = {} BY <2>2 DEF Batches
        <5>3. memory \in {"none", "live"} BY <1>2 DEF TypeOK
        <5> QED BY <2>5, <2>9, <2>10, <3>2, <5>1, <5>2, <5>3
      <4>3. request' \notin uninit' => ~Full(Len(batch))'
        BY <2>15, <3>1, <3>2 DEF Full
      <4>4. \A i \in DOMAIN batch' : Near(batch[i])'
        BY <2>11, <3>1, <3>2 DEF Near
      <4> QED BY <3>1, <4>1, <4>2, <4>3, <4>4 DEF Fresh
    <3> QED BY <2>1, <2>12, <2>13, <2>14, <3>1, <3>2, <3>3, <3>4 DEF Batches, TypeOK
  <2>16. CASE Gone(b)
    <3>1. memory' = "none" /\ batch' = <<>> /\ DOMAIN batch' = {} BY <2>16 DEF Gone
    <3>2. Waiting' /\ Fresh' BY <3>1 DEF Waiting, Fresh
    <3> QED BY <2>1, <2>12, <2>13, <2>14, <3>1, <3>2 DEF Batches
  <2> QED BY <2>8, <2>15, <2>16
<1> QED BY <1>1, <1>2

LEMMA BatchesNext == TypeOK /\ Batches /\ [Next]_vars => Batches'
<1> SUFFICES ASSUME TypeOK, Batches, [Next]_vars PROVE Batches'
  OBVIOUS
<1>a. Hooks /\ \A i \in DOMAIN batch : Left(batch[i]) \/ Current(batch[i])
  BY DEF Batches, Waiting
<1>1. CASE process_event
  <2>1. /\ Produce(phase) /\ enabled /\ phase \in {"minit", "script", "out"}
        /\ hooks # "none"
    BY <1>1 DEF process_event
  <2>2. \/ hooks = "rinit" /\ phase = "script"
        \/ hooks = "minit"
    BY <1>a, <2>1 DEF Hooks, TypeOK
  <2> QED BY <2>1, <2>2, ProduceBatches
<1>2. CASE EndStartup \/ EndRequest
  <2>1. /\ phase' = "out" /\ memory' = (IF memory = "live" THEN "freed" ELSE memory)
        /\ phase \in {"minit", "closing"}
        /\ UNCHANGED <<hooks, settings, batch, batch_count, index, request, unstarted,
                       owner, torn, transfers>>
    BY <1>2 DEF EndStartup, EndRequest, Release
  <2>2. \A i \in DOMAIN batch : Left(batch[i])
    BY <1>a, <2>1 DEF Current
  <2>3. Hooks' BY <1>a, <2>1 DEF Hooks
  <2> QED BY <2>1, <2>2, <2>3, BatchesKept DEF settings, TypeOK
<1>3. CASE Rinit
  <2>1. /\ phase = "out" /\ phase' = "script" /\ request' = request + 1
        /\ \/ hooks' = "rinit" /\ unstarted' = unstarted
           \/ unstarted' = unstarted \union {request'} /\ hooks' = hooks
        /\ UNCHANGED <<buffer, index, owner, torn, transfers>>
    BY <1>3 DEF Rinit
  <2>2. Documents' = Documents /\ unstarted \subseteq unstarted' /\ request \in Nat
        /\ owner \in Seq(Nat) /\ \A d \in Documents : owner[d] \in Nat
    <3>1. \A d \in DOMAIN owner : owner[d] \in Nat
      BY ElementOfSeq, LenProperties DEF TypeOK
    <3> QED BY <2>1, <3>1, LenProperties DEF Documents, TypeOK
  <2>3. \A i \in DOMAIN batch : Left(batch[i])
    BY <1>a, <2>1 DEF Current
  <2>4. Hooks'
    BY <1>a, <2>1 DEF Hooks
  <2>5. Waiting'
    BY <2>1, <2>2, <2>3 DEF Batches, Waiting, Left, buffer, transfers
  <2>6. \A d \in Documents' : Settled(d)' \/ InBuffer(d)'
    <3>1. \A d \in Documents : Mates(d) \subseteq Mates(d)'
      BY <2>1, <2>2 DEF Mates
    <3>2. \A d \in Documents : Settled(d) => Settled(d)'
      BY <2>1, <2>2, <3>1 DEF Settled, Stored, transfers
    <3> QED BY <2>1, <2>2, <3>2 DEF Batches, InBuffer, buffer
  <2>7. Fresh'
    <3>1. memory = "live" =>
            request \in unstarted /\ \A i \in DOMAIN batch : owner[batch[i]] = request
      BY <2>1 DEF Batches, Fresh
    <3>2. memory = "live" => \A i \in DOMAIN batch : Near(batch[i])'
      BY <2>1, <2>2, <3>1 DEF Near, buffer
    <3>3. memory = "live" => \E i \in DOMAIN batch : owner[batch[i]] # request'
      <4>1. memory = "live" => 1 \in DOMAIN batch
        <5>1. batch \in Seq(Nat) /\ (memory = "live" => batch # <<>>)
          BY DEF Batches, TypeOK
        <5> QED BY <5>1, EmptySeq, LenProperties
      <4> QED BY <2>1, <2>2, <3>1, <4>1
    <3> QED BY <2>1, <3>2, <3>3 DEF Fresh, buffer
  <2> QED BY <2>1, <2>2, <2>4, <2>5, <2>6, <2>7 DEF Batches, buffer
<1>4. CASE process_stats
  <2>1. CASE hooks = "rinit" /\ enabled /\ stats_enabled
    BY <1>4, <2>1, ProduceBatches DEF process_stats
  <2>2. CASE ~(hooks = "rinit" /\ enabled /\ stats_enabled)
    <3>1. /\ phase = "script" /\ phase' = "flush"
          /\ UNCHANGED <<hooks, settings, buffer, index, request, unstarted, owner, torn,
                         transfers>>
      BY <1>4, <2>2 DEF process_stats
    <3>2. Hooks' /\ \A i \in DOMAIN batch : Left(batch[i]) \/ Current(batch[i])'
      BY <1>a, <3>1 DEF Hooks, Current, settings, buffer
    <3> QED BY <3>1, <3>2, BatchesKept DEF settings, buffer
  <2> QED BY <2>1, <2>2
<1>5. CASE rshutdown
  <2>1. /\ phase = "flush" /\ hooks' = (IF hooks = "rinit" THEN "none" ELSE hooks)
        /\ UNCHANGED <<settings, request, unstarted, owner, torn>>
    BY <1>5 DEF rshutdown, Unhook
  <2>2. Hooks' BY <1>a, <2>1 DEF Hooks
  <2>3. CASE hooks # "rinit" \/ ~enabled \/ batch_count = 0
    <3>1. phase' = "closing" /\ UNCHANGED <<buffer, index, transfers>>
      BY <1>5, <2>3 DEF rshutdown
    <3>2. batch_count = 0 => DOMAIN batch = {}
      <4>1. batch \in Seq(Nat) /\ (batch_count = 0 => Len(batch) = 0) BY DEF TypeOK
      <4>2. batch_count = 0 => DOMAIN batch = 1..0 BY <4>1, LenProperties
      <4> QED BY <4>2
    <3>3. \A i \in DOMAIN batch : Left(batch[i])
      BY <1>a, <2>3, <3>2 DEF Current
    <3> QED BY <2>1, <2>2, <3>1, <3>3, BatchesKept DEF settings, buffer
  <2>4. CASE hooks = "rinit" /\ enabled /\ batch_count # 0 /\ memory = "freed"
    <3>1. phase' = "corrupt" /\ UNCHANGED <<buffer, index, transfers>>
      BY <1>5, <2>4 DEF rshutdown
    <3>2. \A i \in DOMAIN batch : Left(batch[i])
      BY <1>a, <2>4 DEF Current
    <3> QED BY <2>1, <2>2, <2>4, <3>1, <3>2, BatchesKept DEF settings, buffer
  <2>5. CASE hooks = "rinit" /\ enabled /\ batch_count # 0 /\ memory # "freed"
    <3>1. phase' = "closing" /\ send_to_elasticsearch(batch)
      BY <1>5, <2>5 DEF rshutdown
    <3>2. \/ Kept(batch) /\ uninit' = uninit \union {request}
          \/ Gone(batch)
      BY <3>1, SendOutcome
    <3>3. memory = "live" /\ batch # <<>> /\ batch \in Seq(Nat)
      BY <2>5, EmptySeq DEF Batches, TypeOK
    <3>4. Documents' = Documents /\ owner' = owner /\ torn' = torn
          /\ request' = request /\ unstarted' = unstarted
      BY <2>1 DEF Documents
    <3>5. \A i \in DOMAIN batch :
            /\ batch[i] \in Documents'
            /\ \/ owner'[batch[i]] = request
               \/ owner'[batch[i]] = request - 1 /\ owner'[batch[i]] \in unstarted
      BY <3>3, <3>4 DEF Batches, Waiting, Fresh, Near
    <3>6. \A d \in Documents' : Settled(d)' \/ InBuffer(d)'
      <4>1. \A d \in Documents : Settled(d) \/ \E i \in DOMAIN batch : batch[i] = d
        BY DEF Batches, InBuffer
      <4> QED BY <3>2, <3>3, <3>4, <3>5, <4>1, Accounted
    <3>7. CASE Kept(batch) /\ uninit' = uninit \union {request}
      <4>1. memory' = "live" /\ batch' = batch BY <3>7 DEF Kept
      <4>2. \A i \in DOMAIN batch : Left(batch[i])'
        BY <1>a, <3>4, <3>7, <4>1 DEF Left, Current
      <4>3. Waiting' /\ Fresh'
        BY <3>1, <3>4, <3>5, <4>1, <4>2 DEF Waiting, Fresh, Near
      <4> QED BY <2>2, <3>1, <3>3, <3>4, <3>6, <4>1, <4>3 DEF Batches
    <3>8. CASE Gone(batch)
      <4>1. memory' = "none" /\ batch' = <<>> /\ DOMAIN batch' = {} BY <3>8 DEF Gone
      <4>2. Waiting' /\ Fresh' BY <4>1 DEF Waiting, Fresh
      <4> QED BY <2>2, <3>1, <3>4, <3>6, <4>1, <4>2 DEF Batches
    <3> QED BY <3>2, <3>7, <3>8
  <2> QED BY <2>3, <2>4, <2>5
<1>6. CASE Mshutdown
  <2>1. /\ phase = "out" /\ phase' = "down"
        /\ UNCHANGED <<hooks, settings, buffer, index, request, unstarted, owner, torn,
                       transfers>>
    BY <1>6 DEF Mshutdown
  <2>2. Hooks' /\ \A i \in DOMAIN batch : Left(batch[i])
    BY <1>a, <2>1 DEF Hooks, Current
  <2> QED BY <2>1, <2>2, BatchesKept DEF settings, buffer
<1>7. CASE UNCHANGED vars
  <2>1. UNCHANGED <<phase, hooks, settings, buffer, index, request, unstarted, owner,
                    torn, transfers>>
    BY <1>7 DEF vars
  <2>2. Hooks' /\ \A i \in DOMAIN batch : Left(batch[i]) \/ Current(batch[i])'
    BY <1>a, <2>1 DEF Hooks, Current, settings, buffer
  <2> QED BY <2>1, <2>2, BatchesKept DEF settings, buffer, Batches
<1> QED BY <1>1, <1>2, <1>3, <1>4, <1>5, <1>6, <1>7 DEF Next, Terminated

\* A batch outgrows its size in a request only when curl cannot be initialised, or
\* when it was begun before the request.
THEOREM BatchesAreBounded == Spec => []BatchBounded
<1>1. TypeOK /\ Batches => BatchBounded
  <2> SUFFICES ASSUME Batches, TypeOK, phase = "script", memory = "live",
                      batch_size > 0, request \notin uninit,
                      \A i \in DOMAIN batch : owner[batch[i]] = request
               PROVE  Len(batch) < batch_size
    BY DEF BatchBounded
  <2>1. ~Full(Len(batch)) BY DEF Batches, Fresh
  <2> QED BY <2>1, ElasticAssumption, LenProperties DEF Full, TypeOK
<1> QED BY <1>1, TypesInit, TypesNext, BatchesInit, BatchesNext, PTL DEF Spec

\* What waits when a request is over, or in memory the engine took back, is there
\* because curl could not be initialised or because apm had started no request.
THEOREM NothingIsLeftBehind == Spec => []NothingLeftBehind
<1>1. TypeOK /\ Batches => NothingLeftBehind
  <2> SUFFICES ASSUME TypeOK, Batches PROVE NothingLeftBehind
    OBVIOUS
  <2>1. phase \in {"out", "down", "corrupt"} \/ memory = "freed"
          => \A i \in DOMAIN batch : Left(batch[i])
    BY DEF Batches, Waiting, Current
  <2> QED BY <2>1 DEF Batches, NothingLeftBehind, Left
<1> QED BY <1>1, TypesInit, TypesNext, BatchesInit, BatchesNext, PTL DEF Spec

\* What is missing from the index was made where apm had started no request, or was
\* lost to trouble of its own request, or to a torn document it shared a batch with.
THEOREM LossIsConfined == Spec => []LossConfined
<1>1. TypeOK /\ Batches => LossConfined
  <2> SUFFICES ASSUME TypeOK, Batches, NEW d \in Documents,
                      owner[d] < request \/ phase \in {"closing", "out", "down", "corrupt"}
               PROVE  Settled(d)
    BY DEF LossConfined, Settled
  <2>1. CASE InBuffer(d)
    <3>1. PICK i \in DOMAIN batch : batch[i] = d BY <2>1 DEF InBuffer
    <3>2. owner[d] \in Nat /\ request \in Nat
      <4>1. d \in DOMAIN owner /\ owner \in Seq(Nat)
        BY LenProperties DEF Documents, TypeOK
      <4> QED BY <4>1, ElementOfSeq, LenProperties DEF TypeOK
    <3>3. ~Current(d) BY <3>2 DEF Current
    <3> QED BY <3>1, <3>3 DEF Batches, Waiting, Left, Settled
  <2> QED BY <2>1 DEF Batches
<1> QED BY <1>1, TypesInit, TypesNext, BatchesInit, BatchesNext, PTL DEF Spec
=============================================================================
