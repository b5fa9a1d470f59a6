---------------------------- MODULE ElasticBatch ----------------------------
(***************************************************************************)
(* driver_elasticsearch.c: one PHP process that collects its events and    *)
(* statistics in a buffer and posts them to the _bulk interface, as soon   *)
(* as there are apm.elasticsearch_batch_size of them and at the end of the *)
(* request.  The buffer is request memory: the engine takes it back when   *)
(* the request, or the start-up of the modules, is over, and the driver    *)
(* keeps its pointer.                                                      *)
(*                                                                         *)
(* The core's hooks are there from MINIT on when apm.enabled is on in      *)
(* php.ini.  A request of a host that has apm.enabled off is not started   *)
(* by RINIT and not ended by RSHUTDOWN, which then leave the hooks in as   *)
(* they are: until the first request with apm on has taken them out, such  *)
(* requests, and whatever runs between two of them, make documents too.    *)
(*                                                                         *)
(* A document is a number.  The driver writes the message and the trace    *)
(* into it as they are; one that thereby spans several lines, or is cut at *)
(* the end of its 8192 bytes, is torn.                                     *)
(***************************************************************************)
EXTENDS Integers, Sequences, SequencesExt

CONSTANTS
  Sizes,               \* apm.elasticsearch_batch_size
  MaxRequests, MaxDocuments      \* bounds

ASSUME ElasticAssumption ==
  /\ Sizes \subseteq Int /\ Sizes # {}
  /\ {MaxRequests, MaxDocuments} \subseteq Nat

VARIABLES
  phase,               \* minit, out, script, flush, closing, down;
                       \*   corrupt: memory was used after it was taken back
  hooks,               \* who put in the core's hooks that are in: minit, rinit;
                       \*   none.  In a request apm is on exactly with rinit's
  enabled, stats_enabled, batch_size,      \* settings of the request
  memory,              \* what elasticsearch_batch_buffer.c points to: none,
                       \*   live, freed
  batch,               \* the documents in it
  batch_count,
  index,               \* what the server has stored
  \* history
  request,             \* how many requests were started
  unstarted,           \* those that apm did not start, and the start-up, 0
  owner,               \* the last request started when a document was made
  torn,                \* documents the server cannot read
  uninit,              \* requests in which curl_easy_init failed
  unanswered           \* requests in which curl_easy_perform failed

settings == <<enabled, stats_enabled, batch_size>>
buffer == <<memory, batch, batch_count>>
transfers == <<uninit, unanswered>>
vars == <<phase, hooks, settings, buffer, index, request, unstarted, owner, torn,
          transfers>>

Init ==
  /\ phase = "minit" /\ hooks \in {"minit", "none"} /\ unstarted = {0}
  /\ enabled \in BOOLEAN /\ stats_enabled \in BOOLEAN /\ batch_size \in Sizes
  /\ memory = "none" /\ batch = <<>> /\ batch_count = 0 /\ index = <<>>
  /\ request = 0 /\ owner = <<>> /\ torn = {} /\ uninit = {} /\ unanswered = {}

-----------------------------------------------------------------------------
(* send_to_elasticsearch, with the documents b in the buffer *)

\* Mutant: the counter is not set back with the buffer.
ResetBufferOnly == memory' = "none" /\ batch' = <<>> /\ UNCHANGED batch_count

\* Mutant: the pointer to the buffer is kept.
ResetKeepsPointer == memory' = "freed" /\ batch' = <<>> /\ batch_count' = 0

Reset == memory' = "none" /\ batch' = <<>> /\ batch_count' = 0

\* Mutant: the batch is kept when the server did not answer, to be sent again.
UnansweredKeeps(b) ==
  /\ memory' = "live" /\ batch' = b /\ batch_count' = Len(b)
  /\ unanswered' = unanswered \union {request} /\ index' \in {index, index \o b}
  /\ UNCHANGED uninit

\* The transfer fails or takes too long, before or after the server has stored
\* the batch.  The batch is dropped.
Unanswered(b) ==
  /\ Reset /\ unanswered' = unanswered \union {request}
  /\ index' \in {index, index \o b}
  /\ UNCHANGED uninit

\* The server stores a batch it can read and refuses one it cannot.
Readable(b) == \A i \in DOMAIN b : b[i] \notin torn'

Answered(b) ==
  /\ Reset /\ index' = IF Readable(b) THEN index \o b ELSE index
  /\ UNCHANGED transfers

\* curl_easy_init fails: everything stays as it is.
Uninitialised(b) ==
  /\ memory' = "live" /\ batch' = b /\ batch_count' = Len(b)
  /\ uninit' = uninit \union {request} /\ UNCHANGED <<index, unanswered>>

send_to_elasticsearch(b) == Answered(b) \/ Unanswered(b) \/ Uninitialised(b)

Keep(b, n) ==
  /\ memory' = "live" /\ batch' = b /\ batch_count' = n
  /\ UNCHANGED <<index, transfers>>

\* Mutant: the batch is sent when it is over the limit.
FullLate(n) == batch_size > 0 /\ n > batch_size
Full(n) == batch_size > 0 /\ n >= batch_size

Document == Len(owner) + 1

append_to_batch(b) ==
  LET n == batch_count + 1
  IN IF Full(n) THEN send_to_elasticsearch(b) ELSE Keep(b, n)

\* A document goes into the buffer, also when that is gone: then nothing is known
\* of what follows.
Produce(next) ==
  /\ IF memory = "freed"
       THEN phase' = "corrupt" /\ UNCHANGED <<buffer, index, transfers, owner, torn>>
       ELSE /\ owner' = Append(owner, request)
            /\ torn' \in {torn, torn \union {Document}}
            /\ phase' = next /\ append_to_batch(Append(batch, Document))
  /\ UNCHANGED <<hooks, settings, request, unstarted>>

-----------------------------------------------------------------------------
(* The calls of the core, and the engine's *)

\* Between the requests, too, while MINIT's hooks are in.
process_event ==
  /\ hooks # "none" /\ phase \in {"minit", "script", "out"}
  /\ enabled /\ Len(owner) < MaxDocuments /\ Produce(phase)

\* The memory of the request is taken back, and with it a batch not sent.
Release == memory' = IF memory = "live" THEN "freed" ELSE memory

EndStartup ==
  /\ phase = "minit" /\ phase' = "out" /\ Release
  /\ UNCHANGED <<hooks, settings, batch, batch_count, index, request, unstarted, owner,
                 torn, transfers>>

\* The driver has no rinit, and RINIT does nothing in a request with apm off.  The
\* settings are those of the request.
Rinit ==
  /\ phase = "out" /\ request < MaxRequests
  /\ phase' = "script" /\ request' = request + 1
  /\ \/ hooks' = "rinit" /\ UNCHANGED unstarted
     \/ unstarted' = unstarted \union {request'} /\ UNCHANGED hooks
  /\ enabled' \in BOOLEAN /\ stats_enabled' \in BOOLEAN /\ batch_size' \in Sizes
  /\ UNCHANGED <<buffer, index, owner, torn, transfers>>

\* Called whether or not the request was slow.
process_stats ==
  /\ phase = "script"
  /\ IF hooks = "rinit" /\ enabled /\ stats_enabled
       THEN Produce("flush")
       ELSE /\ phase' = "flush"
            /\ UNCHANGED <<hooks, settings, buffer, index, request, unstarted, owner,
                           torn, transfers>>

\* The hooks that RINIT put in are taken out; with apm off nothing is.
Unhook == hooks' = IF hooks = "rinit" THEN "none" ELSE hooks

\* Mutant: only a full batch is sent.
rshutdown_FullOnly ==
  /\ phase = "flush" /\ phase' = "closing" /\ Unhook
  /\ UNCHANGED <<settings, request, unstarted, owner, torn>>
  /\ IF hooks = "rinit" /\ enabled /\ Full(batch_count) /\ memory = "live"
       THEN send_to_elasticsearch(batch)
       ELSE UNCHANGED <<buffer, index, transfers>>

\* "Flush any remaining events at the end of the request"
rshutdown ==
  /\ phase = "flush" /\ Unhook
  /\ UNCHANGED <<settings, request, unstarted, owner, torn>>
  /\ IF hooks # "rinit" \/ ~enabled \/ batch_count = 0
       THEN phase' = "closing" /\ UNCHANGED <<buffer, index, transfers>>
       ELSE IF memory = "freed"
       THEN phase' = "corrupt" /\ UNCHANGED <<buffer, index, transfers>>
       ELSE phase' = "closing" /\ send_to_elasticsearch(batch)

EndRequest ==
  /\ phase = "closing" /\ phase' = "out" /\ Release
  /\ UNCHANGED <<hooks, settings, batch, batch_count, index, request, unstarted, owner,
                 torn, transfers>>

Mshutdown ==
  /\ phase = "out" /\ phase' = "down"
  /\ UNCHANGED <<hooks, settings, buffer, index, request, unstarted, owner, torn,
                 transfers>>

Terminated == phase \in {"down", "corrupt"} /\ UNCHANGED vars

Next == process_event \/ EndStartup \/ Rinit \/ process_stats \/ rshutdown
          \/ EndRequest \/ Mshutdown \/ Terminated

Spec == Init /\ [][Next]_vars

-----------------------------------------------------------------------------
(* Properties *)

Documents == 1..Len(owner)
Stored(d) == \E i \in DOMAIN index : index[i] = d

\* Types of the variables; the counter counts what is in the buffer.
TypeOK ==
  /\ phase \in {"minit", "out", "script", "flush", "closing", "down", "corrupt"}
  /\ hooks \in {"minit", "rinit", "none"} /\ unstarted \subseteq Nat
  /\ {enabled, stats_enabled} \subseteq BOOLEAN /\ batch_size \in Sizes
  /\ memory \in {"none", "live", "freed"}
  /\ batch \in Seq(Nat) /\ batch_count = Len(batch) /\ index \in Seq(Nat)
  /\ request \in Nat /\ owner \in Seq(Nat)
  /\ torn \subseteq Nat /\ uninit \subseteq Nat /\ unanswered \subseteq Nat

\* Whatever fails, and across requests, the server stores the documents in the
\* order of the events, each at most once, and of a batch all or none.
Queue == INSTANCE Outbox WITH made <- Len(owner), waiting <- batch, stored <- index
StoresInOrder == Queue!Init /\ [][Queue!Next]_(Queue!vars)

\* In a request, also one with apm off, a batch is never kept at the size to send it
\* at, or past it, unless curl cannot be initialised or the batch was begun before
\* the request.
BatchBounded ==
  /\ phase = "script" /\ memory = "live" /\ batch_size > 0
  /\ request \notin uninit /\ \A i \in DOMAIN batch : owner[batch[i]] = request
  => Len(batch) < batch_size

\* What waits when a request is over, or in memory that was taken back, was made
\* where curl could not be initialised or where apm had started no request; and
\* only such a batch can be used after it was taken back.
NothingLeftBehind ==
  /\ phase \in {"out", "down", "corrupt"} \/ memory = "freed"
       => \A i \in DOMAIN batch : owner[batch[i]] \in uninit \union unstarted
  /\ phase = "corrupt" => batch # <<>>

\* A document can share its batch with those of its own request, and with those
\* made since the request before when that was one with apm off.
Mates(d) ==
  {e \in Documents : \/ owner[e] = owner[d]
                     \/ owner[e] = owner[d] - 1 /\ owner[e] \in unstarted}

\* A document that is missing when its request is over was made where apm had started
\* no request, or in a request with a failed transfer of its own, or could be in a
\* batch with a torn one: the trouble of one request that apm started loses nothing
\* of another such request.
LossConfined ==
  \A d \in Documents :
    owner[d] < request \/ phase \in {"closing", "out", "down", "corrupt"} =>
      \/ Stored(d)
      \/ owner[d] \in uninit \union unanswered \union unstarted
      \/ torn \intersect Mates(d) # {}
=============================================================================
