# A verification project for php-apm

php-apm is a PHP extension that records errors, exceptions and statistics of
requests. It hangs itself into the engine's error and exception callbacks and
into the `@` opcodes, and hands every event to a list of storage drivers. These
modules model the extension as C code with hazards of its own: it runs inside
the callbacks of another program, re-enters itself, keeps state from request to
request, and talks to stores that fail.

## Inventory

| part | source | state | operations | modelled in |
|---|---|---|---|---|
| life cycle, hooks, dispatch | `apm.c`, `php_apm.h` | saved and installed callbacks, silence flag, copied request data, time stamps | MINIT, RINIT, RSHUTDOWN, MSHUTDOWN, `apm_error_cb`, `apm_throw_exception_hook`, the two opcode handlers, `process_event`, `extract_data` | `ApmCore` |
| socket driver | `driver_socket.c` | linked list of events, sockets of one report | `rinit`, `process_event`, `rshutdown` | `SocketDriver`, `RequestReport`, `ApmSocket` |
| sqlite3 driver | `driver_sqlite3.c` | connection, file, request id, "created" flag | `rinit`, `process_event`, `process_stats`, `rshutdown`, `OnUpdateDBFile` | `SqliteDriver` |
| mysql driver | `driver_mysql.c` | connection kept between requests, "created" flag; in the server, the session with `@request_id` | the same, and `mshutdown` | `MysqlDriver`, `RequestStore` |
| elasticsearch | `driver_elasticsearch.c` | batch buffer and count | append, send at the batch size and at RSHUTDOWN | `ElasticBatch`, `Outbox`; its calls in `ApmCore` |
| statsd driver | `driver_statsd.c` | address looked up in `minit` | counters and timers as datagrams | `ApmStatsd`, on `ApmCore` |
| backtraces | `backtrace.c` | recursion marks in the script's values, depth | walk over the frames, dump of arguments | `Backtrace` |
| settings, build | `apm.ini`, `config.*` | defaults | none | constants |

How they interact. The core calls drivers through `struct apm_driver`: `rinit`
and `rshutdown` once per request for every enabled driver, `process_event` for
every event a driver wants, `process_stats` for a slow request. Elasticsearch is
not in the list: it is called after each loop. Before the loop `append_backtrace`
builds the trace all of them get. Drivers call back in two ways:
`extract_data`, shared and guarded by one flag, and `zend_error`, which enters
`apm_error_cb` again while the first dispatch is still in the driver. Settings
reach a driver through INI callbacks, one of which (`OnUpdateDBFile`) closes a
connection and may raise errors. Processes share nothing but the stores. The
engine is a party too: it takes request memory back, puts settings back, leaves
by long jumps, and closes nothing that a driver forgot.

What is hard here: re-entrancy; flags and time stamps that one request leaves
to the next; a setting that changes between two calls that must pair; the order
in which several stores see nested events; every failure of a store between two
of its steps, answers that are lost, sessions that die between two statements;
memory that lives shorter than the pointer to it; values that contain themselves;
calls inside RSHUTDOWN that may never return; and `apm.enabled`, which is set per
host. MINIT hooks the errors of the whole process, but RINIT and RSHUTDOWN do
nothing for a host that has it off (`apm.c:372`, `418`). So a process that begins
with such a host hands events to drivers that were not told of the request, until
the first request with apm on has taken the hooks out. `PROJECT.json` lists each hazard
at its line with the properties that watch it.

## Modules

- **ApmCore** is the life cycle of one process. `phase` says where the process
  is; one action per handler, and one per round of each loop that a driver's
  error can interrupt (`Deliver`, `RshutdownStats`). `stack` holds the
  activations of the two hooks: `Complain` pushes one while the driver at the
  cursor of the activation below is being called, `Return` pops it and does what
  `apm_error_cb` does last, handing the error on. Function pointers are the
  names `"engine"`, `"apm"`, `"none"`. Times are small numbers; `Boot` is the
  distance from the epoch that an unset `begin_tp` stands for. The CPU thresholds
  are folded into the one on the duration: they are compared, and go stale, in
  the same way. `raised`, `forwarded`, `recorded`, `statted`, `ready` and
  `started` are history of the current request; the rest is the program's state.
  The engine and the script are external: `RaiseError`, `Throw`, `Catch`,
  `Uncaught`, `Tick`, `ScriptEnd`, `EndRequest`.
- **RequestReport** is what a driver that reports once per request promises. SocketDriver
  alone and ApmSocket are both shown to implement it.
- **SocketDriver** is `driver_socket.c` with one step per entry, per `send` and
  per `close`. What the peers will answer is fixed when `rshutdown` begins;
  `send` may fail each time. `Block` is a `connect` or `send` that never returns:
  the sockets have no timeout (`stuck`). RequestReport has a step for it too, as the
  peers served before then keep what they got. `damaged` records that the list was followed while
  null or freed. By itself it is called as the function table is meant to be.
- **ApmSocket** is `ApmCore` and `SocketDriver` together: the driver's steps are
  those the core's actions call, under the core's settings. `FinishRequest` is
  the rest of RSHUTDOWN after the driver has returned.
- **ApmStatsd** is `ApmCore` and `driver_statsd.c`: the lookup in MINIT, which
  switches the driver off when it fails, the use of the address by the two
  handlers, and its release. `adjusted` records that a host's settings named
  `apm.enabled` or `apm.statsd_enabled`, which the engine then also puts back.
- **RequestStore** is what a driver promises that stores in a database shared by
  many processes: one row for a request, and rows that refer to it.
- **MysqlDriver** is `driver_mysql.c` in several processes on one server. A query
  is executed, refused, repeated by the library in a new session, or given up;
  `DropSession` may come between any two steps. The session's side
  (`request_id`, `last`) is apart from the handle. It implements RequestStore.
  `Hosts` says for each process whether its hosts have apm on, `hooks` whose hooks
  are in. `rinit_Skipped` begins a request with apm off: it leaves
  `is_request_created` as it is, and when that is set the request's rows go under
  the id of the request before. Such a request is `excused`.
- **Outbox** is what a driver promises that sends batches: documents are stored in
  the order they were made, each at most once, a batch whole or not at all.
- **ElasticBatch** is `driver_elasticsearch.c`. `memory` says whether the buffer's
  pointer is null, good, or points to memory the engine took back; what happens
  after a use of that is not followed (`corrupt`). A document is a number; one
  whose message spans lines, or that is cut at the end of its 8192 bytes, is
  torn. It implements Outbox. `hooks` says who put the hooks in, MINIT or RINIT. A
  request with apm off (in `unstarted`) leaves them as they are, and RSHUTDOWN does
  not flush its batch: what it collects is lost, or used after it was taken back.
- **Backtrace** is `append_backtrace` and the dump of arguments: one action per
  line begun and ended, per element shown, cut, entered or left. `walks` holds
  nested activations: when memory runs out the engine raises an error from
  inside, whose own trace walks the same frames, and then leaves all of them.
  All calls are taken to have the same arguments. PHP 7's branches are followed.
- **SqliteDriver** is `driver_sqlite3.c` in several processes on shared files;
  one step per call of the library, an action of its own for each failure. Here
  the core appears only as the caller. Processes in `Early` have errors before
  the first request; one whose path failed the checks at start-up begins with
  the driver switched off. `Hosts` and `hooks` are as in MysqlDriver: with apm off
  for the host neither `rinit` nor `rshutdown` is called, so the flag stays set and
  the connection open. A request that begins with the flag set has `"skipped"` in
  `hit`, one that begins with a connection `"early"`.
- **MC...** modules hold the small values of the constants. Operators whose
  comment begins with "Mutant" are variants of the definition after them, with
  a plausible mistake; each property is known to fail with one of them.
- **ApmCore_proofs**, **ApmSocket_proofs**, **ApmStatsd_proofs**,
  **SocketDriver_proofs**, **MysqlDriver_proofs**, **SqliteDriver_proofs**,
  **ElasticBatch_proofs** and **Backtrace_proofs** hold the theorems.

## Runs

| run | what it asks | bounds |
|---|---|---|
| `core_events` | events, exceptions, `@`, nested driver errors: handed on once, modes, order, silence, request data; dispatches and requests end | 2 requests, 3 events per request, re-entry 2 deep, one `@`, clock to 2, threshold 0, three drivers in the three exception modes and elasticsearch, statistics from all but mysql, the script switches events |
| `core_stats` | types, hooks, pairing of rinit and rshutdown, statistics; statsd's address | 2 requests, 2 events, clock to 2, threshold 0, `apm.enabled` and the drivers vary by host, lookups that fail, the script switches events and the socket driver |
| `socket` | descriptors, reachability, implementation of `RequestReport`, end of rshutdown | connects and sends that return, fail or never return, six entries (file, unknown scheme, tcp, file, tcp without port, file), `MAX_SOCKETS` 2, 2 events, 2 requests |
| `apm_socket` | the list's life, content and details of the report, the request ends | 2 requests, 2 events, two entries, connects and sends that never return, sqlite3 raising errors before the socket driver |
| `sqlite` | request row, ownership of rows, re-entry, connections, calls return | 2 processes, one of them with errors during start-up and with hosts that have apm on and off, 2 requests, 1 event each, 2 faults, 2 files |
| `mysql` | implementation of `RequestStore`, sessions, requests without trouble stored completely, calls return | 2 processes, one of them with hosts that have apm on and off, 2 databases, 2 requests, 1 event each and the statistics, 1 fault (a refusal or a dropped session; giving up after a drop is not counted again) |
| `elastic` | implementation of `Outbox`, size and life of a batch, what a failure may lose | 2 requests, each with apm on or off, and the time before them, 3 documents, batch sizes 0, 1 and 2 |
| `backtrace` | marks, content and order of the dump, call sites, ends of lines, termination | all stacks of up to 3 frames PHP can have, ten graphs of 3 containers with and without cycles, depth settings 0 to 3 with a char that ends at 2, 2 events, memory running out once |

`SqliteDriver` and `Backtrace` also state a `TypeOK`; it is proved (`TypesHold`,
`BacktraceTypes`) and left out of the two runs.

The bounds are the smallest in which the cases meet: two requests, for anything
one leaves to the next; two nested activations, for order and re-entry; more
usable entries than sockets; two processes, for interleaved ids; two faults,
for one failure on top of another; three documents, for one more than a batch
holds; three containers and three
frames, for a cycle that does not begin at the first link and a call site beyond
a dummy. In `mysql` a second fault is out of TLC's reach together with two
processes; the theorems on the mysql driver have no such bound. In
`sqlite`, `MaxFaults` counts kinds of failure per
process and request, and a kind that happened may go on happening.

Four runs end in a violation. Each shows a disagreement between the code and a
line of the repository, described under "findings" in `PROJECT.json`:

- `v_silence`: nested `@` operands share one flag, and the inner one clears it
  (`apm.c:88`).
- `v_threshold`: with `apm.event_enabled` off the begin of the request is not
  recorded (`apm.c:381`), and every request counts as slow.
- `v_socket`: an entry that does not resolve hides the ones behind it
  (`driver_socket.c:183`, `192`).
- `v_sqlite`: the error about the tables re-enters the driver before its flag is
  set, and the request is inserted twice (`driver_sqlite3.c:179`).

Two more disagreements are no runs of their own. The test for "Uncaught
exception" (`php_apm.h:161`) depends on the engine's wording, which PHP 7 changed:
with `UncaughtPrefix` FALSE `ExceptionModeHonoured` fails. And the threshold test
of the socket report uses a duration that is not measured unless some driver wants
statistics (`driver_socket.c:232`, `apm.c:427`): with a host that has no such
driver `DetailsWhenDue` fails.

The passing runs say what does hold around these. `SilenceRespected` is
checked where no operand nests or is left by an exception;
`RequestOnceOrTwice` bounds the damage of the re-entry; `ChildrenOwned` names
the failures after which a request id may be foreign, and the requests with apm off
that begin with the flag of the one before; `ConnectionsClosed`, `StoresRequests`,
`CleanRequestStored`, `NothingLeftBehind` and `LossConfined` name the same requests
where the code does not keep the promise for them; `StatsExactlyWhenSlow` is
checked with events configured on (a script may switch them off);
`ReachableConnected` says which entries are served whatever comes before them.
`ApmSocket` assumes `QuietStart`, the same `apm.enabled` for all hosts and no
`ini_set` of the driver: an error between MINIT and the first RINIT, or in a first
request with apm off, would reach a driver without a list, which no line of the
repository excludes.

## Fairness

That every call returns is written `[]<>(no call is on)`: again and again none is, which
says the same as a leads-to from a call to its end.

- ApmCore: weak fairness of `Dispatch` and of `Shutdown`, since the extension is
  C code that runs on once the engine has entered it. None for the script, for
  `Complain`, or for another request. That a `Complain` cannot go on for ever is
  a bound of the model (`MaxNesting`, `MaxEvents`); that it does not in the code
  is what `ReentryBounded` of SqliteDriver checks for the driver that does it.
- SocketDriver: weak fairness of the steps of `rshutdown`: it is C code that runs
  on. It does not say that `connect` and `send` return: they block without timeouts,
  and `Block` may take the place of each. `RshutdownEnds` and `ComposedRequestEnds`
  therefore say that a request ends or stands still in such a call: no path, no
  failure and no answer keeps the loops themselves going.
- MysqlDriver: weak fairness of each process's own steps. The driver sets no timeout
  (`driver_mysql.c:44-54`): that every wait is bounded rests on the defaults of the
  library and of TCP. That a session is dropped again and again is bounded by
  `MaxFaults`; the library itself repeats a query only once.
- Backtrace: weak fairness of the walk's own steps, which is one thread running
  on; none for the next event, or for memory running out.
- SqliteDriver: weak fairness of each process's own steps.
  `sqlite3_busy_timeout` bounds every wait. None for the choice between success and
  failure, none for requests.

## Proofs

The prover checks these for every value of the constants: any number and order
of drivers, any settings, any path and any number of sockets, any number of
processes, files and databases, batch sizes, heaps and stacks, requests and failures.
They rest on the assumptions named in the modules (`CoreAssumption`,
`SocketAssumption`, `PathAssumption`, `StatsdAssumption`, `MysqlAssumption`, `ElasticAssumption`,
`SqliteAssumption`, `BacktraceAssumption`), which say that settings are settings of
listed drivers, no driver is listed twice, a script cannot switch statsd, a script
has finitely many arrays and objects, and bounds are natural numbers. Every safety
invariant that a run checks is stated by a theorem. Those that need more than these
assumptions say so, and the runs meet their hypotheses:

| theorem | needs | because otherwise |
|---|---|---|
| `StatsWhenSlow` | `EventEnabled` | RINIT takes the time only then (`v_threshold`) |
| `ExceptionsAsConfigured` | `UncaughtPrefix` | `want_event` looks for the wording of PHP 5 |
| `StoresAgree` | only the first driver of the list complains | the drivers before one that complains have stored the event it is handling ahead of the complaint, those behind it get it after; the sqlite3 driver is the only one that calls `zend_error`, and it is the first (`driver_sqlite3.c:70`, `75`, `179`; GINIT) |
| `SilenceIsRespected` | operands neither nest nor are left by an exception; `apm.enabled` for all hosts; no `ini_set` of a driver | one flag cannot tell these (`v_silence`), and only RSHUTDOWN gives the handlers back |
| `LinesAreEnded` | a callback's dummy frame is right before a frame of code that does not execute a call | the engine makes it there and nowhere else; a stack it never makes could end other lines in the page |
| `QueueIsDisciplined`, `ReportIsOfThisRequest`, `CoreReportsEachRequest`, `EventsAreReportedOnce` | `Regular`: `QuietStart`, `apm.enabled` for all hosts, no `ini_set` of the socket driver | MINIT's hooks are in place before any `rinit` has made a list: an error before the first request, or in a first request with apm off, makes the driver follow one it does not have; TLC finds this with `ActiveChoices` both values |
| `DetailsAreDue` | `Regular`, `EventEnabled`, statistics of the socket driver | the duration compared may be an earlier request's |

The core (**ApmCore_proofs**):

- `TypeCorrect`: `[]TypeOK` of ApmCore. `TypeOK` is not inductive: a duration is
  natural only because `begin_tp <= clock`, and what RSHUTDOWN restores is a
  callback only because MINIT saved one. `Typed` adds these.
- `ErrorsAreHandedOn`: `[]ErrorsHandedOnOnce`. `Activations` is the strengthening:
  each activation works on an event of its own, a fatal one lies at the bottom,
  and none is left when drivers are shut down. Four lemmas treat the shapes a
  step can have (an event raised and pushed, raised and handed on, a step that
  touches no event, the pop in `Return`); `DispatchedNext` has one step per action.
- `HooksAreBracketed`: `[]HooksBracketRequests`, by `Hooks`, which gives every
  pointer in every phase. It needs `Activations` at one point: the return from a
  fatal error ends the script, and must not happen in another phase.
- `DriversArePaired`, by `Paired`: a driver that is ready is one that is enabled, in a
  request that is on, or one that scripts can switch.
- `RequestDataIsFresh`, by `Copied`: within a request `initialized` says exactly whether
  the buffers hold its data; after it they hold none, and no hook is active that could
  fill them.
- `StatsWhenSlow`, by `Timed`: `begin_tp` is the beginning of this request, the clock
  stands during RSHUTDOWN, and the statistics loop has asked exactly the drivers behind
  its cursor.
- `ExceptionsAsConfigured`, by `Numbered`, `Recorded` and `Moded`: an exception makes
  at most one event of either kind; no driver ahead of an activation's cursor has
  been given its event, so none is given it twice.
- `RecordersAreGivenOnce`: `[]GivenOnce`, the part of `Recorded` that needs no exception:
  no driver is given an event twice, whatever is switched between two drivers of a
  dispatch.
- `StoresAgree`, by `Ordered`. Agreement of the logs alone is not inductive. An event
  that waits below another has been given to nobody but the driver that complained,
  and the event on top is the last in every log that has it; this holds because what
  waits, waits at the first driver.
- `SilenceIsRespected`, by `Flagged` (the flag is the operator's state), `Muted` (it
  stands while an event is dispatched) and `Complete` (an event is stored by, or still
  to be offered to, each driver that is to have it).

The composition (**ApmSocket_proofs**): every step of ApmSocket is a step of ApmCore or
leaves it alone (`CoreSteps`), so the core's invariants carry over.

- `QueueIsDisciplined`: `Protocol` relates the core's phase to the driver's: hooks
  are entered only before drivers are shut down (`Sequenced`), rshutdown runs once,
  in its phase (`Called`), and the list is live exactly from rinit until
  `clear_events` (`Listed`).
- `ReportIsOfThisRequest`: while it is live, the list is what the core recorded for
  the driver in this request (`Filled`). It rests on `Protocol` at rinit, where both
  begin empty.
- `CoreReportsEachRequest`: the composition is shown to implement RequestReport, as the
  driver alone is by `ReportsOnce`. The moments at which an event is added are now
  the core's dispatches, and an event is its request and its number there; that the
  batch is open at each of them is `QueueIsDisciplined` once more. `Cursor` says what
  the sockets of a report are, `Contents` what an endpoint has received.
- `EventsAreReportedOnce`: no endpoint is told of an event twice. `Dated` follows the
  requests: what an endpoint has was made in requests up to this one, and of this one
  only by a report that has closed the list (`Told`); within a list no event occurs
  twice because of `Recorded` of the core.
- `DetailsAreDue`: `Measured` says the duration is this request's once RSHUTDOWN has
  begun, and `Timed` of the core that `begin_tp` is its beginning.

The drivers:

- `SocketTypes`, `NothingLeftOpen`: `[]TypeOK` and `[]DescriptorsClosed` of
  SocketDriver, by `Sockets`: entries are connected in ascending order, hence at
  most once, and the open descriptors are exactly those the loops still have to
  close.
- `ReachableAreConnected`: `[]ReachableConnected`, by `Scanned`: the entries that the
  loop has passed are those it does not break at, and each reachable one among them
  has a socket; so their number is what the bound of the array is compared with.
- `ReportsOnce`: every step of SocketDriver is a step of RequestReport or a
  stutter, under the mapping of `Refined`. An endpoint is not offered a batch
  twice because `Sockets` says its sockets lead to different entries.
- `RshutdownTakesBoundedSteps`: `StepsLeft` never exceeds what the path and
  `MAX_SOCKETS` allow, and every step of rshutdown makes it smaller; a call that does
  not return is the last of them.
- `AddressKept`: `[]AddressWhenCalled` of ApmStatsd. The invariant `Looked` says
  why a handler finds the address: while no host's settings interfered, statsd is
  enabled after MINIT only with an address in place, and nothing takes the address
  away before MSHUTDOWN; and a process in which apm is off runs no hook at all.
- `MysqlTypes`, `SessionsAreHeld`: the handle and the session change together;
  `TypeOK` bounds a process to one session, which holds because `mysql_destroy` is
  reached without a session only where nothing is subtracted.
- `RequestsAreStored`: every step of MysqlDriver is a step of RequestStore. Neither
  half is inductive. `Numbered` says that a table has no row of a request still to
  come; `Linked` follows the one row through the steps of the call: no row before
  the INSERT, `LAST_INSERT_ID()` the row's id until the SET, `@request_id` that id
  or NULL after it, unless the request is excused: its row was refused, or it had apm
  off and began with the flag of an earlier one.
- `OneRowEach`, `AllRowsRefer`: what a store that takes only steps of RequestStore has
  in every state: one row for a request in all databases together, and rows that refer
  to their request's also after all that followed, by `StoreKeeps`.
- `CallsTakeBoundedSteps` (MysqlDriver): each step of a call leaves fewer queries to run;
  only a dropped session costs another step, to repeat the query in a new one.
- `CleanRequestsAreStored`: `[]CleanRequestStored`. `AllClean` adds to `Linked` what
  a request in which nothing went wrong has stored after each step of a call; one that
  begins with apm off and the flag set has gone wrong from the start. The
  other processes only append, and to rows of their own.
- `TypesHold`, `RequestsInsertedOnce`, `RowsReferToTheirRequest`, `ReentryEnds`,
  `ConnectionsAreClosed` (**SqliteDriver_proofs**): one invariant, `Stores`, for all
  five. `Nesting` says what a call of the driver may be inside of: the driver opens its
  connection at most once on the stack, so it re-enters itself once; and that a driver
  in use has no connection once RSHUTDOWN has taken the hooks out. `Counting` says the
  flag `is_request_created` is set with the row's id in hand, so that a second row takes
  a second call that was under way before, which only an error about the tables makes.
  `Linking` follows the id from the connection into the rows of the requests for which
  `Sound` holds: no failed open, no change of file, no flag left by a request with apm
  off, and no rejected row where the connection may know another insertion. `History`
  says that no row belongs to a request still to come.
- `CallsTakeBoundedSteps` (SqliteDriver): `StepsLeft` sums over the nested calls of a
  process. The one step that adds a call, the error about the tables, is paid for with
  the connection it has just opened, and `Nesting` says that there is no third.
- `ElasticTypes`, `BatchesAreStored`, `StoredInOrder`: every step of ElasticBatch is
  a step of Outbox, and Outbox keeps its documents in order: what waits is newer
  than what is stored.
- `BatchesAreBounded`, `NothingIsLeftBehind`, `LossIsConfined`: one invariant,
  `Batches`, for all three. `Waiting` says that what is in the buffer is either of the
  request that apm has started and will end, or was made where curl could not be
  initialised or apm had started no request; `Fresh`, that a live buffer holds documents
  of this request or from just before it, and those of this request alone are below the
  size; and every document is in the buffer, stored, or lost for one of the reasons
  that `LossConfined` names.

The backtraces (**Backtrace_proofs**):

- `BacktraceTypes`, `GuardsAreHeld`: `[]TypeOK` and `[]GuardsHeld`, by `Marks`: no value
  is being dumped twice, in one trace or in two nested ones, and what a long jump left
  marked is not being dumped; otherwise the mark that is taken off might be another
  dump's. It is also why a mark is never taken off twice.
- `EveryFrameHasItsLine`: `[]EveryFrameOnce`, by `Covered`: the call sites so far are
  the frames of code before the pointer, with `Passed` for what `Skip` makes of them.
- `DumpsAreComplete`: `[]DumpComplete`. The dump is recursive, and a proof by induction
  over the heap is out of reach here. But what is visible can be said without recursion:
  a path of positions with a table for each of its steps (`Through`). `Dumped` says that
  the hashes on the stack are linked by such a path (`Linked`), that every path that
  begins with it leads through the same tables (`Follows`), and that what has been shown
  are exactly the visible paths before it (`UpTo`). A step shows the current path or
  passes it over, and moves to the next element, into the value, or out of the table.
  `BeforeNext`, `BeforeInto` and `BeforeOut` say which paths come in between, and `GoesOn`
  and `Marks` say that none of those is visible but the one shown.
- `LinesAreEnded`: `[]LinesEnded`, by what `Skip` leaves below a dummy frame.

Eight of these properties are stated in the modules and proved, and are in no run, where
others come close to them: `GivenOnce`, `ReportsEachRequest`, `EventsReportedOnce`,
`RshutdownIsBounded`, `CallIsBounded` (twice), and `OneRow` and `AllRefer` of RequestStore.

Only model-checked, as the prover has no `ENABLED`: the liveness properties
`CallsReturn`, `CallReturns`, `RshutdownEnds`, `ComposedRequestEnds`, `TraceEnds` and
those of ApmCore, and the fairness in `RequestReport`. Of `CallReturns` and
`RshutdownEnds` the part that is safety is proved: how many steps there can be. What
remains to TLC is that a call that is not over can take one.

## Not modelled

Text: SQL, JSON, datagrams, and the layout of backtraces, references and
`apm_addslashes` included. Thread-safe builds, where the globals are per thread but
`begin_tp` and `old_error_cb` are not; PHP 5's branches of `backtrace.c`. `apm.ini`,
build files, `phpinfo`. A driver whose `minit` or `rinit` returns a failure: none of
them does. The locale, which statsd sets for the whole process. Memory that runs
out outside of a backtrace. What the process does after it used memory that was
taken back (ElasticBatch ends there). Whether each CPU threshold by itself is passed:
they are folded into the one on the duration. A process with apm off in php.ini, for
the sqlite3 driver: its file name is then never set at start-up (`driver_sqlite3.c:86`). In the compositions, `ini_set` switches off the socket driver only; what it does to the sqlite3
driver through `apm.sqlite_db_path` is in SqliteDriver. ElasticBatch follows the driver
as it is written, for PHP 5's `smart_str`, and Backtrace the branches of PHP 7.

## Plan

1. Done: the core, the socket driver with its abstract specification and the
   composition, the sqlite3 driver; proofs about the core and the socket driver.
2. Done: the mysql, elasticsearch and statsd drivers and the backtraces; the
   abstract specifications RequestStore and Outbox; start-up events; proofs about
   the mysql, elasticsearch and statsd drivers.
3. Done: a theorem for every safety invariant that a run checks, in all components.
4. Done: the core with the socket driver implements `RequestReport`; the lengths of the
   drivers' calls.
5. Done: requests of hosts with apm off in the sqlite3, mysql and elasticsearch modules;
   calls of the socket driver that never return.
6. Proofs still worth having: what remains true where `Regular`, or the hypotheses of
   `SilenceIsRespected`, fail; the length of a dispatch and of a backtrace.
