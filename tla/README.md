# A verification project for the mssql extension's query data plane

TLA+ specifications, TLC runs and TLAPS proofs for the concurrent core of the
VS Code extensions for SQL Server in this repository: the SQL data plane
(`extensions/mssql/src/services/sqlDataPlane`), its STS2 binding
(`extensions/mssql/src/services/sts2`), and, following the plan below, the
services built on it. Paths below are relative to `src/extensions/mssql/src/`
unless they say otherwise.

## 1. The system

The repository holds five VS Code extensions; `extensions/mssql` is the program,
the others are packaging shells and a keymap. Everything runs in one extension
host process, on one JavaScript thread, next to a .NET service (SQL Tools
Service, "STS", and its successor "STS2") that owns the connections to SQL
Server. A handler runs to its next `await` without interruption; what
interleaves are the continuations, timers, notifications and user commands
between those points. That is the grain of every action here.

### Inventory

| Component | State it keeps | Operations | What is hard, and what makes it correct |
|---|---|---|---|
| STS2 query lane (`Sts2Query` in `services/sts2/sts2Backend.ts`) | terminal flag, acceptance and completion promises, ledger per result set, page ordinal, the lane (a promise chain), ack high-water, cancel and drain timers | start, five wire notifications, cancel, dispose, synthesized terminals | early, late, duplicated and missing notifications, sinks that reject, deadlines; exactly one terminal, ordered pages, acks only for durable pages, completion always settles |
| STS2 session (`Sts2Session`) | open, closing, closed or lost; the active query | execute, close, loss | a session that ends takes its query with it |
| STS2 backend (`Sts2Backend`) | availability, sessions, active lanes, retired ids, buffers of early events | start, openSession, canOpen, notification routing, fatal, dispose | early events buffered under limits, start racing dispose, fatal loss of every session |
| Registry (`sqlDataPlane/sqlDataPlaneService.ts`) | one entry per provider: state, startup in flight, live backend, stale-configuration mark, open-session count | register, open, run, configuration change, recompose, dispose | startups superseded while they run, recomposition racing opens, a backend disposed under a session |
| Feature contract (`sqlDataPlane/api.ts`) | the promises of a query handle, the calls of a sink | accepted, completion, sink callbacks, acks | what every backend owes a feature |
| Serverless wake (`sqlDataPlane/serverlessWake.ts`) | attempt counter | retry an open that failed while a serverless database wakes | bounded retries, only for wake errors |
| Fake backend (`sqlDataPlane/fakeBackend.ts`) | scripted streams | the contract, in memory | test double |
| Metadata catalogue service (`services/metadata/metadataService.ts`) | per database: snapshot, generation, status, digest baselines, definitions, the session lane, poll and retry timers, the watch on the focus, the identity latch | acquire, hydrate, refresh, validate, freshness modes, DDL notices, definition reads, offline mode, dispose | work that hangs and finishes late, refreshes joined to a running pass, timers that must not die; snapshots only move forward, the status is true, strict callers get what they asked for |
| Metadata store (`services/metadata/metadataStore.ts`) | leases and idle timers of the engines | acquire, release, evict | sharing one engine, an LRU cap |
| Metadata disk cache (`services/metadata/cache/`) | per database: manifest, payload files, publication lock | read, save, clear, evict, quarantine | several windows on one directory, crashes between files, stale locks; one publisher, the newest capture wins, a save never loses a readable entry |
| Native diagnostics scheduler (`sqlLanguage/host/`) | per document debounce timer, generation, running slice | schedule, cancel, slice | stale publication, lost reschedules |
| Profiler (`profiler/`) | ring buffer, filtered view, session states | append, filter, start, stop, pause | index drift between a ring and its filtered view |
| URI ownership (`uriOwnership/`) | owner per document | claim, release across extensions | two owners of one document |
| Background tasks (`backgroundTasks/`) | task list and states | register, update, cancel | lifecycle of tasks that settle twice |
| Legacy query pipeline (`controllers/queryRunner.ts`, `models/sqlOutputContentProvider.ts`, `queryExecution/`) | runner per URI, batches, results | run, cancel, results notifications | a run after another on one URI |
| Connection manager (`controllers/connectionManager.ts`, `models/connectionStore.ts`) | connections per file, MRU, credentials | connect, disconnect, change database | reconnect races |
| Query generator (`scripting/`, `queryResult/`) | none | generate INSERT, UPDATE, IN scripts from a grid selection, parse the FROM clause | pure functions on text |
| Everything else | | see `PROJECT.json` | user interface, provisioning wizards, service proxies |

### How the parts interact

A feature asks the registry for a session; the registry starts the provider's
backend once, opens a session on it and counts it. `session.execute` creates a
`Sts2Query`: it sends `v2/query.execute` and returns a handle with two promises,
`accepted` and `completion`. The service streams notifications tagged with the
query id; the backend routes each to its lane, drops it (retired id) or buffers
it (an id nobody registered yet, since the execute response travels on its own).
The lane calls the feature's sink one callback at a time and, when the sink has
durably accepted a page, sends `v2/query.ack`, which returns a credit to the
service. The metadata services, the disk cache and the diagnostics scheduler are
consumers of these queries.

## 2. Plan

In order of importance; each module is written to be proved about (constants
with assumptions, one action per operation, no `RECURSIVE`).

Done, checked and proved:

1. `QueryContract`, the abstract contract, and `Sts2Query`, which implements it.
2. `DataPlaneRegistry`, the registry's entry lifecycle.
3. `Sts2Backend`, handshake, opens, loss, close and disposal of many sessions.
4. `SessionOpen`, routing of an open over the providers and the retries while a
   serverless database wakes.
5. `MetadataCache`, the disk cache with several windows and crashes.
6. `MetadataEngine`, the catalogue service: lane, watchdog, freshness, timers.

What would come after that, in this order: one engine shared by several leases of
the metadata store; the limits of the backend's buffers over many query ids; the
index of the disk cache and its eviction by size.

## 3. The modules

| Module | What it is |
|---|---|
| `QueryContract` | the contract of `api.ts`: acceptance, sink calls, acks, completion |
| `Sts2Query` | the query lane with its session, its routing, the service and the sink |
| `Sts2Backend` | the backend: handshake, sessions, fatal notification, disposal |
| `DataPlaneRegistry` | the registry: starts, views, session counts, settings, disposal |
| `SessionOpen` | one open: capabilities, fallback, prompt, remembered route, wake retries |
| `MetadataCache` | one entry of the disk cache: saves, loads, clears and eviction of several windows |
| `MetadataEngine` | the catalogue engine of one database with its session source |
| `MCSts2Query`, `MCSts2Backend`, `MCDataPlaneRegistry`, `MCSessionOpen`, `MCMetadataCache`, `MCMetadataEngine` | instances for TLC |
| `Sts2Query_types`, `Sts2Query_proofs` | proofs of type correctness, of the safety invariants and of the refinement |
| `DataPlaneRegistry_types`, `DataPlaneRegistry_proofs` | the same for the registry |
| `SessionOpen_proofs`, `Sts2Backend_proofs`, `MetadataCache_proofs`, `MetadataEngine_proofs` | the same for an open, the backend, the disk cache and the catalogue engine |

The modules meet at the calls between their components. `SessionOpen` decides
which kind a consumer asks and takes the start of that kind as one step that may
fail; `DataPlaneRegistry` models that start, with the backend as an environment
that may fail, refuse, be late or hang; `Sts2Backend` is one such backend, whose
`openSession` and `dispose` are the registry's `OpenSucceeds`, `OpenFails` and
`DisposeReturns`; `Sts2Query` is one query of one of its sessions, with the ends of
the session it can see. `MetadataEngine` is a consumer: its session source opens
sessions through the registry, and a read of its lane stands for queries of that
kind. It starts from a snapshot `MetadataCache` may have answered to a load, and
every snapshot it publishes may become a save there.

### Sts2Query

One query. Its state maps to the code as follows: `terminal` is `terminalSent`;
`accepted` and `completion` are the handle's promises; `ledger`, `ordinal`,
`totalRows`, `errors` are the fields of the same name; `acked` is
`highestAckedPageSeq`; `registered`, `retired`, `orphan` are this query's share
of `Sts2Backend.queries`, `retiredQueryIds` and `orphanBuffer`; `session`,
`listed` and `closers` are `Sts2Session.state`, its membership in the backend's
set, and the `closeInternal` calls that wait. The promise chain `lane` is a
sequence that is never shortened, with `pos` the step whose callback was called
last and `busy` whether it has settled; history is thereby part of the state, and
most properties read it.

Each wire handler is one action of the service (`ServerRows` and so on) through
`Notify`, which routes and runs the handler. The execute continuation is the one
handler that TLA+ must cut up, because it replays buffered events in a loop:
between `ExecuteAccepted` and `EnqueueAccepted` no other action is enabled.
`CancelCall`, `CancelGetsId`, `CancelAnswered`, `CancelDeadline` (and likewise for
dispose) are the stretches of `cancel` between its awaits. The service is external
and modelled from the wire contract in `services/sts2/wire/v2.ts`: it streams a
plan, spends a credit on each page, and owes a terminal; `WireFault` is a peer that
does not keep the contract. A delayed notification is the service sending it
later; a reordered one, relative to the response, is covered because the response
may be dispatched at any point.

Left out: diagnostics, tracing, the text of errors, the encoding of rows, the
correlation ids. Numbers that grow are bounded in TLC by the plan, `MaxMessages`
and `MaxFaults`; the deadlines are timers that may fire at any time once armed.

### QueryContract

The abstract specification of one query: callbacks are made one at a time; none before
the acceptance has settled, the stream only of an accepted request, and of a rejected
one nothing but `onComplete`; pages come in order; `onComplete` comes at most once, not
to a query its own sink has failed, and only a late `onAccepted` may follow it; credit is
given only for accepted pages and never after a refusal; each promise settles once.
`Sts2Query!ImplementsContract` maps it: the calls are `SubSeq(lane, 1, pos)`.

The contract is what the binding keeps. Three things comments promise beyond it are not
kept: that a sink failure stops the delivery, that nothing follows the terminal, and that
an aborted request was never submitted. They are stated at the end of `Sts2Query`, and
section 4 names the configurations that show what happens instead.

### DataPlaneRegistry

A *flight* is one run of `factory.create()` and what comes of it. The promise
`entry.startup`, the object `entry.service` and the view that captures it are
identities in the code, compared with `===`; here they are the number of the
flight. `flights[f]` has the kind, the settings the start read and a phase;
`entry[k]` is the `BackendEntry`, with `fingerprint`, `stale` and `count` for
`configFingerprint`, `staleConfig` and `activeSessionCount`. A consumer is where its
call is: waiting for `service()`, holding a view, opening, or holding a session,
`finalized` being the record's flag.

Actions end where the code awaits: `ServiceStarts` runs to the await of the startup
promise, `CreateSucceeds` and `CreateFails` are its `then` and `catch`, `Resume` is a
caller's continuation with the checks that follow. `ConfigChange` and the last
finalization begin a recompose that waits in `recomposing` for the old service,
and `RecomposeDone` is its rest. The end of a session may be reported by its state
event, by `close` and by `dispose`, in any order; `Finalize` is idempotent as in the
code. The conjunct `Quiet` says that the host runs the continuations of settled
promises before it takes another event, and keeps out interleavings JavaScript
does not have.

### SessionOpen

`OpenAsAsked`, `OpenAborted`, `OpenRouted`, `OpenPrompts` are the outcomes of
`openSessionWithFallback` up to its first await that lets events in (the user's
prompt); the policy and default they use are those of that moment, as in the code.
`OpenSilently` is `serviceForProfile`, which decides without a check.

What a kind can open is known twice: `Capable` is what its static capabilities say,
`live` what `effectiveSet` makes of them while a backend runs, and `Negotiated` a backend
that starts, stops or shakes hands. An open is checked against `live` when it is decided
and, by the view, when `service()` has resolved (`ServiceReady`); the provider's own
`canOpen` is awaited after that (`checked`), with STS2's first handshake inside it, and
nobody looks again. `lapsed` is history: the kind was seen not to satisfy the profile
after the view's check.

`FirstAttempt` begins `openWithServerlessWake`, where `arm` is the status promise an
eligible profile carries beside each attempt. Which profiles can be checked, which
errors a waking database explains, what the user answers and what the status check says
are choices of the environment.

### Sts2Backend

Three `openSession` calls on one client. `starting` counts the handshakes in flight
(the code keeps one promise); `HandshakeEnds` includes the continuation of every
open that awaited it. `open`, `conn`, `session` are the caller's, the service's and
the backend's view of one connection; `OpenDeadline` is the budget of an open,
after which the service is told to cancel. `closers` are the `closeInternal` calls
that await the service, `draining` those `dispose` waits for.

### MetadataCache

One entry directory: `manifest` is manifest.json (its content hash, capture instant
and writer id), `file` the payload files, which are named by their content, and
`lock` the activity whose exclusive create made `.publication.lock`. An activity is
one asynchronous call, a save, a load or a sweep; which window it belongs to does
not matter, since windows share nothing but the directory. One action is one file
operation, because that is where another process can come in between; the
temporary file of a publication has a unique name and belongs to the rename.

`TakeLock` to `Unlock` are `withFileLock`; its stat and its removal of a stale lock
are two steps (`SeeStale`, `StealLock`), and the removal is by path, as in the code.
`Compare` to `Checked` are `saveNow` and `writeEntry` with the re-reads they make.
`ReadManifest` to `SetAside` are `readEntry`, which a load calls and a save calls
twice. The code takes a manifest it cannot read for no manifest; `CompareBlind` and
`ReadPreviousBlind` are that, and the re-reads of a load and of a save may fail as well.
`Crash` ends a save anywhere and leaves its lock file; a load or a sweep that crashes is
one that takes no further step. `disturbed` is history: whether a lock in use has been
removed, whether anybody but a save has taken a file away, and whether a save could not
read a manifest. The properties about saves speak of runs without what each of them
excludes; how a lock in use comes to be removed is at the end of section 4.

Left out: the index (a hint, rebuilt from the manifests), the debounce of `save`,
disabled caching, the intersection of a load with the privacy policy, manifests of
another key or version, and the encoding of the payload, of which only "whole",
"damaged" and "absent" are told apart.

### MetadataEngine

`entry` is the `CatalogEntry`: `gen`, `hydrating`, `forced`, `lastDigest`,
`manifestDigest`, `epoch`, `wedged`, `attempts`, `drift` are `generation`,
`hydrating`, `forcedRefresh`, `lastDigest`, `manifestDigest`, `opEpoch`,
`sessionWedged`, `failedAttempts`, `identityDrift`; `poll` and `retry` say whether
the timers are set. `lane` is the promise chain `sessionLane`: the work that still
waits, while `job` is the work whose turn it is, with the epoch and the generation
it captured. `orphans` is the work the watchdog has given up, which the code cannot
stop. `source` is `DataPlaneMetadataSessionSource`, a session being the number of
the recycling it came from; `SessionLost` closes it under the engine. `focus` is the
watch on the window: `focusTick` suspends the polls once it has been out of focus
for longer than the grace (`SuspendPolls`) and polls at once on its return
(`ResumePolls`); `PollSeconds` is the setting, and 0 turns the poll off.
`validation` is where `validationInFlight` is, `ticks` what the `finally` of a
`pollTick` waits for, `caller` one strict caller of `requireLive`.

What the server holds is the number of DDLs so far; a snapshot, a digest or a
definition is the number it was read at, and `ours` whether the session sat in the
database of that name. A hydration sends some ten queries; the model reads once,
and the number stands for the earliest of them. Its first query, which asks for the
identity, is best-effort: if it fails or has no answer, the hydration goes on as if the
database were its own (`Identifies`). Definitions are read per object, so that several
reads may wait on the lane. `Acquire` refreshes a disk snapshot by the network as it was
before the disk was read, as the store does.

`Hydrate`, `SchedulePoll`, `ScheduleFailedRetry`, `ValidateEntry`, `DigestEnds` and so
on are operators from entry to entry, one per method, so that an action is the
composition the handler makes. `PassOver` is what the end of a pass sets off: the
follow-up, the callers, the validation and the tick that waited for it.

Left out: sections that fail alone, the levels and delays of the poll's backoff, waits the
callers give up, the age limits that decide whether a validation is recent enough (a
caller may always validate), and calls after disposal. The lazy wrapper around the
source is not modelled: while its provider resolves, its `recycle` does nothing, and the
work cut off then runs on a source of its own. Nor is the second look at the network in
`hydrateCore`, which only a listener of the status event could make differ from the first.

## 4. What is checked

| Run | Question | Bounds |
|---|---|---|
| `sts2_query_stream` | does a well-behaved stream arrive whole, acked only when durable, and end | plans of no set, three pages, and one, one and two pages; window 2; one message; the sink may reject anything |
| `sts2_query_control` | is the sink protected from a peer that breaks the contract, is what it sees a behaviour of `QueryContract`, and do cancel, dispose, close, loss and shutdown leave one terminal and end the query without any help from the service | one or two pages, room for two early events; any two of: a fault, a rejection, cancel, dispose, the end of the session or of the backend; every control at once on one page |
| `registry_lifecycle` | are backends owned, entries truthful, counts exact, sessions spared, callers answered and everything released | two consumers, two kinds, two starts, two settings of one kind |
| `session_open` | who is asked, what is remembered, and does an open end although the status check never answers | two opens, three kinds (one incapable, one of realm test), one retry; one settings change or one change of negotiated capabilities |
| `backend_sessions` | one handshake at a time, every session reached by a loss, no forgotten connection, opens and disposal end | three opens, three handshakes |
| `metadata_cache_windows` | does one save publish at a time, does the newest capture win, does a save ever lose a readable entry | two saving windows, a reader, a sweeper, two saves of three snapshots (of the two tied ones once there is damage), one load or sweep, one damaged file or unreadable manifest |
| `metadata_engine` | is the status true, are strict callers served, does anybody wait for nothing, does abandoned work share a session or take the snapshot back, do definitions fit, do failed entries heal, does the poll go on until the lease is given back or the window left, and no longer | two objects, cold start or disk snapshot, a ladder of one retry; any three of: a DDL, a refresh or notice, a hang, two failing queries or lost sessions, a rename, a switch of the network, an absence of the user, a read of a definition |

Three result sets of which the last has a second page are the smallest stream on which
acks in the numbering of a result set starve a window of two; a window of two is the
smallest in which an ack of one page and the arrival of another overlap. Two faults
include a duplicate after a gap, and a terminal after a terminal; a fault and a
rejection or a control race each other, and all controls do on one page, because the
races they are about are between terminals. `MaxOrphanEvents` is lowered from 32 to 2
there, so that the limit is reached.

In the registry, two flights let a start retired by a change be followed by another,
and two consumers let one hold a session while the other starts, opens or closes;
consumers are interchangeable, which `session_opened_on_a_swapped_backend` uses as a
symmetry, as the cache runs do with their savers; no run with a liveness property has
one. Two opens let one settle while another prompts or waits, and one change of the
settings or of the negotiated capabilities falls before, between or after their
checks; the code allows two retries, of which the second repeats the first. Three
opens and handshakes let one open join a handshake, one start the next and one be open
when the service fails. Of the three snapshots of the cache two have one instant, for
the tie-break, and two one content, for the rewrite of the validation block; the
constraint `DamageWithTies` leaves the third out once a file is damaged or a manifest
cannot be read, since which of two captures is newer does not matter to a damaged file
or to a save that compares with nothing. Two saves are the fewest in which a lock is
waited for, found stale or crashed upon. In the engine one hang leaves an orphan
beside its successor, a refresh during a pass makes a follow-up, two failures run past
a ladder of one retry, where the poll has to take over, and two objects let two reads
of definitions wait on the lane.

Three runs bound what happens together by a constraint (`FewTroubles`, `OneChange`),
because the product of all troubles is out of reach; the constraint is sound for the
liveness properties they check, because what it cuts off are steps of the environment
that no fairness is stated for. A rejected callback, a failing query and the watchdog
are the exceptions: each shares its fairness with the step in which the same callback
or work ends well, and that step is never cut off. The proofs of the safety properties
have no such bound.

Deadlock is not checked: queries, opens, backends, saves and engines end.

### Fairness

`LocalFairness` is what the event loop and the feature guarantee: continuations
run, armed timers fire, every request has a deadline (`withDeadline`), and a sink
callback settles. The last is the feature's duty: the code puts no deadline on a
sink. `ServerFairness` adds that the service answers `execute` and sends whatever
its credits allow; it is assumed only where a query must end by itself.

In the registry a start settles (a backend bounds its handshake), the ten-second
bound on a disposal is a timer, and continuations run; nothing makes a provider's
`dispose` return. In `SessionOpen` the start of a backend, the provider's own check and
an attempt end, because the backends bound them; the status check and the user need not
answer. In `Sts2Backend` only deadlines and continuations are fair: the service may
answer nothing. In `MetadataEngine` timers fire and the work whose turn it is ends, because the watchdog sees to it; abandoned
work need not, and nothing brings a user back to the window, so that `CanHeal` speaks of
a window in use. `MetadataCache` has no liveness property: a lock is waited for with a
bounded number of attempts and given up.

### Where the code and its documentation disagree

Five runs look for a violation and find it; `PROJECT.json` quotes the lines.

* `sts2_query_refusal`: "stop delivering", says the comment on a sink failure; the steps
  queued behind the rejected callback still reach the sink.
* `sts2_query_partial`: a result set that does not fit in the buffer of early events leaves
  the query succeeded without it; "the partial result is never presented as truth".
* `session_opened_on_a_swapped_backend`: an open in flight is not counted, so that a
  change of settings disposes of the backend it runs on.
* `reader_removes_the_winner`: a reader that has read a manifest and finds its
  payload retired removes manifest.json by its path, which by then is the manifest
  of the newer save. The comment promises a retry against the winner; the code
  retries only when the digest of the payload differs.
* `validated_without_confirmation`: a hydration clears the digest baseline, and the
  next digest becomes the baseline whatever it says. A DDL between the two is in the
  baseline and not in the snapshot: the snapshot is called validated and no later
  poll differs.

More statements of the repository are violated in the same way. Each is a property of
its module with a configuration of its own, to be run as
`tlc -config <configuration>.cfg MC<module>`.

| Configuration | Property | What the repository says, and what happens |
|---|---|---|
| `Sts2Query_silence` | `SilenceAfterTerminal` | "no events after terminal" (`fakeBackend.ts:16`): a terminal that is buffered, or made up, before the execute response is followed by `onAccepted` |
| `Sts2Query_aborted` | `AbortedBeforeSubmission` | "aborted before submission" (`api.ts:381`): a cancel that runs into its deadlines settles the acceptance as aborted although the request is on its way, and the service runs it |
| `Sts2Query_overflow` | `EarlyStreamSettles` | completion "ALWAYS settles" (`api.ts:384`): a terminal that does not fit in the buffer of early events leaves it pending |
| `DataPlaneRegistry_erased_mark` | `StaleBackendsAreSwapped` | "swapped when count reaches 0" (`sqlDataPlaneService.ts:706`): a recompose that ends after the entry was started again erases the mark a change has set on the new backend, which is then never swapped |
| `SessionOpen_policy` | `NewPolicyIsHonored` | "so the new policy is honored on the next connect" (`sqlDataPlaneService.ts:689`): a prompt answered after the policy was set to off stores its route, and the next connect uses it |
| `Sts2Backend_late_session` | `SessionsTransitionLost` | "sessions transition lost" (`sts2Backend.ts:20`): the answer of an open, processed after the fatal notification, yields an open session that the loss does not reach |
| `MetadataCache_stolen_twice` | `PublicationIsSerialized` | "Serialize compare + publication for one key" (`metadataCacheStore.ts:562`): of two windows that saw the lock of a dead one, the second removes the lock the first has just taken |
| `MetadataCache_cleared_lock` | `PublicationIsSerialized` | the same: a clear removes every file of the entry, the lock of a save under way among them |

In the two about the lock no holder is slow (`HoldersAreQuick`): a holder that takes
longer than thirty seconds loses its lock to any window, which the code accepts.

The models show more orders of the same kinds, which no configuration is about.

Of the query lane: a rejected page leaves the query succeeded if the terminal was
dispatched while the callback ran; an execute response after a synthesized terminal
registers a finished lane.

Of the registry and the backend: a recompose that ends late calls a starting or disposed
entry idle, which is seen only in the list of entries; a start in flight survives a change
of its settings if a session of the previous backend is open; an open answered, or a
handshake ended, after the backend was disposed of yields an open session nobody will
close, or makes the backend available.

Of the disk cache: an eviction removes a lock in use as a clear does; a save that cannot
read the manifest it compares with replaces a newer one.

Of the catalogue engine: a strict caller is told "live" with an old snapshot if the
network is switched off, or the engine disposed of, while its pass is still queued,
because a pass that is skipped leaves the status alone; a digest that differs
consumes the baseline even if the refresh it asks for is refused offline; a
hydration that finds another database clears the timers and then, failing, sets the
retry timer again, so that the latch "ONLY an explicit refresh" may clear is cleared
by a retry if the database has its name back; a hydration whose identity query fails
publishes whatever database its session is in; an abandoned hydration latches the
identity before its epoch is looked at, and an abandoned definition read still
caches; polls do not resume when the network is switched on again. `LiveAnswersAreFresh`
and `PollFollowsTheLease` name the exceptions they make for these.

## 5. What is proved

### The query lane

These theorems hold for every plan, page size, window, sink behaviour, wire fault
and set of operations, from `ConstantsAssumption` alone.

* `TypeCorrect`: `TypeOK` is inductive as it stands. It is in five parts, of which
  the flags are proved by a first-order prover and the rest by SMT.
* `OtherEffect` is the lemma the rest stands on: a step that is not the lane's own
  leaves the lane's progress alone and either keeps the lane or queues exactly one
  callback, of the stream only before a terminal.
* `OneTerminalCorrect`: with "a terminal on the lane implies `terminal`".
* `AckedPagesAreDurableCorrect`, `AckDisciplineCorrect`: with `OrdinalsGrow` (ack
  ordinals grow along the lane, below `ordinal`, above nothing acked) and
  `FailuresAreFinal` (a rejected callback implies `terminal`). The high-water then
  separates the pages before the step in flight from those behind it.
* `AcceptanceSettlesCorrect`: whoever can end a query, or has queued something,
  implies a settled acceptance.
* `CompletionCorrect`: the completion by cases, on top of the previous two.
* `PagesInOrderCorrect`: with `LedgerInv`, an open ledger entry mirrors the last
  step of the lane about its result set.
* `SuccessIsTheWholeStreamCorrect`: from `CompletionCorrect`, and `FlowInv`. While the
  peer keeps the contract and no early event was dropped, a query that is not over has
  its stream in two pieces, the pages on the lane and the buffer of early events:
  there is a chain of stream states that begins where the lane is (`Delivered`),
  goes on by one event of the buffer at a time (`Advances`) and ends where the service
  is (`Buffered`). A new event prolongs the chain and a replayed one shortens it, so no
  induction over the buffer is needed. `DemuxInv` says who has a buffer at all: a
  registered query whose execute continuation is through has none, and only the end of
  a query retires its id. A terminal made up by the binding is no success (`Quiet`), so
  a success is the terminal at the end of the chain (`EventDelivered`).
* `ContractImplemented`: the invariants before it are enough to map every step to a
  step of `QueryContract` or to a stutter. `LaneIsPermitted` says that the callbacks on
  the lane are what the acceptance allows, and needs `EndedUnaccepted`: an acceptance that is not "accepted" belongs to a query that has ended, and no event is
  delivered to one.

### The registry

These hold for every set of kinds and settings, every finite set of consumers and
every number of starts, from `RegistryAssumption`; that the consumers are finitely
many is needed only to count their sessions.

* `RegistryTypes`: `TypeOK` says besides types that nobody names a flight that does
  not exist, which is what makes the records of flights usable.
* `NoBackendLeaked` and `EntriesClaimTheTruth` are the two halves of one inductive
  invariant, `Ownership`. Neither is inductive alone: that a live service is its
  entry's needs that a start that ends late is not the entry's startup any more,
  and that needs that a running entry's startup is its service. `OwnKind` adds that
  an entry holds flights of its own kind.
* `SessionsAreCounted`: the count of an entry is the cardinality of a set of
  consumers. `Accounting` adds that only sessions are finalized; each step then
  adds one consumer to the set, removes one, or leaves it alone, and the lemmas on
  cardinality do the rest.
* `SwapsWaitForSessions`: a change drains an entry only at count zero, and by
  `SessionsAreCounted` that means no session.
* `WaitersAreServed`: the flight a waiter resumes with is its entry's, by the check
  after the await, and by `Ownership` it is live.

### The open

These hold for every set of kinds, capabilities and opens and every bound on
retries, settings changes and handshakes, from `OpenAssumption`.

* One inductive invariant, `IInv`, carries them all: every record is `Legal`. The
  parts of `Legal` tie the place of an open to what it holds: a prompt offers a
  route, a start or an attempt has a kind (`KindFits`); from the view's check on that
  kind satisfies the profile or has lapsed since (`LiveFits`); before an attempt
  there is nothing to count, an attempt is counted when it begins and a retry when
  it is decided (`CountsFit`); status checks belong to eligible profiles and there
  is one per attempt (`WakeFits`). The memory of routes holds a route or nothing.
* `Moves` reduces a step to the record it writes; there is one lemma per record and
  one per action.
* `OpenTypes`, `AskedProvidersAreCapable` and `WakesAreBounded` follow from `IInv`. That
  a prompt may be answered, and a service resolved, after the settings or the
  capabilities changed is why `LiveFits` begins at the view's check, and not earlier.
* `RoutesWereChosen` needs `Chosen` as well: a remembered route is the kind of an open
  that named none. Of the actions that write the memory two write what their open has,
  and an open keeps its kind once it has one.

### The backend

These hold for every set of opens and number of handshakes, from
`BackendAssumption`.

* `BackendTypes`: `TypeOK` is inductive; that one handshake is in flight at most is
  the guard of `Starts` seen from every step.
* `TrackingIsExact`: `SessionsAreTracked` is inductive given the types.
* `ConnectionsAreRemembered` needs `AskedAfterAuth`: the service knows nothing of an
  open before its credential is resolved, so that the ways to fail before that
  forget nothing.
* `LossIsTotal` needs that only a fatal notification takes an available backend
  away (`HandshakesHelp`: nobody sends a handshake while it is available), that
  notifications come only while it is up (`SubscribedWhileUp`), and
  `TrackingIsExact`.

### The disk cache

These hold for every set of activities and snapshots and every bound, from
`CacheAssumption`: activities are of one kind each, and the absent manifest and the
absent lock are not values of their own.

* `CacheTypes`: `TypeOK` says besides types that who reads on holds the manifest it
  read, that a save has a writer id exactly while it runs, and that only saves hold
  the lock; it is inductive.
* `SavesExclude`: `OnePublisher` is inductive given the types, because a step enters
  the critical section only by the exclusive create, the lock changes otherwise
  only by `RemoveLockAs`, and `RemovalsAreNoted` says that one that hits a lock in
  use is recorded.
* `NewestStays`: what a save decides by comparing must still be so when it
  publishes. `Authority` says that of each place between the two: the manifest does
  not outrank the snapshot, unless a save could not read it, or is the one the save
  has confirmed. The save's own steps carry it on; others leave the manifest alone
  by `OnePublisher`, or take it away, which only helps (`ManifestChanges`).
* `EntriesSurviveSaves`: `InPlace` says that a save about to rename its manifest has
  its payload in place, and that one about to retire the previous payload is what
  the manifest names. A manifest that cannot be read does not disturb either. While
  nobody else touches the files, each step that changes the entry then keeps it
  readable; that there is one save at a time to do so is `OnePublisher` again.

### The catalogue engine

These hold for every number of schema changes, calls, timeouts, failures, renames,
switches of the network and absences of the user, every set of objects and every length of the ladder, from `BoundsAreNumbers`,
`NoneIsNothing` (the absent value is none of the others) and `ObjectsAreThemselves` (no
object is called a hydration or a digest).

* An effect lemma for each operator says what it does to an entry (`HydrateEffect`,
  `PassOverEffect`, `PublishEffect`), and an action is what its operators do, in their
  order. `NextIsSteps` sums the twenty-seven actions up in fifteen kinds of step: a
  request asks for work and takes none back (`Requests`); the polls are suspended or
  resumed (`Focused`); work gets its turn (`Turned`), is over (`WorkOver`) or abandoned
  (`WorkAbandoned`); abandoned work that ends leaves a definition or nothing behind
  (`OrphanOver`). Every invariant below is kept by each of them.
* `EngineTypes`: `TypeOK` is not inductive. `LaneInv` adds that no kind is on the lane
  twice or queued behind itself, that a hydration is in flight exactly while one is
  queued or has its turn and a validation likewise (`LaneOK`), that the epoch is the
  number of timeouts and disposals and what was abandoned is of an earlier one
  (`EpochOK`), and that no timer is armed on a lease given back and no poll while polls
  are suspended (`Quiet`). `DisposedIsQuiet` and `UnfocusedIsQuiet` are its last parts.
* `OneQuery`: what was abandoned is on an earlier session than the source, or on the
  one marked wedged while nothing has its turn (`SessionInv`).
* `DefinitionsFit` and `SnapshotsForward` need `VersionInv`: nothing is newer than the
  server, and work begun under the generation that is shown has read no earlier than
  its snapshot. The running hydration is of that generation, because nobody else
  publishes in its epoch.
* `StaleIsRefreshing`: loading and stale are statuses of a hydration that has its turn.
* `PollIsTheLease`: every operator that takes the timer or ends a tick schedules
  again, unless the settings turn the poll off, the entry has drifted, the network
  was switched or the polls are suspended (`PollInv`, `PollingGoesOn`); the end of a
  suspension polls at once; and no timer outlives the lease, no poll the focus
  (`DisposedIsQuiet`, `UnfocusedIsQuiet`).
* `LiveIsFresh` and `NobodyWaitsInVain` need `CallerInv`: who waits for the pass in
  flight asked no later than it read, and who waits for the follow-up asked for it.

### Only model-checked

The liveness properties, which the prover cannot do under fairness; every safety
property a passing run checks is proved. A run that finds a violation has nothing to
prove. Some invariants are proved and have no run any more, because others that are
checked imply them or are deeper: `PagesInOrder`, `AckDiscipline`,
`AcceptanceSettles`, `WakeIsBounded` and `SessionsAreTracked`.

## 6. What is not modelled

The components `PROJECT.json` lists as `not_modelled`, each with the reason. Most of
the repository is user interface, proxies that forward one request, provisioning
wizards, generated message catalogues, text processing and test tooling: they keep no
state whose interleavings could be wrong, or forward to components outside. The
native diagnostics scheduler is complete but no product code creates it. Of the
modelled components, what each module leaves out is said in section 3.
