# A TLA+ model of sparql-server

sparql-server is a SPARQL 1.1 endpoint in a single Go binary: the goRDFlib
engine behind HTTP, with an in-memory, Badger or SQLite store, startup data,
SPARQL LOAD from allowed URLs, metrics, readiness and a graceful shutdown. This
directory holds the specifications kept beside the code, the TLC models that
check them and the TLAPS proofs about them. `PROJECT.json` is the index: for
each definition the lines it models, for each run its properties, for each
property a mutation of the code that breaks it, and the hazards all of it is for.

## The system

| Component | State | Operations | Talks to |
|---|---|---|---|
| Run (`internal/server/server.go:43`) | where it is, `runErr`, `loadPending`, the contexts `ctx`, `loadCtx`, `baseCtx` | open, listen, select, mark stopping, drain, cut off, await the load, close the store | `http.Server`, the load goroutine (channel `loadDone`), the dataset's lock, the store |
| Load goroutine (`server.go:102,330`) | `loaded`, what it sends to `loadDone` | lock, load files, publish `loaded`, count | lock, store, triple counter |
| Gate, `/readyz`, ready gauge (`httpx/cors.go:60`, `server.go:174,291`) | none; they read `loaded` and `stopping` | 503, admit, answer | the two flags |
| Request hook (`server.go:224`) | none | observe, mark the count dirty, log | metrics, triple counter |
| Triple counter (`server.go:393`) | `dirty`, `n`, `valid`, a mutex | `get` | dataset's lock, store |
| SPARQL LOAD (`internal/loader`) | `limitReader`: `left`, `exceeded` | allow, fetch, redirect, sniff, parse | the source, `rdfio.ParseInto` |
| RDF files (`internal/rdfio`, `internal/storage`) | the batcher: `buf`, `count` | expand paths, parse, flush, load | parsers, store |
| Compression (`internal/httpx/gzip.go`) | `gzipWriter` | `WriteHeader`, `Write`, `Flush`, `finish` | handler above, net/http below |
| CORS (`httpx/cors.go`), authorizer (`internal/auth`) | none | decide on one request | |
| Metrics (`internal/metrics`) | counters, histogram, in-flight gauge | observe, track, render | readiness and count callbacks |
| Configuration (`internal/config`) | the configuration | flags, environment, token files, validate | |
| Command line (`internal/cli`, `cmd/sparql-server`) | exit code, signal context | serve, load, query, version | all of the above |
| Web UI (`internal/ui`) | the page's busy flag | static files | the endpoint |
| goRDFlib's endpoint, stores and parsers; net/http | external | | |

What is hard here is concurrency at the edges of the server's life: a select
over three events, flags read one after the other, a cache invalidated by a
hook that runs after the lock was released, three timeouts that cut off requests
in stages, a load that may fail, be cancelled or hang, and a store that must be
closed once, last, whatever the rest does. Failure comes second: partial loads,
crashes between batches, handlers that panic, sources that lie, break off or
stay silent. The properties that make each component correct:

* Run: it stops when told to, reports a failure, that of closing the store
  included, leaves neither the store open nor the lock held, and closes the store when nobody uses it; if it must close
  it under a request, that request's client is cut off before.
* Gate and readiness: no request on a partly loaded dataset; no claim to be
  ready that never was true.
* Triple counter: never wrong forever; a finished write is in the next count.
* SPARQL LOAD: whole documents (where HTTP says how long they are), within the
  limit, from allowed URLs, in time.
* RDF files: exit code 0 means everything is on disk; what a failure leaves is
  a prefix; a malformed document that is not streamed leaves nothing.
* Compression: one truthful header, the whole body, no proper end for an
  aborted response, and nothing compressed for a client that refuses it.
* Access: nobody writes or reads past the tokens; a better token never does
  worse; a client is asked for a token only if one helps.
* Metrics: a page is of one moment; a slow reader of it blocks nobody for ever.
* Command line: the server never starts more open than it was asked to; the exit
  code tells the truth about the output; signals end the process, the first gently.

## Modules

| Module | Models | Kind |
|---|---|---|
| `DatasetLock` | the endpoint's readers-writer lock | external, instantiated by the next two |
| `Server` | Run, the load goroutine, the gate, the readiness routes, requests and scrapes | component, composed of all of them |
| `MCServer` | instances of `Server` | model |
| `Lifecycle` | what the server promises its operator and its clients | abstract specification, refined by `Server` |
| `ServerProofs` | theorems about `Server` | proofs |
| `LifecycleProofs` | `Server` implements `Lifecycle` | proofs |
| `TripleCounter` | `tripleCounter.get`, the hook, writers | component |
| `Allowlist` | `New`, `normalize`, `Allowed`; how a source resolves a path | operators |
| `LoadFetch` | `Allowlist.Load`, `limitReader`, `ParseInto` | component, on `Allowlist` |
| `MCLoadFetch` | the allowlists to check | model |
| `DataLoad` | `storage.Load`, `LoadFile`, the batcher, under the load command | component |
| `GzipWriter` | `gzipWriter` and a handler that uses it | component |
| `Access` | authorizer, CORS, Accept-Encoding | operators |
| `HTTPRequests` | the handlers around the endpoint, the hook, the metrics registry and its scrapes | component, on `Access` |
| `MCHTTPRequests` | configurations and requests to check | model |
| `CommandLine` | main, signals, commands, `cliWriter`, settings | component |
| `MCCommandLine` | invocations to check | model |
| `TripleCounterProofs`, `LoadFetchProofs`, `DataLoadProofs`, `GzipWriterProofs`, `HTTPRequestsProofs`, `CommandLineProofs` | theorems about these components | proofs |

Modules without an MC module are small enough to be run as they are. Operators
named `Bug...` are faulty variants of the definition they precede; no
specification uses them.

### Server

`run` is the program counter of Run. Every channel operation, atomic store and
call that may block is a step of its own; what lies between is merged. The
select follows Go: with several events ready it takes any of them; with none it
parks, and the first event to arrive is the one it wakes for, even if others
follow before Run is scheduled (`wake`). A timer may fire at any moment it is
armed, so "the drain timed out" is enabled whenever the drain runs.

`closeStore` closes the store once and remembers how that went (`CloseOnce`,
`closeErr`). Every return of Run goes through the deferred `closeStore` and `cancelBase`
(`Deferred`), which drop the error: a Run that forgot to close the store would still
release it, but not report that its last writes may be lost. `StoreReleased` asks for
both.

`load` is the load goroutine. Its data takes `data` AddN calls, chosen at the
start between none and `MaxData`; the context is checked before each of them,
and the load may fail at any point (`LoadFails`), keeping what it flushed.
`Publish` is `loaded.Store(true)`; the goroutine then counts the triples and
sends its result.

A request is refused or admitted by the gate (a 405 of the read-only route comes before
it, also during the load), waits for the dataset's lock,
evaluates, and answers; an update passes through `applied`, between its writes and
its answer. `connsClosed` turns every later answer into `lost`: after srv.Close
nobody receives it. A scrape is not gated and its count has a context of its own.
A readiness check is two reads: `CheckFirst` and `CheckSecond`.

Assumed of code outside the repository: `http.Server.Shutdown` returns nil only
when no handler runs and new connections are refused; an idle connection
may still send a request until then; a request whose context is done does not
get the dataset's lock; AddN reports no error. The mutex of the
triple counter is left out here; `TripleCounter` has it.

### Lifecycle

Five variables: the phase of the server, its store, its startup data, what each
client has been told and what the operator has been told. It says nothing of
locks, contexts, timeouts or the order in which Run does things, only what must
hold between those five. `Server!Promised` maps the state of Run and of its
requests to them: `starting` until it listens, `stopping` from
`stopping.Store(true)`, `stopped` when Run has returned; a request has an answer once
it can no longer change. `ImplementsLifecycle` is checked by `server_requests`
and proved.

### TripleCounter

Writers apply operations under the write lock, release it, and only then run the
hook. A scrape goes through the mutex, the swap of the dirty flag, the wait for
the read lock, the count and the store, each a step. The size of the dataset is
abstracted to the number of operations applied (`version`), which tells apart
exactly the counts an operation lies between. `floor` and `hooked` are history.

### LoadFetch

Bytes are counted: the size of the document, what was taken from the body, what
`limitReader` has left, what the head keeps and what the parser was given. The
parser may ask for any number of bytes and may find a syntax error anywhere. A body has a length, or comes in chunks, or ends with
its connection. In the first two cases net/http notices when it is cut
(`ConnectionBreaks`); in the third it cannot, and what came so far is the document
(`CutShort`, `framed`).

An allowlist is a set of prefixes that `New` accepts, each an origin and a path without
dot segments or encoded slashes. `MCLoadFetch` has seven: none, a whole origin with and
without a slash, a directory with and without one, and two prefixes on one
origin and on two. The URL and every redirect may be any URL: an origin, listed
or not, or one that no prefix can name, and a path of up to two segments, among them dot
segments, encoded slashes, and a name that starts like a listed one. The theorem
`RequestsStayInside` has no such bounds: any set of prefixes, any paths.
`RequestsAllowed` does not use `Allowed`; it resolves the path the way a server
would and asks whether the document is inside a listed directory.

The head is 3 bytes instead of 512 and five
requests become three; the limits 0 (none), 1, 2 and 4 lie below and above
the head, and sizes run past all of them.

### DataLoad

The load command, run again and again over the same files, killed, cancelled or
failing anywhere. A document is its number of statements, streamed or whole, and
well-formed or not; its first statement has a blank node, which each run names
afresh. One AddN is one transaction (the comment at `rdfio.go:78` says so of
Badger and SQLite). The check of the context and AddN are two steps.

### GzipWriter

The methods are operators on a record that holds the gzipWriter and what
net/http was given; the actions are the handler's calls. The body is counted in
units of which three make `gzipMinSize`.

The header a client sends is in `Access!AcceptsGzip`.

### HTTPRequests and Access

A request passes CORS, the read-only route, the in-flight gauge, the gate, the
authorizer, the endpoint, the hook and the deferred decrement; each that may
wait or that others may see is a step. What the headers decide is pure and in
`Access`; an Authorization header is one of the ways to carry no token, or the
token it carries. The endpoint, external, asks the authorizer, refuses, evaluates or
panics; read-only it may itself refuse a write. OPTIONS passes the read-only route and
reaches the endpoint, unless CORS answers it as a preflight; what the endpoint says to it
is its own affair (`Options`: an answer without data, for which "204" stands, with or
without the hook). `Cases` says which configurations
and requests to consider, since the configuration never changes.

A scrape takes the mutex, writes requests, durations and rows to its client, and
releases it. Each write may last for ever, until `WriteTimeout` breaks the
connection; then every further write fails at once. `Observe` needs the mutex:
that is how a client can hold up the requests of others (`HookReturns`).

### CommandLine

`in` is the invocation and never changes: command, flags, environment, what the path of
the store leads to (a store, nothing, or an empty directory or file), and whether the
rest is valid. Five settings are spelled out, those
that decide what a server lets in; the others are checks of one value each
and joined in `in.rest`. A token file is its content. `Quarter` is a quarter of the
values an integer has, the code's `1<<62`: integers go from `-2 * Quarter` to
`2 * Quarter - 1`, `TooLarge` compares with `Quarter` as the code does, and `Wrap` is
the product the machine computes. The run has 8 bits (`Quarter = 64`) and the units 1, 4
and 10 for `B`, `KiB` and `KB`; the theorem holds for any `Quarter` and any unit up to it.

`notify` is whether signals reach NotifyContext. The first ends the context;
until the goroutine of main has called `stop()` another changes nothing; after it,
or after Main has returned, a signal kills. Run and Load are one step each,
which may never come. The endpoint writes to `cliWriter` an error, or a result in
parts, or panics after part of it; nobody recovers, the deferred Close runs and the
runtime exits with 2. stdout may refuse a write (`refused`): the endpoint learns of it,
and may go on, end or panic, but `runQuery` looks at the status only. If nobody reads
stdout any more, SIGPIPE kills the process (`BrokenPipe`).

## Runs

| Run | Instance | Shows |
|---|---|---|
| `server_requests` | 1 query, 2 updates, up to 2 batches | `TypeOK`, `GatedUntilLoaded`, `LoadEndsBeforeClose`, `AckedWriteApplied`, `ForcedCloseOnlyAfterCutoff`, `EvaluationEndsBeforeClose`, `StoreReleased`, `NoDataStopsCleanly`; `ImplementsLifecycle` |
| `server_stopping` | 1 update, 1 scrape, 1 probe, 1 gauge, up to 1 batch, fair | `GaugeReady`, `ReadyAfterLoad`; `ShutdownReturns`, `StopNoticed` |
| `server_canceled_load` | no requests | violates `CleanShutdownReturnsNil` |
| `server_readyz` | 1 probe | violates `ReadyzReady` |
| `server_scrape_after_close` | 1 update, 1 scrape | violates `NoUseAfterClose` |
| `triple_counter` | 2 writers, 2 scrapers, fair | `CacheFresh`, `ScrapeSeesFinishedWrites`; `ScrapeAnswers` |
| `load_fetch` | sizes 0..6, 4 limits, 7 allowlists, paths of up to 2 segments, fair | `WholeDocument`, `LimitIsExact`, `FailureAddsNothing`, `RequestsAllowed`; `LoadEnds` |
| `load_fetch_truncated` | the same | violates `NeverTruncated` |
| `data_load` | 2 files of 0 to 3 statements, batches of 2, 2 invocations | `ExitIsTruthful`, `FailureLeavesPrefix`, `MalformedAddsNothing`, `CancelStopsWriting` |
| `gzip_writer` | bodies to 6 units, threshold 3 | `RightlyEncoded`, `EndIsTruthful`; `FlushDelivers` |
| `http_requests` | every request on every configuration; 2 requests and 2 scrapes, fair | `MetricsExact`, `TokensGuard`, `TokensHelp`, `GzipRefusalRespected`; `HookReturns` |
| `command_line` | every command; 15 000 combinations of flags, variables and files, fair | `OpenAsAsked`, `SizeIsWhatItSays`, `ExitTellsOutput`, `StoreRespected`, `FirstSignalIsGraceful`; `SignalsEndIt` |

Several of these are conjunctions of named parts: `LimitIsExact` of `SizeLimit` and
`ExactFitAccepted`, `MetricsExact` of `InFlightExact` and `ScrapeExact`, and so on;
a counterexample shows which part fails. `FailureReported` follows from
`ImplementsLifecycle` and is a theorem of its own. `TypeOK` of every module holds on
these instances; only that of `Server` is part of a run, the others are
the first conjunct of the inductive invariants below.

**Why the bounds are enough.** Requests meet only through the lock and the store:
one reader and two writers give every pair that can collide, and the theorems
below cover every other number. Two batches give a load that stops before,
between and after them. Two scrapers give one that holds the mutex and one
that waits; two writers one whose hook is still to run while another writes. Sizes,
limits and buffers each take a value below, at and above the threshold they are
compared with. Two files and two invocations give the file that fails, the one
before it, and the run that repairs what a crash left. Paths of two segments
hold a listed directory and one step out of it, below it or into a longer name; below a
prefix of two segments there is no path in the run, only in the theorem.
Configurations, headers and flags are finite and enumerated in full; they need no
company, because a decision looks at one request. Two requests and two scrapes give
a page during which one request is observed and one is not, and a scrape that waits for
another. One bucket and two durations give its bound and what lies above all.
Sizes of 8 bits include the largest that fits for each unit, the next one, and
products that wrap to 0 and to negative numbers.

**Fairness.** `Server!FairSpec`: weak fairness of Run's own steps and of the
load goroutine's, which are runnable goroutines with timers. None for
requests (a query may never end), for signals, or for reading files: a FIFO
nobody writes to blocks the load, and Run waits for it without a limit.
`ShutdownReturns` therefore excludes a load that is inside a file.
`TripleCounter!FairSpec`: weak fairness of each scrape's steps, strong fairness
of its taking the mutex, since a `sync.Mutex` is handed to a waiter that
was passed over for a millisecond. Writers may hold the lock forever.
`LoadFetch!FairSpec`: the load's own steps, and its timeout, which is 30 s unless
set to 0. The source may stay silent.
`HTTPRequests!FairSpec`: the deferred decrement, and the hook's taking the mutex,
strongly, as above; a scrape moves on for certain only when its connection is
broken, and `WriteTimeout` (10 minutes by default) breaks it. With
`--write-timeout=0` nothing would, and `HookReturns` would not hold.
`CommandLine!FairSpec`: the goroutine of main, and an operator who goes on
sending signals; nothing of Main itself, which may be inside a FIFO.

## What the violation runs found

1. **A clean shutdown can fail.** `server.go:42` says Run returns nil after a
   clean shutdown. A signal ends both contexts. If it comes once the listener is
   up but before Run waits in its select, the select may find the cancelled load's result
   next to `ctx.Done()` and take it: lines 119-122 then return `context.Canceled`, which
   line 138 takes care to ignore. A select that already waits is woken by `ctx` first.
2. **`/readyz` can claim what never was.** It reads `stopping`, then `loaded`
   (`server.go:294,296`). A shutdown and the end of the load in between give 200
   from a server that was never loaded and not stopping. `state.ready`
   reads them in the other order and cannot (`GaugeReady`).
3. **A scrape can outlive the store.** The count runs under
   `context.Background()` (`server.go:411`), so `cancelBase` does not stop it:
   after a drain timeout it can get the lock after the store was closed under it.
4. **A truncated document can pass as whole.** `loader.go:166` drops the error of
   the head read. A document of `maxBytes+1` bytes that fits into the head, with
   neither Content-Length nor known format, loses its last byte there; the parser's
   own read then finds a clean end. `WholeDocument` shows that it takes sniffing.

Smaller divergences were met and have no run. `README.md:215` says that the exit
code is 0 on success and 1 on any error; a usage error gives 2 (`cli.go:39`), as does an
aborted query result, whose panic ends the process, and a query whose output stdout
refused may give 0 (`cli.go:231,264`; it depends on what the endpoint does with the
error of the write). `ExitTellsOutput` says what is left: without a refused write, part
of a result is never followed by a 0. "The store does not exist" (`cli.go:197`) is asked of
the path: a query on an existing empty directory or file creates a store there
(`NoStrayStore` permits that and no more). With a query token and
`--allow-anonymous-updates` a client without a token may write and not read
(`TokensGuard` states what the README promises, which permits it). `FormatBytes`
prints sizes above 2^62 that `ParseBytes` refuses.

## Proofs

Every safety invariant and every action property that a passing run checks is a
theorem for all values of the constants, and so is the refinement of `Lifecycle`.
`PROJECT.json` lists them under `theorems`. The argument is the same everywhere: an
inductive invariant, checked by TLC on the instance of the run before it was proved; a
lemma for the initial states; for each action (or group of actions that touch the same
state) that it keeps the invariant; and the properties as consequences.

### Server and Lifecycle

`ServerProofs` proves, for any sets of clients and any amount of startup data,
that `Server!Spec` implies `TypeOK` and every safety invariant that
`server_requests` and `server_stopping` check. The assumption is
`ServerAssumption`: `MaxData` is a natural number, and the kinds of actors are
disjoint.

None of the properties is inductive. The invariant `SafetyInv` is a conjunction whose
parts lean on those before them:

* `LockInv`: the lock's holders are exactly the actors inside the dataset, and
  a writer is alone. Without it nothing keeps a request from running
  on while Run holds the lock to close the store.
* `PhaseInv`: what each phase of Run has established. Past the drain either no handler
  is left or all are cancelled and cut off; past the wait the load has ended; a
  forced close comes after the cut-off; the store is closed, and its error in `runErr`,
  before the deferred calls run.
* `DataInv`: `loaded` means every batch is in, and whoever passed the
  gate, or answered ready, saw `loaded`. A gauge that is between its reads saw it too,
  and `everReady` is what makes the second read enough.
* `ErrorInv`: a failure of the load that Run has received or waited for is in
  `runErr`.
* `WriteInv`: an update that has applied its operations has them in the store
  unless its client is gone.

One lemma per part shows that every step keeps it, with a case per group of actions;
`Safety` assembles them, and each property follows from `Safety` by a line of
its own. `FlagsOK`, the Boolean half of `TypeOK`, is kept apart because a different
prover is good at it.

`LifecycleProofs` proves `Refinement`: `Server!Spec` implies
`ImplementsLifecycle`. Every step of Run, of the load and of a request is one of
Lifecycle's or leaves its five variables alone; a lemma for each of the three groups
has a case per step that shows. The steps need `Safety`: that a request
which answers is served by an open store is `WriteInv` and `PhaseInv`, that Run
returns an error after a failed load is `ErrorInv`, and that a load cannot end after
the store is closed is `PhaseInv`. Two facts were added to the invariant
for it: `stopping` is stored exactly in the phases after the select, and a load
that failed has not published.

### TripleCounter

Assumed (`CounterAssumption`): the kinds of actors are disjoint and the bounds are
natural numbers. `CacheFresh` alone is not inductive: while the mutex is held the cached
value may be wrong, since the scrape that cleared the flag has not stored its count yet.
`CounterInv` says what replaces it then. `MutexInv`: exactly the holder is past the
mutex. `HookInv`: no hook has announced what is not applied, and no scrape started
with more than was announced. `CountInv`: a count that was taken and is about to be
stored is at least what was announced when the scrape began, and, unless the flag was
set again, has every announced write and lacks only ones whose hook is still to come.
That holds because the swap comes before the count and a hook after its write.

### LoadFetch

Assumed (`LoadAssumption`, `AllowlistAssumption`): limits, sizes and batches are natural
numbers, at least one request may be sent, allowlists consist of prefixes that `New`
accepts, and the words for dot segments are not names. `ReadInv` accounts for every byte taken from the body: kept in the
head, given to the parser, or the one byte of the probe that found the document too
large (`Lost`); what the limit has left and what was received add up to it. From it
follow both halves of `LimitIsExact`, and that a parser that saw the end saw all of it
(`ParseInv`), and of the document if the body says where it ends, unless the head was cut, which is the truncation the violation run finds.

`RequestsAllowed` compares two algorithms: `Allowed` looks for dot segments and then
compares segments with a prefix, `Resolve` walks the path keeping a directory. Two lemmas
connect them for paths of any length: without dot segments the walk goes to the
path itself (`NormalResolves`), and a path that a prefix covers is below it
(`CoveredIsBelow`). `NormalResolves` is an induction over the length of the path. The
library's induction theorems take an operator and cannot be used, so `Induction`
states induction for a set of naturals and is proved from well-foundedness.

### DataLoad

Assumed (`LoadAssumption`): numbers of files, runs and statements are natural, a batch
holds at least one. `FileInv` says that of the file being loaded all that left the
buffer is on disk and that a stream is read from its start; `DoneInv` that the files
before it are on disk and the total is theirs; `StoreInv` joins the properties that
speak of all runs; `CancelInv` that a batch is under way only if none was written after
the signal. `LossBelowBatch` and `ReportIsTrue` count sets and use the theorems about
cardinality.

### GzipWriter

Assumed (`GzipAssumption`): the threshold is at least 1. The invariant says where each
byte is (`plain + held + packed + buf = n`) and, as long as nothing is decided, that
nothing was sent and the handler's headers stand (`Open`); afterwards, that the one
header sent is true about the body and why it is compressed or not (`Sent`). `Sound` is a
predicate on the record, so that each method is a lemma about a record, and `Flush`,
`Write` and `finish`, which call one another in the code, compose the lemmas.
`FlushDelivers` is an action property, proved from the same invariant.

### HTTPRequests and Access

Assumed (`RequestsAssumption`): `Cases` are configurations with requests, `Buckets` is
an increasing sequence of naturals, and the value `"free"` of the mutex is no scrape. Any
set of clients is allowed, infinite ones too: `GaugeInv` says that only finitely many
have arrived. `ClientInv` and `AnswerInv` give the reason for each answer: the
decision or the route. From them the access properties follow by looking at the
definitions of `Access` once, for any configuration that passes validation and any
header. `GzipRefusalRespected` needs no invariant: it is the fact about `AcceptsGzip`, for
headers of any length (`GzipIsAsked`).

`MetricsExact` says that all series of a page count the same requests. `RegistryInv`: each
counter is the number of observed requests it is for. `ScrapeInv`: while a scrape holds the
mutex, what was observed when it began is all there is (`seen[s] = Observed`), so what it has
written counts `seen[s]`, and keeps counting that when others are observed later. `BucketBound`
connects the search for a bucket with its bound, and `CumulativeCounts`, by induction over
the buckets as above, the running sum of Write with the requests up to a bound.

### CommandLine

Assumed (`CommandLineAssumption`): `Quarter` is positive and `Cases` are invocations.
`CheckInv`: no command works with settings that do not pass its checks; `StoreInv`: the
store is open only while a command is at work; `OutputInv`: what is on stdout, by where a
query is, what it answered and whether a write was refused; `EndInv`: signals go back to their default action
only after the first has ended the context or the exit code is decided. `OpenAsAsked` and
`SizeIsWhatItSays` are then about what `Invalid` lets through. For the second, a number
without a unit is below `2 * Quarter` as any integer is, and one with a unit that
passes `TooLarge` has a product of at most `Quarter`: `Wrap` leaves both as they are.

### Only model-checked

The liveness properties `ShutdownReturns`, `StopNoticed`, `ScrapeAnswers`, `LoadEnds`,
`HookReturns` and `SignalsEndIt`: they need fairness and ENABLED, which are out of the
prover's reach. The four properties of the violation runs are false.

## Not modelled

SPARQL evaluation, the parsers and the stores (libraries; the lock, AddN and
the order of a handler's steps are modelled from their use); logging and rendering;
TLS; what a URL, a header, a media type or a file name is parsed to; the values of
settings that are checked one by one (`in.rest`); `publicRequestIRI` and the routing
of paths to handlers. The query page (`internal/ui`) is static files and one fetch in
the browser; `internal/version` formats build information. A Flush
before WriteHeader on a body its handler encoded itself would be encoded twice
(`gzip.go:159`); no handler does it, and `CallFlush` assumes so. Opening a FIFO
blocks a load for good; the code documents it and leaves it to a second signal.

## Plan

Done: the life of the server and its abstract specification;
the triple counter; SPARQL LOAD with its allowlist; file loading; compression; the
way of a request with access and metrics; the command line with its settings; the
proofs of their safety properties and of the refinement.
Next, in this order:

1. `Dataset`, an atomic endpoint: each acknowledged update takes effect at one
   moment between its request and its answer. `Server` and `DatasetLock`
   refine it.
2. The remaining settings of `in.rest`, where two of them depend on each other
   (`--allow-load` needs updates, `--tls-cert` and `--tls-key`).
