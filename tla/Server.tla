------------------------------- MODULE Server -------------------------------
(***************************************************************************)
(* The life of the server: Run of internal/server/server.go with its load  *)
(* goroutine, the gate and the readiness routes, and the requests that run *)
(* meanwhile.                                                              *)
(*                                                                         *)
(* Run opens the store, listens, and blocks in a select on the context of  *)
(* the process, the result of http.Server.Serve and the result of the load *)
(* goroutine.  It then drains the requests, cancels what is left, waits    *)
(* for the load and closes the store under the dataset's write lock.  The  *)
(* actors are Run, the load goroutine, one goroutine per request, and the  *)
(* environment (a signal, a failing listener, the clock).  Timers may fire *)
(* at any moment they are armed.                                           *)
(*                                                                         *)
(* Names starting with Bug are faulty variants of the definition they      *)
(* precede; no specification uses them.                                    *)
(***************************************************************************)
EXTENDS Naturals

CONSTANTS Queries,   \* requests that read the dataset
          Updates,   \* requests that write to it
          Scrapes,   \* GET /metrics requests, as far as they count triples
          Probes,    \* GET /readyz requests
          Gauges,    \* GET /metrics requests, as far as they read readiness
          MaxData    \* bound on the AddN calls of the startup load

Requests == Queries \cup Updates
Clients == Requests \cup Scrapes
Checks == Probes \cup Gauges

ASSUME ServerAssumption ==
  /\ MaxData \in Nat
  /\ Queries \cap Updates = {}
  /\ Requests \cap Scrapes = {}
  /\ Probes \cap Gauges = {}
  /\ {"run", "load"} \cap Clients = {}

VARIABLES
  run,          \* where Run is
  wake,         \* the event that woke the parked select, or "none"
  runErr,       \* the error Run returns, by its origin
  loadPending,  \* Run has not received the result of the load
  forced,       \* the store was closed without the lock
  closeErr,     \* closing it failed, as closeStore remembers
  ctxDone,      \* the context of the process: a signal arrived
  loadCanceled, \* cancelLoad was called
  baseCanceled, \* cancelBase was called: every request's context is done
  connsClosed,  \* srv.Close was called
  loaded,       \* state.loaded
  stopping,     \* state.stopping
  everReady,    \* history: loaded and not stopping held at some moment
  serve,        \* http.Server.Serve
  load,         \* where the load goroutine is
  loadResult,   \* what it sent to loadDone
  data,         \* AddN calls the startup data takes, 0 when none is given
  batches,      \* how many batches it has handed to the store
  store,        \* storage.Store
  applied,      \* the updates whose writes reached the open store
  client,       \* per request: where it is or how it was answered
  check,        \* per readiness check: where it is or what it answered
  readers, writers

Lock == INSTANCE DatasetLock

mainVars   == <<run, wake, runErr, loadPending, forced, closeErr>>
cancelVars == <<ctxDone, loadCanceled, baseCanceled, connsClosed>>
flagVars   == <<loaded, stopping, everReady>>
loadVars   == <<load, loadResult, data, batches>>
storeVars  == <<store, applied>>
lockVars   == <<readers, writers>>
serverVars == <<mainVars, cancelVars, flagVars, serve, loadVars>>
vars == <<mainVars, cancelVars, flagVars, serve, loadVars, storeVars, client, check, lockVars>>

RunStates == {"start", "setup", "select", "parked", "mark", "shutdown", "drain",
              "closeConns", "waitLoad", "close", "closing", "return", "returned"}
Events == {"ctx", "serve", "load"}
Waiting == {"waiting", "evaluating", "applied"}

FlagsOK ==
  /\ loadPending \in BOOLEAN /\ forced \in BOOLEAN /\ closeErr \in BOOLEAN
  /\ ctxDone \in BOOLEAN /\ loadCanceled \in BOOLEAN
  /\ baseCanceled \in BOOLEAN /\ connsClosed \in BOOLEAN
  /\ loaded \in BOOLEAN /\ stopping \in BOOLEAN /\ everReady \in BOOLEAN

StatesOK ==
  /\ run \in RunStates
  /\ wake \in Events \cup {"none"}
  /\ runErr \in {"nil", "startup", "serve", "load", "canceled", "close"}
  /\ serve \in {"off", "running", "failed", "closed"}
  /\ load \in {"off", "start", "loading", "publish", "count", "counting", "done"}
  /\ loadResult \in {"none", "ok", "failed", "canceled"}
  /\ data \in 0..MaxData /\ batches \in 0..data
  /\ store \in {"none", "open", "closed"}
  /\ applied \subseteq Updates
  /\ client \in [Clients -> Waiting \cup {"idle", "ok", "error", "unavailable", "lost"}]
  /\ check \in [Checks -> {"idle", "checked", "ready", "notReady"}]
  /\ readers \subseteq Clients \cup {"load"}
  /\ writers \subseteq Clients \cup {"load", "run"}

TypeOK == FlagsOK /\ StatesOK

Init ==
  /\ run = "start" /\ wake = "none" /\ runErr = "nil"
  /\ loadPending = TRUE /\ forced = FALSE /\ closeErr = FALSE
  /\ ctxDone = FALSE /\ loadCanceled = FALSE /\ baseCanceled = FALSE /\ connsClosed = FALSE
  /\ loaded = FALSE /\ stopping = FALSE /\ everReady = FALSE
  /\ serve = "off"
  /\ load = "off" /\ loadResult = "none" /\ data \in 0..MaxData /\ batches = 0
  /\ store = "none" /\ applied = {}
  /\ client = [c \in Clients |-> "idle"]
  /\ check = [c \in Checks |-> "idle"]
  /\ Lock!LockInit
-----------------------------------------------------------------------------
(***************************************************************************)
(* The events Run selects on.  A select that finds several ready picks any *)
(* of them; one that finds none parks, and the first event to happen is    *)
(* then the one it returns, whatever happens before Run is scheduled.      *)
(***************************************************************************)
Ready(e) == \/ e = "ctx" /\ ctxDone
            \/ e = "serve" /\ serve = "failed"
            \/ e = "load" /\ load = "done" /\ loadPending

Chosen(e) == \/ run = "select" /\ Ready(e)
             \/ run = "parked" /\ wake = e

Notify(e) == wake' = IF run = "parked" /\ wake = "none" THEN e ELSE wake

\* SIGINT or SIGTERM ends the context main passes to Run.
Signal ==
  /\ ~ctxDone /\ run # "returned"
  /\ ctxDone' = TRUE
  /\ Notify("ctx")
  /\ UNCHANGED <<run, runErr, loadPending, forced, closeErr, loadCanceled, baseCanceled,
                 connsClosed,
                 flagVars, serve, loadVars, storeVars, client, check, lockVars>>

\* Accept fails for good, so Serve returns and sends its error.
ServeFails ==
  /\ serve = "running"
  /\ serve' = "failed"
  /\ Notify("serve")
  /\ UNCHANGED <<run, runErr, loadPending, forced, closeErr, cancelVars, flagVars, loadVars,
                 storeVars, client, check, lockVars>>
-----------------------------------------------------------------------------
(* Run, from opening the store to the select.  What no step of Run changes *)
(* is said once, in RunStep.                                               *)

OpenFails ==
  /\ run = "start"
  /\ run' = "returned" /\ runErr' = "startup"
  /\ UNCHANGED <<wake, loadPending, forced, closeErr, cancelVars, stopping, serve, load,
                 store, lockVars>>

Open ==
  /\ run = "start"
  /\ run' = "setup" /\ store' = "open"
  /\ UNCHANGED <<wake, runErr, loadPending, forced, closeErr, cancelVars, stopping,
                 serve, load, lockVars>>

\* closeStore: sync.OnceValue closes the store once and remembers its error.
CloseOnce ==
  IF store = "open" THEN store' = "closed" /\ closeErr' \in BOOLEAN
                    ELSE UNCHANGED <<store, closeErr>>

\* The deferred calls; they drop the error of closing the store.
Deferred == CloseOnce /\ baseCanceled' = TRUE

\* The handler, the certificate or the listener fails.
SetupFails ==
  /\ run = "setup"
  /\ run' = "returned" /\ runErr' = "startup" /\ Deferred
  /\ UNCHANGED <<wake, loadPending, forced, ctxDone, loadCanceled, connsClosed, stopping,
                 serve, load, lockVars>>

Listen ==
  /\ run = "setup"
  /\ run' = "select" /\ serve' = "running" /\ load' = "start"
  /\ UNCHANGED <<wake, runErr, loadPending, forced, closeErr, cancelVars, stopping,
                 store, lockVars>>

\* What a step of the select leaves alone.
selectVars == <<forced, closeErr, cancelVars, stopping, serve, load, store, lockVars>>

Park ==
  /\ run = "select" /\ \A e \in Events : ~Ready(e)
  /\ run' = "parked"
  /\ UNCHANGED <<wake, runErr, loadPending, selectVars>>

SelectCtx ==
  /\ Chosen("ctx")
  /\ run' = "mark" /\ wake' = "none"
  /\ UNCHANGED <<runErr, loadPending, selectVars>>

SelectServe ==
  /\ Chosen("serve")
  /\ run' = "mark" /\ wake' = "none" /\ runErr' = "serve"
  /\ UNCHANGED <<loadPending, selectVars>>

BugAfterLoad == "select"

\* A failed load ends the loop, ...
AfterLoad == IF loadResult = "ok" THEN "select" ELSE "mark"

\* ... with its error, context.Canceled included.
LoadError == CASE loadResult = "failed" -> "load"
               [] loadResult = "canceled" -> "canceled"
               [] OTHER -> runErr

SelectLoad ==
  /\ Chosen("load")
  /\ loadPending' = FALSE /\ wake' = "none" /\ run' = AfterLoad /\ runErr' = LoadError
  /\ UNCHANGED selectVars
-----------------------------------------------------------------------------
(* Run, shutting down. *)

MarkStopping ==
  /\ run = "mark"
  /\ run' = "shutdown" /\ stopping' = TRUE /\ loadCanceled' = TRUE
  /\ UNCHANGED <<wake, runErr, loadPending, forced, closeErr, ctxDone, baseCanceled,
                 connsClosed, serve,
                 load, store, lockVars>>

\* srv.Shutdown closes the listener and waits for the open connections.
StartDrain ==
  /\ run = "shutdown"
  /\ run' = "drain" /\ serve' = "closed"
  /\ UNCHANGED <<wake, runErr, loadPending, forced, closeErr, cancelVars, stopping, load,
                 store, lockVars>>

Drained == /\ \A c \in Clients : client[c] \notin Waiting
           /\ \A c \in Checks : check[c] # "checked"

\* What draining and waiting leave alone.
drainVars == <<wake, loadPending, forced, closeErr, ctxDone, loadCanceled, stopping,
               serve, load, store,
               lockVars>>

\* Shutdown returns nil: no handler runs and every idle connection is closed.
DrainDone ==
  /\ run = "drain" /\ Drained
  /\ run' = "waitLoad"
  /\ UNCHANGED <<runErr, baseCanceled, connsClosed, drainVars>>

BugCancelBase == UNCHANGED baseCanceled

CancelBase == baseCanceled' = TRUE

\* Shutdown returns after cfg.ShutdownTimeout.
DrainTimeout ==
  /\ run = "drain"
  /\ run' = "closeConns" /\ CancelBase
  /\ UNCHANGED <<runErr, connsClosed, drainVars>>

BugCutConns == UNCHANGED connsClosed

CutConns == connsClosed' = TRUE

\* srv.Close: handlers keep running, but nobody receives what they answer.
CloseConns ==
  /\ run = "closeConns"
  /\ run' = "waitLoad" /\ CutConns
  /\ UNCHANGED <<runErr, baseCanceled, drainVars>>

BugLoadAwaited == TRUE

\* The load is waited for without a limit; ...
LoadAwaited == loadPending => load = "done"

BugAwaitedError == runErr

\* ... its error counts if Run has none, unless the load was cancelled.
AwaitedError ==
  IF loadPending /\ loadResult = "failed" /\ runErr = "nil" THEN "load" ELSE runErr

AwaitLoad ==
  /\ run = "waitLoad" /\ LoadAwaited
  /\ run' = "close" /\ runErr' = AwaitedError
  /\ UNCHANGED <<baseCanceled, connsClosed, drainVars>>

\* What closing the store leaves alone.
closeVars == <<wake, loadPending, cancelVars, stopping, serve, load>>

\* h.Write gives Run the dataset.
LockForClose ==
  /\ run = "close"
  /\ run' = "closing" /\ Lock!AcquireWrite("run")
  /\ UNCHANGED <<runErr, forced, closeErr, store, closeVars>>

BugCloseIt == UNCHANGED <<store, closeErr, runErr>>

\* closeStore, with its error for an error of Run; the store counts as closed
\* either way.
CloseIt == /\ CloseOnce
           /\ runErr' = IF closeErr' /\ runErr = "nil" THEN "close" ELSE runErr

CloseStore ==
  /\ run = "closing"
  /\ run' = "return" /\ CloseIt
  /\ Lock!Release("run")
  /\ UNCHANGED <<forced, closeVars>>

BugLockTimesOut == FALSE

\* lockCtx runs out while someone holds the dataset.
LockTimesOut == ~Lock!LockFree

CloseAnyway ==
  /\ run = "close" /\ LockTimesOut
  /\ run' = "return" /\ CloseIt /\ forced' = TRUE
  /\ UNCHANGED <<closeVars, lockVars>>

Return ==
  /\ run = "return"
  /\ run' = "returned" /\ Deferred
  /\ UNCHANGED <<wake, runErr, loadPending, forced, ctxDone, loadCanceled, connsClosed,
                 stopping, serve, load, lockVars>>
-----------------------------------------------------------------------------
(* The load goroutine.  What none of its steps changes is said once, in    *)
(* LoaderStep.                                                             *)

LoadCtxDone == ctxDone \/ loadCanceled

\* load() goes on, or returns and the goroutine sends the result to loadDone.
Goto(l) == load' = l /\ UNCHANGED <<wake, loadResult>>
Finish(r) == load' = "done" /\ loadResult' = r /\ Notify("load")

BugNeedsLock == TRUE

\* Data was configured.
NeedsLock == data > 0

LoadSkip ==
  /\ load = "start" /\ ~NeedsLock
  /\ Goto("publish") /\ UNCHANGED <<batches, loaded, everReady, lockVars>>

LoadLock ==
  /\ load = "start" /\ NeedsLock /\ ~LoadCtxDone
  /\ Goto("loading") /\ Lock!AcquireWrite("load")
  /\ UNCHANGED <<batches, loaded, everReady>>

LoadLockCanceled ==
  /\ load = "start" /\ NeedsLock /\ LoadCtxDone
  /\ Finish("canceled") /\ UNCHANGED <<batches, loaded, everReady, lockVars>>

BugMoreBatches == batches <= data

MoreBatches == batches < data

\* batcher.flush: the context is checked, then AddN writes one batch.
LoadBatch ==
  /\ load = "loading" /\ MoreBatches /\ ~LoadCtxDone
  /\ batches' = batches + 1
  /\ UNCHANGED <<load, loadResult, wake, loaded, everReady, lockVars>>

\* Every file was parsed to its end and flushed.
AllRead == batches = data

LoadComplete ==
  /\ load = "loading" /\ AllRead
  /\ Goto("publish") /\ Lock!Release("load")
  /\ UNCHANGED <<batches, loaded, everReady>>

\* What was flushed before the context ended, or before a missing or
\* malformed file, stays in the store.
LoadFails ==
  /\ load = "loading"
  /\ \/ Finish("failed")
     \/ LoadCtxDone /\ Finish("canceled")
  /\ Lock!Release("load")
  /\ UNCHANGED <<batches, loaded, everReady>>

Publish ==
  /\ load = "publish"
  /\ Goto("count") /\ loaded' = TRUE /\ everReady' = (everReady \/ ~stopping)
  /\ UNCHANGED <<batches, lockVars>>

CountLock ==
  /\ load = "count"
  /\ Goto("counting") /\ Lock!AcquireRead("load")
  /\ UNCHANGED <<batches, loaded, everReady>>

\* triples.get has a cached value, or gives up the lock after its 5 s.
CountSkip ==
  /\ load = "count"
  /\ Finish("ok") /\ UNCHANGED <<batches, loaded, everReady, lockVars>>

CountDone ==
  /\ load = "counting"
  /\ Finish("ok") /\ Lock!Release("load")
  /\ UNCHANGED <<batches, loaded, everReady>>
-----------------------------------------------------------------------------
(* Requests.  What no request changes is said once, in ClientStep.         *)

\* An idle client may already hold an open connection: until Shutdown has
\* returned, or srv.Close cuts it, the server still serves what it sends.
Reachable == /\ run \in {"select", "parked", "mark", "shutdown", "drain", "closeConns"}
             /\ ~connsClosed

Move(c, at) == client' = [client EXCEPT ![c] = at]

Answer(c, a) == Move(c, IF connsClosed THEN "lost" ELSE a)

BugGateOpen == TRUE

\* The gate reads loaded once per request.
GateOpen == loaded

\* 503 from the gate.
Refuse(c) ==
  /\ c \in Requests /\ client[c] = "idle" /\ Reachable /\ ~loaded
  /\ Answer(c, "unavailable") /\ UNCHANGED <<applied, lockVars>>

\* An answer without the dataset: the endpoint's (bad request, 401, 403), or the
\* 405 of readOnly, which is in front of the gate and refuses also while loading.
Reject(c) ==
  /\ c \in Requests /\ client[c] = "idle" /\ Reachable
  /\ Answer(c, "error") /\ UNCHANGED <<applied, lockVars>>

Admit(c) ==
  /\ c \in Requests /\ client[c] = "idle" /\ Reachable /\ GateOpen
  /\ Move(c, "waiting") /\ UNCHANGED <<applied, lockVars>>

\* The request's context descends from baseCtx.
Begin(c) ==
  /\ c \in Requests /\ client[c] = "waiting" /\ ~baseCanceled
  /\ Move(c, "evaluating") /\ UNCHANGED applied
  /\ \/ c \in Queries /\ Lock!AcquireRead(c)
     \/ c \in Updates /\ Lock!AcquireWrite(c)

\* Its timeout, its client or cancelBase ends the context first.
GiveUp(c) ==
  /\ c \in Requests /\ client[c] = "waiting"
  /\ Answer(c, "error") /\ UNCHANGED <<applied, lockVars>>

\* AddN and Remove report no error: on a closed store the update believes it
\* wrote.
Apply(c) ==
  /\ c \in Updates /\ client[c] = "evaluating"
  /\ Move(c, "applied") /\ UNCHANGED lockVars
  /\ applied' = IF store = "open" THEN applied \cup {c} ELSE applied

Succeed(c) ==
  /\ \/ c \in Queries /\ client[c] = "evaluating"
     \/ c \in Updates /\ client[c] = "applied"
  /\ Answer(c, "ok") /\ Lock!Release(c) /\ UNCHANGED applied

\* An evaluation error, a timeout or a cancelled context; an update may have
\* written before it.
Fail(c) ==
  /\ c \in Requests /\ client[c] \in {"evaluating", "applied"}
  /\ Answer(c, "error") /\ Lock!Release(c) /\ UNCHANGED applied
-----------------------------------------------------------------------------
(* Scrapes and readiness checks, which the gate does not stop. *)

\* tripleCounter.get has nothing to count: no data yet, or a fresh value.
ScrapeCached(c) ==
  /\ c \in Scrapes /\ client[c] = "idle" /\ Reachable
  /\ Answer(c, "ok") /\ UNCHANGED <<applied, lockVars>>

ScrapeCount(c) ==
  /\ c \in Scrapes /\ client[c] = "idle" /\ Reachable /\ loaded
  /\ Move(c, "waiting") /\ UNCHANGED <<applied, lockVars>>

\* The context of the count is context.Background with 5 s, not the request's.
ScrapeBegin(c) ==
  /\ c \in Scrapes /\ client[c] = "waiting"
  /\ Move(c, "evaluating") /\ Lock!AcquireRead(c) /\ UNCHANGED applied

ScrapeTimeout(c) ==
  /\ c \in Scrapes /\ client[c] = "waiting"
  /\ Answer(c, "ok") /\ UNCHANGED <<applied, lockVars>>

ScrapeEnd(c) ==
  /\ c \in Scrapes /\ client[c] = "evaluating"
  /\ Answer(c, "ok") /\ Lock!Release(c) /\ UNCHANGED applied

BugFirstRead(p) == ~stopping

BugSecondRead(p) == ~stopping

\* /readyz reads stopping, then loaded; state.ready reads them the other way
\* round.  The first read decides alone when it says no.
FirstRead(p) == IF p \in Probes THEN ~stopping ELSE loaded

SecondRead(p) == IF p \in Probes THEN loaded ELSE ~stopping

CheckFirst(p) ==
  /\ check[p] = "idle" /\ Reachable
  /\ check' = [check EXCEPT ![p] = IF FirstRead(p) THEN "checked" ELSE "notReady"]

CheckSecond(p) ==
  /\ check[p] = "checked"
  /\ check' = [check EXCEPT ![p] = IF SecondRead(p) THEN "ready" ELSE "notReady"]
-----------------------------------------------------------------------------
RunStep ==
  /\ \/ OpenFails \/ Open \/ SetupFails \/ Listen
     \/ Park \/ SelectCtx \/ SelectServe \/ SelectLoad
     \/ MarkStopping \/ StartDrain \/ DrainDone \/ DrainTimeout \/ CloseConns
     \/ AwaitLoad \/ LockForClose \/ CloseStore \/ CloseAnyway \/ Return
  /\ UNCHANGED <<loaded, everReady, loadResult, data, batches, applied, client, check>>

LoaderStep(Step) ==
  Step /\ UNCHANGED <<run, runErr, loadPending, forced, closeErr, cancelVars, stopping,
                      serve, data,
                      storeVars, client, check>>

\* Steps of the load goroutine that wait for nothing but their own timers.
LoadStep == LoaderStep(\/ LoadSkip \/ LoadLock \/ LoadLockCanceled
                       \/ Publish \/ CountLock \/ CountSkip \/ CountDone)

\* Steps that wait for the files to be read.
ReadStep == LoaderStep(LoadBatch \/ LoadComplete \/ LoadFails)

ClientStep ==
  /\ \E c \in Clients : \/ Refuse(c) \/ Reject(c) \/ Admit(c) \/ Begin(c) \/ GiveUp(c)
                        \/ Apply(c) \/ Succeed(c) \/ Fail(c)
                        \/ ScrapeCached(c) \/ ScrapeCount(c) \/ ScrapeBegin(c)
                        \/ ScrapeTimeout(c) \/ ScrapeEnd(c)
  /\ UNCHANGED <<serverVars, store, check>>

CheckStep == /\ \E p \in Checks : CheckFirst(p) \/ CheckSecond(p)
             /\ UNCHANGED <<serverVars, storeVars, client, lockVars>>

\* Run has returned and main exits the process.
Terminated == run = "returned" /\ UNCHANGED vars

Next == Signal \/ ServeFails \/ RunStep \/ LoadStep \/ ReadStep \/ ClientStep \/ CheckStep
        \/ Terminated

Spec == Init /\ [][Next]_vars

(***************************************************************************)
(* Fairness: Run and the load goroutine are scheduled and their timers     *)
(* fire.  Nothing is assumed of requests (a query may run forever, a       *)
(* client may never read), of the signal, or of reading the data files (a  *)
(* FIFO may never be written to).                                          *)
(***************************************************************************)
FairSpec == Spec /\ WF_vars(RunStep) /\ WF_vars(LoadStep)
-----------------------------------------------------------------------------
(* Properties. *)

\* No request works on a partly loaded dataset: whoever gets past the gate
\* finds every batch of the startup data in the store, also when the load
\* failed or was cancelled midway (Gate in front of every dataset route, and
\* load() storing loaded last).
GatedUntilLoaded ==
  \A c \in Requests : client[c] \in Waiting \cup {"ok"}
                       => batches = data /\ load \notin {"start", "loading"}

\* The load goroutine is never left running on a closed store: whichever of
\* the two places receives loadDone, the store is closed after it.
LoadEndsBeforeClose == store = "closed" => load \in {"off", "done"}

\* A client that was told its update succeeded finds it in the store, even
\* when the store was closed under a request that outlived every timeout: by
\* then its connection is cut, so it never hears of the write that went
\* nowhere.
AckedWriteApplied == \A u \in Updates : client[u] = "ok" => u \in applied

\* The store is closed without the lock only after the requests were
\* cancelled and their connections cut; a drain that succeeded never leads
\* there.
ForcedCloseOnlyAfterCutoff == forced => baseCanceled /\ connsClosed

\* What taking the write lock is for: unless the lock could not be had, no
\* query and no update runs on the closed store, and none starts later.
EvaluationEndsBeforeClose ==
  store = "closed" /\ ~forced => \A c \in Requests : client[c] \notin {"evaluating", "applied"}

\* A load that failed, before or after the signal, makes Run fail.
FailureReported == run = "returned" /\ loadResult = "failed" => runErr # "nil"

\* Without startup data the load cannot be cancelled, so a signal, however
\* early, never becomes an error of Run.
NoDataStopsCleanly ==
  data = 0 /\ run = "returned" => runErr \notin {"load", "canceled"}

\* No path out of Run, through failed setup or shutdown, leaves the store open
\* (badger and SQLite files stay locked), and if closing it failed, so that its
\* last writes may be lost, Run says so, although the deferred call would not.
StoreReleased == run = "returned" => store # "open" /\ (closeErr => runErr # "nil")

\* sparql_server_ready reports 1 only if the server was ready at some moment.
GaugeReady == \A g \in Gauges : check[g] = "ready" => everReady

\* No readiness answer, of either route, claims ready before all the data is
\* in the store.
ReadyAfterLoad ==
  \A p \in Checks : check[p] = "ready" => batches = data /\ load \notin {"start", "loading"}

(***************************************************************************)
(* Refinement: what an operator and the clients of Server see is Lifecycle.*)
(* A canceled load stays pending, and the answer to a request is what its  *)
(* client has received so far.                                             *)
(***************************************************************************)
Phase == IF run \in {"start", "setup"} THEN "starting"
         ELSE IF run = "returned" THEN "stopped"
         ELSE IF stopping THEN "stopping" ELSE "running"

Loading == IF loaded THEN "loaded" ELSE IF loadResult = "failed" THEN "failed" ELSE "pending"

Answered ==
  [c \in Requests |-> IF client[c] \in Waiting \cup {"idle"} THEN "none" ELSE client[c]]

Result == IF run # "returned" THEN "none" ELSE IF runErr = "nil" THEN "nil" ELSE "error"

Promised == INSTANCE Lifecycle
              WITH phase <- Phase, loading <- Loading, answer <- Answered, result <- Result

\* The whole life of the server, from its start to what Run returns, is one
\* that Lifecycle allows: every step of Run, of the load and of a request is
\* one of its steps or invisible.  In particular no client is told "ok" on data
\* that is not loaded or from a store that is closed, and the operator hears of
\* a failed load.
ImplementsLifecycle == Promised!Spec

\* Once told to stop, Run returns whatever the requests do, unless the load is
\* inside a file at that moment.
ShutdownReturns == (stopping \/ ctxDone) /\ load # "loading" ~> run = "returned"

\* A signal, a failed listener or a failed load is noticed wherever Run is, and
\* the server begins to stop.
StopNoticed ==
  ctxDone \/ serve = "failed" \/ loadResult = "failed" ~> stopping \/ run = "returned"
-----------------------------------------------------------------------------
(* What comments and the README say, and the code does not always do. *)

\* server.go:42: Run "returns nil after a clean shutdown"; the error of a load
\* that was merely cancelled is no error at line 138.
CleanShutdownReturnsNil == run = "returned" => runErr # "canceled"

\* README.md:102: /readyz answers "200 once the startup data is loaded, 503
\* before that and during shutdown".
ReadyzReady == \A p \in Probes : check[p] = "ready" => everReady

\* server.go:143: "Close the store under the write lock, so no evaluation is
\* using it."
NoUseAfterClose ==
  store = "closed" /\ ~forced => \A c \in Clients : client[c] \notin {"evaluating", "applied"}
=============================================================================
