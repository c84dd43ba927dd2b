--------------------------- MODULE TripleCounter ---------------------------
(***************************************************************************)
(* The cached dataset size behind the gauge sparql_server_dataset_triples  *)
(* (tripleCounter in internal/server/server.go) and the request hook that  *)
(* invalidates it.                                                         *)
(*                                                                         *)
(* A write request applies operations under the dataset's write lock,      *)
(* releases it, and only then runs the hook, whatever its status.  A       *)
(* scrape takes the counter's mutex, clears the dirty flag, counts under   *)
(* the read lock and stores the count.  What a count yields is abstracted  *)
(* to the number of operations applied so far: two counts differ exactly   *)
(* when an operation came between them.                                    *)
(*                                                                         *)
(* Names starting with Bug are faulty variants of the definition they      *)
(* precede; no specification uses them.                                    *)
(***************************************************************************)
EXTENDS Naturals

CONSTANTS Writers,   \* update and graph write requests
          Scrapers,  \* who calls get: scrapes and the load goroutine
          MaxOps,    \* operations a request applies at most
          MaxLoad    \* operations of the startup load

ASSUME CounterAssumption ==
  /\ MaxOps \in Nat /\ MaxLoad \in Nat
  /\ Writers \cap Scrapers = {}
  /\ {"load", "nobody"} \cap (Writers \cup Scrapers) = {}

VARIABLES
  loaded,   \* state.loaded, shared with the gate
  dirty,    \* tripleCounter.dirty
  holder,   \* who holds tripleCounter.mu
  cached,   \* tripleCounter.n
  valid,    \* tripleCounter.valid
  version,  \* operations applied to the dataset
  write,    \* per write request: where it is
  ops,      \* per write request: operations applied
  wrote,    \* per write request: version when it released the lock
  hooked,   \* history: the latest write whose hook has run
  scrape,   \* per scraper: where it is in get
  count,    \* per scraper: the n local to get
  floor,    \* history: hooked when the scraper called get
  answer,   \* per scraper: what get returned last, with its origin
  readers, writers

Lock == INSTANCE DatasetLock

writeVars  == <<version, write, ops, wrote, hooked>>
scrapeVars == <<scrape, count, floor, answer>>
cacheVars  == <<dirty, holder, cached, valid>>
lockVars   == <<readers, writers>>
vars == <<loaded, cacheVars, writeVars, scrapeVars, lockVars>>

Answers == [n : Nat, ok : BOOLEAN, counted : BOOLEAN]

TypeOK ==
  /\ loaded \in BOOLEAN /\ dirty \in BOOLEAN /\ valid \in BOOLEAN
  /\ holder \in Scrapers \cup {"nobody"}
  /\ cached \in Nat /\ version \in Nat /\ hooked \in Nat
  /\ write \in [Writers -> {"idle", "writing", "hook", "done"}]
  /\ ops \in [Writers -> 0..MaxOps]
  /\ wrote \in [Writers -> Nat]
  /\ scrape \in [Scrapers -> {"idle", "mutex", "swap", "wait", "count", "store"}]
  /\ count \in [Scrapers -> Nat]
  /\ floor \in [Scrapers -> Nat]
  /\ answer \in [Scrapers -> Answers]
  /\ readers \subseteq Scrapers
  /\ writers \subseteq Writers

Init ==
  /\ loaded = FALSE
  /\ dirty = TRUE /\ holder = "nobody" /\ cached = 0 /\ valid = FALSE
  /\ version = 0 /\ hooked = 0
  /\ write = [w \in Writers |-> "idle"]
  /\ ops = [w \in Writers |-> 0]
  /\ wrote = [w \in Writers |-> 0]
  /\ scrape = [s \in Scrapers |-> "idle"]
  /\ count = [s \in Scrapers |-> 0]
  /\ floor = [s \in Scrapers |-> 0]
  /\ answer = [s \in Scrapers |-> [n |-> 0, ok |-> FALSE, counted |-> FALSE]]
  /\ Lock!LockInit
-----------------------------------------------------------------------------
(* The startup load, and the write requests the gate lets in after it. *)

LoadData ==
  /\ ~loaded /\ version < MaxLoad
  /\ version' = version + 1
  /\ UNCHANGED <<loaded, cacheVars, write, ops, wrote, hooked, scrapeVars, lockVars>>

Publish ==
  /\ ~loaded
  /\ loaded' = TRUE
  /\ UNCHANGED <<cacheVars, writeVars, scrapeVars, lockVars>>

BeginWrite(w) ==
  /\ loaded /\ write[w] = "idle"
  /\ write' = [write EXCEPT ![w] = "writing"] /\ Lock!AcquireWrite(w)
  /\ UNCHANGED <<loaded, cacheVars, version, ops, wrote, hooked, scrapeVars>>

\* One operation of the request changes the dataset.
ApplyOp(w) ==
  /\ write[w] = "writing" /\ ops[w] < MaxOps
  /\ ops' = [ops EXCEPT ![w] = @ + 1] /\ version' = version + 1
  /\ UNCHANGED <<loaded, cacheVars, write, wrote, hooked, scrapeVars, lockVars>>

\* The request succeeds or fails, at once or after some operations.
EndWrite(w) ==
  /\ write[w] = "writing"
  /\ write' = [write EXCEPT ![w] = "hook"] /\ wrote' = [wrote EXCEPT ![w] = version]
  /\ Lock!Release(w)
  /\ UNCHANGED <<loaded, cacheVars, version, ops, hooked, scrapeVars>>

HookDone(w) ==
  /\ write[w] = "hook"
  /\ write' = [write EXCEPT ![w] = "done"]
  /\ hooked' = IF wrote[w] > hooked THEN wrote[w] ELSE hooked
  /\ UNCHANGED <<loaded, holder, cached, valid, version, ops, wrote, scrapeVars, lockVars>>

\* The hook, for whatever status: "Even a failed update can have applied some
\* operations."
Hook(w, failed) ==
  /\ HookDone(w)
  /\ dirty' = TRUE
-----------------------------------------------------------------------------
(* tripleCounter.get. *)

Return(s, a) == /\ scrape' = [scrape EXCEPT ![s] = "idle"]
                /\ answer' = [answer EXCEPT ![s] = a]

GetUnloaded(s) ==
  /\ scrape[s] = "idle" /\ ~loaded
  /\ Return(s, [n |-> 0, ok |-> FALSE, counted |-> FALSE])
  /\ UNCHANGED <<loaded, cacheVars, writeVars, count, floor, lockVars>>

Get(s) ==
  /\ scrape[s] = "idle" /\ loaded
  /\ scrape' = [scrape EXCEPT ![s] = "mutex"] /\ floor' = [floor EXCEPT ![s] = hooked]
  /\ UNCHANGED <<loaded, cacheVars, writeVars, count, answer, lockVars>>

LockMutex(s) ==
  /\ scrape[s] = "mutex" /\ holder = "nobody"
  /\ scrape' = [scrape EXCEPT ![s] = "swap"] /\ holder' = s
  /\ UNCHANGED <<loaded, dirty, cached, valid, writeVars, count, floor, answer, lockVars>>

UseCached(s) ==
  /\ scrape[s] = "swap" /\ ~dirty /\ valid
  /\ holder' = "nobody" /\ Return(s, [n |-> cached, ok |-> TRUE, counted |-> TRUE])
  /\ UNCHANGED <<loaded, dirty, cached, valid, writeVars, count, floor, lockVars>>

\* dirty.Swap(false): the flag is cleared before the count starts.
Swap(s) ==
  /\ scrape[s] = "swap" /\ (dirty \/ ~valid)
  /\ scrape' = [scrape EXCEPT ![s] = "wait"] /\ dirty' = FALSE
  /\ UNCHANGED <<loaded, holder, cached, valid, writeVars, count, floor, answer, lockVars>>

BeginCount(s) ==
  /\ scrape[s] = "wait"
  /\ scrape' = [scrape EXCEPT ![s] = "count"] /\ Lock!AcquireRead(s)
  /\ UNCHANGED <<loaded, cacheVars, writeVars, count, floor, answer>>

EndCount(s) ==
  /\ scrape[s] = "count"
  /\ scrape' = [scrape EXCEPT ![s] = "store"] /\ count' = [count EXCEPT ![s] = version]
  /\ Lock!Release(s)
  /\ UNCHANGED <<loaded, cacheVars, writeVars, floor, answer>>

BugStore(s) ==
  /\ scrape[s] = "store"
  /\ cached' = count[s] /\ valid' = TRUE /\ dirty' = FALSE
  /\ holder' = "nobody" /\ Return(s, [n |-> count[s], ok |-> TRUE, counted |-> TRUE])
  /\ UNCHANGED <<loaded, writeVars, count, floor, lockVars>>

Store(s) ==
  /\ scrape[s] = "store"
  /\ cached' = count[s] /\ valid' = TRUE
  /\ holder' = "nobody" /\ Return(s, [n |-> count[s], ok |-> TRUE, counted |-> TRUE])
  /\ UNCHANGED <<loaded, dirty, writeVars, count, floor, lockVars>>

BugTimeout(s) ==
  /\ scrape[s] = "wait"
  /\ holder' = "nobody" /\ Return(s, [n |-> cached, ok |-> valid, counted |-> FALSE])
  /\ UNCHANGED <<loaded, dirty, cached, valid, writeVars, count, floor, lockVars>>

BugNoTimeout(s) == FALSE /\ UNCHANGED vars /\ s \in Scrapers

\* The lock was not free for 5 s: mark the cache dirty again, answer with the
\* old value.
Timeout(s) ==
  /\ scrape[s] = "wait"
  /\ dirty' = TRUE
  /\ holder' = "nobody" /\ Return(s, [n |-> cached, ok |-> valid, counted |-> FALSE])
  /\ UNCHANGED <<loaded, cached, valid, writeVars, count, floor, lockVars>>
-----------------------------------------------------------------------------
WriteStep(w) == \/ BeginWrite(w) \/ ApplyOp(w) \/ EndWrite(w)
                \/ \E failed \in BOOLEAN : Hook(w, failed)

\* A scrape that is under way, and does not wait for the mutex.
ScrapeStep(s) == \/ UseCached(s) \/ Swap(s) \/ BeginCount(s) \/ EndCount(s) \/ Store(s)
                 \/ Timeout(s)

Next == \/ LoadData \/ Publish
        \/ \E w \in Writers : WriteStep(w)
        \/ \E s \in Scrapers : GetUnloaded(s) \/ Get(s) \/ LockMutex(s) \/ ScrapeStep(s)

Spec == Init /\ [][Next]_vars

(***************************************************************************)
(* Scrapes are scheduled and their 5 s timers fire; sync.Mutex hands itself *)
(* to a waiter that was passed over for long, hence the strong fairness.   *)
(* Writes may last forever.                                                *)
(***************************************************************************)
FairSpec == /\ Spec
            /\ \A s \in Scrapers : WF_vars(ScrapeStep(s)) /\ SF_vars(LockMutex(s))
-----------------------------------------------------------------------------
(* Properties. *)

\* A write that is under way: its hook has still to mark the cache dirty.
Unannounced == \E w \in Writers : write[w] \in {"writing", "hook"}

\* A clean cache holds the size of the dataset, or else the write that made
\* them differ is still to run its hook: no interleaving of counts, timeouts
\* and hooks leaves a wrong value that nothing will refresh.
CacheFresh == valid /\ ~dirty /\ holder = "nobody" => cached = version \/ Unannounced

\* A scrape that did not time out reports at least every write whose hook ran
\* before the scrape, failed updates included.
ScrapeSeesFinishedWrites ==
  \A s \in Scrapers :
    scrape[s] = "idle" /\ answer[s].counted => answer[s].n >= floor[s]

\* A scrape answers whatever the writers do: a stuck update costs it the
\* 5 s of the lock's timeout, in turn with the other scrapes.
ScrapeAnswers == \A s \in Scrapers : scrape[s] = "mutex" ~> scrape[s] = "idle"
=============================================================================
