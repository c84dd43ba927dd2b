---------------------------- MODULE HTTPRequests ----------------------------
(***************************************************************************)
(* A request on its way through the handlers that state.routes puts around *)
(* the SPARQL endpoint (internal/server/server.go): CORS, gzip, the route  *)
(* that only reads, the in-flight gauge, the gate, the authorizer, the     *)
(* request hook; and scrapes of the metrics those requests are counted in  *)
(* (internal/metrics/metrics.go).                                          *)
(*                                                                         *)
(* The endpoint is a library: it asks the authorizer, evaluates or fails,  *)
(* may panic to abort a response, and calls the hook.  The flag the hook   *)
(* sets for the triple count is in TripleCounter.                          *)
(*                                                                         *)
(* Names starting with Bug are faulty variants of the definition they      *)
(* precede; no specification uses them.                                    *)
(***************************************************************************)
EXTENDS Access, FiniteSets, Functions

CONSTANTS Clients,    \* one request each
          Scrapes,
          Absent,     \* the input of a client that sends nothing
          Cases,      \* configurations with the requests to consider
          Buckets,    \* upper bounds of the duration histogram
          Durations   \* a request may take

ASSUME RequestsAssumption ==
  /\ Absent \notin Requests /\ "free" \notin Scrapes
  /\ Cases \subseteq [config : Configs, input : [Clients -> Requests \cup {Absent}]]
  /\ Buckets \in Seq(Nat) /\ Durations \subseteq Nat
  /\ \A i, j \in DOMAIN Buckets : i < j => Buckets[i] < Buckets[j]

VARIABLES
  config, input,  \* as in Cases
  pc,             \* where the request of a client is
  status,         \* of the response, "none" before
  info,           \* what the endpoint tells the hook
  loaded,         \* state.loaded
  inFlight,       \* Registry.inFlight
  requests, durations, rows,  \* Registry's counters
  mu,             \* the scrape that holds Registry.mu
  scrape,         \* where a scrape is
  page,           \* what it has written
  seen,           \* clients observed when it began
  broken          \* its connection

requestVars  == <<pc, status, info>>
registryVars == <<requests, durations, rows>>
scrapeVars   == <<mu, scrape, page, seen, broken>>
vars == <<config, input, requestVars, loaded, inFlight, registryVars, scrapeVars>>

Ops == {"read", "write"}
Statuses == {"200", "204", "401", "403", "405", "422", "503"}
Infos == [op : Ops, status : {"200", "204", "401", "403", "422"}, rows : 0..1, secs : Durations]
NoInfo == [op |-> "read", status |-> "200", rows |-> 0, secs |-> 0]
Tracked == {"gate", "endpoint", "hook", "leave"}
Observed == {c \in Clients : pc[c] \in {"leave", "done"} /\ info[c] # NoInfo}

EmptyPage == [requests |-> <<>>, durations |-> <<>>, rows |-> <<>>]

TypeOK ==
  /\ config \in Configs /\ \A c \in Clients : input[c] \in Requests \cup {Absent}
  /\ pc \in [Clients -> {"idle", "done"} \cup Tracked]
  /\ status \in [Clients -> Statuses \cup {"none"}]
  /\ info \in [Clients -> Infos \cup {NoInfo}]
  /\ loaded \in BOOLEAN /\ inFlight \in Nat
  /\ requests \in [Ops \X Statuses -> Nat]
  /\ durations \in [Ops -> [1..Len(Buckets) + 1 -> Nat]]
  /\ rows \in [Ops -> Nat]
  /\ mu \in Scrapes \cup {"free"}
  /\ scrape \in [Scrapes -> {"idle", "requests", "durations", "rows", "gauges", "done"}]
  /\ DOMAIN page = Scrapes /\ seen \in [Scrapes -> SUBSET Clients]
  /\ broken \in [Scrapes -> BOOLEAN]

Init ==
  /\ \E case \in Cases : config = case.config /\ input = case.input
  /\ pc = [c \in Clients |-> "idle"] /\ status = [c \in Clients |-> "none"]
  /\ info = [c \in Clients |-> NoInfo]
  /\ loaded = FALSE /\ inFlight = 0
  /\ requests = [k \in Ops \X Statuses |-> 0]
  /\ durations = [op \in Ops |-> [i \in 1..Len(Buckets) + 1 |-> 0]]
  /\ rows = [op \in Ops |-> 0]
  /\ mu = "free" /\ scrape = [s \in Scrapes |-> "idle"]
  /\ page = [s \in Scrapes |-> EmptyPage] /\ seen = [s \in Scrapes |-> {}]
  /\ broken = [s \in Scrapes |-> FALSE]

\* The startup data is loaded.
Load == /\ ~loaded /\ loaded' = TRUE
        /\ UNCHANGED <<requestVars, inFlight, registryVars, scrapeVars>>
-----------------------------------------------------------------------------
(* Requests. *)

Goto(c, l) == pc' = [pc EXCEPT ![c] = l]
Answer(c, s) == status' = [status EXCEPT ![c] = s]

\* The route /get refuses before the request is counted.
RefusedByRoute(q) == q.route = "get" /\ Writes(q)

\* CORS, readOnly and Track.
Arrive(c) ==
  /\ pc[c] = "idle" /\ input[c] # Absent
  /\ IF AnsweredByCORS(config, input[c])
     THEN Goto(c, "done") /\ Answer(c, "204") /\ UNCHANGED inFlight
     ELSE IF RefusedByRoute(input[c])
     THEN Goto(c, "done") /\ Answer(c, "405") /\ UNCHANGED inFlight
     ELSE Goto(c, "gate") /\ inFlight' = inFlight + 1 /\ UNCHANGED status
  /\ UNCHANGED <<info, loaded, registryVars, scrapeVars>>

Gate(c) ==
  /\ pc[c] = "gate"
  /\ IF loaded THEN Goto(c, "endpoint") /\ UNCHANGED status
               ELSE Goto(c, "leave") /\ Answer(c, "503")
  /\ UNCHANGED <<info, loaded, inFlight, registryVars, scrapeVars>>

Decision(c) == Authorize(config, input[c].authorization, Writes(input[c]))

\* The endpoint has answered with s and n rows and calls the hook.
Answered(c, s, n) ==
  /\ Goto(c, "hook") /\ Answer(c, s)
  /\ \E t \in Durations :
       info' = [info EXCEPT ![c] = [op |-> IF Writes(input[c]) THEN "write" ELSE "read",
                                    status |-> s, rows |-> n, secs |-> t]]
  /\ UNCHANGED <<loaded, inFlight, registryVars, scrapeVars>>

\* A query or an update that the authorizer lets through.
Evaluates(c) == pc[c] = "endpoint" /\ Decision(c) = "ok" /\ input[c].kind \in Ops

Evaluate(c) == Evaluates(c) /\ Answered(c, "200", 1)

\* More rows than --max-result-rows: they were counted but not returned.
TooManyRows(c) == Evaluates(c) /\ ~Writes(input[c]) /\ Answered(c, "422", 1)

\* OPTIONS, unless CORS has answered it, gets an answer of the endpoint's own, of
\* which nothing is known but that it holds no data ("204" stands for all); ...
Options(c) ==
  /\ pc[c] = "endpoint" /\ input[c].kind \notin Ops
  /\ Answered(c, "204", 0)

\* ... it may also be given without the hook.
OptionsUnhooked(c) ==
  /\ pc[c] = "endpoint" /\ input[c].kind \notin Ops
  /\ Answer(c, "204") /\ Goto(c, "leave")
  /\ UNCHANGED <<info, loaded, inFlight, registryVars, scrapeVars>>

\* Without updates enabled the endpoint is read-only and may itself refuse.
Refuse(c) ==
  /\ pc[c] = "endpoint"
  /\ \/ Decision(c) # "ok" /\ Answered(c, Decision(c), 0)
     \/ Writes(input[c]) /\ ~config.update /\ ~config.anonymous /\ Answered(c, "403", 0)

\* A panic cuts the response off, before the hook was called; deferred calls run.
Abort(c) ==
  /\ Evaluates(c)
  /\ Answer(c, "200") /\ Goto(c, "leave")
  /\ UNCHANGED <<info, loaded, inFlight, registryVars, scrapeVars>>

\* sort.SearchFloat64s: the first bucket whose bound is not below; then +Inf.
Bucket(secs) == Cardinality({i \in DOMAIN Buckets : Buckets[i] < secs}) + 1

\* Registry.Observe; the bytes of responses are summed like rows.
Observe(i) ==
  /\ requests' = [requests EXCEPT ![<<i.op, i.status>>] = @ + 1]
  /\ durations' = [durations EXCEPT ![i.op][Bucket(i.secs)] = @ + 1]
  /\ rows' = [rows EXCEPT ![i.op] = IF i.status = "200" THEN @ + i.rows ELSE @]

BugHook(c) ==
  /\ pc[c] = "hook" /\ Goto(c, "leave")
  /\ IF config.metrics THEN Observe(info[c]) ELSE UNCHANGED registryVars
  /\ UNCHANGED <<status, info, loaded, inFlight, scrapeVars>>

Hook(c) ==
  /\ pc[c] = "hook" /\ Goto(c, "leave")
  /\ IF config.metrics THEN mu = "free" /\ Observe(info[c]) ELSE UNCHANGED registryVars
  /\ UNCHANGED <<status, info, loaded, inFlight, scrapeVars>>

Leave(c) ==
  /\ pc[c] = "leave" /\ Goto(c, "done")
  /\ inFlight' = inFlight - 1
  /\ UNCHANGED <<status, info, loaded, registryVars, scrapeVars>>

RequestStep(c) ==
  \/ Arrive(c) \/ Gate(c)
  \/ Evaluate(c) \/ TooManyRows(c) \/ Options(c) \/ OptionsUnhooked(c) \/ Refuse(c) \/ Abort(c)
  \/ Hook(c) \/ Leave(c)
-----------------------------------------------------------------------------
(* Scrapes: Registry.Write holds the mutex while it writes to the client.  *)

BeginScrape(s) ==
  /\ config.metrics /\ scrape[s] = "idle" /\ mu = "free"
  /\ mu' = s /\ scrape' = [scrape EXCEPT ![s] = "requests"]
  /\ seen' = [seen EXCEPT ![s] = Observed]
  /\ UNCHANGED <<requestVars, loaded, inFlight, registryVars, page, broken>>

\* The values of a series; nothing arrives on a broken connection.
Write(s, from, to, series, values) ==
  /\ scrape[s] = from /\ scrape' = [scrape EXCEPT ![s] = to]
  /\ page' = IF broken[s] THEN page ELSE [page EXCEPT ![s][series] = values]
  /\ UNCHANGED <<requestVars, loaded, inFlight, registryVars, seen, broken>>

WriteRequests(s) == Write(s, "requests", "durations", "requests", requests) /\ UNCHANGED mu

Cumulative(f) ==
  LET sum[i \in 0..Len(f)] == IF i = 0 THEN 0 ELSE sum[i - 1] + f[i]
  IN [i \in 1..Len(f) |-> sum[i]]

WriteDurations(s) ==
  /\ Write(s, "durations", "rows", "durations", [op \in Ops |-> Cumulative(durations[op])])
  /\ UNCHANGED mu

WriteRows(s) == Write(s, "rows", "gauges", "rows", rows) /\ mu' = "free"

\* The gauges are read after the mutex is released (Server, TripleCounter).
EndScrape(s) ==
  /\ scrape[s] = "gauges" /\ scrape' = [scrape EXCEPT ![s] = "done"]
  /\ UNCHANGED <<requestVars, loaded, inFlight, registryVars, mu, page, seen, broken>>

BugWriteTimeout(s) ==
  /\ scrape[s] = "gauges" /\ ~broken[s]
  /\ broken' = [broken EXCEPT ![s] = TRUE]
  /\ page' = [page EXCEPT ![s] = EmptyPage] /\ seen' = [seen EXCEPT ![s] = {}]
  /\ UNCHANGED <<requestVars, loaded, inFlight, registryVars, mu, scrape>>

\* The server's WriteTimeout; every later write fails at once, and what the
\* client has got is no complete page.
WriteTimeout(s) ==
  /\ scrape[s] \notin {"idle", "done"} /\ ~broken[s]
  /\ broken' = [broken EXCEPT ![s] = TRUE]
  /\ page' = [page EXCEPT ![s] = EmptyPage] /\ seen' = [seen EXCEPT ![s] = {}]
  /\ UNCHANGED <<requestVars, loaded, inFlight, registryVars, mu, scrape>>

Progress(s) == WriteRequests(s) \/ WriteDurations(s) \/ WriteRows(s) \/ EndScrape(s)
ScrapeStep(s) == BeginScrape(s) \/ Progress(s) \/ WriteTimeout(s)

Next == /\ Load \/ (\E c \in Clients : RequestStep(c)) \/ (\E s \in Scrapes : ScrapeStep(s))
        /\ UNCHANGED <<config, input>>

Spec == Init /\ [][Next]_vars

\* A client need not read, so a scrape moves on for certain only when its
\* connection is broken; --write-timeout is set (10 minutes by default).  A
\* waiter of a sync.Mutex is not passed over for ever.
FairSpec ==
  /\ Spec
  /\ \A c \in Clients : /\ WF_vars(Leave(c) /\ UNCHANGED <<config, input>>)
                        /\ SF_vars(Hook(c) /\ UNCHANGED <<config, input>>)
  /\ \A s \in Scrapes : /\ WF_vars(broken[s] /\ Progress(s) /\ UNCHANGED <<config, input>>)
                        /\ WF_vars(WriteTimeout(s) /\ UNCHANGED <<config, input>>)
-----------------------------------------------------------------------------
(* Properties. *)

Served(c) == status[c] \in {"200", "422"}
Accepts(c, h) == Authorize(config, h, Writes(input[c])) = "ok"
Configured == {h \in {"query", "update"} : config[h]}

\* The in-flight gauge counts the requests between Track and its return, also
\* those that were refused, aborted by a panic or wait in the hook.
InFlightExact == inFlight = Cardinality({c \in Clients : pc[c] \in Tracked})

Counted(W, op, ok(_)) == Cardinality({c \in W : info[c].op = op /\ ok(info[c])})

\* All series of a scrape that reaches its client are of one moment between its
\* begin and its end: they count exactly the same requests, each in every bucket
\* whose bound it does not exceed, and only rows that were returned.
ScrapeExact ==
  \A s \in Scrapes : scrape[s] \in {"gauges", "done"} /\ ~broken[s] =>
    \E W \in SUBSET Observed :
      /\ seen[s] \subseteq W
      /\ \A op \in Ops :
           /\ \A st \in Statuses :
                page[s].requests[<<op, st>>] = Counted(W, op, LAMBDA i : i.status = st)
           /\ \A b \in DOMAIN Buckets :
                page[s].durations[op][b] = Counted(W, op, LAMBDA i : i.secs <= Buckets[b])
           /\ page[s].durations[op][Len(Buckets) + 1] = Counted(W, op, LAMBDA i : TRUE)
           /\ page[s].rows[op] = Counted(W, op, LAMBDA i : i.status = "200" /\ i.rows = 1)

\* The metrics count what happened, whatever happens meanwhile.
MetricsExact == InFlightExact /\ ScrapeExact

\* README.md:279-289: nothing is written without the update token unless
\* anonymous updates are on, nothing is read past a query token without a token
\* of the server, and /get never writes.
TokensGuard ==
  \A c \in Clients : Served(c) =>
    LET q == input[c]
    IN /\ Writes(q) => /\ q.route # "get"
                       /\ config.anonymous \/ (config.update /\ q.authorization = "update")
       /\ ~Writes(q) /\ config.query => q.authorization \in Configured
       /\ Present(q.authorization) /\ Configured # {} => q.authorization \in Configured

\* A better token never does worse: what is served without one is served with
\* each token of the server, and what the query token may do the update token may.
AuthorityMonotone ==
  \A c \in Clients : Served(c) =>
    \A h \in Configured :
      input[c].authorization \in NoCredentials \/ h = "update" => Accepts(c, h)

\* A client without credentials is asked for some exactly if some would help; one
\* that is told 401 with a token has none of the server's.
ChallengeHelps ==
  \A c \in Clients :
    LET h == input[c].authorization
        helpful == \E t \in Configured : Accepts(c, t)
    IN /\ status[c] = "401" => IF Present(h) THEN h \notin Configured ELSE helpful
       /\ status[c] = "403" /\ ~Present(h) => ~helpful

\* Showing a token of the server never hurts, and being asked for one is no trap.
TokensHelp == AuthorityMonotone /\ ChallengeHelps

\* A response is compressed only for a client that names gzip with a q above 0,
\* or names "*" so and does not refuse gzip.
GzipRefusalRespected ==
  \A c \in Clients : status[c] # "none" /\ AcceptsGzip(input[c].accept) =>
    LET listed(name) == {p \in Range(input[c].accept) : p.name = name}
    IN \E p \in listed("gzip") \cup (IF listed("gzip") = {} THEN listed("*") ELSE {}) : p.q

\* A client that reads its metrics slowly, with the mutex of the registry held,
\* cannot keep requests of others from ending.
HookReturns == \A c \in Clients : pc[c] = "hook" ~> pc[c] = "done"
=============================================================================
