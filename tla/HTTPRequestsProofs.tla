------------------------- MODULE HTTPRequestsProofs -------------------------
(***************************************************************************)
(* Requests and scrapes, for any clients, configurations, requests and     *)
(* histogram.                                                              *)
(***************************************************************************)
EXTENDS HTTPRequests, TLAPS, FiniteSetTheorems, WellFoundedInduction

\* Where a request can be, and what it has been answered there.
ClientInv(c) ==
  /\ pc[c] = "idle" \/ input[c] \in Requests
  /\ pc[c] \in {"idle", "gate", "endpoint"} => status[c] = "none" /\ info[c] = NoInfo
  /\ pc[c] = "hook" => info[c] # NoInfo
  /\ pc[c] \in Tracked => ~RefusedByRoute(input[c])

\* The reasons for the answers.
AnswerInv(c) ==
  /\ Served(c) => Decision(c) = "ok" /\ ~RefusedByRoute(input[c])
  /\ status[c] = "401" => Decision(c) = "401"
  /\ status[c] = "403" =>
       Decision(c) = "403" \/ (Writes(input[c]) /\ ~config.update /\ ~config.anonymous)

RequestInv == \A c \in Clients : ClientInv(c) /\ AnswerInv(c)

\* Only requests that arrived count, of which there are finitely many.
Arrived == {c \in Clients : pc[c] # "idle"}

GaugeInv == IsFiniteSet(Arrived) /\ InFlightExact

\* The registry's counters are those of the observed requests.
ByStatus(W, op, st) == {c \in W : info[c].op = op /\ info[c].status = st}
ByBucket(W, op, b)  == {c \in W : info[c].op = op /\ Bucket(info[c].secs) = b}
UpTo(W, op, b)      == {c \in W : info[c].op = op /\ Bucket(info[c].secs) <= b}
ByRows(W, op)       == {c \in W : info[c].op = op /\ info[c].status = "200" /\ info[c].rows = 1}

RegistryInv ==
  config.metrics =>
    \A op \in Ops :
      /\ \A st \in Statuses : requests[<<op, st>>] = Cardinality(ByStatus(Observed, op, st))
      /\ \A b \in 1..Len(Buckets) + 1 : durations[op][b] = Cardinality(ByBucket(Observed, op, b))
      /\ rows[op] = Cardinality(ByRows(Observed, op))

\* What a page has of the requests W.
RequestsOf(s, W) ==
  \A op \in Ops, st \in Statuses :
    page[s].requests[<<op, st>>] = Cardinality(ByStatus(W, op, st))
DurationsOf(s, W) ==
  \A op \in Ops : page[s].durations[op] =
    [b \in 1..Len(Buckets) + 1 |-> Cardinality(UpTo(W, op, b))]
RowsOf(s, W) == \A op \in Ops : page[s].rows[op] = Cardinality(ByRows(W, op))

\* While a scrape holds the mutex no request is observed, so that all of its
\* series count those that were when it began.
Locked == {"requests", "durations", "rows"}

ScrapeInv ==
  \A s \in Scrapes :
    /\ scrape[s] \in Locked <=> mu = s
    /\ scrape[s] # "idle" => config.metrics
    /\ DOMAIN page[s] = Locked /\ seen[s] \subseteq Observed
    /\ scrape[s] \in Locked /\ ~broken[s] => seen[s] = Observed
    /\ scrape[s] \notin {"idle", "requests"} /\ ~broken[s] => RequestsOf(s, seen[s])
    /\ scrape[s] \notin {"idle", "requests", "durations"} /\ ~broken[s] => DurationsOf(s, seen[s])
    /\ scrape[s] \in {"gauges", "done"} /\ ~broken[s] => RowsOf(s, seen[s])

\* The inductive invariant.
HTTPInv == TypeOK /\ RequestInv /\ GaugeInv /\ RegistryInv /\ ScrapeInv

\* The type invariant in two parts.
RequestType ==
  /\ config \in Configs /\ \A c \in Clients : input[c] \in Requests \cup {Absent}
  /\ pc \in [Clients -> {"idle", "done"} \cup Tracked]
  /\ status \in [Clients -> Statuses \cup {"none"}]
  /\ info \in [Clients -> Infos \cup {NoInfo}]
  /\ loaded \in BOOLEAN /\ inFlight \in Nat

RegistryType ==
  /\ requests \in [Ops \X Statuses -> Nat]
  /\ durations \in [Ops -> [1..Len(Buckets) + 1 -> Nat]]
  /\ rows \in [Ops -> Nat]

ScrapeType ==
  /\ mu \in Scrapes \cup {"free"}
  /\ scrape \in [Scrapes -> {"idle", "requests", "durations", "rows", "gauges", "done"}]
  /\ DOMAIN page = Scrapes /\ seen \in [Scrapes -> SUBSET Clients]
  /\ broken \in [Scrapes -> BOOLEAN]
-----------------------------------------------------------------------------
(* What the headers decide. *)

LEMMA Decisions ==
  \A c \in Clients : Decision(c) \in {"ok", "401", "403"} /\ (~Writes(input[c]) => Decision(c) # "403")
BY DEF Decision, Authorize, AuthorizeRead, AuthorizeWrite, Writes

\* The endpoint gives an answer that the decision allows.
EndpointAnswers(c, s, n) ==
  /\ s = "200" \/ s = "422" => Decision(c) = "ok"
  /\ s = "401" => Decision(c) = "401"
  /\ s = "403" => Decision(c) = "403" \/ (Writes(input[c]) /\ ~config.update /\ ~config.anonymous)
  /\ s \in {"200", "204", "401", "403", "422"} /\ n \in 0..1 /\ (s = "200" => n = 1)

LEMMA EndpointStep ==
  ASSUME NEW c \in Clients, Evaluate(c) \/ TooManyRows(c) \/ Options(c) \/ Refuse(c)
  PROVE  pc[c] = "endpoint" /\ \E s, n : Answered(c, s, n) /\ EndpointAnswers(c, s, n)
<1>1. CASE Evaluate(c)
  BY <1>1 DEF Evaluate, Evaluates, EndpointAnswers
<1>2. CASE TooManyRows(c) \/ Options(c)
  BY <1>2 DEF TooManyRows, Evaluates, Options, EndpointAnswers
<1>3. CASE Refuse(c)
  BY <1>3, Decisions DEF Refuse, EndpointAnswers
<1>4. QED  BY <1>1, <1>2, <1>3

\* An observed request has its information.
LEMMA AnsweredInfo ==
  ASSUME RequestType, NEW c \in Clients, NEW s, NEW n, Answered(c, s, n), EndpointAnswers(c, s, n)
  PROVE  /\ info' \in [Clients -> Infos \cup {NoInfo}]
         /\ info'[c] # NoInfo /\ info'[c] \in Infos
         /\ \A d \in Clients \ {c} : info'[d] = info[d]
<1>1. PICK t \in Durations :
        info' = [info EXCEPT ![c] = [op |-> IF Writes(input[c]) THEN "write" ELSE "read",
                                     status |-> s, rows |-> n, secs |-> t]]
  BY DEF Answered
<1> DEFINE i == [op |-> IF Writes(input[c]) THEN "write" ELSE "read",
                 status |-> s, rows |-> n, secs |-> t]
<1>2. i \in Infos
  BY DEF Infos, Ops, EndpointAnswers
<1>3. i # NoInfo
  <2>1. i.rows # NoInfo.rows \/ i.status # NoInfo.status
    BY DEF NoInfo, EndpointAnswers
  <2>2. QED  BY <2>1, Zenon
<1> HIDE DEF i
<1>4. info' = [info EXCEPT ![c] = i]
  BY <1>1 DEF i
<1>5. QED  BY <1>2, <1>3, <1>4 DEF RequestType

\* A step of a request changes nothing of the others.
LEMMA OthersStay ==
  ASSUME RequestType, NEW c \in Clients, RequestStep(c), NEW d \in Clients, d # c
  PROVE  pc'[d] = pc[d] /\ status'[d] = status[d] /\ info'[d] = info[d]
<1> USE DEF RequestType, Goto, Answer, requestVars
<1>1. CASE Arrive(c) \/ Gate(c) \/ Abort(c) \/ OptionsUnhooked(c)
  BY <1>1 DEF Arrive, Gate, Abort, Evaluates, OptionsUnhooked
<1>2. CASE Hook(c) \/ Leave(c)
  BY <1>2 DEF Hook, Leave
<1>3. CASE Evaluate(c) \/ TooManyRows(c) \/ Options(c) \/ Refuse(c)
  BY <1>3 DEF Evaluate, Evaluates, TooManyRows, Options, Refuse, Answered
<1>4. QED  BY <1>1, <1>2, <1>3 DEF RequestStep

\* What a step makes of its own request.
LEMMA OwnStep ==
  ASSUME RequestType, NEW c \in Clients, RequestStep(c), UNCHANGED <<config, input>>,
         ClientInv(c), AnswerInv(c)
  PROVE  ClientInv(c)' /\ AnswerInv(c)' /\ pc' \in [Clients -> {"idle", "done"} \cup Tracked]
         /\ status' \in [Clients -> Statuses \cup {"none"}] /\ info' \in [Clients -> Infos \cup {NoInfo}]
<1> USE DEF RequestType, Goto, Answer, requestVars, ClientInv, AnswerInv, Tracked, Served, Statuses
<1>1. CASE Arrive(c)
  <2> USE <1>1 DEF Arrive
  <2>1. input[c] \in Requests
    OBVIOUS
  <2>2. CASE AnsweredByCORS(config, input[c])
    BY <2>1, <2>2
  <2>3. CASE ~AnsweredByCORS(config, input[c]) /\ RefusedByRoute(input[c])
    BY <2>1, <2>3
  <2>4. CASE ~AnsweredByCORS(config, input[c]) /\ ~RefusedByRoute(input[c])
    BY <2>1, <2>4
  <2>5. QED  BY <2>2, <2>3, <2>4
<1>2. CASE Gate(c)
  BY <1>2 DEF Gate
<1>3. CASE Abort(c) \/ OptionsUnhooked(c)
  BY <1>3 DEF Abort, Evaluates, OptionsUnhooked, Decision
<1>4. CASE Hook(c)
  BY <1>4 DEF Hook, Decision
<1>5. CASE Leave(c)
  BY <1>5 DEF Leave, Decision
<1>6. CASE Evaluate(c) \/ TooManyRows(c) \/ Options(c) \/ Refuse(c)
  <2>1. PICK s, n : Answered(c, s, n) /\ EndpointAnswers(c, s, n)
    BY <1>6, EndpointStep
  <2>2. /\ info' \in [Clients -> Infos \cup {NoInfo}] /\ info'[c] # NoInfo
    BY <2>1, AnsweredInfo
  <2>3. pc[c] = "endpoint" /\ pc' = [pc EXCEPT ![c] = "hook"] /\ status' = [status EXCEPT ![c] = s]
    BY <1>6, <2>1, EndpointStep DEF Answered
  <2>4. Decision(c)' = Decision(c)
    BY DEF Decision
  <2>5. QED  BY <2>1, <2>2, <2>3, <2>4 DEF EndpointAnswers
<1>7. QED  BY <1>1, <1>2, <1>3, <1>4, <1>5, <1>6 DEF RequestStep

LEMMA RequestStepSafe ==
  ASSUME RequestType, RequestInv, NEW c \in Clients, RequestStep(c), UNCHANGED <<config, input>>
  PROVE  RequestInv'
<1>1. ClientInv(c)' /\ AnswerInv(c)'
  BY OwnStep DEF RequestInv
<1>2. ASSUME NEW d \in Clients, d # c PROVE ClientInv(d)' /\ AnswerInv(d)'
  <2>1. pc'[d] = pc[d] /\ status'[d] = status[d] /\ info'[d] = info[d]
    BY <1>2, OthersStay
  <2>2. ClientInv(d) /\ AnswerInv(d)
    BY DEF RequestInv
  <2>3. QED  BY <2>1, <2>2 DEF ClientInv, AnswerInv, Served, Decision
<1>3. QED  BY <1>1, <1>2, Zenon DEF RequestInv
-----------------------------------------------------------------------------
(* The in-flight gauge. *)

InTrack == {c \in Clients : pc[c] \in Tracked}

LEMMA GaugeSafe ==
  ASSUME RequestType, GaugeInv, NEW c \in Clients, RequestStep(c)
  PROVE  GaugeInv' /\ inFlight' \in Nat
<1>1. /\ \A d \in Clients \ {c} : pc'[d] = pc[d]
      /\ inFlight = Cardinality(InTrack) /\ IsFiniteSet(Arrived) /\ InTrack \subseteq Arrived
  BY OthersStay DEF GaugeInv, InFlightExact, InTrack, Arrived, Tracked
<1>2. IsFiniteSet(InTrack) /\ Cardinality(InTrack) \in Nat
  BY <1>1, FS_Subset, FS_CardinalityType
<1>3. \/ pc[c] = "idle" /\ pc'[c] = "gate" /\ inFlight' = inFlight + 1
      \/ pc[c] = "idle" /\ pc'[c] = "done" /\ inFlight' = inFlight
      \/ pc[c] \in Tracked /\ pc'[c] \in Tracked /\ inFlight' = inFlight
      \/ pc[c] = "leave" /\ pc'[c] = "done" /\ inFlight' = inFlight - 1
  <2> USE DEF RequestType, Goto, Tracked
  <2>1. CASE Arrive(c)
    BY <2>1 DEF Arrive
  <2>2. CASE Gate(c) \/ Abort(c) \/ OptionsUnhooked(c) \/ Hook(c) \/ Leave(c)
    BY <2>2 DEF Gate, Abort, Evaluates, OptionsUnhooked, Hook, Leave
  <2>3. CASE Evaluate(c) \/ TooManyRows(c) \/ Options(c) \/ Refuse(c)
    BY <2>3 DEF Evaluate, Evaluates, TooManyRows, Options, Refuse, Answered
  <2>4. QED  BY <2>1, <2>2, <2>3 DEF RequestStep
<1>4. Arrived' \subseteq Arrived \cup {c}
  BY <1>1 DEF Arrived
<1>5. IsFiniteSet(Arrived')
  BY <1>1, <1>4, FS_AddElement, FS_Subset
<1>6. inFlight' = Cardinality(InTrack') /\ inFlight' \in Nat
  <2>1. CASE pc[c] = "idle" /\ pc'[c] = "gate" /\ inFlight' = inFlight + 1
    <3>1. c \notin InTrack /\ InTrack' = InTrack \cup {c}
      BY <1>1, <2>1 DEF InTrack, Tracked
    <3>2. Cardinality(InTrack') = Cardinality(InTrack) + 1
      BY <1>2, <3>1, FS_AddElement
    <3>3. QED  BY <1>1, <1>2, <2>1, <3>2
  <2>2. CASE pc[c] = "idle" /\ pc'[c] = "done" /\ inFlight' = inFlight
    <3>1. InTrack' = InTrack
      BY <1>1, <2>2 DEF InTrack, Tracked
    <3>2. QED  BY <1>1, <1>2, <2>2, <3>1
  <2>3. CASE pc[c] \in Tracked /\ pc'[c] \in Tracked /\ inFlight' = inFlight
    <3>1. InTrack' = InTrack
      BY <1>1, <2>3 DEF InTrack
    <3>2. QED  BY <1>1, <1>2, <2>3, <3>1
  <2>4. CASE pc[c] = "leave" /\ pc'[c] = "done" /\ inFlight' = inFlight - 1
    <3>1. c \in InTrack /\ InTrack' = InTrack \ {c}
      BY <1>1, <2>4 DEF InTrack, Tracked
    <3>2. Cardinality(InTrack') = Cardinality(InTrack) - 1 /\ Cardinality(InTrack') \in Nat
      BY <1>2, <3>1, FS_RemoveElement, FS_CardinalityType
    <3>3. QED  BY <1>1, <2>4, <3>2
  <2>5. QED  BY <1>3, <2>1, <2>2, <2>3, <2>4
<1>7. QED  BY <1>5, <1>6 DEF GaugeInv, InFlightExact, InTrack
-----------------------------------------------------------------------------
(* The registry. *)

\* The observed requests stay observed, with what the endpoint told of them; the hook
\* adds one.
LEMMA ObservedGrows ==
  ASSUME RequestType, RequestInv, NEW c \in Clients, RequestStep(c)
  PROVE  /\ \A d \in Observed : info'[d] = info[d]
         /\ Observed' = IF Hook(c) THEN Observed \cup {c} ELSE Observed
         /\ Hook(c) => c \notin Observed /\ info'[c] = info[c] /\ info[c] \in Infos
<1> USE DEF RequestType, RequestInv, ClientInv, Observed, Goto, Answer, Tracked
<1>1. \A d \in Clients \ {c} : pc'[d] = pc[d] /\ info'[d] = info[d]
  BY OthersStay
<1>2. CASE Hook(c)
  BY <1>1, <1>2 DEF Hook
<1>3. CASE Arrive(c) \/ Gate(c) \/ Abort(c) \/ OptionsUnhooked(c) \/ Leave(c)
  BY <1>1, <1>3 DEF Arrive, Gate, Abort, Evaluates, OptionsUnhooked, Leave, Hook
<1>4. CASE Evaluate(c) \/ TooManyRows(c) \/ Options(c) \/ Refuse(c)
  BY <1>1, <1>4 DEF Evaluate, Evaluates, TooManyRows, Options, Refuse, Answered, Hook
<1>5. QED  BY <1>2, <1>3, <1>4 DEF RequestStep

\* The counters stay right while no request is observed.
LEMMA RegistryStays ==
  ASSUME RegistryInv, UNCHANGED <<config, registryVars>>, Observed' = Observed \/ ~config.metrics,
         \A d \in Observed : info'[d] = info[d]
  PROVE  RegistryInv'
<1>1. \A op, x : /\ Observed' = Observed =>
                     /\ ByStatus(Observed, op, x)' = ByStatus(Observed, op, x)
                     /\ ByBucket(Observed, op, x)' = ByBucket(Observed, op, x)
                     /\ ByRows(Observed, op)' = ByRows(Observed, op)
  BY DEF ByStatus, ByBucket, ByRows
<1>2. QED  BY <1>1 DEF RegistryInv, registryVars

\* A duration falls in one of the buckets, ...
LEMMA BucketRange ==
  ASSUME NEW secs \in Durations
  PROVE  Bucket(secs) \in 1..Len(Buckets) + 1
<1> DEFINE n == Len(Buckets)
           S == {i \in DOMAIN Buckets : Buckets[i] < secs}
<1>1. n \in Nat /\ DOMAIN Buckets = 1..n
  BY RequestsAssumption
<1> HIDE DEF n
<1>2. IsFiniteSet(1..n) /\ Cardinality(1..n) = n
  BY <1>1, FS_Interval
<1>3. S \in SUBSET (1..n)
  BY <1>1
<1> HIDE DEF S
<1>4. Cardinality(S) \in 0..n
  <2>1. IsFiniteSet(S) /\ Cardinality(S) <= Cardinality(1..n)
    BY <1>2, <1>3, FS_Subset, Zenon
  <2>2. Cardinality(S) \in Nat
    BY <2>1, FS_CardinalityType
  <2>3. QED  BY <1>1, <1>2, <2>1, <2>2
<1>5. QED  BY <1>1, <1>4 DEF Bucket, S, n

\* ... the b-th or an earlier one exactly if it does not exceed the bound of that.
LEMMA BucketBound ==
  ASSUME NEW secs \in Durations, NEW b \in DOMAIN Buckets
  PROVE  Bucket(secs) <= b <=> secs <= Buckets[b]
<1> DEFINE n == Len(Buckets)
           S == {i \in DOMAIN Buckets : Buckets[i] < secs}
<1>1. /\ n \in Nat /\ DOMAIN Buckets = 1..n /\ b \in 1..n /\ secs \in Nat
      /\ \A i \in 1..n : Buckets[i] \in Nat
      /\ \A i, j \in 1..n : i < j => Buckets[i] < Buckets[j]
  <2>1. Buckets \in Seq(Nat) /\ Durations \subseteq Nat
    BY RequestsAssumption
  <2>2. n \in Nat /\ DOMAIN Buckets = 1..n
    BY <2>1
  <2>3. \A i, j \in 1..n : i < j => Buckets[i] < Buckets[j]
    BY <2>2, RequestsAssumption, Zenon
  <2>4. \A i \in 1..n : Buckets[i] \in Nat
    BY <2>1
  <2>5. QED  BY <2>1, <2>2, <2>3, <2>4
<1> HIDE DEF n
<1>2. S \in SUBSET (1..n) /\ IsFiniteSet(S) /\ Cardinality(S) \in Nat
  <2>1. IsFiniteSet(1..n) /\ S \in SUBSET (1..n)
    BY <1>1, FS_Interval
  <2> HIDE DEF S
  <2>2. QED  BY <2>1, FS_Subset, FS_CardinalityType
<1>3. CASE secs <= Buckets[b]
  <2>1. S \in SUBSET (1..(b - 1)) /\ b - 1 \in Nat
    <3>1. ASSUME NEW i \in 1..n, Buckets[i] < secs PROVE i <= b - 1
      <4>1. i # b /\ ~(b < i)
        <5>1. Buckets[i] < Buckets[b] /\ Buckets[i] \in Nat /\ Buckets[b] \in Nat
          BY <1>1, <1>3, <3>1
        <5>2. ~(Buckets[b] < Buckets[i])
          BY <5>1
        <5>3. b < i => Buckets[b] < Buckets[i]
          BY <1>1
        <5>4. QED  BY <5>1, <5>2, <5>3
      <4>2. i \in Int /\ b \in Int
        BY <1>1
      <4>3. QED  BY <4>1, <4>2
    <3>2. b - 1 \in Nat
      BY <1>1
    <3>3. QED  BY <1>1, <3>1, <3>2
  <2>2. IsFiniteSet(1..(b - 1)) /\ Cardinality(1..(b - 1)) = b - 1
    BY <2>1, FS_Interval
  <2> HIDE DEF S
  <2>3. Cardinality(S) <= b - 1
    <3>1. Cardinality(S) <= Cardinality(1..(b - 1))
      BY <2>1, <2>2, FS_Subset, Zenon
    <3>2. QED  BY <2>2, <3>1, Zenon
  <2>4. QED  BY <1>1, <1>2, <1>3, <2>3 DEF Bucket, S
<1>4. CASE ~(secs <= Buckets[b])
  <2>1. 1..b \in SUBSET S
    BY <1>1, <1>4
  <2>2. Cardinality(1..b) = b
    BY <1>1, FS_Interval
  <2> HIDE DEF S
  <2>3. b <= Cardinality(S)
    <3>1. Cardinality(1..b) <= Cardinality(S)
      BY <1>2, <2>1, FS_Subset, Zenon
    <3>2. QED  BY <2>2, <3>1, Zenon
  <2>4. Bucket(secs) = Cardinality(S) + 1
    BY DEF Bucket, S
  <2>5. QED  BY <1>1, <1>2, <1>4, <2>3, <2>4
<1>5. QED  BY <1>3, <1>4

\* Observe counts one request more.
LEMMA ObserveCounts ==
  ASSUME RegistryType, RegistryInv, IsFiniteSet(Observed), config.metrics,
         NEW c, c \notin Observed, info[c] \in Infos, Observe(info[c]),
         config' = config, Observed' = Observed \cup {c},
         \A d \in Observed \cup {c} : info'[d] = info[d]
  PROVE  RegistryType' /\ RegistryInv'
<1> DEFINE i == info[c]
           b == Bucket(i.secs)
<1>1. /\ i.op \in Ops /\ i.status \in Statuses /\ i.rows \in 0..1
      /\ b \in 1..Len(Buckets) + 1
  <2>1. i.op \in Ops /\ i.status \in Statuses /\ i.rows \in 0..1 /\ i.secs \in Durations
    BY DEF Infos, Statuses
  <2>2. QED  BY <2>1, BucketRange
<1>2. ASSUME NEW S \in SUBSET Observed
      PROVE  /\ IsFiniteSet(S) /\ Cardinality(S) \in Nat /\ c \notin S
             /\ Cardinality(S \cup {c}) = Cardinality(S) + 1
  BY FS_Subset, FS_AddElement, FS_CardinalityType
<1>3. ASSUME NEW op \in Ops, NEW st \in Statuses
      PROVE  requests'[<<op, st>>] = Cardinality(ByStatus(Observed, op, st)')
  <2> DEFINE S == ByStatus(Observed, op, st)
  <2>1. S \in SUBSET Observed /\ requests[<<op, st>>] = Cardinality(S)
    BY DEF ByStatus, RegistryInv
  <2>2. S' = IF i.op = op /\ i.status = st THEN S \cup {c} ELSE S
    BY DEF ByStatus
  <2>3. requests'[<<op, st>>] = IF i.op = op /\ i.status = st THEN requests[<<op, st>>] + 1
                                                              ELSE requests[<<op, st>>]
    BY <1>1 DEF Observe, RegistryType
  <2>4. QED  BY <1>2, <2>1, <2>2, <2>3
<1>4. ASSUME NEW op \in Ops, NEW k \in 1..Len(Buckets) + 1
      PROVE  durations'[op][k] = Cardinality(ByBucket(Observed, op, k)')
  <2> DEFINE S == ByBucket(Observed, op, k)
  <2>1. S \in SUBSET Observed /\ durations[op][k] = Cardinality(S)
    BY DEF ByBucket, RegistryInv
  <2>2. S' = IF i.op = op /\ b = k THEN S \cup {c} ELSE S
    BY DEF ByBucket
  <2>3. durations'[op][k] = IF i.op = op /\ b = k THEN durations[op][k] + 1 ELSE durations[op][k]
    BY <1>1 DEF Observe, RegistryType
  <2>4. QED  BY <1>2, <2>1, <2>2, <2>3
<1>5. ASSUME NEW op \in Ops
      PROVE  rows'[op] = Cardinality(ByRows(Observed, op)')
  <2> DEFINE S == ByRows(Observed, op)
  <2>1. S \in SUBSET Observed /\ rows[op] = Cardinality(S)
    BY DEF ByRows, RegistryInv
  <2>2. S' = IF i.op = op /\ i.status = "200" /\ i.rows = 1 THEN S \cup {c} ELSE S
    BY DEF ByRows
  <2>3. rows'[op] = IF i.op = op /\ i.status = "200" THEN rows[op] + i.rows ELSE rows[op]
    BY <1>1 DEF Observe, RegistryType
  <2> HIDE DEF S
  <2>4. rows[op] \in Nat
    BY DEF RegistryType
  <2>5. ASSUME i.rows = 1 PROVE rows'[op] = Cardinality(S')
    <3>1. rows[op] = Cardinality(S) /\ Cardinality(S \cup {c}) = rows[op] + 1
      BY <1>2, <2>1
    <3>2. QED  BY <2>2, <2>3, <2>5, <3>1
  <2>6. ASSUME i.rows = 0 PROVE rows'[op] = Cardinality(S')
    <3>1. S' = S /\ rows'[op] = rows[op]
      BY <2>2, <2>3, <2>4, <2>6
    <3>2. QED  BY <2>1, <3>1
  <2>7. QED  BY <1>1, <2>5, <2>6 DEF S
<1>6. RegistryType'
  <2>1. requests' \in [Ops \X Statuses -> Nat]
    BY <1>1 DEF Observe, RegistryType
  <2>2. durations' \in [Ops -> [1..Len(Buckets) + 1 -> Nat]]
    <3>1. \A f \in [1..Len(Buckets) + 1 -> Nat], k \in 1..Len(Buckets) + 1 :
            [f EXCEPT ![k] = @ + 1] \in [1..Len(Buckets) + 1 -> Nat]
      <4> DEFINE K == 1..Len(Buckets) + 1
      <4> HIDE DEF K
      <4>1. \A f \in [K -> Nat], k \in K : [f EXCEPT ![k] = @ + 1] \in [K -> Nat]
        OBVIOUS
      <4>2. QED  BY <4>1, Zenon DEF K
    <3>2. durations[i.op] \in [1..Len(Buckets) + 1 -> Nat]
      BY <1>1 DEF RegistryType
    <3>3. durations' = [durations EXCEPT ![i.op] = [durations[i.op] EXCEPT ![b] = @ + 1]]
      BY <1>1 DEF Observe, RegistryType
    <3>4. QED  BY <1>1, <3>1, <3>2, <3>3 DEF RegistryType
  <2>3. rows' \in [Ops -> Nat]
    BY <1>1 DEF Observe, RegistryType
  <2>4. QED  BY <2>1, <2>2, <2>3 DEF RegistryType
<1>7. QED  BY <1>3, <1>4, <1>5, <1>6 DEF RegistryInv
-----------------------------------------------------------------------------
(* Cumulative buckets. *)

\* Induction over the naturals, for a set.
LEMMA Less == \A x, y \in Nat : x < y => <<x, y>> \in OpToRel(<, Nat)
  BY DEF OpToRel

LEMMA Induction ==
  ASSUME NEW S, 0 \in S, \A n \in Nat : n \in S => n + 1 \in S
  PROVE  Nat \subseteq S
<1> DEFINE T == Nat \ S
<1>1. SUFFICES ASSUME T # {} PROVE FALSE
  OBVIOUS
<1>2. \E x \in T : \A y \in Nat : y < x => y \notin T
  <2>1. T \subseteq Nat /\ T # {}
    BY <1>1
  <2> HIDE DEF T
  <2>2. PICK x \in T : \A y \in T : ~(<<y, x>> \in OpToRel(<, Nat))
    BY <2>1, NatLessThanWellFounded, WFMin
  <2>3. QED BY <2>1, <2>2, Less, Zenon
<1>3. PICK x \in Nat : x \notin S /\ \A y \in Nat : y < x => y \in S
  BY <1>2
<1>4. x # 0 /\ x - 1 \in Nat /\ x - 1 < x
  BY <1>3
<1>5. x - 1 \in S
  BY <1>3, <1>4
<1>6. x - 1 + 1 \in S
  BY <1>4, <1>5
<1>7. QED BY <1>3, <1>4, <1>6

\* The requests up to a bucket are those up to the one before and its own.
LEMMA UpToNext ==
  ASSUME NEW W, IsFiniteSet(W), NEW op, \A c \in W : Bucket(info[c].secs) \in Nat \ {0},
         NEW b \in Nat \ {0}
  PROVE  /\ UpTo(W, op, 0) = {}
         /\ Cardinality(UpTo(W, op, b)) \in Nat
         /\ Cardinality(UpTo(W, op, b)) = Cardinality(UpTo(W, op, b - 1)) + Cardinality(ByBucket(W, op, b))
<1> DEFINE A == UpTo(W, op, b - 1)
           B == ByBucket(W, op, b)
           C == UpTo(W, op, b)
<1>1. UpTo(W, op, 0) = {}
  BY DEF UpTo
<1>2. C = A \cup B /\ A \cap B = {}
  BY DEF UpTo, ByBucket
<1>3. A \in SUBSET W /\ B \in SUBSET W /\ C \in SUBSET W
  BY DEF UpTo, ByBucket
<1> HIDE DEF A, B, C
<1>4. /\ IsFiniteSet(A) /\ IsFiniteSet(B)
      /\ Cardinality(A) \in Nat /\ Cardinality(B) \in Nat /\ Cardinality(C) \in Nat
  BY <1>3, FS_Subset, FS_CardinalityType
<1>5. Cardinality(A \cup B) = Cardinality(A) + Cardinality(B) - Cardinality(A \cap B)
  BY <1>4, FS_Union
<1>6. Cardinality(C) = Cardinality(A) + Cardinality(B)
  <2>1. Cardinality(A \cap B) = 0 /\ Cardinality(C) = Cardinality(A \cup B)
    BY <1>2, FS_EmptySet, Zenon
  <2>2. QED  BY <1>4, <1>5, <2>1
<1>7. QED  BY <1>1, <1>4, <1>6 DEF A, B, C

\* The series of a histogram: each bucket with all below it.
LEMMA CumulativeCounts ==
  ASSUME NEW W, IsFiniteSet(W), NEW op, \A c \in W : Bucket(info[c].secs) \in Nat \ {0},
         NEW m \in Nat, NEW f \in [1..m -> Nat],
         \A b \in 1..m : f[b] = Cardinality(ByBucket(W, op, b))
  PROVE  Cumulative(f) = [b \in 1..m |-> Cardinality(UpTo(W, op, b))]
<1> DEFINE Step(g, b) == IF b = 0 THEN 0 ELSE g[b - 1] + f[b]
           IsSum(g) == g = [b \in 0..Len(f) |-> Step(g, b)]
           sum == CHOOSE g : IsSum(g)
           count == [b \in 0..m |-> Cardinality(UpTo(W, op, b))]
<1>1. Len(f) = m
  OBVIOUS
<1>2. count[0] = 0 /\ \A b \in 1..m : count[b] = count[b - 1] + f[b]
  <2>1. UpTo(W, op, 0) = {}
    BY UpToNext, 1 \in Nat \ {0}
  <2>2. ASSUME NEW b \in 1..m PROVE count[b] = count[b - 1] + f[b]
    <3>1. b \in Nat \ {0} /\ b \in 0..m /\ b - 1 \in 0..m
      OBVIOUS
    <3>2. Cardinality(UpTo(W, op, b)) = Cardinality(UpTo(W, op, b - 1)) + Cardinality(ByBucket(W, op, b))
      BY <3>1, UpToNext
    <3>3. QED  BY <3>1, <3>2
  <2>3. count[0] = Cardinality(UpTo(W, op, 0))
    OBVIOUS
  <2>4. Cardinality({}) = 0
    BY FS_EmptySet
  <2> HIDE DEF count
  <2>5. count[0] = 0
    BY <2>1, <2>3, <2>4, Zenon
  <2>6. QED  BY <2>2, <2>5
<1>3. IsSum(count)
  <2>1. \A b \in 0..m : count[b] = Step(count, b)
    <3> HIDE DEF count
    <3> QED  BY <1>2
  <2>2. count = [b \in 0..m |-> count[b]]
    OBVIOUS
  <2> HIDE DEF count, Step
  <2>3. QED  BY <1>1, <2>1, <2>2
<1>4. IsSum(sum)
  <2> HIDE DEF count
  <2> QED  BY <1>3, Zenon
<1>5. Cumulative(f) = [b \in 1..Len(f) |-> sum[b]]
  BY Zenon DEF Cumulative
<1> HIDE DEF sum, count
<1>6. \A b \in 0..m : sum[b] = Step(sum, b)
  BY <1>1, <1>4
<1>7. \A b \in 0..m : sum[b] = count[b]
  <2> DEFINE S == {b \in Nat : b <= m => sum[b] = count[b]}
  <2>1. 0 \in S
    BY <1>2, <1>6
  <2>2. ASSUME NEW b \in Nat, b \in S PROVE b + 1 \in S
    <3> DEFINE k == b + 1
    <3>1. SUFFICES ASSUME k <= m PROVE sum[k] = count[k]
      OBVIOUS
    <3>2. k \in 1..m /\ k \in 0..m /\ k - 1 = b /\ sum[b] = count[b] /\ k # 0
      BY <2>2, <3>1
    <3> HIDE DEF k
    <3>3. QED  BY <1>2, <1>6, <3>2
  <2> HIDE DEF S
  <2>3. Nat \subseteq S
    BY <2>1, <2>2, Induction
  <2>4. QED  BY <2>3 DEF S
<1>8. QED  BY <1>1, <1>5, <1>7 DEF count
-----------------------------------------------------------------------------
(* Scrapes. *)

\* ScrapeInv for one scrape.
OneScrapeInv(s) ==
  /\ scrape[s] \in Locked <=> mu = s
  /\ scrape[s] # "idle" => config.metrics
  /\ DOMAIN page[s] = Locked /\ seen[s] \subseteq Observed
  /\ scrape[s] \in Locked /\ ~broken[s] => seen[s] = Observed
  /\ scrape[s] \notin {"idle", "requests"} /\ ~broken[s] => RequestsOf(s, seen[s])
  /\ scrape[s] \notin {"idle", "requests", "durations"} /\ ~broken[s] => DurationsOf(s, seen[s])
  /\ scrape[s] \in {"gauges", "done"} /\ ~broken[s] => RowsOf(s, seen[s])

LEMMA ScrapeInvParts == ScrapeInv <=> \A s \in Scrapes : OneScrapeInv(s)
BY DEF ScrapeInv, OneScrapeInv

\* A series keeps counting what it counted, as long as it is not written again.
LEMMA SeriesStays ==
  ASSUME NEW s, seen'[s] = seen[s], \A d \in seen[s] : info'[d] = info[d]
  PROVE  /\ page'[s].requests = page[s].requests =>
              (RequestsOf(s, seen[s]) => RequestsOf(s, seen[s])')
         /\ page'[s].durations = page[s].durations =>
              (DurationsOf(s, seen[s]) => DurationsOf(s, seen[s])')
         /\ page'[s].rows = page[s].rows => (RowsOf(s, seen[s]) => RowsOf(s, seen[s])')
<1> DEFINE W == seen[s]
<1>1. W' = W /\ \A d \in W : info'[d] = info[d]
  OBVIOUS
<1> HIDE DEF W
<1>2. ASSUME NEW op, NEW x
      PROVE  /\ Cardinality(ByStatus(W, op, x))' = Cardinality(ByStatus(W, op, x))
             /\ Cardinality(ByRows(W, op))' = Cardinality(ByRows(W, op))
             /\ Cardinality(UpTo(W, op, x))' = Cardinality(UpTo(W, op, x))
  <2>1. ByStatus(W, op, x)' = ByStatus(W, op, x)
    BY <1>1 DEF ByStatus
  <2>2. ByRows(W, op)' = ByRows(W, op)
    BY <1>1 DEF ByRows
  <2>3. UpTo(W, op, x)' = UpTo(W, op, x)
    BY <1>1 DEF UpTo
  <2>4. QED  BY <2>1, <2>2, <2>3, Zenon
<1>3. page'[s].requests = page[s].requests => (RequestsOf(s, W) => RequestsOf(s, W)')
  <2> SUFFICES ASSUME page'[s].requests = page[s].requests, RequestsOf(s, W),
                      NEW op \in Ops, NEW st \in Statuses
               PROVE  page'[s].requests[<<op, st>>] = Cardinality(ByStatus(W, op, st))'
    BY DEF RequestsOf
  <2>1. page[s].requests[<<op, st>>] = Cardinality(ByStatus(W, op, st))
    BY DEF RequestsOf
  <2>2. QED  BY <1>2, <2>1
<1>4. page'[s].rows = page[s].rows => (RowsOf(s, W) => RowsOf(s, W)')
  BY <1>2 DEF RowsOf
<1>5. page'[s].durations = page[s].durations => (DurationsOf(s, W) => DurationsOf(s, W)')
  BY <1>2 DEF DurationsOf
<1>6. QED  BY <1>3, <1>4, <1>5 DEF W

\* A scrape that does nothing is not disturbed by the others, nor by requests.
LEMMA IdleScrape ==
  ASSUME NEW s \in Scrapes, OneScrapeInv(s), config' = config,
         scrape'[s] = scrape[s], page'[s] = page[s], seen'[s] = seen[s], broken'[s] = broken[s],
         mu' = s <=> mu = s,
         \A d \in Observed : info'[d] = info[d], Observed \subseteq Observed',
         mu = s => Observed' = Observed
  PROVE  OneScrapeInv(s)'
<1>1. \A d \in seen[s] : info'[d] = info[d]
  BY DEF OneScrapeInv
<1>2. /\ RequestsOf(s, seen[s]) => RequestsOf(s, seen[s])'
      /\ DurationsOf(s, seen[s]) => DurationsOf(s, seen[s])'
      /\ RowsOf(s, seen[s]) => RowsOf(s, seen[s])'
  BY <1>1, SeriesStays
<1>3. QED  BY <1>2 DEF OneScrapeInv

\* What a series that is written now contains.
LEMMA SeriesExact ==
  ASSUME RequestType, RegistryType, RegistryInv, IsFiniteSet(Observed), config.metrics, NEW op \in Ops
  PROVE  /\ \A st \in Statuses : requests[<<op, st>>] = Cardinality(ByStatus(Observed, op, st))
         /\ Cumulative(durations[op]) = [b \in 1..Len(Buckets) + 1 |-> Cardinality(UpTo(Observed, op, b))]
         /\ rows[op] = Cardinality(ByRows(Observed, op))
<1> DEFINE m == Len(Buckets) + 1
<1>1. m \in Nat
  BY RequestsAssumption
<1>2. \A c \in Observed : Bucket(info[c].secs) \in Nat \ {0}
  <2>1. SUFFICES ASSUME NEW c \in Observed PROVE Bucket(info[c].secs) \in Nat \ {0}
    OBVIOUS
  <2>2. info[c] \in Infos
    BY DEF Observed, RequestType
  <2>3. info[c].secs \in Durations
    BY <2>2 DEF Infos
  <2>4. Bucket(info[c].secs) \in 1..m
    BY <2>3, BucketRange
  <2>5. QED  BY <1>1, <2>4
<1>3. durations[op] \in [1..m -> Nat] /\ \A b \in 1..m : durations[op][b] = Cardinality(ByBucket(Observed, op, b))
  BY DEF RegistryInv, RegistryType
<1> HIDE DEF m
<1>4. Cumulative(durations[op]) = [b \in 1..m |-> Cardinality(UpTo(Observed, op, b))]
  <2> DEFINE f == durations[op]
  <2>1. f \in [1..m -> Nat] /\ \A b \in 1..m : f[b] = Cardinality(ByBucket(Observed, op, b))
    BY <1>3
  <2> HIDE DEF f
  <2>2. Cumulative(f) = [b \in 1..m |-> Cardinality(UpTo(Observed, op, b))]
    BY <1>1, <1>2, <2>1, CumulativeCounts
  <2>3. QED  BY <2>2 DEF f
<1>5. QED  BY <1>4 DEF m, RegistryInv

\* A step of a scrape leaves the other scrapes alone.
LEMMA OtherScrapes ==
  ASSUME ScrapeType, NEW s \in Scrapes, ScrapeStep(s), OneScrapeInv(s), NEW t \in Scrapes, t # s
  PROVE  /\ scrape'[t] = scrape[t] /\ page'[t] = page[t] /\ seen'[t] = seen[t] /\ broken'[t] = broken[t]
         /\ mu' = t <=> mu = t
<1> USE RequestsAssumption DEF ScrapeType, OneScrapeInv, Locked
<1>1. CASE BeginScrape(s)
  BY <1>1 DEF BeginScrape
<1>2. CASE WriteRequests(s) \/ WriteDurations(s) \/ WriteRows(s)
  BY <1>2 DEF WriteRequests, WriteDurations, WriteRows, Write
<1>3. CASE EndScrape(s)
  BY <1>3 DEF EndScrape
<1>4. CASE WriteTimeout(s)
  BY <1>4 DEF WriteTimeout
<1>5. QED  BY <1>1, <1>2, <1>3, <1>4 DEF ScrapeStep, Progress

LEMMA ScrapeStepTypes ==
  ASSUME RequestType, ScrapeType, NEW s \in Scrapes, ScrapeStep(s)
  PROVE  ScrapeType'
<1> USE DEF ScrapeType
<1>1. CASE BeginScrape(s)
  BY <1>1 DEF BeginScrape, Observed
<1>2. CASE WriteRequests(s) \/ WriteDurations(s) \/ WriteRows(s)
  BY <1>2 DEF WriteRequests, WriteDurations, WriteRows, Write
<1>3. CASE EndScrape(s)
  BY <1>3 DEF EndScrape
<1>4. CASE WriteTimeout(s)
  BY <1>4 DEF WriteTimeout
<1>5. QED  BY <1>1, <1>2, <1>3, <1>4 DEF ScrapeStep, Progress

\* A scrape's own step.
LEMMA OwnScrape ==
  ASSUME RequestType, RegistryType, ScrapeType, RegistryInv, IsFiniteSet(Observed),
         NEW s \in Scrapes, ScrapeStep(s), OneScrapeInv(s), config' = config
  PROVE  OneScrapeInv(s)'
<1> DEFINE L == Locked
<1>1. /\ DOMAIN page[s] = L /\ L = {"requests", "durations", "rows"}
      /\ scrape[s] \in L => mu = s /\ config.metrics /\ (~broken[s] => seen[s] = Observed)
  BY DEF OneScrapeInv, Locked
<1>2. mu = s => s # "free"
  BY RequestsAssumption
<1>3. CASE BeginScrape(s)
  BY <1>3 DEF BeginScrape, OneScrapeInv, ScrapeType, Locked, Observed, requestVars
<1>4. CASE WriteRequests(s)
  <2>1. Write(s, "requests", "durations", "requests", requests) /\ mu' = mu
    BY <1>4 DEF WriteRequests
  <2>2. /\ scrape[s] = "requests" /\ scrape'[s] = "durations" /\ seen' = seen /\ broken' = broken
        /\ info' = info /\ Observed' = Observed /\ DOMAIN page'[s] = L
        /\ ~broken[s] => page'[s].requests = requests
    BY <1>1, <2>1 DEF ScrapeType, Write, Observed, requestVars
  <2>3. ~broken[s] => RequestsOf(s, seen[s])'
    <3> SUFFICES ASSUME ~broken[s], NEW op \in Ops, NEW st \in Statuses
                 PROVE  page'[s].requests[<<op, st>>] = Cardinality(ByStatus(seen[s], op, st))'
      BY DEF RequestsOf
    <3>1. requests[<<op, st>>] = Cardinality(ByStatus(Observed, op, st))
      BY <1>1, <2>2, SeriesExact
    <3>2. ByStatus(seen[s], op, st)' = ByStatus(Observed, op, st)
      BY <1>1, <2>2 DEF ByStatus
    <3>3. QED  BY <2>2, <3>1, <3>2
  <2>4. QED  BY <1>1, <2>1, <2>2, <2>3 DEF OneScrapeInv, Locked
<1>5. CASE WriteDurations(s)
  <2>1. /\ Write(s, "durations", "rows", "durations", [op \in Ops |-> Cumulative(durations[op])])
        /\ mu' = mu
    BY <1>5 DEF WriteDurations
  <2>2. /\ scrape[s] = "durations" /\ scrape'[s] = "rows" /\ seen' = seen /\ broken' = broken
        /\ info' = info /\ Observed' = Observed /\ DOMAIN page'[s] = L
        /\ ~broken[s] => /\ page'[s].durations = [op \in Ops |-> Cumulative(durations[op])]
                         /\ page'[s].requests = page[s].requests
    BY <1>1, <2>1 DEF ScrapeType, Write, Observed, requestVars
  <2>3. ~broken[s] => DurationsOf(s, seen[s])'
    <3> SUFFICES ASSUME ~broken[s], NEW op \in Ops
                 PROVE  page'[s].durations[op] =
                          [b \in 1..Len(Buckets) + 1 |-> Cardinality(UpTo(seen[s], op, b))']
      BY DEF DurationsOf
    <3>1. Cumulative(durations[op]) = [b \in 1..Len(Buckets) + 1 |-> Cardinality(UpTo(Observed, op, b))]
      BY <1>1, <2>2, SeriesExact
    <3>2. \A b : UpTo(seen[s], op, b)' = UpTo(Observed, op, b)
      BY <1>1, <2>2 DEF UpTo
    <3>3. QED  BY <2>2, <3>1, <3>2
  <2>4. ~broken[s] => RequestsOf(s, seen[s])'
    BY <2>2, SeriesStays DEF OneScrapeInv
  <2>5. QED  BY <1>1, <2>1, <2>2, <2>3, <2>4 DEF OneScrapeInv, Locked
<1>6. CASE WriteRows(s)
  <2>1. Write(s, "rows", "gauges", "rows", rows) /\ mu' = "free"
    BY <1>6 DEF WriteRows
  <2>2. /\ scrape[s] = "rows" /\ scrape'[s] = "gauges" /\ seen' = seen /\ broken' = broken
        /\ info' = info /\ Observed' = Observed /\ DOMAIN page'[s] = L
        /\ ~broken[s] => /\ page'[s].rows = rows
                         /\ page'[s].requests = page[s].requests
                         /\ page'[s].durations = page[s].durations
    BY <1>1, <2>1 DEF ScrapeType, Write, Observed, requestVars
  <2>3. ~broken[s] => RowsOf(s, seen[s])'
    <3> SUFFICES ASSUME ~broken[s], NEW op \in Ops
                 PROVE  page'[s].rows[op] = Cardinality(ByRows(seen[s], op))'
      BY DEF RowsOf
    <3>1. rows[op] = Cardinality(ByRows(Observed, op))
      BY <1>1, <2>2, SeriesExact
    <3>2. ByRows(seen[s], op)' = ByRows(Observed, op)
      BY <1>1, <2>2 DEF ByRows
    <3>3. QED  BY <2>2, <3>1, <3>2
  <2>4. ~broken[s] => RequestsOf(s, seen[s])' /\ DurationsOf(s, seen[s])'
    BY <2>2, SeriesStays DEF OneScrapeInv
  <2>5. QED  BY <1>1, <1>2, <2>1, <2>2, <2>3, <2>4 DEF OneScrapeInv, Locked
<1>7. CASE EndScrape(s)
  <2>1. /\ scrape[s] = "gauges" /\ scrape'[s] = "done" /\ seen' = seen /\ broken' = broken
        /\ page' = page /\ info' = info /\ Observed' = Observed /\ mu' = mu
    BY <1>7 DEF EndScrape, ScrapeType, Observed, requestVars
  <2>2. ~broken[s] => RequestsOf(s, seen[s])' /\ DurationsOf(s, seen[s])' /\ RowsOf(s, seen[s])'
    BY <2>1, SeriesStays DEF OneScrapeInv
  <2>3. QED  BY <2>1, <2>2 DEF OneScrapeInv, Locked
<1>8. CASE WriteTimeout(s)
  BY <1>8 DEF WriteTimeout, OneScrapeInv, ScrapeType, Locked, EmptyPage
<1>9. QED  BY <1>3, <1>4, <1>5, <1>6, <1>7, <1>8 DEF ScrapeStep, Progress
-----------------------------------------------------------------------------
(* The inductive invariant. *)

LEMMA TypeParts == TypeOK <=> RequestType /\ RegistryType /\ ScrapeType
BY DEF TypeOK, RequestType, RegistryType, ScrapeType

LEMMA ObservedFinite == GaugeInv => IsFiniteSet(Observed)
BY FS_Subset DEF GaugeInv, Observed, Arrived

LEMMA InitSafe == Init => HTTPInv
<1> SUFFICES ASSUME Init PROVE HTTPInv
  OBVIOUS
<1>1. PICK case \in Cases : config = case.config /\ input = case.input
  BY DEF Init
<1>2. config \in Configs /\ \A c \in Clients : input[c] \in Requests \cup {Absent}
  BY <1>1, RequestsAssumption
<1>3. RequestType
  BY <1>2 DEF Init, RequestType
<1>4. RegistryType /\ ScrapeType
  BY RequestsAssumption DEF Init, RegistryType, ScrapeType
<1>5. RequestInv
  BY DEF Init, RequestInv, ClientInv, AnswerInv, Served, Tracked
<1>6. Observed = {} /\ Arrived = {} /\ {c \in Clients : pc[c] \in Tracked} = {}
  BY DEF Init, Observed, Arrived, Tracked
<1>7. IsFiniteSet({}) /\ Cardinality({}) = 0
  BY FS_EmptySet
<1>8. GaugeInv
  BY <1>6, <1>7 DEF Init, GaugeInv, InFlightExact
<1>9. \A op, x : ByStatus({}, op, x) = {} /\ ByBucket({}, op, x) = {} /\ ByRows({}, op) = {}
  BY DEF ByStatus, ByBucket, ByRows
<1>10. RegistryInv
  BY <1>6, <1>7, <1>9 DEF Init, RegistryInv
<1>11. ScrapeInv
  BY RequestsAssumption DEF Init, ScrapeInv, Locked, EmptyPage
<1>12. QED  BY <1>3, <1>4, <1>5, <1>8, <1>10, <1>11, TypeParts DEF HTTPInv

LEMMA StepSafe == HTTPInv /\ [Next]_vars => HTTPInv'
<1> SUFFICES ASSUME HTTPInv, [Next]_vars PROVE HTTPInv'
  OBVIOUS
<1>1. /\ RequestType /\ RegistryType /\ ScrapeType /\ RequestInv /\ GaugeInv /\ RegistryInv
      /\ \A s \in Scrapes : OneScrapeInv(s)
      /\ IsFiniteSet(Observed) /\ \A s \in Scrapes : s # "free"
  BY TypeParts, ScrapeInvParts, ObservedFinite, RequestsAssumption DEF HTTPInv
<1>2. SUFFICES /\ RequestType' /\ RegistryType' /\ ScrapeType' /\ RequestInv' /\ GaugeInv'
               /\ RegistryInv' /\ \A s \in Scrapes : OneScrapeInv(s)'
  <2>1. RequestType' /\ RegistryType' /\ ScrapeType' => TypeOK'
    BY TypeParts, PTL
  <2>2. (\A s \in Scrapes : OneScrapeInv(s)') => ScrapeInv'
    BY DEF ScrapeInv, OneScrapeInv
  <2>3. QED  BY <2>1, <2>2 DEF HTTPInv
<1>3. CASE (Load /\ UNCHANGED <<config, input>>) \/ UNCHANGED vars
  <2>1. /\ config' = config /\ input' = input /\ pc' = pc /\ status' = status /\ info' = info
        /\ inFlight' = inFlight /\ loaded' \in BOOLEAN
        /\ requests' = requests /\ durations' = durations /\ rows' = rows
        /\ mu' = mu /\ scrape' = scrape /\ page' = page /\ seen' = seen /\ broken' = broken
    BY <1>1, <1>3 DEF Load, vars, requestVars, registryVars, scrapeVars, RequestType
  <2>2. Observed' = Observed
    BY <2>1 DEF Observed
  <2>3. RequestType' /\ RegistryType' /\ ScrapeType'
    BY <1>1, <2>1 DEF RequestType, RegistryType, ScrapeType
  <2>4. RequestInv'
    BY <1>1, <2>1 DEF RequestInv, ClientInv, AnswerInv, Served, Decision
  <2>5. GaugeInv'
    BY <1>1, <2>1 DEF GaugeInv, InFlightExact, Arrived
  <2>6. RegistryInv'
    BY <1>1, <2>1, <2>2, RegistryStays DEF registryVars
  <2>7. \A s \in Scrapes : OneScrapeInv(s)'
    BY <1>1, <2>1, <2>2, IdleScrape
  <2>8. QED  BY <2>3, <2>4, <2>5, <2>6, <2>7
<1>4. ASSUME NEW c \in Clients, RequestStep(c), UNCHANGED <<config, input>>
      PROVE  /\ RequestType' /\ RegistryType' /\ ScrapeType' /\ RequestInv' /\ GaugeInv'
             /\ RegistryInv' /\ \A s \in Scrapes : OneScrapeInv(s)'
  <2>1. RequestInv'
    BY <1>1, <1>4, RequestStepSafe
  <2>2. GaugeInv' /\ inFlight' \in Nat
    BY <1>1, <1>4, GaugeSafe
  <2>3. /\ mu' = mu /\ scrape' = scrape /\ page' = page /\ seen' = seen /\ broken' = broken
        /\ loaded' = loaded
        /\ IF Hook(c) /\ config.metrics THEN mu = "free" /\ Observe(info[c]) ELSE UNCHANGED registryVars
    <3> USE DEF scrapeVars
    <3>1. CASE Hook(c)
      BY <3>1 DEF Hook
    <3>2. CASE Arrive(c) \/ Gate(c) \/ Abort(c) \/ OptionsUnhooked(c) \/ Leave(c)
      BY <1>1, <3>2 DEF Arrive, Gate, Abort, OptionsUnhooked, Leave, Hook
    <3>3. CASE Evaluate(c) \/ TooManyRows(c) \/ Options(c) \/ Refuse(c)
      BY <1>1, <3>3 DEF Evaluate, Evaluates, TooManyRows, Options, Refuse, Answered, Hook
    <3>4. QED  BY <1>4, <3>1, <3>2, <3>3 DEF RequestStep
  <2>4. ClientInv(c) /\ AnswerInv(c)
    BY <1>1 DEF RequestInv
  <2>5. RequestType'
    BY <1>1, <1>4, <2>2, <2>3, <2>4, OwnStep DEF RequestType
  <2>6. ScrapeType'
    BY <1>1, <2>3 DEF ScrapeType
  <2>7. /\ \A d \in Observed : info'[d] = info[d]
        /\ Observed' = IF Hook(c) THEN Observed \cup {c} ELSE Observed
        /\ Hook(c) => c \notin Observed /\ info'[c] = info[c] /\ info[c] \in Infos
    BY <1>1, <1>4, ObservedGrows
  <2>8. RegistryType' /\ RegistryInv'
    <3>1. CASE Hook(c) /\ config.metrics
      BY <1>1, <1>4, <2>3, <2>7, <3>1, ObserveCounts
    <3>2. CASE ~(Hook(c) /\ config.metrics)
      <4>1. requests' = requests /\ durations' = durations /\ rows' = rows
        BY <2>3, <3>2 DEF registryVars
      <4>2. RegistryType'
        BY <1>1, <4>1 DEF RegistryType
      <4>3. RegistryInv'
        BY <1>1, <1>4, <2>3, <2>7, <3>2, RegistryStays
      <4>4. QED  BY <4>2, <4>3
    <3>3. QED  BY <3>1, <3>2
  <2>9. ASSUME NEW s \in Scrapes PROVE OneScrapeInv(s)'
    <3>1. OneScrapeInv(s)
      BY <1>1
    <3>2. mu = s => config.metrics /\ s # "free"
      BY <1>1, <3>1 DEF OneScrapeInv, Locked
    <3>3. mu = s => Observed' = Observed
      BY <2>3, <2>7, <3>2
    <3>4. Observed \subseteq Observed'
      BY <2>7
    <3>5. QED  BY <1>4, <2>3, <2>7, <3>1, <3>3, <3>4, IdleScrape
  <2>10. QED  BY <2>1, <2>2, <2>5, <2>6, <2>8, <2>9
<1>5. ASSUME NEW s \in Scrapes, ScrapeStep(s), UNCHANGED <<config, input>>
      PROVE  /\ RequestType' /\ RegistryType' /\ ScrapeType' /\ RequestInv' /\ GaugeInv'
             /\ RegistryInv' /\ \A t \in Scrapes : OneScrapeInv(t)'
  <2>1. /\ pc' = pc /\ status' = status /\ info' = info /\ loaded' = loaded /\ inFlight' = inFlight
        /\ requests' = requests /\ durations' = durations /\ rows' = rows
        /\ config' = config /\ input' = input
    <3> USE DEF requestVars, registryVars
    <3>1. CASE BeginScrape(s) \/ EndScrape(s) \/ WriteTimeout(s)
      BY <1>5, <3>1 DEF BeginScrape, EndScrape, WriteTimeout
    <3>2. CASE WriteRequests(s) \/ WriteDurations(s) \/ WriteRows(s)
      BY <1>5, <3>2 DEF WriteRequests, WriteDurations, WriteRows, Write
    <3>3. QED  BY <1>5, <3>1, <3>2 DEF ScrapeStep, Progress
  <2>2. Observed' = Observed
    BY <2>1 DEF Observed
  <2>3. RequestType' /\ RegistryType'
    BY <1>1, <2>1 DEF RequestType, RegistryType
  <2>4. ScrapeType'
    BY <1>1, <1>5, ScrapeStepTypes
  <2>5. RequestInv'
    BY <1>1, <2>1 DEF RequestInv, ClientInv, AnswerInv, Served, Decision
  <2>6. GaugeInv'
    BY <1>1, <2>1 DEF GaugeInv, InFlightExact, Arrived
  <2>7. RegistryInv'
    BY <1>1, <2>1, <2>2, RegistryStays DEF registryVars
  <2>8. OneScrapeInv(s)'
    BY <1>1, <1>5, <2>1, OwnScrape
  <2>9. ASSUME NEW t \in Scrapes, t # s PROVE OneScrapeInv(t)'
    <3>1. /\ scrape'[t] = scrape[t] /\ page'[t] = page[t] /\ seen'[t] = seen[t]
          /\ broken'[t] = broken[t] /\ (mu' = t <=> mu = t)
      BY <1>1, <1>5, <2>9, OtherScrapes
    <3>2. QED  BY <1>1, <2>1, <2>2, <3>1, IdleScrape
  <2>10. QED  BY <2>3, <2>4, <2>5, <2>6, <2>7, <2>8, <2>9
<1>6. QED  BY <1>3, <1>4, <1>5 DEF Next

\* The inductive invariant holds in every reachable state.
THEOREM HTTPSafety == Spec => []HTTPInv
<1>1. QED  BY InitSafe, StepSafe, PTL DEF Spec

\* What is known of a request that has been answered.
LEMMA Answers ==
  ASSUME HTTPInv, NEW c \in Clients, status[c] # "none"
  PROVE  config \in Configs /\ input[c] \in Requests /\ AnswerInv(c)
BY DEF HTTPInv, TypeOK, RequestInv, ClientInv

\* Nothing is written without the update token unless anonymous updates are on,
\* nothing read past a query token without a token (auth.Authorizer, readOnly).
THEOREM TokensAreRequired == Spec => []TokensGuard
<1>1. HTTPInv => TokensGuard
  <2> SUFFICES ASSUME HTTPInv, NEW c \in Clients, Served(c)
               PROVE  LET q == input[c]
                      IN /\ Writes(q) => /\ q.route # "get"
                                         /\ config.anonymous \/ (config.update /\ q.authorization = "update")
                         /\ ~Writes(q) /\ config.query => q.authorization \in Configured
                         /\ Present(q.authorization) /\ Configured # {} => q.authorization \in Configured
    BY DEF TokensGuard
  <2>1. config \in Configs /\ input[c] \in Requests /\ Decision(c) = "ok" /\ ~RefusedByRoute(input[c])
    BY Answers DEF AnswerInv, Served
  <2>2. /\ config.query \in BOOLEAN /\ config.update \in BOOLEAN /\ config.anonymous \in BOOLEAN
        /\ Writes(input[c]) \in BOOLEAN
    BY <2>1 DEF Configs, Writes
  <2>3. QED  BY <2>1, <2>2 DEF Decision, RefusedByRoute, Configured, Authorize, AuthorizeRead,
               AuthorizeWrite, BadToken, IsQuery, IsUpdate, Present, NoCredentials
<1>2. QED  BY <1>1, HTTPSafety, PTL

\* A better token never does worse, and a challenge names what would help (auth.Authorizer).
THEOREM TokensAlwaysHelp == Spec => []TokensHelp
<1> USE DEF Configured, Accepts, Authorize, AuthorizeRead, AuthorizeWrite, BadToken, IsQuery,
            IsUpdate, Present, NoCredentials
<1>1. HTTPInv => AuthorityMonotone
  <2> SUFFICES ASSUME HTTPInv, NEW c \in Clients, Served(c), NEW h \in Configured,
                      input[c].authorization \in NoCredentials \/ h = "update"
               PROVE  Accepts(c, h)
    BY Zenon DEF AuthorityMonotone
  <2>1. config \in Configs /\ input[c] \in Requests /\ Decision(c) = "ok"
    BY Answers DEF AnswerInv, Served
  <2>2. ~(config.update /\ config.anonymous)
    BY <2>1 DEF Configs
  <2>3. QED  BY <2>1, <2>2 DEF Decision
<1>2. HTTPInv => ChallengeHelps
  <2> SUFFICES ASSUME HTTPInv, NEW c \in Clients, status[c] \in {"401", "403"}
               PROVE  LET h == input[c].authorization
                          helpful == \E t \in Configured : Accepts(c, t)
                      IN /\ status[c] = "401" => IF Present(h) THEN h \notin Configured ELSE helpful
                         /\ status[c] = "403" /\ ~Present(h) => ~helpful
    BY DEF ChallengeHelps
  <2>1. config \in Configs /\ input[c] \in Requests /\ AnswerInv(c)
    BY Answers
  <2>2. /\ ~(config.update /\ config.anonymous)
        /\ config.query \in BOOLEAN /\ config.update \in BOOLEAN /\ config.anonymous \in BOOLEAN
        /\ Writes(input[c]) \in BOOLEAN
    BY <2>1 DEF Configs, Writes
  <2>3. CASE status[c] = "401"
    BY <2>1, <2>2, <2>3 DEF AnswerInv, Decision
  <2>4. CASE status[c] = "403"
    BY <2>1, <2>2, <2>4 DEF AnswerInv, Decision
  <2>5. QED  BY <2>3, <2>4
<1>3. QED  BY <1>1, <1>2, HTTPSafety, PTL DEF TokensHelp

\* The scan of Accept-Encoding never takes a refusal for an offer (httpx.AcceptsGzip).
LEMMA GzipIsAsked ==
  ASSUME NEW accept, AcceptsGzip(accept)
  PROVE  LET listed(name) == {p \in Range(accept) : p.name = name}
         IN  \E p \in listed("gzip") \cup (IF listed("gzip") = {} THEN listed("*") ELSE {}) : p.q
<1> DEFINE E(name) == {i \in DOMAIN accept : accept[i].name = name}
           listed(name) == {p \in Range(accept) : p.name = name}
<1>1. \A i \in DOMAIN accept : accept[i] \in Range(accept)
  BY DEF Range
<1>2. E("gzip") = {} => listed("gzip") = {}
  BY DEF Range
<1>3. CASE E("gzip") # {}
  BY <1>1, <1>3 DEF AcceptsGzip
<1>4. CASE E("gzip") = {}
  BY <1>1, <1>2, <1>4 DEF AcceptsGzip
<1>5. QED  BY <1>3, <1>4

\* Only clients that ask for it get a compressed response (httpx.Gzip).
THEOREM GzipRefusalsRespected == Spec => []GzipRefusalRespected
<1>1. GzipRefusalRespected
  BY GzipIsAsked DEF GzipRefusalRespected
<1>2. QED  BY <1>1, PTL

\* The gauge and every complete page count exactly the requests there were, all
\* series the same ones (Registry.Track, Observe and Write).
THEOREM MetricsAreExact == Spec => []MetricsExact
<1>1. HTTPInv => ScrapeExact
  <2> SUFFICES ASSUME HTTPInv, NEW s \in Scrapes, scrape[s] \in {"gauges", "done"}, ~broken[s]
               PROVE  \E W \in SUBSET Observed :
                        /\ seen[s] \subseteq W
                        /\ \A op \in Ops :
                             /\ \A st \in Statuses :
                                  page[s].requests[<<op, st>>] = Counted(W, op, LAMBDA i : i.status = st)
                             /\ \A b \in DOMAIN Buckets :
                                  page[s].durations[op][b] = Counted(W, op, LAMBDA i : i.secs <= Buckets[b])
                             /\ page[s].durations[op][Len(Buckets) + 1] = Counted(W, op, LAMBDA i : TRUE)
                             /\ page[s].rows[op] =
                                  Counted(W, op, LAMBDA i : i.status = "200" /\ i.rows = 1)
    BY DEF ScrapeExact
  <2> DEFINE W == seen[s]
             n == Len(Buckets)
  <2>1. /\ W \subseteq Observed
        /\ \A op \in Ops :
             /\ \A st \in Statuses : page[s].requests[<<op, st>>] = Cardinality(ByStatus(W, op, st))
             /\ page[s].durations[op] = [b \in 1..n + 1 |-> Cardinality(UpTo(W, op, b))]
             /\ page[s].rows[op] = Cardinality(ByRows(W, op))
    BY DEF HTTPInv, ScrapeInv, RequestsOf, DurationsOf, RowsOf, Locked
  <2>2. n \in Nat /\ DOMAIN Buckets = 1..n
    BY RequestsAssumption
  <2>3. \A c \in W : info[c].secs \in Durations
    <3>1. SUFFICES ASSUME NEW c \in W PROVE info[c].secs \in Durations
      OBVIOUS
    <3>2. info[c] \in Infos
      BY <2>1, <3>1 DEF HTTPInv, TypeOK, Observed
    <3>3. QED  BY <3>2 DEF Infos
  <2> HIDE DEF W, n
  <2>4. ASSUME NEW op \in Ops, NEW b \in DOMAIN Buckets
        PROVE  page[s].durations[op][b] = Cardinality({c \in W : info[c].op = op /\ info[c].secs <= Buckets[b]})
    <3>1. \A c \in W : Bucket(info[c].secs) <= b <=> info[c].secs <= Buckets[b]
      BY <2>3, BucketBound
    <3>2. UpTo(W, op, b) = {c \in W : info[c].op = op /\ info[c].secs <= Buckets[b]}
      BY <3>1 DEF UpTo
    <3>3. page[s].durations[op] = [k \in 1..n + 1 |-> Cardinality(UpTo(W, op, k))] /\ b \in 1..n + 1
      BY <2>1, <2>2
    <3>4. page[s].durations[op][b] = Cardinality(UpTo(W, op, b))
      BY <3>3
    <3>5. QED  BY <3>2, <3>4
  <2>5. ASSUME NEW op \in Ops
        PROVE  page[s].durations[op][n + 1] = Cardinality({c \in W : info[c].op = op /\ TRUE})
    <3>1. \A c \in W : Bucket(info[c].secs) <= n + 1
      BY <2>2, <2>3, BucketRange DEF n
    <3>2. UpTo(W, op, n + 1) = {c \in W : info[c].op = op /\ TRUE}
      BY <3>1 DEF UpTo
    <3>3. page[s].durations[op] = [k \in 1..n + 1 |-> Cardinality(UpTo(W, op, k))] /\ n + 1 \in 1..n + 1
      BY <2>1, <2>2
    <3>4. page[s].durations[op][n + 1] = Cardinality(UpTo(W, op, n + 1))
      BY <3>3
    <3>5. QED  BY <3>2, <3>4
  <2>6. ASSUME NEW op \in Ops
        PROVE  /\ \A st \in Statuses : page[s].requests[<<op, st>>] = Counted(W, op, LAMBDA i : i.status = st)
               /\ \A b \in DOMAIN Buckets :
                    page[s].durations[op][b] = Counted(W, op, LAMBDA i : i.secs <= Buckets[b])
               /\ page[s].durations[op][Len(Buckets) + 1] = Counted(W, op, LAMBDA i : TRUE)
               /\ page[s].rows[op] = Counted(W, op, LAMBDA i : i.status = "200" /\ i.rows = 1)
    <3>1. \A st \in Statuses : page[s].requests[<<op, st>>] = Counted(W, op, LAMBDA i : i.status = st)
      BY <2>1 DEF Counted, ByStatus
    <3>2. \A b \in DOMAIN Buckets :
            page[s].durations[op][b] = Counted(W, op, LAMBDA i : i.secs <= Buckets[b])
      BY <2>4 DEF Counted
    <3>3. page[s].durations[op][Len(Buckets) + 1] = Counted(W, op, LAMBDA i : TRUE)
      BY <2>5 DEF Counted, n
    <3>4. page[s].rows[op] = Counted(W, op, LAMBDA i : i.status = "200" /\ i.rows = 1)
      BY <2>1 DEF Counted, ByRows
    <3>5. QED  BY <3>1, <3>2, <3>3, <3>4
  <2>7. QED  BY <2>1, <2>6, Zenon DEF W
<1>2. HTTPInv => InFlightExact
  BY DEF HTTPInv, GaugeInv
<1>3. QED  BY <1>1, <1>2, HTTPSafety, PTL DEF MetricsExact
=============================================================================
