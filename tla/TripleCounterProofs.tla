------------------------ MODULE TripleCounterProofs ------------------------
(***************************************************************************)
(* The cached triple count, for any writers, any scrapers and any amount   *)
(* of data.  The inductive invariant has these parts, each proved on top   *)
(* of those before it: types (TypeOK), who holds the counter's mutex       *)
(* (MutexInv), what the hooks have announced (HookInv) and what the cache  *)
(* and the count under way know of it (CountInv).                          *)
(***************************************************************************)
EXTENDS TripleCounter, TLAPS

InMutex == {"swap", "wait", "count", "store"}

\* One scrape at a time is past the mutex, and none before the data is loaded.
MutexInv ==
  /\ \A s \in Scrapers : scrape[s] \in InMutex <=> holder = s
  /\ ~loaded => /\ \A s \in Scrapers : scrape[s] = "idle"
                /\ \A w \in Writers : write[w] = "idle"
                /\ ~valid

\* No hook announces what is not applied, no scrape starts with more than that.
HookInv ==
  /\ hooked <= version
  /\ \A w \in Writers : wrote[w] <= version
  /\ \A s \in Scrapers : floor[s] <= hooked

\* A value n that no flag calls dirty: it has every announced write, and if it
\* lacks any other, then that one is still to be announced.
Current(n) == n >= hooked /\ (n = version \/ Unannounced)

\* The cached value is judged unless a count that replaces it is under way; the
\* count is judged once it is taken.
CountInv ==
  /\ valid /\ ~dirty /\ (\A s \in Scrapers : scrape[s] \notin InMutex \ {"swap"}) => Current(cached)
  /\ \A s \in Scrapers : scrape[s] = "store" => /\ count[s] >= floor[s]
                                                /\ ~dirty => Current(count[s])

\* The inductive invariant.
CounterInv == TypeOK /\ MutexInv /\ HookInv /\ CountInv /\ ScrapeSeesFinishedWrites
-----------------------------------------------------------------------------
\* Who waits for the mutex is never taken for nobody.
LEMMA NobodyScrapes == "nobody" \notin Scrapers
BY CounterAssumption

\* One case per action; a stuttering step is the last one.
LEMMA NextCases ==
  ASSUME [Next]_vars
  PROVE  \/ LoadData \/ Publish
         \/ \E w \in Writers : BeginWrite(w) \/ ApplyOp(w) \/ EndWrite(w)
         \/ \E w \in Writers : HookDone(w) /\ dirty' = TRUE
         \/ \E s \in Scrapers : GetUnloaded(s) \/ Get(s) \/ LockMutex(s)
         \/ \E s \in Scrapers : UseCached(s) \/ Swap(s) \/ BeginCount(s)
         \/ \E s \in Scrapers : EndCount(s) \/ Store(s) \/ Timeout(s)
         \/ UNCHANGED vars
BY Zenon DEF Next, WriteStep, ScrapeStep, Hook

\* Every step keeps the types.
LEMMA TypeStep ==
  ASSUME CounterInv, [Next]_vars
  PROVE  TypeOK'
<1> USE CounterAssumption DEF CounterInv, TypeOK, Answers, Return, Lock!AcquireRead, Lock!AcquireWrite, Lock!Release, vars, cacheVars, writeVars, scrapeVars, lockVars
<1>1. CASE LoadData \/ Publish
  <2>1. CASE LoadData
    BY <2>1 DEF LoadData
  <2>2. CASE Publish
    BY <2>2 DEF Publish
  <2>3. QED  BY <1>1, <2>1, <2>2
<1>2. ASSUME NEW w \in Writers, BeginWrite(w) \/ ApplyOp(w) \/ EndWrite(w)
      PROVE  TypeOK'
  <2>1. CASE BeginWrite(w)
    BY <2>1 DEF BeginWrite
  <2>2. CASE ApplyOp(w)
    BY <2>2 DEF ApplyOp
  <2>3. CASE EndWrite(w)
    BY <2>3 DEF EndWrite
  <2>4. QED  BY <1>2, <2>1, <2>2, <2>3
<1>3. ASSUME NEW w \in Writers, HookDone(w), dirty' = TRUE
      PROVE  TypeOK'
  BY <1>3 DEF HookDone
<1>4. ASSUME NEW s \in Scrapers, GetUnloaded(s) \/ Get(s) \/ LockMutex(s)
      PROVE  TypeOK'
  <2>1. CASE GetUnloaded(s)
    BY <2>1 DEF GetUnloaded
  <2>2. CASE Get(s)
    BY <2>2 DEF Get
  <2>3. CASE LockMutex(s)
    BY <2>3 DEF LockMutex
  <2>4. QED  BY <1>4, <2>1, <2>2, <2>3
<1>5. ASSUME NEW s \in Scrapers, UseCached(s) \/ Swap(s) \/ BeginCount(s)
      PROVE  TypeOK'
  <2>1. CASE UseCached(s)
    BY <2>1 DEF UseCached
  <2>2. CASE Swap(s)
    BY <2>2 DEF Swap
  <2>3. CASE BeginCount(s)
    BY <2>3 DEF BeginCount
  <2>4. QED  BY <1>5, <2>1, <2>2, <2>3
<1>6. ASSUME NEW s \in Scrapers, EndCount(s) \/ Store(s) \/ Timeout(s)
      PROVE  TypeOK'
  <2>1. CASE EndCount(s)
    BY <2>1 DEF EndCount
  <2>2. CASE Store(s)
    BY <2>2 DEF Store
  <2>3. CASE Timeout(s)
    BY <2>3 DEF Timeout
  <2>4. QED  BY <1>6, <2>1, <2>2, <2>3
<1>7. CASE UNCHANGED vars
  BY <1>7
<1>8. QED  BY <1>1, <1>2, <1>3, <1>4, <1>5, <1>6, <1>7, NextCases

\* The mutex changes hands only between holder and nobody.
LEMMA MutexStep ==
  ASSUME CounterInv, [Next]_vars
  PROVE  MutexInv'
<1> USE NobodyScrapes DEF CounterInv, TypeOK, MutexInv, InMutex, Return, vars, cacheVars, writeVars, scrapeVars, lockVars
<1>1. CASE LoadData \/ Publish
  BY <1>1 DEF LoadData, Publish
<1>2. ASSUME NEW w \in Writers, BeginWrite(w) \/ ApplyOp(w) \/ EndWrite(w)
      PROVE  MutexInv'
  <2>1. CASE BeginWrite(w)
    BY <2>1 DEF BeginWrite
  <2>2. CASE ApplyOp(w)
    BY <2>2 DEF ApplyOp
  <2>3. CASE EndWrite(w)
    BY <2>3 DEF EndWrite
  <2>4. QED  BY <1>2, <2>1, <2>2, <2>3
<1>3. ASSUME NEW w \in Writers, HookDone(w), dirty' = TRUE
      PROVE  MutexInv'
  BY <1>3 DEF HookDone
<1>4. ASSUME NEW s \in Scrapers, GetUnloaded(s) \/ Get(s) \/ LockMutex(s)
      PROVE  MutexInv'
  <2>1. CASE GetUnloaded(s)
    BY <2>1 DEF GetUnloaded
  <2>2. CASE Get(s)
    BY <2>2 DEF Get
  <2>3. CASE LockMutex(s)
    BY <2>3 DEF LockMutex
  <2>4. QED  BY <1>4, <2>1, <2>2, <2>3
<1>5. ASSUME NEW s \in Scrapers, UseCached(s) \/ Swap(s) \/ BeginCount(s)
      PROVE  MutexInv'
  <2>1. CASE UseCached(s)
    BY <2>1 DEF UseCached
  <2>2. CASE Swap(s)
    BY <2>2 DEF Swap
  <2>3. CASE BeginCount(s)
    BY <2>3 DEF BeginCount
  <2>4. QED  BY <1>5, <2>1, <2>2, <2>3
<1>6. ASSUME NEW s \in Scrapers, EndCount(s) \/ Store(s) \/ Timeout(s)
      PROVE  MutexInv'
  <2>1. CASE EndCount(s)
    BY <2>1 DEF EndCount
  <2>2. CASE Store(s)
    BY <2>2 DEF Store
  <2>3. CASE Timeout(s)
    BY <2>3 DEF Timeout
  <2>4. QED  BY <1>6, <2>1, <2>2, <2>3
<1>7. CASE UNCHANGED vars
  BY <1>7
<1>8. QED  BY <1>1, <1>2, <1>3, <1>4, <1>5, <1>6, <1>7, NextCases

\* What is announced was applied before.
LEMMA HookStep ==
  ASSUME CounterInv, [Next]_vars
  PROVE  HookInv'
<1> USE DEF CounterInv, TypeOK, HookInv, Return, vars, cacheVars, writeVars, scrapeVars, lockVars
<1>1. CASE LoadData \/ Publish
  BY <1>1 DEF LoadData, Publish
<1>2. ASSUME NEW w \in Writers, BeginWrite(w) \/ ApplyOp(w) \/ EndWrite(w)
      PROVE  HookInv'
  <2>1. CASE BeginWrite(w)
    BY <2>1 DEF BeginWrite
  <2>2. CASE ApplyOp(w)
    BY <2>2 DEF ApplyOp
  <2>3. CASE EndWrite(w)
    BY <2>3 DEF EndWrite
  <2>4. QED  BY <1>2, <2>1, <2>2, <2>3
<1>3. ASSUME NEW w \in Writers, HookDone(w), dirty' = TRUE
      PROVE  HookInv'
  BY <1>3 DEF HookDone
<1>4. ASSUME NEW s \in Scrapers, GetUnloaded(s) \/ Get(s) \/ LockMutex(s)
      PROVE  HookInv'
  <2>1. CASE GetUnloaded(s)
    BY <2>1 DEF GetUnloaded
  <2>2. CASE Get(s)
    BY <2>2 DEF Get
  <2>3. CASE LockMutex(s)
    BY <2>3 DEF LockMutex
  <2>4. QED  BY <1>4, <2>1, <2>2, <2>3
<1>5. ASSUME NEW s \in Scrapers, UseCached(s) \/ Swap(s) \/ BeginCount(s)
      PROVE  HookInv'
  <2>1. CASE UseCached(s)
    BY <2>1 DEF UseCached
  <2>2. CASE Swap(s)
    BY <2>2 DEF Swap
  <2>3. CASE BeginCount(s)
    BY <2>3 DEF BeginCount
  <2>4. QED  BY <1>5, <2>1, <2>2, <2>3
<1>6. ASSUME NEW s \in Scrapers, EndCount(s) \/ Store(s) \/ Timeout(s)
      PROVE  HookInv'
  <2>1. CASE EndCount(s)
    BY <2>1 DEF EndCount
  <2>2. CASE Store(s)
    BY <2>2 DEF Store
  <2>3. CASE Timeout(s)
    BY <2>3 DEF Timeout
  <2>4. QED  BY <1>6, <2>1, <2>2, <2>3
<1>7. CASE UNCHANGED vars
  BY <1>7
<1>8. QED  BY <1>1, <1>2, <1>3, <1>4, <1>5, <1>6, <1>7, NextCases

\* The cache and the count know what no flag calls dirty.
LEMMA CountStep ==
  ASSUME CounterInv, TypeOK', [Next]_vars
  PROVE  CountInv'
<1> USE DEF CounterInv, TypeOK, MutexInv, HookInv, CountInv, Current, Unannounced, InMutex, Return, vars, cacheVars, writeVars, scrapeVars, lockVars
<1>1. CASE LoadData \/ Publish
  BY <1>1 DEF LoadData, Publish
<1>2. ASSUME NEW w \in Writers, BeginWrite(w) \/ ApplyOp(w) \/ EndWrite(w)
      PROVE  CountInv'
  <2>1. CASE BeginWrite(w)
    BY <2>1 DEF BeginWrite
  <2>2. CASE ApplyOp(w)
    BY <2>2 DEF ApplyOp
  <2>3. CASE EndWrite(w)
    BY <2>3 DEF EndWrite
  <2>4. QED  BY <1>2, <2>1, <2>2, <2>3
<1>3. ASSUME NEW w \in Writers, HookDone(w), dirty' = TRUE
      PROVE  CountInv'
  BY <1>3 DEF HookDone
<1>4. ASSUME NEW s \in Scrapers, GetUnloaded(s) \/ Get(s) \/ LockMutex(s)
      PROVE  CountInv'
  <2>1. CASE GetUnloaded(s)
    BY <2>1 DEF GetUnloaded
  <2>2. CASE Get(s)
    BY <2>2 DEF Get
  <2>3. CASE LockMutex(s)
    BY <2>3 DEF LockMutex
  <2>4. QED  BY <1>4, <2>1, <2>2, <2>3
<1>5. ASSUME NEW s \in Scrapers, UseCached(s) \/ Swap(s) \/ BeginCount(s)
      PROVE  CountInv'
  <2>1. CASE UseCached(s)
    BY <2>1 DEF UseCached
  <2>2. CASE Swap(s)
    BY <2>2 DEF Swap
  <2>3. CASE BeginCount(s)
    BY <2>3 DEF BeginCount
  <2>4. QED  BY <1>5, <2>1, <2>2, <2>3
<1>6. ASSUME NEW s \in Scrapers, EndCount(s) \/ Store(s) \/ Timeout(s)
      PROVE  CountInv'
  <2>1. CASE EndCount(s)
    BY <2>1 DEF EndCount
  <2>2. CASE Store(s)
    BY <2>2 DEF Store
  <2>3. CASE Timeout(s)
    BY <2>3 DEF Timeout
  <2>4. QED  BY <1>6, <2>1, <2>2, <2>3
<1>7. CASE UNCHANGED vars
  BY <1>7
<1>8. QED  BY <1>1, <1>2, <1>3, <1>4, <1>5, <1>6, <1>7, NextCases

\* What a scrape answers is the cache or the count.
LEMMA AnswerStep ==
  ASSUME CounterInv, [Next]_vars
  PROVE  ScrapeSeesFinishedWrites'
<1> USE DEF CounterInv, TypeOK, MutexInv, HookInv, CountInv, Current, InMutex, ScrapeSeesFinishedWrites, Return, vars, cacheVars, writeVars, scrapeVars, lockVars
<1>1. CASE LoadData \/ Publish
  BY <1>1 DEF LoadData, Publish
<1>2. ASSUME NEW w \in Writers, BeginWrite(w) \/ ApplyOp(w) \/ EndWrite(w)
      PROVE  ScrapeSeesFinishedWrites'
  <2>1. CASE BeginWrite(w)
    BY <2>1 DEF BeginWrite
  <2>2. CASE ApplyOp(w)
    BY <2>2 DEF ApplyOp
  <2>3. CASE EndWrite(w)
    BY <2>3 DEF EndWrite
  <2>4. QED  BY <1>2, <2>1, <2>2, <2>3
<1>3. ASSUME NEW w \in Writers, HookDone(w), dirty' = TRUE
      PROVE  ScrapeSeesFinishedWrites'
  BY <1>3 DEF HookDone
<1>4. ASSUME NEW s \in Scrapers, GetUnloaded(s) \/ Get(s) \/ LockMutex(s)
      PROVE  ScrapeSeesFinishedWrites'
  <2>1. CASE GetUnloaded(s)
    BY <2>1 DEF GetUnloaded
  <2>2. CASE Get(s)
    BY <2>2 DEF Get
  <2>3. CASE LockMutex(s)
    BY <2>3 DEF LockMutex
  <2>4. QED  BY <1>4, <2>1, <2>2, <2>3
<1>5. ASSUME NEW s \in Scrapers, UseCached(s) \/ Swap(s) \/ BeginCount(s)
      PROVE  ScrapeSeesFinishedWrites'
  <2>1. CASE UseCached(s)
    BY <2>1 DEF UseCached
  <2>2. CASE Swap(s)
    BY <2>2 DEF Swap
  <2>3. CASE BeginCount(s)
    BY <2>3 DEF BeginCount
  <2>4. QED  BY <1>5, <2>1, <2>2, <2>3
<1>6. ASSUME NEW s \in Scrapers, EndCount(s) \/ Store(s) \/ Timeout(s)
      PROVE  ScrapeSeesFinishedWrites'
  <2>1. CASE EndCount(s)
    BY <2>1 DEF EndCount
  <2>2. CASE Store(s)
    BY <2>2 DEF Store
  <2>3. CASE Timeout(s)
    BY <2>3 DEF Timeout
  <2>4. QED  BY <1>6, <2>1, <2>2, <2>3
<1>7. CASE UNCHANGED vars
  BY <1>7
<1>8. QED  BY <1>1, <1>2, <1>3, <1>4, <1>5, <1>6, <1>7, NextCases
-----------------------------------------------------------------------------
\* No interleaving of writers, hooks, scrapes and timeouts breaks the invariant.
THEOREM CounterSafety == Spec => []CounterInv
<1>1. Init => CounterInv
  <2> SUFFICES ASSUME Init
               PROVE  CounterInv
    OBVIOUS
  <2>1. TypeOK
    <3>1. answer \in [Scrapers -> Answers]
      <4>1. [n |-> 0, ok |-> FALSE, counted |-> FALSE] \in Answers
        BY DEF Answers
      <4>2. QED  BY <4>1 DEF Init
    <3>2. /\ ops \in [Writers -> 0..MaxOps] /\ wrote \in [Writers -> Nat]
          /\ count \in [Scrapers -> Nat] /\ floor \in [Scrapers -> Nat]
      BY CounterAssumption DEF Init
    <3>3. /\ write \in [Writers -> {"idle", "writing", "hook", "done"}]
          /\ scrape \in [Scrapers -> {"idle", "mutex", "swap", "wait", "count", "store"}]
      BY DEF Init
    <3>4. QED  BY <3>1, <3>2, <3>3 DEF Init, TypeOK, Lock!LockInit
  <2>2. MutexInv
    BY NobodyScrapes DEF Init, MutexInv, InMutex
  <2>3. HookInv /\ CountInv /\ ScrapeSeesFinishedWrites
    BY DEF Init, HookInv, CountInv, ScrapeSeesFinishedWrites
  <2>4. QED  BY <2>1, <2>2, <2>3 DEF CounterInv
<1>2. CounterInv /\ [Next]_vars => CounterInv'
  BY TypeStep, MutexStep, HookStep, CountStep, AnswerStep DEF CounterInv
<1>3. QED  BY <1>1, <1>2, PTL DEF Spec

\* A clean cache is right, or the write that made it wrong is still to mark it:
\* dirty.Swap before the count and the hook after the write leave no gap, however
\* many scrapes and writes overlap (tripleCounter.get, the request hook).
THEOREM CacheIsFresh == Spec => []CacheFresh
<1>1. CounterInv => CacheFresh
  BY NobodyScrapes
  DEF CounterInv, TypeOK, MutexInv, CountInv, Current, InMutex, CacheFresh
<1>2. QED  BY <1>1, CounterSafety, PTL

\* A scrape that counted reports every write whose hook ran before it asked.
THEOREM ScrapesAreCurrent == Spec => []ScrapeSeesFinishedWrites
<1>1. CounterInv => ScrapeSeesFinishedWrites
  BY DEF CounterInv
<1>2. QED  BY <1>1, CounterSafety, PTL
=============================================================================
