---------------------------- MODULE ServerProofs ----------------------------
(***************************************************************************)
(* The safety properties of Server, for any clients and any startup data.  *)
(* The inductive invariant has these parts, each proved on top of those     *)
(* before it: who holds the dataset's lock (LockInv), what each phase of   *)
(* Run has established (PhaseInv), what the gate and the loaded flag       *)
(* promise (DataInv), how the load's error reaches Run (ErrorInv) and      *)
(* where applied updates are (WriteInv).                                   *)
(***************************************************************************)
EXTENDS Server, TLAPS

\* The lock's holders are the actors that are inside the dataset.
LockInv ==
  /\ \A c \in Clients : client[c] = "evaluating" => c \in readers \cup writers
  /\ \A c \in Clients : client[c] = "applied" => c \in writers /\ c \in Updates
  /\ \A c \in Clients : c \in readers \cup writers => client[c] \in {"evaluating", "applied"}
  /\ readers \cap Updates = {}
  /\ "load" \in readers \cup writers <=> load \in {"loading", "counting"}
  /\ "run" \in writers <=> run = "closing"
  /\ readers = {} \/ writers = {}
  /\ \A p, q \in writers : p = q

Drain == {"waitLoad", "close", "closing", "return", "returned"}
Closed == {"return", "returned"}

\* What Run has established once it is past the drain: either no handler is
\* left, or all are cancelled and their connections cut.
PhaseInv ==
  /\ run = "start" => store = "none"
  /\ run \notin {"start", "return", "returned"} => store = "open"
  /\ run \in Closed => store # "open"
  /\ run = "return" => store = "closed"
  /\ closeErr => run \in Closed /\ runErr # "nil"
  /\ run \in {"start", "setup"} => load = "off"
  /\ load = "off" => run \in {"start", "setup", "returned"}
  /\ load = "off" => \A c \in Clients : client[c] = "idle"
  /\ run \in Drain \ {"waitLoad"} => load \in {"off", "done"}
  /\ loadResult # "none" => load = "done"
  /\ wake = "load" => load = "done"
  /\ loadPending \/ load = "done"
  /\ run = "closeConns" => baseCanceled
  /\ connsClosed => run \in Drain /\ baseCanceled
  /\ run \in Drain /\ ~connsClosed => \A c \in Clients : client[c] \notin Waiting
  /\ forced => connsClosed
  /\ stopping => run \in {"shutdown", "drain", "closeConns"} \cup Drain
  /\ run \in {"shutdown", "drain", "closeConns"} \cup (Drain \ {"returned"}) => stopping

\* loaded is set after the last batch, and nothing gets past it before.
DataInv ==
  /\ loaded => batches = data /\ load \in {"count", "counting", "done"}
  /\ load = "publish" => batches = data
  /\ loadResult \in {"failed", "canceled"} => ~loaded
  /\ \A c \in Requests : client[c] \in Waiting \cup {"ok"} => loaded
  /\ \A p \in Checks : check[p] = "ready" => loaded
  /\ \A g \in Gauges : check[g] = "checked" => loaded
  /\ loaded /\ ~stopping => everReady
  /\ GaugeReady

\* A failure of the load, once received or waited for, is in runErr.
ErrorInv ==
  /\ loadResult = "failed" /\ (~loadPending \/ run \in Drain \ {"waitLoad"}) => runErr # "nil"
  /\ data = 0 => load # "loading" /\ loadResult \in {"none", "ok"}
                    /\ runErr \notin {"load", "canceled"}

\* An update that has applied its operations has them in the store, unless
\* its client is gone.
WriteInv ==
  /\ \A u \in Updates : client[u] = "applied" /\ ~connsClosed => u \in applied
  /\ AckedWriteApplied

\* The inductive invariant.
SafetyInv == /\ StatesOK /\ LockInv /\ PhaseInv /\ DataInv /\ ErrorInv /\ WriteInv
             /\ EvaluationEndsBeforeClose
-----------------------------------------------------------------------------
\* Every step keeps the flags Boolean.
LEMMA FlagsStep ==
  ASSUME FlagsOK, [Next]_vars
  PROVE  FlagsOK'
<1> USE DEF FlagsOK, serverVars, mainVars, cancelVars, flagVars, loadVars, storeVars, lockVars, vars
<1>1. CASE Signal \/ ServeFails
  <2>1. CASE Signal
    BY <2>1, Zenon DEF Signal
  <2>2. CASE ServeFails
    BY <2>2, Zenon DEF ServeFails
  <2>3. QED
    BY <1>1, <2>1, <2>2
<1>2. CASE RunStep
  <2>1. UNCHANGED <<loaded, everReady, loadResult, data, batches, applied, client, check>>
    BY <1>2, Zenon DEF RunStep
  <2>2. CASE OpenFails \/ Open \/ Listen
    <3>1. CASE OpenFails
      BY <2>1, <3>1, Zenon DEF OpenFails
    <3>2. CASE Open
      BY <2>1, <3>2, Zenon DEF Open
    <3>3. CASE Listen
      BY <2>1, <3>3, Zenon DEF Listen
    <3>4. QED
      BY <2>2, <3>1, <3>2, <3>3
  <2>3. CASE SetupFails
    BY <2>1, <2>3, Zenon DEF SetupFails, CloseOnce, Deferred
  <2>4. CASE Park \/ SelectCtx \/ SelectServe
    <3>1. CASE Park
      BY <2>1, <3>1, Zenon DEF Park, selectVars
    <3>2. CASE SelectCtx
      BY <2>1, <3>2, Zenon DEF SelectCtx, selectVars
    <3>3. CASE SelectServe
      BY <2>1, <3>3, Zenon DEF SelectServe, selectVars
    <3>4. QED
      BY <2>4, <3>1, <3>2, <3>3
  <2>5. CASE SelectLoad
    BY <2>1, <2>5, ZenonT(30) DEF SelectLoad, Chosen, Ready, AfterLoad, LoadError, selectVars
  <2>6. CASE MarkStopping \/ StartDrain
    BY <2>1, <2>6, ZenonT(30) DEF MarkStopping, StartDrain
  <2>7. CASE DrainDone \/ DrainTimeout \/ CloseConns
    <3>1. CASE DrainDone \/ CloseConns
      BY <2>1, <3>1, ZenonT(30) DEF DrainDone, CloseConns, CutConns, drainVars
    <3>2. CASE DrainTimeout
      BY <2>1, <3>2, Zenon DEF DrainTimeout, CancelBase, drainVars
    <3>3. QED
      BY <2>7, <3>1, <3>2
  <2>8. CASE AwaitLoad \/ Return
    BY <2>1, <2>8, ZenonT(30)
    DEF AwaitLoad, Return, LoadAwaited, AwaitedError, CloseOnce, Deferred, drainVars
  <2>9. CASE LockForClose \/ CloseStore \/ CloseAnyway
    <3>1. CASE LockForClose
      BY <2>1, <3>1, Zenon DEF LockForClose, closeVars
    <3>2. CASE CloseStore
      BY <2>1, <3>2, Zenon DEF CloseStore, CloseIt, CloseOnce, closeVars
    <3>3. CASE CloseAnyway
      BY <2>1, <3>3, Zenon DEF CloseAnyway, CloseIt, CloseOnce, closeVars
    <3>4. QED
      BY <2>9, <3>1, <3>2, <3>3
  <2>10. QED
    BY <1>2, <2>2, <2>3, <2>4, <2>5, <2>6, <2>7, <2>8, <2>9, Zenon DEF RunStep
<1>3. CASE LoadStep
  <2>1. UNCHANGED <<run, runErr, loadPending, forced, closeErr, cancelVars, stopping, serve,
                     data, storeVars, client, check>>
    BY <1>3, Zenon DEF LoadStep, LoaderStep
  <2>2. CASE LoadSkip \/ LoadLock \/ LoadLockCanceled
    BY <2>1, <2>2, ZenonT(30)
    DEF LoadSkip, LoadLock, LoadLockCanceled, NeedsLock, LoadCtxDone, Goto, Finish, Notify,
        Lock!AcquireWrite, Lock!LockFree
  <2>3. CASE Publish
    BY <2>1, <2>3, Zenon DEF Publish, Goto
  <2>4. CASE CountLock \/ CountSkip \/ CountDone
    BY <2>1, <2>4, ZenonT(30)
    DEF CountLock, CountSkip, CountDone, Goto, Finish, Notify, Lock!AcquireRead, Lock!Release
  <2>5. QED
    BY <1>3, <2>2, <2>3, <2>4, Zenon DEF LoadStep, LoaderStep
<1>4. CASE ReadStep
  <2>1. UNCHANGED <<run, runErr, loadPending, forced, closeErr, cancelVars, stopping, serve,
                     data, storeVars, client, check>>
    BY <1>4, Zenon DEF ReadStep, LoaderStep
  <2>2. CASE LoadBatch \/ LoadComplete
    <3>1. CASE LoadBatch
      BY <2>1, <3>1, Zenon DEF LoadBatch
    <3>2. CASE LoadComplete
      BY <2>1, <3>2, Zenon DEF LoadComplete, Goto
    <3>3. QED
      BY <2>2, <3>1, <3>2
  <2>3. CASE LoadFails
    BY <2>1, <2>3, Zenon DEF LoadFails, LoadCtxDone, Finish, Notify, Lock!Release
  <2>4. QED
    BY <1>4, <2>2, <2>3, Zenon DEF ReadStep, LoaderStep
<1>5. CASE ClientStep
  <2> PICK c \in Clients :
        \/ Refuse(c) \/ Reject(c) \/ Admit(c) \/ Begin(c) \/ GiveUp(c)
        \/ Apply(c) \/ Succeed(c) \/ Fail(c)
        \/ ScrapeCached(c) \/ ScrapeCount(c) \/ ScrapeBegin(c)
        \/ ScrapeTimeout(c) \/ ScrapeEnd(c)
    BY <1>5, Zenon DEF ClientStep
  <2>1. UNCHANGED <<serverVars, store, check>>
    BY <1>5, Zenon DEF ClientStep
  <2>2. CASE Refuse(c) \/ Reject(c) \/ GiveUp(c)
    BY <2>1, <2>2, Zenon DEF Refuse, Reject, GiveUp, Move, Answer, Reachable
  <2>3. CASE Admit(c) \/ ScrapeCount(c)
    BY <2>1, <2>3, Zenon DEF Admit, ScrapeCount, Move, GateOpen, Reachable
  <2>4. CASE ScrapeCached(c) \/ ScrapeTimeout(c)
    BY <2>1, <2>4, Zenon DEF ScrapeCached, ScrapeTimeout, Move, Answer, Reachable
  <2>5. CASE Begin(c) \/ ScrapeBegin(c)
    BY <2>1, <2>5, Zenon
    DEF Begin, ScrapeBegin, Move, Lock!AcquireRead, Lock!AcquireWrite, Lock!LockFree
  <2>6. CASE Apply(c)
    BY <2>1, <2>6, Zenon DEF Apply, Move
  <2>7. CASE Succeed(c) \/ Fail(c) \/ ScrapeEnd(c)
    BY <2>1, <2>7, ZenonT(30) DEF Succeed, Fail, ScrapeEnd, Move, Answer, Lock!Release
  <2>8. QED
    BY <2>2, <2>3, <2>4, <2>5, <2>6, <2>7, Zenon
<1>6. CASE CheckStep
  BY <1>6, Zenon DEF CheckStep, CheckFirst, CheckSecond, FirstRead, SecondRead, Reachable
<1>7. CASE Terminated \/ UNCHANGED vars
  BY <1>7, ZenonT(30) DEF Terminated
<1>8. QED
  BY <1>1, <1>2, <1>3, <1>4, <1>5, <1>6, <1>7, Zenon DEF Next

\* Every step keeps the types of the states, data and lock.
LEMMA StatesStep ==
  ASSUME StatesOK, [Next]_vars
  PROVE  StatesOK'
<1> USE ServerAssumption
    DEF StatesOK, RunStates, Events, Waiting, Requests, Clients, Checks, serverVars, mainVars,
        cancelVars, flagVars, loadVars, storeVars, lockVars, vars
<1>1. CASE Signal \/ ServeFails
  BY <1>1 DEF Signal, ServeFails, Notify
<1>2. CASE RunStep
  <2>1. UNCHANGED <<loaded, everReady, loadResult, data, batches, applied, client, check>>
    BY <1>2 DEF RunStep
  <2>2. CASE OpenFails \/ Open \/ SetupFails \/ Listen
    BY <2>1, <2>2 DEF OpenFails, Open, SetupFails, Listen, CloseOnce, Deferred
  <2>3. CASE Park \/ SelectCtx \/ SelectServe \/ SelectLoad
    BY <2>1, <2>3
    DEF Park, SelectCtx, SelectServe, SelectLoad, Chosen, Ready, AfterLoad, LoadError,
        selectVars
  <2>4. CASE MarkStopping \/ StartDrain
    BY <2>1, <2>4 DEF MarkStopping, StartDrain
  <2>5. CASE DrainDone \/ DrainTimeout \/ CloseConns
    BY <2>1, <2>5
    DEF DrainDone, DrainTimeout, CloseConns, Drained, CancelBase, CutConns, drainVars
  <2>6. CASE AwaitLoad \/ Return
    BY <2>1, <2>6
    DEF AwaitLoad, Return, LoadAwaited, AwaitedError, CloseOnce, Deferred, drainVars
  <2>7. CASE LockForClose \/ CloseStore \/ CloseAnyway
    BY <2>1, <2>7
    DEF LockForClose, CloseStore, CloseAnyway, CloseIt, CloseOnce, LockTimesOut, closeVars,
        Lock!AcquireWrite, Lock!Release, Lock!LockFree
  <2>8. QED
    BY <1>2, <2>2, <2>3, <2>4, <2>5, <2>6, <2>7 DEF RunStep
<1>3. CASE LoadStep
  <2>1. UNCHANGED <<run, runErr, loadPending, forced, closeErr, cancelVars, stopping, serve,
                     data, storeVars, client, check>>
    BY <1>3 DEF LoadStep, LoaderStep
  <2>2. CASE LoadSkip \/ LoadLock \/ LoadLockCanceled
    BY <2>1, <2>2
    DEF LoadSkip, LoadLock, LoadLockCanceled, NeedsLock, LoadCtxDone, Goto, Finish, Notify,
        Lock!AcquireWrite, Lock!LockFree
  <2>3. CASE Publish
    BY <2>1, <2>3 DEF Publish, Goto
  <2>4. CASE CountLock \/ CountSkip \/ CountDone
    BY <2>1, <2>4
    DEF CountLock, CountSkip, CountDone, Goto, Finish, Notify, Lock!AcquireRead, Lock!Release
  <2>5. QED
    BY <1>3, <2>2, <2>3, <2>4 DEF LoadStep, LoaderStep
<1>4. CASE ReadStep
  <2>1. UNCHANGED <<run, runErr, loadPending, forced, closeErr, cancelVars, stopping, serve,
                     data, storeVars, client, check>>
    BY <1>4 DEF ReadStep, LoaderStep
  <2>2. CASE LoadBatch \/ LoadComplete
    BY <2>1, <2>2 DEF LoadBatch, LoadComplete, MoreBatches, AllRead, Goto, Lock!Release
  <2>3. CASE LoadFails
    BY <2>1, <2>3 DEF LoadFails, LoadCtxDone, Finish, Notify, Lock!Release
  <2>4. QED
    BY <1>4, <2>2, <2>3 DEF ReadStep, LoaderStep
<1>5. CASE ClientStep
  <2> PICK c \in Clients :
        \/ Refuse(c) \/ Reject(c) \/ Admit(c) \/ Begin(c) \/ GiveUp(c)
        \/ Apply(c) \/ Succeed(c) \/ Fail(c)
        \/ ScrapeCached(c) \/ ScrapeCount(c) \/ ScrapeBegin(c)
        \/ ScrapeTimeout(c) \/ ScrapeEnd(c)
    BY <1>5 DEF ClientStep
  <2>1. UNCHANGED <<serverVars, store, check>>
    BY <1>5 DEF ClientStep
  <2>2. CASE Refuse(c) \/ Reject(c) \/ GiveUp(c)
    BY <2>1, <2>2 DEF Refuse, Reject, GiveUp, Move, Answer, Reachable
  <2>3. CASE Admit(c) \/ ScrapeCount(c)
    BY <2>1, <2>3 DEF Admit, ScrapeCount, Move, GateOpen, Reachable
  <2>4. CASE ScrapeCached(c) \/ ScrapeTimeout(c)
    BY <2>1, <2>4 DEF ScrapeCached, ScrapeTimeout, Move, Answer, Reachable
  <2>5. CASE Begin(c) \/ ScrapeBegin(c)
    BY <2>1, <2>5
    DEF Begin, ScrapeBegin, Move, Lock!AcquireRead, Lock!AcquireWrite, Lock!LockFree
  <2>6. CASE Apply(c)
    BY <2>1, <2>6 DEF Apply, Move
  <2>7. CASE Succeed(c) \/ Fail(c) \/ ScrapeEnd(c)
    BY <2>1, <2>7 DEF Succeed, Fail, ScrapeEnd, Move, Answer, Lock!Release
  <2>8. QED
    BY <2>2, <2>3, <2>4, <2>5, <2>6, <2>7
<1>6. CASE CheckStep
  BY <1>6 DEF CheckStep, CheckFirst, CheckSecond, FirstRead, SecondRead, Reachable
<1>7. CASE Terminated \/ UNCHANGED vars
  BY <1>7 DEF Terminated
<1>8. QED
  BY <1>1, <1>2, <1>3, <1>4, <1>5, <1>6, <1>7 DEF Next

\* Every step keeps the holders of the lock in line with who works on the dataset.
LEMMA LockStep ==
  ASSUME StatesOK, PhaseInv, LockInv, [Next]_vars
  PROVE  LockInv'
<1> USE ServerAssumption
    DEF StatesOK, LockInv, PhaseInv, RunStates, Waiting, Requests, Clients, Checks, serverVars,
        mainVars, cancelVars, flagVars, loadVars, storeVars, lockVars, vars
<1>1. CASE Signal \/ ServeFails
  BY <1>1 DEF Signal, ServeFails, Notify
<1>2. CASE RunStep
  <2>1. UNCHANGED <<loaded, everReady, loadResult, data, batches, applied, client, check>>
    BY <1>2 DEF RunStep
  <2>2. CASE OpenFails
    BY <2>1, <2>2 DEF OpenFails
  <2>3. CASE Open
    BY <2>1, <2>3 DEF Open
  <2>4. CASE SetupFails
    BY <2>1, <2>4 DEF SetupFails, CloseOnce, Deferred
  <2>5. CASE Listen
    BY <2>1, <2>5 DEF Listen
  <2>6. CASE Park \/ SelectCtx \/ SelectServe \/ SelectLoad
    BY <2>1, <2>6
    DEF Park, SelectCtx, SelectServe, SelectLoad, Chosen, Ready, AfterLoad, LoadError,
        selectVars
  <2>7. CASE MarkStopping \/ StartDrain
    BY <2>1, <2>7 DEF MarkStopping, StartDrain
  <2>8. CASE DrainDone \/ DrainTimeout \/ CloseConns
    BY <2>1, <2>8
    DEF DrainDone, DrainTimeout, CloseConns, Drained, CancelBase, CutConns, drainVars
  <2>9. CASE AwaitLoad \/ Return
    BY <2>1, <2>9
    DEF AwaitLoad, Return, LoadAwaited, AwaitedError, CloseOnce, Deferred, drainVars
  <2>10. CASE LockForClose \/ CloseStore \/ CloseAnyway
    BY <2>1, <2>10
    DEF LockForClose, CloseStore, CloseAnyway, CloseIt, CloseOnce, LockTimesOut, closeVars,
        Lock!AcquireWrite, Lock!Release, Lock!LockFree
  <2>11. QED
    BY <1>2, <2>2, <2>3, <2>4, <2>5, <2>6, <2>7, <2>8, <2>9, <2>10 DEF RunStep
<1>3. CASE LoadStep
  <2>1. UNCHANGED <<run, runErr, loadPending, forced, closeErr, cancelVars, stopping, serve,
                     data, storeVars, client, check>>
    BY <1>3 DEF LoadStep, LoaderStep
  <2>2. CASE LoadSkip \/ LoadLock \/ LoadLockCanceled
    BY <2>1, <2>2
    DEF LoadSkip, LoadLock, LoadLockCanceled, NeedsLock, LoadCtxDone, Goto, Finish, Notify,
        Lock!AcquireWrite, Lock!LockFree
  <2>3. CASE Publish
    BY <2>1, <2>3 DEF Publish, Goto
  <2>4. CASE CountLock \/ CountSkip \/ CountDone
    BY <2>1, <2>4
    DEF CountLock, CountSkip, CountDone, Goto, Finish, Notify, Lock!AcquireRead, Lock!Release
  <2>5. QED
    BY <1>3, <2>2, <2>3, <2>4 DEF LoadStep, LoaderStep
<1>4. CASE ReadStep
  <2>1. UNCHANGED <<run, runErr, loadPending, forced, closeErr, cancelVars, stopping, serve,
                     data, storeVars, client, check>>
    BY <1>4 DEF ReadStep, LoaderStep
  <2>2. CASE LoadBatch \/ LoadComplete
    BY <2>1, <2>2 DEF LoadBatch, LoadComplete, MoreBatches, AllRead, Goto, Lock!Release
  <2>3. CASE LoadFails
    BY <2>1, <2>3 DEF LoadFails, LoadCtxDone, Finish, Notify, Lock!Release
  <2>4. QED
    BY <1>4, <2>2, <2>3 DEF ReadStep, LoaderStep
<1>5. CASE ClientStep
  <2> PICK c \in Clients :
        \/ Refuse(c) \/ Reject(c) \/ Admit(c) \/ Begin(c) \/ GiveUp(c)
        \/ Apply(c) \/ Succeed(c) \/ Fail(c)
        \/ ScrapeCached(c) \/ ScrapeCount(c) \/ ScrapeBegin(c)
        \/ ScrapeTimeout(c) \/ ScrapeEnd(c)
    BY <1>5 DEF ClientStep
  <2>1. UNCHANGED <<serverVars, store, check>>
    BY <1>5 DEF ClientStep
  <2>2. CASE Refuse(c) \/ Reject(c) \/ GiveUp(c)
    BY <2>1, <2>2 DEF Refuse, Reject, GiveUp, Move, Answer, Reachable
  <2>3. CASE Admit(c) \/ ScrapeCount(c)
    BY <2>1, <2>3 DEF Admit, ScrapeCount, Move, GateOpen, Reachable
  <2>4. CASE ScrapeCached(c) \/ ScrapeTimeout(c)
    BY <2>1, <2>4 DEF ScrapeCached, ScrapeTimeout, Move, Answer, Reachable
  <2>5. CASE Begin(c) \/ ScrapeBegin(c)
    BY <2>1, <2>5
    DEF Begin, ScrapeBegin, Move, Lock!AcquireRead, Lock!AcquireWrite, Lock!LockFree
  <2>6. CASE Apply(c)
    BY <2>1, <2>6 DEF Apply, Move
  <2>7. CASE Succeed(c) \/ Fail(c) \/ ScrapeEnd(c)
    BY <2>1, <2>7 DEF Succeed, Fail, ScrapeEnd, Move, Answer, Lock!Release
  <2>8. QED
    BY <2>2, <2>3, <2>4, <2>5, <2>6, <2>7
<1>6. CASE CheckStep
  BY <1>6 DEF CheckStep, CheckFirst, CheckSecond, FirstRead, SecondRead, Reachable
<1>7. CASE Terminated \/ UNCHANGED vars
  BY <1>7 DEF Terminated
<1>8. QED
  BY <1>1, <1>2, <1>3, <1>4, <1>5, <1>6, <1>7 DEF Next

\* Every step keeps what Run's phases have established.
LEMMA PhaseStep ==
  ASSUME StatesOK, LockInv, PhaseInv, [Next]_vars
  PROVE  PhaseInv'
<1> USE ServerAssumption
    DEF StatesOK, LockInv, PhaseInv, RunStates, Drain, Closed, Waiting, Requests, Clients,
        Checks, serverVars, mainVars, cancelVars, flagVars, loadVars, storeVars, lockVars, vars
<1>1. CASE Signal \/ ServeFails
  BY <1>1 DEF Signal, ServeFails, Notify
<1>2. CASE RunStep
  <2>1. UNCHANGED <<loaded, everReady, loadResult, data, batches, applied, client, check>>
    BY <1>2 DEF RunStep
  <2>2. CASE OpenFails \/ Open \/ SetupFails \/ Listen
    BY <2>1, <2>2 DEF OpenFails, Open, SetupFails, Listen, CloseOnce, Deferred
  <2>3. CASE Park \/ SelectCtx \/ SelectServe \/ SelectLoad
    BY <2>1, <2>3
    DEF Park, SelectCtx, SelectServe, SelectLoad, Chosen, Ready, AfterLoad, LoadError,
        selectVars
  <2>4. CASE MarkStopping \/ StartDrain
    BY <2>1, <2>4 DEF MarkStopping, StartDrain
  <2>5. CASE DrainDone \/ DrainTimeout \/ CloseConns
    BY <2>1, <2>5
    DEF DrainDone, DrainTimeout, CloseConns, Drained, CancelBase, CutConns, drainVars
  <2>6. CASE AwaitLoad \/ Return
    BY <2>1, <2>6
    DEF AwaitLoad, Return, LoadAwaited, AwaitedError, CloseOnce, Deferred, drainVars
  <2>7. CASE LockForClose \/ CloseStore \/ CloseAnyway
    BY <2>1, <2>7
    DEF LockForClose, CloseStore, CloseAnyway, CloseIt, CloseOnce, LockTimesOut, closeVars,
        Lock!AcquireWrite, Lock!Release, Lock!LockFree
  <2>8. QED
    BY <1>2, <2>2, <2>3, <2>4, <2>5, <2>6, <2>7 DEF RunStep
<1>3. CASE LoadStep
  <2>1. UNCHANGED <<run, runErr, loadPending, forced, closeErr, cancelVars, stopping, serve,
                     data, storeVars, client, check>>
    BY <1>3 DEF LoadStep, LoaderStep
  <2>2. CASE LoadSkip \/ LoadLock \/ LoadLockCanceled
    BY <2>1, <2>2
    DEF LoadSkip, LoadLock, LoadLockCanceled, NeedsLock, LoadCtxDone, Goto, Finish, Notify,
        Lock!AcquireWrite, Lock!LockFree
  <2>3. CASE Publish
    BY <2>1, <2>3 DEF Publish, Goto
  <2>4. CASE CountLock \/ CountSkip \/ CountDone
    BY <2>1, <2>4
    DEF CountLock, CountSkip, CountDone, Goto, Finish, Notify, Lock!AcquireRead, Lock!Release
  <2>5. QED
    BY <1>3, <2>2, <2>3, <2>4 DEF LoadStep, LoaderStep
<1>4. CASE ReadStep
  <2>1. UNCHANGED <<run, runErr, loadPending, forced, closeErr, cancelVars, stopping, serve,
                     data, storeVars, client, check>>
    BY <1>4 DEF ReadStep, LoaderStep
  <2>2. CASE LoadBatch \/ LoadComplete
    BY <2>1, <2>2 DEF LoadBatch, LoadComplete, MoreBatches, AllRead, Goto, Lock!Release
  <2>3. CASE LoadFails
    BY <2>1, <2>3 DEF LoadFails, LoadCtxDone, Finish, Notify, Lock!Release
  <2>4. QED
    BY <1>4, <2>2, <2>3 DEF ReadStep, LoaderStep
<1>5. CASE ClientStep
  <2> PICK c \in Clients :
        \/ Refuse(c) \/ Reject(c) \/ Admit(c) \/ Begin(c) \/ GiveUp(c)
        \/ Apply(c) \/ Succeed(c) \/ Fail(c)
        \/ ScrapeCached(c) \/ ScrapeCount(c) \/ ScrapeBegin(c)
        \/ ScrapeTimeout(c) \/ ScrapeEnd(c)
    BY <1>5 DEF ClientStep
  <2>1. UNCHANGED <<serverVars, store, check>>
    BY <1>5 DEF ClientStep
  <2>2. CASE Refuse(c) \/ Reject(c) \/ GiveUp(c)
    BY <2>1, <2>2 DEF Refuse, Reject, GiveUp, Move, Answer, Reachable
  <2>3. CASE Admit(c) \/ ScrapeCount(c)
    BY <2>1, <2>3 DEF Admit, ScrapeCount, Move, GateOpen, Reachable
  <2>4. CASE ScrapeCached(c) \/ ScrapeTimeout(c)
    BY <2>1, <2>4 DEF ScrapeCached, ScrapeTimeout, Move, Answer, Reachable
  <2>5. CASE Begin(c) \/ ScrapeBegin(c)
    BY <2>1, <2>5
    DEF Begin, ScrapeBegin, Move, Lock!AcquireRead, Lock!AcquireWrite, Lock!LockFree
  <2>6. CASE Apply(c)
    BY <2>1, <2>6 DEF Apply, Move
  <2>7. CASE Succeed(c) \/ Fail(c) \/ ScrapeEnd(c)
    BY <2>1, <2>7 DEF Succeed, Fail, ScrapeEnd, Move, Answer, Lock!Release
  <2>8. QED
    BY <2>2, <2>3, <2>4, <2>5, <2>6, <2>7
<1>6. CASE CheckStep
  BY <1>6 DEF CheckStep, CheckFirst, CheckSecond, FirstRead, SecondRead, Reachable
<1>7. CASE Terminated \/ UNCHANGED vars
  BY <1>7 DEF Terminated
<1>8. QED
  BY <1>1, <1>2, <1>3, <1>4, <1>5, <1>6, <1>7 DEF Next

\* Every step keeps the promise of the loaded flag.
LEMMA DataStep ==
  ASSUME StatesOK, LockInv, PhaseInv, DataInv, [Next]_vars
  PROVE  DataInv'
<1> USE ServerAssumption
    DEF StatesOK, PhaseInv, DataInv, GaugeReady, Drain, Closed, Waiting, Requests, Clients,
        Checks, serverVars, mainVars, cancelVars, flagVars, loadVars, storeVars, lockVars, vars
<1>1. CASE Signal \/ ServeFails
  BY <1>1 DEF Signal, ServeFails, Notify
<1>2. CASE RunStep
  <2>1. UNCHANGED <<loaded, everReady, loadResult, data, batches, applied, client, check>>
    BY <1>2 DEF RunStep
  <2>2. CASE OpenFails \/ Open \/ SetupFails \/ Listen
    BY <2>1, <2>2 DEF OpenFails, Open, SetupFails, Listen, CloseOnce, Deferred
  <2>3. CASE Park \/ SelectCtx \/ SelectServe \/ SelectLoad
    BY <2>1, <2>3
    DEF Park, SelectCtx, SelectServe, SelectLoad, Chosen, Ready, AfterLoad, LoadError,
        selectVars
  <2>4. CASE MarkStopping \/ StartDrain
    BY <2>1, <2>4 DEF MarkStopping, StartDrain
  <2>5. CASE DrainDone \/ DrainTimeout \/ CloseConns
    BY <2>1, <2>5
    DEF DrainDone, DrainTimeout, CloseConns, Drained, CancelBase, CutConns, drainVars
  <2>6. CASE AwaitLoad \/ Return
    BY <2>1, <2>6
    DEF AwaitLoad, Return, LoadAwaited, AwaitedError, CloseOnce, Deferred, drainVars
  <2>7. CASE LockForClose \/ CloseStore \/ CloseAnyway
    BY <2>1, <2>7
    DEF LockForClose, CloseStore, CloseAnyway, CloseIt, CloseOnce, LockTimesOut, closeVars,
        Lock!AcquireWrite, Lock!Release, Lock!LockFree
  <2>8. QED
    BY <1>2, <2>2, <2>3, <2>4, <2>5, <2>6, <2>7 DEF RunStep
<1>3. CASE LoadStep
  <2>1. UNCHANGED <<run, runErr, loadPending, forced, closeErr, cancelVars, stopping, serve,
                     data, storeVars, client, check>>
    BY <1>3 DEF LoadStep, LoaderStep
  <2>2. CASE LoadSkip \/ LoadLock \/ LoadLockCanceled
    BY <2>1, <2>2
    DEF LoadSkip, LoadLock, LoadLockCanceled, NeedsLock, LoadCtxDone, Goto, Finish, Notify,
        Lock!AcquireWrite, Lock!LockFree
  <2>3. CASE Publish
    BY <2>1, <2>3 DEF Publish, Goto
  <2>4. CASE CountLock \/ CountSkip \/ CountDone
    BY <2>1, <2>4
    DEF CountLock, CountSkip, CountDone, Goto, Finish, Notify, Lock!AcquireRead, Lock!Release
  <2>5. QED
    BY <1>3, <2>2, <2>3, <2>4 DEF LoadStep, LoaderStep
<1>4. CASE ReadStep
  <2>1. UNCHANGED <<run, runErr, loadPending, forced, closeErr, cancelVars, stopping, serve,
                     data, storeVars, client, check>>
    BY <1>4 DEF ReadStep, LoaderStep
  <2>2. CASE LoadBatch \/ LoadComplete
    BY <2>1, <2>2 DEF LoadBatch, LoadComplete, MoreBatches, AllRead, Goto, Lock!Release
  <2>3. CASE LoadFails
    BY <2>1, <2>3 DEF LoadFails, LoadCtxDone, Finish, Notify, Lock!Release
  <2>4. QED
    BY <1>4, <2>2, <2>3 DEF ReadStep, LoaderStep
<1>5. CASE ClientStep
  <2> PICK c \in Clients :
        \/ Refuse(c) \/ Reject(c) \/ Admit(c) \/ Begin(c) \/ GiveUp(c)
        \/ Apply(c) \/ Succeed(c) \/ Fail(c)
        \/ ScrapeCached(c) \/ ScrapeCount(c) \/ ScrapeBegin(c)
        \/ ScrapeTimeout(c) \/ ScrapeEnd(c)
    BY <1>5 DEF ClientStep
  <2>1. UNCHANGED <<serverVars, store, check>>
    BY <1>5 DEF ClientStep
  <2>2. CASE Refuse(c) \/ Reject(c) \/ GiveUp(c)
    BY <2>1, <2>2 DEF Refuse, Reject, GiveUp, Move, Answer, Reachable
  <2>3. CASE Admit(c) \/ ScrapeCount(c)
    BY <2>1, <2>3 DEF Admit, ScrapeCount, Move, GateOpen, Reachable
  <2>4. CASE ScrapeCached(c) \/ ScrapeTimeout(c)
    BY <2>1, <2>4 DEF ScrapeCached, ScrapeTimeout, Move, Answer, Reachable
  <2>5. CASE Begin(c) \/ ScrapeBegin(c)
    BY <2>1, <2>5
    DEF Begin, ScrapeBegin, Move, Lock!AcquireRead, Lock!AcquireWrite, Lock!LockFree
  <2>6. CASE Apply(c)
    BY <2>1, <2>6 DEF Apply, Move
  <2>7. CASE Succeed(c) \/ Fail(c) \/ ScrapeEnd(c)
    BY <2>1, <2>7 DEF Succeed, Fail, ScrapeEnd, Move, Answer, Lock!Release
  <2>8. QED
    BY <2>2, <2>3, <2>4, <2>5, <2>6, <2>7
<1>6. CASE CheckStep
  BY <1>6 DEF CheckStep, CheckFirst, CheckSecond, FirstRead, SecondRead, Reachable
<1>7. CASE Terminated \/ UNCHANGED vars
  BY <1>7 DEF Terminated
<1>8. QED
  BY <1>1, <1>2, <1>3, <1>4, <1>5, <1>6, <1>7 DEF Next

\* Every step keeps the load's error on its way to runErr.
LEMMA ErrorStep ==
  ASSUME StatesOK, PhaseInv, ErrorInv, [Next]_vars
  PROVE  ErrorInv'
<1> USE ServerAssumption
    DEF StatesOK, PhaseInv, ErrorInv, Drain, Closed, Waiting, Requests, Clients, Checks,
        serverVars, mainVars, cancelVars, flagVars, loadVars, storeVars, lockVars, vars
<1>1. CASE Signal \/ ServeFails
  BY <1>1 DEF Signal, ServeFails, Notify
<1>2. CASE RunStep
  <2>1. UNCHANGED <<loaded, everReady, loadResult, data, batches, applied, client, check>>
    BY <1>2 DEF RunStep
  <2>2. CASE OpenFails \/ Open \/ SetupFails \/ Listen
    BY <2>1, <2>2 DEF OpenFails, Open, SetupFails, Listen, CloseOnce, Deferred
  <2>3. CASE Park \/ SelectCtx \/ SelectServe \/ SelectLoad
    BY <2>1, <2>3
    DEF Park, SelectCtx, SelectServe, SelectLoad, Chosen, Ready, AfterLoad, LoadError,
        selectVars
  <2>4. CASE MarkStopping \/ StartDrain
    BY <2>1, <2>4 DEF MarkStopping, StartDrain
  <2>5. CASE DrainDone \/ DrainTimeout \/ CloseConns
    BY <2>1, <2>5
    DEF DrainDone, DrainTimeout, CloseConns, Drained, CancelBase, CutConns, drainVars
  <2>6. CASE AwaitLoad \/ Return
    BY <2>1, <2>6
    DEF AwaitLoad, Return, LoadAwaited, AwaitedError, CloseOnce, Deferred, drainVars
  <2>7. CASE LockForClose \/ CloseStore \/ CloseAnyway
    BY <2>1, <2>7
    DEF LockForClose, CloseStore, CloseAnyway, CloseIt, CloseOnce, LockTimesOut, closeVars,
        Lock!AcquireWrite, Lock!Release, Lock!LockFree
  <2>8. QED
    BY <1>2, <2>2, <2>3, <2>4, <2>5, <2>6, <2>7 DEF RunStep
<1>3. CASE LoadStep
  <2>1. UNCHANGED <<run, runErr, loadPending, forced, closeErr, cancelVars, stopping, serve,
                     data, storeVars, client, check>>
    BY <1>3 DEF LoadStep, LoaderStep
  <2>2. CASE LoadSkip \/ LoadLock \/ LoadLockCanceled
    BY <2>1, <2>2
    DEF LoadSkip, LoadLock, LoadLockCanceled, NeedsLock, LoadCtxDone, Goto, Finish, Notify,
        Lock!AcquireWrite, Lock!LockFree
  <2>3. CASE Publish
    BY <2>1, <2>3 DEF Publish, Goto
  <2>4. CASE CountLock \/ CountSkip \/ CountDone
    BY <2>1, <2>4
    DEF CountLock, CountSkip, CountDone, Goto, Finish, Notify, Lock!AcquireRead, Lock!Release
  <2>5. QED
    BY <1>3, <2>2, <2>3, <2>4 DEF LoadStep, LoaderStep
<1>4. CASE ReadStep
  <2>1. UNCHANGED <<run, runErr, loadPending, forced, closeErr, cancelVars, stopping, serve,
                     data, storeVars, client, check>>
    BY <1>4 DEF ReadStep, LoaderStep
  <2>2. CASE LoadBatch \/ LoadComplete
    BY <2>1, <2>2 DEF LoadBatch, LoadComplete, MoreBatches, AllRead, Goto, Lock!Release
  <2>3. CASE LoadFails
    BY <2>1, <2>3 DEF LoadFails, LoadCtxDone, Finish, Notify, Lock!Release
  <2>4. QED
    BY <1>4, <2>2, <2>3 DEF ReadStep, LoaderStep
<1>5. CASE ClientStep
  <2> PICK c \in Clients :
        \/ Refuse(c) \/ Reject(c) \/ Admit(c) \/ Begin(c) \/ GiveUp(c)
        \/ Apply(c) \/ Succeed(c) \/ Fail(c)
        \/ ScrapeCached(c) \/ ScrapeCount(c) \/ ScrapeBegin(c)
        \/ ScrapeTimeout(c) \/ ScrapeEnd(c)
    BY <1>5 DEF ClientStep
  <2>1. UNCHANGED <<serverVars, store, check>>
    BY <1>5 DEF ClientStep
  <2>2. CASE Refuse(c) \/ Reject(c) \/ GiveUp(c)
    BY <2>1, <2>2 DEF Refuse, Reject, GiveUp, Move, Answer, Reachable
  <2>3. CASE Admit(c) \/ ScrapeCount(c)
    BY <2>1, <2>3 DEF Admit, ScrapeCount, Move, GateOpen, Reachable
  <2>4. CASE ScrapeCached(c) \/ ScrapeTimeout(c)
    BY <2>1, <2>4 DEF ScrapeCached, ScrapeTimeout, Move, Answer, Reachable
  <2>5. CASE Begin(c) \/ ScrapeBegin(c)
    BY <2>1, <2>5
    DEF Begin, ScrapeBegin, Move, Lock!AcquireRead, Lock!AcquireWrite, Lock!LockFree
  <2>6. CASE Apply(c)
    BY <2>1, <2>6 DEF Apply, Move
  <2>7. CASE Succeed(c) \/ Fail(c) \/ ScrapeEnd(c)
    BY <2>1, <2>7 DEF Succeed, Fail, ScrapeEnd, Move, Answer, Lock!Release
  <2>8. QED
    BY <2>2, <2>3, <2>4, <2>5, <2>6, <2>7
<1>6. CASE CheckStep
  BY <1>6 DEF CheckStep, CheckFirst, CheckSecond, FirstRead, SecondRead, Reachable
<1>7. CASE Terminated \/ UNCHANGED vars
  BY <1>7 DEF Terminated
<1>8. QED
  BY <1>1, <1>2, <1>3, <1>4, <1>5, <1>6, <1>7 DEF Next

\* Every step keeps applied updates in the store.
LEMMA WriteStep ==
  ASSUME StatesOK, LockInv, PhaseInv, WriteInv, [Next]_vars
  PROVE  WriteInv'
<1> USE ServerAssumption
    DEF StatesOK, LockInv, PhaseInv, WriteInv, AckedWriteApplied, RunStates, Drain, Closed,
        Waiting, Requests, Clients, Checks, serverVars, mainVars, cancelVars, flagVars,
        loadVars, storeVars, lockVars, vars
<1>1. CASE Signal \/ ServeFails
  BY <1>1 DEF Signal, ServeFails, Notify
<1>2. CASE RunStep
  <2>1. UNCHANGED <<loaded, everReady, loadResult, data, batches, applied, client, check>>
    BY <1>2 DEF RunStep
  <2>2. CASE OpenFails \/ Open \/ SetupFails \/ Listen
    BY <2>1, <2>2 DEF OpenFails, Open, SetupFails, Listen, CloseOnce, Deferred
  <2>3. CASE Park \/ SelectCtx \/ SelectServe \/ SelectLoad
    BY <2>1, <2>3
    DEF Park, SelectCtx, SelectServe, SelectLoad, Chosen, Ready, AfterLoad, LoadError,
        selectVars
  <2>4. CASE MarkStopping \/ StartDrain
    BY <2>1, <2>4 DEF MarkStopping, StartDrain
  <2>5. CASE DrainDone \/ DrainTimeout \/ CloseConns
    BY <2>1, <2>5
    DEF DrainDone, DrainTimeout, CloseConns, Drained, CancelBase, CutConns, drainVars
  <2>6. CASE AwaitLoad \/ Return
    BY <2>1, <2>6
    DEF AwaitLoad, Return, LoadAwaited, AwaitedError, CloseOnce, Deferred, drainVars
  <2>7. CASE LockForClose \/ CloseStore \/ CloseAnyway
    BY <2>1, <2>7
    DEF LockForClose, CloseStore, CloseAnyway, CloseIt, CloseOnce, LockTimesOut, closeVars,
        Lock!AcquireWrite, Lock!Release, Lock!LockFree
  <2>8. QED
    BY <1>2, <2>2, <2>3, <2>4, <2>5, <2>6, <2>7 DEF RunStep
<1>3. CASE LoadStep
  <2>1. UNCHANGED <<run, runErr, loadPending, forced, closeErr, cancelVars, stopping, serve,
                     data, storeVars, client, check>>
    BY <1>3 DEF LoadStep, LoaderStep
  <2>2. CASE LoadSkip \/ LoadLock \/ LoadLockCanceled
    BY <2>1, <2>2
    DEF LoadSkip, LoadLock, LoadLockCanceled, NeedsLock, LoadCtxDone, Goto, Finish, Notify,
        Lock!AcquireWrite, Lock!LockFree
  <2>3. CASE Publish
    BY <2>1, <2>3 DEF Publish, Goto
  <2>4. CASE CountLock \/ CountSkip \/ CountDone
    BY <2>1, <2>4
    DEF CountLock, CountSkip, CountDone, Goto, Finish, Notify, Lock!AcquireRead, Lock!Release
  <2>5. QED
    BY <1>3, <2>2, <2>3, <2>4 DEF LoadStep, LoaderStep
<1>4. CASE ReadStep
  <2>1. UNCHANGED <<run, runErr, loadPending, forced, closeErr, cancelVars, stopping, serve,
                     data, storeVars, client, check>>
    BY <1>4 DEF ReadStep, LoaderStep
  <2>2. CASE LoadBatch \/ LoadComplete
    BY <2>1, <2>2 DEF LoadBatch, LoadComplete, MoreBatches, AllRead, Goto, Lock!Release
  <2>3. CASE LoadFails
    BY <2>1, <2>3 DEF LoadFails, LoadCtxDone, Finish, Notify, Lock!Release
  <2>4. QED
    BY <1>4, <2>2, <2>3 DEF ReadStep, LoaderStep
<1>5. CASE ClientStep
  <2> PICK c \in Clients :
        \/ Refuse(c) \/ Reject(c) \/ Admit(c) \/ Begin(c) \/ GiveUp(c)
        \/ Apply(c) \/ Succeed(c) \/ Fail(c)
        \/ ScrapeCached(c) \/ ScrapeCount(c) \/ ScrapeBegin(c)
        \/ ScrapeTimeout(c) \/ ScrapeEnd(c)
    BY <1>5 DEF ClientStep
  <2>1. UNCHANGED <<serverVars, store, check>>
    BY <1>5 DEF ClientStep
  <2>2. CASE Refuse(c) \/ Reject(c) \/ GiveUp(c)
    BY <2>1, <2>2 DEF Refuse, Reject, GiveUp, Move, Answer, Reachable
  <2>3. CASE Admit(c) \/ ScrapeCount(c)
    BY <2>1, <2>3 DEF Admit, ScrapeCount, Move, GateOpen, Reachable
  <2>4. CASE ScrapeCached(c) \/ ScrapeTimeout(c)
    BY <2>1, <2>4 DEF ScrapeCached, ScrapeTimeout, Move, Answer, Reachable
  <2>5. CASE Begin(c) \/ ScrapeBegin(c)
    BY <2>1, <2>5
    DEF Begin, ScrapeBegin, Move, Lock!AcquireRead, Lock!AcquireWrite, Lock!LockFree
  <2>6. CASE Apply(c)
    BY <2>1, <2>6 DEF Apply, Move
  <2>7. CASE Succeed(c) \/ Fail(c) \/ ScrapeEnd(c)
    BY <2>1, <2>7 DEF Succeed, Fail, ScrapeEnd, Move, Answer, Lock!Release
  <2>8. QED
    BY <2>2, <2>3, <2>4, <2>5, <2>6, <2>7
<1>6. CASE CheckStep
  BY <1>6 DEF CheckStep, CheckFirst, CheckSecond, FirstRead, SecondRead, Reachable
<1>7. CASE Terminated \/ UNCHANGED vars
  BY <1>7 DEF Terminated
<1>8. QED
  BY <1>1, <1>2, <1>3, <1>4, <1>5, <1>6, <1>7 DEF Next

\* Every step keeps requests off a store that was closed under the lock.
LEMMA CloseStepSafe ==
  ASSUME StatesOK, LockInv, PhaseInv, EvaluationEndsBeforeClose, [Next]_vars
  PROVE  EvaluationEndsBeforeClose'
<1> USE ServerAssumption
    DEF StatesOK, LockInv, PhaseInv, EvaluationEndsBeforeClose, RunStates, Drain, Closed,
        Waiting, Requests, Clients, Checks, serverVars, mainVars, cancelVars, flagVars,
        loadVars, storeVars, lockVars, vars
<1>1. CASE Signal \/ ServeFails
  BY <1>1 DEF Signal, ServeFails, Notify
<1>2. CASE RunStep
  <2>1. UNCHANGED <<loaded, everReady, loadResult, data, batches, applied, client, check>>
    BY <1>2 DEF RunStep
  <2>2. CASE OpenFails \/ Open \/ SetupFails \/ Listen
    BY <2>1, <2>2 DEF OpenFails, Open, SetupFails, Listen, CloseOnce, Deferred
  <2>3. CASE Park \/ SelectCtx \/ SelectServe \/ SelectLoad
    BY <2>1, <2>3
    DEF Park, SelectCtx, SelectServe, SelectLoad, Chosen, Ready, AfterLoad, LoadError,
        selectVars
  <2>4. CASE MarkStopping \/ StartDrain
    BY <2>1, <2>4 DEF MarkStopping, StartDrain
  <2>5. CASE DrainDone \/ DrainTimeout \/ CloseConns
    BY <2>1, <2>5
    DEF DrainDone, DrainTimeout, CloseConns, Drained, CancelBase, CutConns, drainVars
  <2>6. CASE AwaitLoad \/ Return
    BY <2>1, <2>6
    DEF AwaitLoad, Return, LoadAwaited, AwaitedError, CloseOnce, Deferred, drainVars
  <2>7. CASE LockForClose \/ CloseStore \/ CloseAnyway
    BY <2>1, <2>7
    DEF LockForClose, CloseStore, CloseAnyway, CloseIt, CloseOnce, LockTimesOut, closeVars,
        Lock!AcquireWrite, Lock!Release, Lock!LockFree
  <2>8. QED
    BY <1>2, <2>2, <2>3, <2>4, <2>5, <2>6, <2>7 DEF RunStep
<1>3. CASE LoadStep
  <2>1. UNCHANGED <<run, runErr, loadPending, forced, closeErr, cancelVars, stopping, serve,
                     data, storeVars, client, check>>
    BY <1>3 DEF LoadStep, LoaderStep
  <2>2. CASE LoadSkip \/ LoadLock \/ LoadLockCanceled
    BY <2>1, <2>2
    DEF LoadSkip, LoadLock, LoadLockCanceled, NeedsLock, LoadCtxDone, Goto, Finish, Notify,
        Lock!AcquireWrite, Lock!LockFree
  <2>3. CASE Publish
    BY <2>1, <2>3 DEF Publish, Goto
  <2>4. CASE CountLock \/ CountSkip \/ CountDone
    BY <2>1, <2>4
    DEF CountLock, CountSkip, CountDone, Goto, Finish, Notify, Lock!AcquireRead, Lock!Release
  <2>5. QED
    BY <1>3, <2>2, <2>3, <2>4 DEF LoadStep, LoaderStep
<1>4. CASE ReadStep
  <2>1. UNCHANGED <<run, runErr, loadPending, forced, closeErr, cancelVars, stopping, serve,
                     data, storeVars, client, check>>
    BY <1>4 DEF ReadStep, LoaderStep
  <2>2. CASE LoadBatch \/ LoadComplete
    BY <2>1, <2>2 DEF LoadBatch, LoadComplete, MoreBatches, AllRead, Goto, Lock!Release
  <2>3. CASE LoadFails
    BY <2>1, <2>3 DEF LoadFails, LoadCtxDone, Finish, Notify, Lock!Release
  <2>4. QED
    BY <1>4, <2>2, <2>3 DEF ReadStep, LoaderStep
<1>5. CASE ClientStep
  <2> PICK c \in Clients :
        \/ Refuse(c) \/ Reject(c) \/ Admit(c) \/ Begin(c) \/ GiveUp(c)
        \/ Apply(c) \/ Succeed(c) \/ Fail(c)
        \/ ScrapeCached(c) \/ ScrapeCount(c) \/ ScrapeBegin(c)
        \/ ScrapeTimeout(c) \/ ScrapeEnd(c)
    BY <1>5 DEF ClientStep
  <2>1. UNCHANGED <<serverVars, store, check>>
    BY <1>5 DEF ClientStep
  <2>2. CASE Refuse(c) \/ Reject(c) \/ GiveUp(c)
    BY <2>1, <2>2 DEF Refuse, Reject, GiveUp, Move, Answer, Reachable
  <2>3. CASE Admit(c) \/ ScrapeCount(c)
    BY <2>1, <2>3 DEF Admit, ScrapeCount, Move, GateOpen, Reachable
  <2>4. CASE ScrapeCached(c) \/ ScrapeTimeout(c)
    BY <2>1, <2>4 DEF ScrapeCached, ScrapeTimeout, Move, Answer, Reachable
  <2>5. CASE Begin(c) \/ ScrapeBegin(c)
    BY <2>1, <2>5
    DEF Begin, ScrapeBegin, Move, Lock!AcquireRead, Lock!AcquireWrite, Lock!LockFree
  <2>6. CASE Apply(c)
    BY <2>1, <2>6 DEF Apply, Move
  <2>7. CASE Succeed(c) \/ Fail(c) \/ ScrapeEnd(c)
    BY <2>1, <2>7 DEF Succeed, Fail, ScrapeEnd, Move, Answer, Lock!Release
  <2>8. QED
    BY <2>2, <2>3, <2>4, <2>5, <2>6, <2>7
<1>6. CASE CheckStep
  BY <1>6 DEF CheckStep, CheckFirst, CheckSecond, FirstRead, SecondRead, Reachable
<1>7. CASE Terminated \/ UNCHANGED vars
  BY <1>7 DEF Terminated
<1>8. QED
  BY <1>1, <1>2, <1>3, <1>4, <1>5, <1>6, <1>7 DEF Next

-----------------------------------------------------------------------------
\* The inductive invariant holds in every state.
THEOREM Safety == Spec => []SafetyInv
<1>1. Init => SafetyInv
  <2>1. Init => StatesOK
    BY ServerAssumption
    DEF Init, StatesOK, RunStates, Events, Waiting, Lock!LockInit
  <2>2. Init => LockInv /\ PhaseInv /\ ErrorInv
    BY ServerAssumption
    DEF Init, LockInv, PhaseInv, ErrorInv, Lock!LockInit, Drain, Closed, Waiting
  <2>3. Init => DataInv /\ WriteInv /\ EvaluationEndsBeforeClose
    BY ServerAssumption
    DEF Init, DataInv, GaugeReady, WriteInv, AckedWriteApplied, EvaluationEndsBeforeClose,
        Waiting, Requests, Clients, Checks
  <2>4. QED
    BY <2>1, <2>2, <2>3 DEF SafetyInv
<1>2. SafetyInv /\ [Next]_vars => SafetyInv'
  <2> SUFFICES ASSUME SafetyInv, [Next]_vars PROVE SafetyInv'
    OBVIOUS
  <2> USE DEF SafetyInv
  <2>1. StatesOK'
    BY StatesStep
  <2>2. LockInv'
    BY LockStep
  <2>3. PhaseInv'
    BY PhaseStep
  <2>4. DataInv'
    BY DataStep
  <2>5. ErrorInv'
    BY ErrorStep
  <2>6. WriteInv'
    BY WriteStep
  <2>7. EvaluationEndsBeforeClose'
    BY CloseStepSafe
  <2>8. QED
    BY <2>1, <2>2, <2>3, <2>4, <2>5, <2>6, <2>7
<1>3. QED
  BY <1>1, <1>2, PTL DEF Spec

\* Every variable of the server stays in its type.
THEOREM TypeCorrect == Spec => []TypeOK
<1>1. Init => FlagsOK
  BY Zenon DEF Init, FlagsOK
<1>2. FlagsOK /\ [Next]_vars => FlagsOK'
  BY FlagsStep
<1>3. SafetyInv => StatesOK
  BY DEF SafetyInv
<1>4. FlagsOK /\ StatesOK => TypeOK
  BY DEF TypeOK
<1>5. QED
  BY <1>1, <1>2, <1>3, <1>4, Safety, PTL DEF Spec

\* No request gets past the gate to a partly loaded dataset.
THEOREM GateHolds == Spec => []GatedUntilLoaded
<1>1. SafetyInv => GatedUntilLoaded
  BY DEF SafetyInv, DataInv, GatedUntilLoaded, Requests
<1>2. QED
  BY Safety, <1>1, PTL

\* The load goroutine has ended when the store is closed.
THEOREM LoadOutlivedByStore == Spec => []LoadEndsBeforeClose
<1>1. SafetyInv => LoadEndsBeforeClose
  BY DEF SafetyInv, StatesOK, PhaseInv, LoadEndsBeforeClose, RunStates, Drain, Closed
<1>2. QED
  BY Safety, <1>1, PTL

\* An update whose client was told it succeeded is in the store.
THEOREM AcksAreTrue == Spec => []AckedWriteApplied
<1>1. SafetyInv => AckedWriteApplied
  BY DEF SafetyInv, WriteInv
<1>2. QED
  BY Safety, <1>1, PTL

\* The store is closed without the lock only after the cut-off.
THEOREM ForcedCloseIsLast == Spec => []ForcedCloseOnlyAfterCutoff
<1>1. SafetyInv => ForcedCloseOnlyAfterCutoff
  BY DEF SafetyInv, PhaseInv, ForcedCloseOnlyAfterCutoff
<1>2. QED
  BY Safety, <1>1, PTL

\* No request works on a store that was closed under the lock.
THEOREM LockedCloseIsClean == Spec => []EvaluationEndsBeforeClose
<1>1. SafetyInv => EvaluationEndsBeforeClose
  BY DEF SafetyInv
<1>2. QED
  BY Safety, <1>1, PTL

\* Run returns an error when the load failed.
THEOREM FailureIsReported == Spec => []FailureReported
<1>1. SafetyInv => FailureReported
  BY DEF SafetyInv, ErrorInv, FailureReported, Drain
<1>2. QED
  BY Safety, <1>1, PTL

\* Without startup data Run never blames the load.
THEOREM NoDataIsClean == Spec => []NoDataStopsCleanly
<1>1. SafetyInv => NoDataStopsCleanly
  BY DEF SafetyInv, ErrorInv, NoDataStopsCleanly
<1>2. QED
  BY Safety, <1>1, PTL

\* Run returns with the store closed, and with an error if closing it failed.
THEOREM StoreIsReleased == Spec => []StoreReleased
<1>1. SafetyInv => StoreReleased
  BY DEF SafetyInv, PhaseInv, StoreReleased, Closed
<1>2. QED
  BY Safety, <1>1, PTL

\* The ready gauge never claims what never was.
THEOREM GaugeIsReady == Spec => []GaugeReady
<1>1. SafetyInv => GaugeReady
  BY DEF SafetyInv, DataInv
<1>2. QED
  BY Safety, <1>1, PTL

\* Readiness is claimed only with all the data in the store.
THEOREM ReadyIsLoaded == Spec => []ReadyAfterLoad
<1>1. SafetyInv => ReadyAfterLoad
  BY DEF SafetyInv, DataInv, ReadyAfterLoad
<1>2. QED
  BY Safety, <1>1, PTL
=============================================================================
