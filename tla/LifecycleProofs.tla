-------------------------- MODULE LifecycleProofs --------------------------
(***************************************************************************)
(* Server implements Lifecycle, for any clients and any startup data: its  *)
(* initial states map to initial states of Lifecycle, and every step maps  *)
(* to a step or to none.  The steps are told apart by what they show:      *)
(* the answer to a request, the end of the load, or a phase of Run; all    *)
(* others leave what the outside sees (View) as it is.                     *)
(***************************************************************************)
EXTENDS ServerProofs

View == <<Phase, store, Loading, Answered, Result>>
Hidden == Waiting \cup {"idle"}
Told == {"ok", "error", "unavailable", "lost"}

\* A request that is told something is told it in Lifecycle.
LEMMA AnswerShows ==
  ASSUME StatesOK, NEW c \in Requests, NEW a \in Told, client[c] \in Hidden,
         client' = [client EXCEPT ![c] = a]
  PROVE  Answered[c] = "none" /\ Answered' = [Answered EXCEPT ![c] = a]
BY DEF StatesOK, Answered, Hidden, Told, Waiting, Clients

\* A step of a request that tells it nothing is not seen.
LEMMA WorkIsHidden ==
  ASSUME StatesOK, NEW c \in Clients, NEW x \in Hidden, client[c] \in Hidden,
         client' = [client EXCEPT ![c] = x]
  PROVE  Answered' = Answered
BY DEF StatesOK, Answered, Hidden, Waiting, Clients

\* Phase, Loading and Result are functions of what no client and no check
\* changes.
LEMMA ServerIsHidden ==
  ASSUME UNCHANGED serverVars
  PROVE  UNCHANGED <<Phase, Loading, Result>>
BY DEF serverVars, mainVars, cancelVars, flagVars, loadVars, Phase, Loading, Result
-----------------------------------------------------------------------------
\* A step of Run opens or closes the store, changes the phase or is not seen.
LEMMA RunRefines ==
  ASSUME SafetyInv, RunStep
  PROVE  Promised!Next \/ UNCHANGED View
<1> USE DEF SafetyInv, PhaseInv, RunStep, Drain, Closed, View, Phase, Loading, Result
<1>1. UNCHANGED <<Answered, Loading>>
  BY DEF Answered
<1>2. CASE OpenFails \/ SetupFails
  <2>1. Promised!StartupFails
    BY <1>1, <1>2 DEF OpenFails, SetupFails, CloseOnce, Deferred, Promised!StartupFails
  <2>2. QED
    BY <2>1 DEF Promised!Next
<1>3. CASE Open
  <2>1. Promised!OpenStore
    BY <1>1, <1>3 DEF Open, Promised!OpenStore
  <2>2. QED
    BY <2>1 DEF Promised!Next
<1>4. CASE Listen
  <2>1. Promised!Listen
    BY <1>1, <1>4 DEF Listen, Promised!Listen
  <2>2. QED
    BY <2>1 DEF Promised!Next
<1>5. CASE Park \/ SelectCtx \/ SelectServe \/ SelectLoad
  <2>1. UNCHANGED <<stopping, store>>
    BY <1>5 DEF Park, SelectCtx, SelectServe, SelectLoad, selectVars
  <2>2. run \in {"select", "parked"} /\ run' \in {"select", "parked", "mark"}
    BY <1>5 DEF Park, SelectCtx, SelectServe, SelectLoad, Chosen, AfterLoad
  <2>3. QED
    BY <1>1, <2>1, <2>2
<1>6. CASE MarkStopping
  <2>1. Phase = "running" /\ Phase' = "stopping" /\ UNCHANGED <<store, Result>>
    BY <1>6 DEF MarkStopping
  <2>2. Promised!Stop
    BY <1>1, <2>1 DEF Promised!Stop
  <2>3. QED
    BY <2>2 DEF Promised!Next
<1>7. CASE StartDrain \/ DrainDone \/ DrainTimeout \/ CloseConns \/ AwaitLoad \/ LockForClose
  <2>1. UNCHANGED <<stopping, store>>
    BY <1>7
    DEF StartDrain, DrainDone, DrainTimeout, CloseConns, AwaitLoad, LockForClose, drainVars,
        closeVars
  <2>2. run # "returned" /\ run' # "returned"
    BY <1>7 DEF StartDrain, DrainDone, DrainTimeout, CloseConns, AwaitLoad, LockForClose
  <2>3. stopping /\ run \notin {"start", "setup"} /\ run' \notin {"start", "setup"}
    BY <1>7 DEF StartDrain, DrainDone, DrainTimeout, CloseConns, AwaitLoad, LockForClose
  <2>4. QED
    BY <1>1, <2>1, <2>2, <2>3
<1>8. CASE CloseStore \/ CloseAnyway
  <2>1. store' = "closed" /\ run \in {"close", "closing"} /\ run' = "return"
        /\ UNCHANGED stopping
    BY <1>8 DEF CloseStore, CloseAnyway, CloseIt, CloseOnce, closeVars
  <2>2. Phase = "stopping" /\ store = "open" /\ UNCHANGED <<Phase, Result>>
    BY <2>1
  <2>3. Promised!CloseStore
    BY <1>1, <2>1, <2>2 DEF Promised!CloseStore
  <2>4. QED
    BY <2>3 DEF Promised!Next
<1>9. CASE Return
  <2>1. loadResult = "failed" => runErr # "nil"
    BY <1>9 DEF Return, ErrorInv
  <2>2. Phase = "stopping" /\ Phase' = "stopped" /\ store = "closed" /\ UNCHANGED store
    BY <1>9 DEF Return, CloseOnce, Deferred, StatesOK
  <2>3. Result' = IF runErr = "nil" THEN "nil" ELSE "error"
    BY <1>9 DEF Return
  <2>4. Promised!Stopped
    BY <1>1, <2>1, <2>2, <2>3 DEF Promised!Stopped
  <2>5. QED
    BY <2>4 DEF Promised!Next
<1>10. QED
  BY <1>2, <1>3, <1>4, <1>5, <1>6, <1>7, <1>8, <1>9

\* A step of the load ends it or is not seen.
LEMMA LoadRefines ==
  ASSUME SafetyInv, LoadStep \/ ReadStep
  PROVE  Promised!Next \/ UNCHANGED View
<1> USE DEF SafetyInv, PhaseInv, DataInv, Drain, Closed, View, Phase, Loading, Result
<1>1. UNCHANGED <<run, runErr, stopping, store, client>>
  BY DEF LoadStep, ReadStep, LoaderStep, storeVars
<1>2. UNCHANGED <<Phase, store, Answered, Result>>
  BY <1>1 DEF Answered
<1>3. CASE LoadSkip \/ LoadLock \/ LoadLockCanceled \/ CountLock \/ CountSkip \/ CountDone
  BY <1>2, <1>3
  DEF LoadSkip, LoadLock, LoadLockCanceled, CountLock, CountSkip, CountDone, Goto, Finish,
      LoadStep, LoaderStep, StatesOK
<1>4. CASE LoadBatch \/ LoadComplete
  BY <1>2, <1>4 DEF LoadBatch, LoadComplete, Goto
<1>5. CASE Publish \/ LoadFails
  <2>1. Promised!Up /\ store = "open" /\ Loading = "pending"
    BY <1>5 DEF Publish, LoadFails, StatesOK, RunStates, Promised!Up
  <2>2. Loading' \in {"loaded", "failed"} \/ UNCHANGED Loading
    BY <1>5 DEF Publish, LoadFails, Goto, Finish
  <2>3. CASE Loading' \in {"loaded", "failed"}
    <3>1. Promised!LoadEnds
      BY <1>2, <2>1, <2>3, Zenon DEF Promised!LoadEnds
    <3>2. QED
      BY <3>1, Zenon DEF Promised!Next
  <2>4. QED
    BY <1>2, <2>2, <2>3, Zenon
<1>6. QED
  BY <1>3, <1>4, <1>5 DEF LoadStep, ReadStep, LoaderStep

\* A step of a client answers it or is not seen.
LEMMA ClientRefines ==
  ASSUME SafetyInv, ClientStep
  PROVE  Promised!Next \/ UNCHANGED View
<1> USE ServerAssumption DEF SafetyInv
<1>1. UNCHANGED <<Phase, Loading, Result, store, run, stopping, loaded, connsClosed>>
  BY ServerIsHidden DEF ClientStep, serverVars, mainVars, cancelVars, flagVars
<1> PICK c \in Clients :
      \/ Refuse(c) \/ Reject(c) \/ Admit(c) \/ Begin(c) \/ GiveUp(c)
      \/ Apply(c) \/ Succeed(c) \/ Fail(c)
      \/ ScrapeCached(c) \/ ScrapeCount(c) \/ ScrapeBegin(c)
      \/ ScrapeTimeout(c) \/ ScrapeEnd(c)
  BY DEF ClientStep
<1>2. CASE Admit(c) \/ Begin(c) \/ Apply(c)
  <2>1. PICK x \in Waiting : client' = [client EXCEPT ![c] = x]
    BY <1>2 DEF Admit, Begin, Apply, Move, Waiting
  <2>2. client[c] \in Hidden /\ x \in Hidden
    BY <1>2 DEF Admit, Begin, Apply, Hidden, Waiting
  <2>3. Answered' = Answered
    BY <2>1, <2>2, WorkIsHidden
  <2>4. QED
    BY <1>1, <2>3 DEF View
<1>3. CASE ScrapeCached(c) \/ ScrapeCount(c) \/ ScrapeBegin(c) \/ ScrapeTimeout(c)
           \/ ScrapeEnd(c)
  <2>1. PICK x \in Told \cup Hidden : client' = [client EXCEPT ![c] = x]
    BY <1>3
    DEF ScrapeCached, ScrapeCount, ScrapeBegin, ScrapeTimeout, ScrapeEnd, Move, Answer, Told,
        Hidden, Waiting
  <2>2. c \notin Requests
    BY <1>3 DEF ScrapeCached, ScrapeCount, ScrapeBegin, ScrapeTimeout, ScrapeEnd
  <2>3. Answered' = Answered
    BY <2>1, <2>2 DEF StatesOK, Answered, Clients
  <2>4. QED
    BY <1>1, <2>3 DEF View
<1>4. CASE Refuse(c) \/ Reject(c) \/ GiveUp(c) \/ Succeed(c) \/ Fail(c)
  <2>1. PICK a \in Told : client' = [client EXCEPT ![c] = a]
                          /\ a = IF connsClosed THEN "lost" ELSE a
    BY <1>4 DEF Refuse, Reject, GiveUp, Succeed, Fail, Answer, Move, Told
  <2>2. c \in Requests /\ client[c] \in Hidden
    BY <1>4 DEF Refuse, Reject, GiveUp, Succeed, Fail, Hidden, Waiting, Requests
  <2>3. Answered[c] = "none" /\ Answered' = [Answered EXCEPT ![c] = a]
    BY <2>1, <2>2, AnswerShows
  <2>4. Answered'[c] = a
    BY <2>2, <2>3 DEF Answered
  <2>5. Loading = "loaded" <=> loaded
    BY DEF Loading
  <2>6. a \in {"ok", "lost"} => loaded
    BY <1>4, <2>1, <2>2, <2>4
    DEF Refuse, Reject, GiveUp, Succeed, Fail, Answer, Move, DataInv, StatesOK, Clients,
        Reachable, Waiting, PhaseInv, Drain
  <2>7. a = "unavailable" => ~loaded
    BY <1>4, <2>1, <2>2
    DEF Refuse, Reject, GiveUp, Succeed, Fail, Answer, Move, StatesOK, Clients
  <2>8. a = "lost" <=> connsClosed
    BY <1>4, <2>1, <2>2
    DEF Refuse, Reject, GiveUp, Succeed, Fail, Answer, Move, StatesOK, Clients, Told
  <2>9. ~connsClosed => Promised!Up /\ store = "open"
    BY <1>4, <2>2
    DEF Refuse, Reject, GiveUp, Succeed, Fail, PhaseInv, Drain, Closed, Phase, Promised!Up,
        StatesOK, RunStates, Reachable, Clients, Waiting
  <2>10. connsClosed => Phase \in {"stopping", "stopped"}
    BY DEF PhaseInv, Drain, Phase
  <2>11. Promised!Answers(c)
    BY <2>4, <2>5, <2>6, <2>7, <2>8, <2>9, <2>10 DEF Promised!Answers, Told
  <2>12. Promised!Respond(c)
    BY <1>1, <2>3, <2>11 DEF Promised!Respond, Told
  <2>13. QED
    BY <2>2, <2>12 DEF Promised!Next
<1>5. QED
  BY <1>2, <1>3, <1>4
-----------------------------------------------------------------------------
\* What the operator and the clients see of the server, from its start to what
\* Run returns, is a behaviour of Lifecycle.
THEOREM Refinement == Spec => ImplementsLifecycle
<1>1. Init => Promised!Init
  BY ServerAssumption
  DEF Init, Promised!Init, Phase, Loading, Answered, Result, Waiting, Clients
<1>2. SafetyInv /\ [Next]_vars => [Promised!Next]_(Promised!vars)
  <2> SUFFICES ASSUME SafetyInv, [Next]_vars PROVE Promised!Next \/ UNCHANGED View
    BY DEF View, Promised!vars
  <2>1. CASE Signal \/ ServeFails
    BY <2>1
    DEF Signal, ServeFails, View, Phase, Loading, Answered, Result, flagVars, loadVars, storeVars
  <2>2. CASE RunStep
    BY <2>2, RunRefines
  <2>3. CASE LoadStep \/ ReadStep
    BY <2>3, LoadRefines
  <2>4. CASE ClientStep
    BY <2>4, ClientRefines
  <2>5. CASE CheckStep
    BY <2>5, ServerIsHidden DEF CheckStep, View, Answered, storeVars
  <2>6. CASE Terminated \/ UNCHANGED vars
    BY <2>6
    DEF Terminated, vars, mainVars, flagVars, loadVars, storeVars, View, Phase, Loading,
        Answered, Result
  <2>7. QED
    BY <2>1, <2>2, <2>3, <2>4, <2>5, <2>6 DEF Next
<1>3. QED
  BY <1>1, <1>2, Safety, PTL DEF Spec, ImplementsLifecycle, Promised!Spec
=============================================================================
