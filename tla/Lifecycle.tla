----------------------------- MODULE Lifecycle -----------------------------
(***************************************************************************)
(* What the server promises to those who use it, without saying how: the   *)
(* operator, who starts it, signals it and reads its exit status, and the  *)
(* clients, who send queries and updates.  Server implements it.           *)
(*                                                                         *)
(*   - a request succeeds only on completely loaded data in an open store; *)
(*   - one that came too early is told so, and nothing else is, except     *)
(*     what would be refused at any time;                                  *)
(*   - nobody is answered any more once the server has stopped;            *)
(*   - a server that stops has first given up its store, and says that it  *)
(*     failed if its startup data could not be loaded.                     *)
(***************************************************************************)
CONSTANT Requests

VARIABLES
  phase,    \* "starting", "running", "stopping" or "stopped"
  store,    \* "none", "open" or "closed"
  loading,  \* the startup data: "pending", "loaded" or "failed"
  answer,   \* per request: what its client has been told
  result    \* what the operator has been told

vars == <<phase, store, loading, answer, result>>

Init ==
  /\ phase = "starting" /\ store = "none" /\ loading = "pending"
  /\ answer = [c \in Requests |-> "none"]
  /\ result = "none"

\* Up: requests are served from the moment the server listens.
Up == phase \in {"running", "stopping"}

OpenStore ==
  /\ phase = "starting" /\ store = "none"
  /\ store' = "open"
  /\ UNCHANGED <<phase, loading, answer, result>>

Listen ==
  /\ phase = "starting" /\ store = "open"
  /\ phase' = "running"
  /\ UNCHANGED <<store, loading, answer, result>>

StartupFails ==
  /\ phase = "starting"
  /\ phase' = "stopped" /\ result' = "error"
  /\ store' = IF store = "open" THEN "closed" ELSE store
  /\ UNCHANGED <<loading, answer>>

\* The load ends, well or badly, before the store is given up.
LoadEnds ==
  /\ Up /\ store = "open" /\ loading = "pending"
  /\ loading' \in {"loaded", "failed"}
  /\ UNCHANGED <<phase, store, answer, result>>

\* "lost": the connection was cut, so the client is told nothing.
Answers(c) ==
  \/ answer'[c] = "ok" /\ Up /\ loading = "loaded" /\ store = "open"
  \/ answer'[c] = "error" /\ Up
  \/ answer'[c] = "unavailable" /\ Up /\ loading # "loaded"
  \/ answer'[c] = "lost" /\ phase \in {"stopping", "stopped"} /\ loading = "loaded"

Respond(c) ==
  /\ answer[c] = "none"
  /\ \E a \in {"ok", "error", "unavailable", "lost"} : answer' = [answer EXCEPT ![c] = a]
  /\ Answers(c)
  /\ UNCHANGED <<phase, store, loading, result>>

Stop ==
  /\ phase = "running"
  /\ phase' = "stopping"
  /\ UNCHANGED <<store, loading, answer, result>>

CloseStore ==
  /\ phase = "stopping" /\ store = "open"
  /\ store' = "closed"
  /\ UNCHANGED <<phase, loading, answer, result>>

Stopped ==
  /\ phase = "stopping" /\ store = "closed"
  /\ phase' = "stopped"
  /\ result' \in IF loading = "failed" THEN {"error"} ELSE {"nil", "error"}
  /\ UNCHANGED <<store, loading, answer>>

Next == \/ OpenStore \/ Listen \/ StartupFails \/ LoadEnds
        \/ \E c \in Requests : Respond(c)
        \/ Stop \/ CloseStore \/ Stopped

Spec == Init /\ [][Next]_vars
=============================================================================
