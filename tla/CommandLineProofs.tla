------------------------- MODULE CommandLineProofs -------------------------
(***************************************************************************)
(* The command line, for any invocations and any width of integers.  The   *)
(* inductive invariant follows one command through its phases: what was    *)
(* checked before it began (CheckInv), its store (StoreInv), the output of *)
(* a query (OutputInv), and how it may end (EndInv).                       *)
(***************************************************************************)
EXTENDS CommandLine, TLAPS

Early == {"start", "configure", "stat", "open"}
AtWork == {"serving", "loading", "evaluate", "evaluated"}

\* No command works with settings that do not pass its checks, and no query
\* gets to open a store whose path leads nowhere.
CheckInv ==
  /\ pc \in (Early \cup AtWork) \ {"start"} => in.cmd \in {"serve", "load", "query"}
  /\ pc \in {"stat", "open"} \cup AtWork => in.rest # "help" /\ ~Invalid
  /\ pc = "serving" => in.cmd = "serve"
  /\ pc = "loading" => in.cmd \in {"load", "query"}
  /\ pc \in {"stat", "evaluate", "evaluated"} => in.cmd = "query"
  /\ pc = "open" /\ in.cmd = "query" => in.store # "absent"

\* The store is open while the command is at work, and left so only by a kill.
StoreInv ==
  /\ pc \in Early => store = "closed" /\ ~created
  /\ end \in {"returned", "panicked"} => store = "closed"
  /\ NoStrayStore

\* What is on stdout and stderr, by where the query is and what it answered.
OutputInv ==
  /\ pc \in Early \cup {"serving", "loading"} \/ in.cmd # "query"
       => status = "none" /\ out = "nothing" /\ ~err /\ ~refused
  /\ pc = "evaluate" => /\ ~err /\ out \in {"nothing", "part"}
                        /\ out = "part" \/ refused => status = "ok"
  /\ pc = "evaluated" => IF status = "error" THEN out = "nothing"
                                             ELSE (out = "whole" \/ refused) /\ ~err
  /\ in.cmd = "query" /\ end = "returned" =>
       IF code = 0 /\ in.rest # "help" THEN (out = "whole" \/ refused) /\ ~err
                                         ELSE out = "nothing"

\* A command that has not returned has no exit code; signals are given back to
\* the default action only once they have done their work, or have none to do.
EndInv ==
  /\ pc \in Early \cup AtWork => end = "none" /\ code = -1
  /\ pc \in {"returned", "stopped"} => end = "returned"
  /\ pc = "exited" => end # "none"
  /\ end \in {"returned", "panicked"} => code >= 0
  /\ ~notify => ctxDone \/ code >= 0
  /\ FirstSignalIsGraceful

\* The inductive invariant.
CommandInv == in \in Invocations /\ TypeOK /\ CheckInv /\ StoreInv /\ OutputInv /\ EndInv
-----------------------------------------------------------------------------
\* The settings follow from the invocation, which does not change.
LEMMA InvalidStays == ASSUME in' = in PROVE Invalid' <=> Invalid
BY DEF Invalid, ParseFails, TooLarge, TokenError, Token, UpdateToken, QueryToken,
       AllowAnonymous, Text, Given

\* The commands keep the invariant.
LEMMA MainStepSafe ==
  ASSUME CommandInv, MainStep, in' = in
  PROVE  CommandInv'
<1> USE DEF CommandInv, TypeOK, CheckInv, StoreInv, NoStrayStore, OutputInv, EndInv,
            FirstSignalIsGraceful,
            Early, AtWork, Return, CloseStore, Write,
            signalVars, storeVars, outputVars, endVars
<1>1. Invalid' <=> Invalid
  BY InvalidStays
<1>2. CASE Dispatch
  <2>1. CASE in.cmd \in {"version", "help"}
    BY <1>1, <1>2, <2>1 DEF Dispatch
  <2>2. CASE in.cmd = "unknown"
    BY <1>1, <1>2, <2>2 DEF Dispatch
  <2>3. CASE in.cmd \in {"serve", "load", "query"}
    BY <1>1, <1>2, <2>3 DEF Dispatch
  <2>4. in.cmd \in {"serve", "load", "query", "version", "help", "unknown"}
    BY Zenon DEF Invocations
  <2>5. QED  BY <2>1, <2>2, <2>3, <2>4
<1>3. CASE Configure
  <2>1. CASE in.rest = "help"
    BY <1>1, <1>3, <2>1 DEF Configure
  <2>2. CASE in.rest # "help" /\ Invalid
    BY <1>1, <1>3, <2>2 DEF Configure
  <2>3. CASE in.rest # "help" /\ ~Invalid
    BY <1>1, <1>3, <2>3 DEF Configure
  <2>4. QED  BY <2>1, <2>2, <2>3
<1>4. CASE Stat
  BY <1>1, <1>4 DEF Stat
<1>5. CASE OpenFails
  BY <1>1, <1>5 DEF OpenFails
<1>6. CASE Open
  <2>1. CASE in.cmd = "serve"
    BY <1>1, <1>6, <2>1 DEF Open
  <2>2. CASE in.cmd = "load"
    BY <1>1, <1>6, <2>2 DEF Open
  <2>3. CASE in.cmd = "query"
    BY <1>1, <1>6, <2>3 DEF Open
  <2>4. QED  BY <1>1, <1>6, <2>1, <2>2, <2>3 DEF Open
<1>7. CASE ServeEnds
  BY <1>1, <1>7 DEF ServeEnds
<1>8. CASE LoadEnds
  BY <1>1, <1>8 DEF LoadEnds
<1>9. CASE DataLoaded
  BY <1>1, <1>9 DEF DataLoaded
<1>10. CASE Row
  <2>1. TypeOK'
    BY <1>10 DEF Row
  <2>2. CheckInv'
    BY <1>1, <1>10 DEF Row
  <2>3. StoreInv'
    BY <1>10 DEF Row
  <2>4. OutputInv'
    BY <1>10 DEF Row
  <2>5. EndInv'
    BY <1>10 DEF Row
  <2>6. QED  BY <2>1, <2>2, <2>3, <2>4, <2>5
<1>11. CASE LastWrite
  <2>1. TypeOK'
    BY <1>11 DEF LastWrite
  <2>2. CheckInv'
    BY <1>1, <1>11 DEF LastWrite
  <2>3. StoreInv'
    BY <1>11 DEF LastWrite
  <2>4. OutputInv'
    BY <1>11 DEF LastWrite
  <2>5. EndInv'
    BY <1>11 DEF LastWrite
  <2>6. QED  BY <2>1, <2>2, <2>3, <2>4, <2>5
<1>12. CASE EndpointPanics \/ BrokenPipe
  BY <1>1, <1>12 DEF EndpointPanics, BrokenPipe
<1>13. CASE QueryEnds
  BY <1>1, <1>13 DEF QueryEnds
<1>14. CASE \E s \in {"ok", "error"} : WriteHeader(s)
  BY <1>1, <1>14 DEF WriteHeader
<1>15. CASE StopNotify
  BY <1>1, <1>15 DEF StopNotify
<1>16. CASE Exit
  BY <1>1, <1>16 DEF Exit
<1>17. QED
  BY <1>2, <1>3, <1>4, <1>5, <1>6, <1>7, <1>8, <1>9, <1>10, <1>11, <1>12, <1>13, <1>14, <1>15,
     <1>16, Zenon DEF MainStep

\* So do signals, whenever they arrive.
LEMMA SignalStepSafe ==
  ASSUME CommandInv, Signal \/ Restore \/ Kill \/ UNCHANGED <<pc, signalVars, storeVars, outputVars, endVars>>,
         in' = in
  PROVE  CommandInv'
<1> USE DEF CommandInv, TypeOK, CheckInv, StoreInv, NoStrayStore, OutputInv, EndInv,
            FirstSignalIsGraceful,
            Early, AtWork, signalVars, storeVars, outputVars, endVars
<1>1. Invalid' <=> Invalid
  BY InvalidStays
<1>2. CASE Signal
  <2>1. TypeOK' /\ CheckInv'
    BY <1>1, <1>2 DEF Signal
  <2>2. StoreInv' /\ OutputInv'
    BY <1>1, <1>2 DEF Signal
  <2>3. EndInv'
    BY <1>1, <1>2 DEF Signal
  <2>4. QED  BY <2>1, <2>2, <2>3
<1>3. CASE Restore
  <2>1. TypeOK'
    BY <1>3 DEF Restore
  <2>2. CheckInv'
    BY <1>1, <1>3 DEF Restore
  <2>3. StoreInv' /\ OutputInv'
    BY <1>3 DEF Restore
  <2>4. EndInv'
    BY <1>3 DEF Restore
  <2>5. QED  BY <2>1, <2>2, <2>3, <2>4
<1>4. CASE Kill
  <2>1. TypeOK' /\ CheckInv'
    BY <1>1, <1>4 DEF Kill
  <2>2. StoreInv' /\ OutputInv'
    BY <1>1, <1>4 DEF Kill
  <2>3. EndInv'
    BY <1>1, <1>4 DEF Kill
  <2>4. QED  BY <2>1, <2>2, <2>3
<1>5. CASE UNCHANGED <<pc, signalVars, storeVars, outputVars, endVars>>
  BY <1>1, <1>5
<1>6. QED  BY <1>2, <1>3, <1>4, <1>5

\* No invocation, signal or output error takes a command out of the invariant.
THEOREM CommandSafety == Spec => []CommandInv
<1>1. Init => CommandInv
  <2> SUFFICES ASSUME Init
               PROVE  CommandInv
    OBVIOUS
  <2>1. in \in Invocations
    BY CommandLineAssumption DEF Init
  <2>2. TypeOK
    <3>1. code \in -1..2
      BY DEF Init
    <3>2. QED  BY <3>1, Zenon DEF Init, TypeOK
  <2>3. CheckInv /\ StoreInv
    BY DEF Init, CheckInv, StoreInv, NoStrayStore, Early, AtWork
  <2>4. OutputInv /\ EndInv
    BY DEF Init, OutputInv, EndInv, FirstSignalIsGraceful, Early, AtWork
  <2>5. QED  BY <2>1, <2>2, <2>3, <2>4 DEF CommandInv
<1>2. CommandInv /\ [Next]_vars => CommandInv'
  BY MainStepSafe, SignalStepSafe, Zenon DEF Next, Exited, vars
<1>3. QED  BY <1>1, <1>2, PTL DEF Spec
-----------------------------------------------------------------------------
(* What the invariant says of the exit code, the store and the signals. *)

\* A script can tell from the exit code of a query what it has got on stdout, unless
\* stdout itself failed.
THEOREM ExitIsHonest == Spec => []ExitTellsOutput
<1>1. CommandInv => ExitTellsOutput
  BY DEF CommandInv, TypeOK, OutputInv, EndInv, ExitTellsOutput
<1>2. QED  BY <1>1, CommandSafety, PTL

\* No command leaves a store open, or one that it had no business to create.
THEOREM StoresAreRespected == Spec => []StoreRespected
<1>1. CommandInv => StoreRespected
  BY DEF CommandInv, StoreInv, StoreRespected, NoStrayStore, StoreClosed
<1>2. QED  BY <1>1, CommandSafety, PTL

\* The first signal is a request to stop, never a kill.
THEOREM FirstSignalOnlyAsks == Spec => []FirstSignalIsGraceful
<1>1. CommandInv => FirstSignalIsGraceful
  BY DEF CommandInv, EndInv
<1>2. QED  BY <1>1, CommandSafety, PTL
-----------------------------------------------------------------------------
(* What it says of the settings of a server that starts. *)

\* A setting is what the operator said, and "" only if the operator said "" or nothing.
LEMMA TextIsSaid ==
  ASSUME NEW S, NEW f, in.flag[f] \in Optional(S), in.env[f] \in Optional(S)
  PROVE  /\ Given(f) \in Optional(S)
         /\ \A v : Said(f, v) <=> Given(f) = <<v>>
         /\ \A v : Said(f, v) => Text(f) = v
         /\ Text(f) # "" => Text(f) \in S /\ Said(f, Text(f))
<1>1. Given(f) \in Optional(S)
  BY DEF Given
<1>2. ASSUME NEW v PROVE <<v>> # <<>> /\ <<v>>[1] = v
  OBVIOUS
<1>3. \A v : Said(f, v) <=> Given(f) = <<v>>
  BY <1>2, Zenon DEF Said, Given
<1>4. \A v : Said(f, v) => Text(f) = v
  BY <1>2, <1>3, Zenon DEF Text
<1>5. Text(f) # "" => Text(f) \in S /\ Said(f, Text(f))
  <2>1. Given(f) = <<>> \/ \E v \in S : Given(f) = <<v>>
    BY <1>1 DEF Optional
  <2>2. QED  BY <1>3, <1>4, <2>1, Zenon DEF Text
<1>6. QED  BY <1>1, <1>3, <1>4, <1>5

\* What each flag and its variable can hold.
LEMMA SettingTypes ==
  ASSUME in \in Invocations
  PROVE  /\ in.flag["updateToken"] \in Optional(Tokens) /\ in.env["updateToken"] \in Optional(Tokens)
         /\ in.flag["updateTokenFile"] \in Optional(Files) /\ in.env["updateTokenFile"] \in Optional(Files)
         /\ in.flag["queryToken"] \in Optional(Tokens) /\ in.env["queryToken"] \in Optional(Tokens)
         /\ in.flag["anonymous"] \in Optional({"true", "false", ""})
         /\ in.env["anonymous"] \in Optional({"true", "false", ""})
         /\ in.flag["maxBytes"] \in Optional(Sizes) /\ in.env["maxBytes"] \in Optional(Sizes)
<1>1. in.flag \in Sources /\ in.env \in Sources
  BY DEF Invocations
<1>2. QED  BY <1>1 DEF Sources

\* A server that starts has passed every check of Validate.
LEMMA StartedIsValid ==
  ASSUME CommandInv, Started
  PROVE  /\ in \in Invocations /\ ~ParseFails
         /\ ~TokenError(Text("updateToken"), Text("updateTokenFile"))
         /\ ~TokenError(QueryToken, "")
         /\ UpdateToken # "" => UpdateToken # QueryToken /\ ~AllowAnonymous
<1>1. pc = "serving" /\ in \in Invocations /\ CheckInv
  BY DEF CommandInv, Started
<1>2. in.cmd = "serve" /\ ~Invalid
  BY <1>1 DEF CheckInv, AtWork
<1>3. QED  BY <1>1, <1>2, Zenon DEF Invalid

\* However flags, variables and files are combined, a server that starts is no more
\* open than the operator said.
THEOREM NeverMoreOpenThanAsked == Spec => []OpenAsAsked
<1>1. ASSUME CommandInv, Started
      PROVE  AllowAnonymous => Said("anonymous", "true") /\ UpdateToken = ""
  <2>1. AllowAnonymous => Said("anonymous", "true")
    BY <1>1, StartedIsValid, SettingTypes, TextIsSaid DEF AllowAnonymous
  <2>2. QED  BY <1>1, <2>1, StartedIsValid
<1>2. ASSUME CommandInv, Started
      PROVE  (\E v \in Files \ {""} : Said("updateToken", v) \/ Said("updateTokenFile", v)) =>
               /\ UpdateToken \in GoodTokens \ {QueryToken}
               /\ Said("updateToken", UpdateToken) \/ Said("updateTokenFile", UpdateToken)
  <2> DEFINE direct == Text("updateToken")
             file == Text("updateTokenFile")
  <2>1. SUFFICES ASSUME NEW v \in Files \ {""},
                        Said("updateToken", v) \/ Said("updateTokenFile", v)
                 PROVE  /\ UpdateToken \in GoodTokens \ {QueryToken}
                        /\ Said("updateToken", UpdateToken) \/ Said("updateTokenFile", UpdateToken)
    OBVIOUS
  <2>2. /\ Said("updateToken", v) => direct = v
        /\ Said("updateTokenFile", v) => file = v
        /\ direct # "" => direct \in Tokens /\ Said("updateToken", direct)
        /\ file # "" => file \in Files /\ Said("updateTokenFile", file)
    BY <1>2, StartedIsValid, SettingTypes, TextIsSaid
  <2>3. ~TokenError(direct, file) /\ UpdateToken = Token(direct, file)
    BY <1>2, StartedIsValid DEF UpdateToken
  <2> HIDE DEF direct, file
  <2>4. CASE file # ""
    <3>1. UpdateToken = file /\ file \notin {"unreadable", "emptyFile", "short", "spaced"}
      BY <2>3, <2>4 DEF TokenError, Token
    <3>2. file \in GoodTokens /\ Said("updateTokenFile", UpdateToken)
      BY <2>2, <2>4, <3>1 DEF Files
    <3>3. UpdateToken # QueryToken
      BY <1>2, <2>4, <3>1, StartedIsValid
    <3>4. QED  BY <3>1, <3>2, <3>3
  <2>5. CASE file = ""
    <3>1. UpdateToken = direct /\ direct \notin {"short", "spaced"}
      BY <2>3, <2>5 DEF TokenError, Token
    <3>2. direct # "" /\ direct \in GoodTokens /\ Said("updateToken", UpdateToken)
      BY <2>1, <2>2, <2>5, <3>1 DEF Tokens
    <3>3. UpdateToken # QueryToken
      BY <1>2, <3>1, <3>2, StartedIsValid
    <3>4. QED  BY <3>1, <3>2, <3>3
  <2>6. QED  BY <2>4, <2>5
<1>3. ASSUME CommandInv, Started, NEW v \in Files \ {""}, Said("queryToken", v)
      PROVE  QueryToken \in GoodTokens
  <2>1. QueryToken = v /\ QueryToken \in Tokens
    BY <1>3, StartedIsValid, SettingTypes, TextIsSaid DEF QueryToken
  <2>2. ~TokenError(QueryToken, "")
    BY <1>3, StartedIsValid
  <2>3. QED  BY <1>3, <2>1, <2>2 DEF TokenError, Token, Tokens
<1>4. CommandInv => OpenAsAsked
  <2>1. CommandInv => OpenOnlyOnRequest
    BY <1>1 DEF OpenOnlyOnRequest
  <2>2. CommandInv => NamedTokenIsRequired
    BY <1>2, <1>3 DEF NamedTokenIsRequired
  <2>3. QED  BY <2>1, <2>2 DEF OpenAsAsked
<1>5. QED  BY <1>4, CommandSafety, PTL
-----------------------------------------------------------------------------
(* Sizes. *)

\* The comparison in ParseBytes is exact: what it lets through fits an integer.
LEMMA AcceptedFits ==
  ASSUME NEW s \in Sizes, ~TooLarge(s)
  PROVE  Wrap(s.n * s.unit) = s.n * s.unit
<1> DEFINE n == s.n
           u == s.unit
           max == Quarter \div u
<1>1. /\ Quarter \in Nat /\ Quarter > 0
      /\ n \in Nat /\ n <= 2 * Quarter - 1
      /\ u \in Nat /\ u >= 1
  <2>1. s.n \in 0..2 * Quarter - 1 /\ s.unit \in 1..Quarter
    BY DEF Sizes
  <2>2. QED  BY <2>1, CommandLineAssumption
<1>2. u > 1 => n <= max
  <2>1. max \in Int
    BY <1>1
  <2>2. QED  BY <1>1, <2>1 DEF TooLarge
<1> HIDE DEF n, u
<1>3. n * u \in 0..2 * Quarter - 1
  <2>1. CASE u = 1
    BY <1>1, <2>1
  <2>2. CASE u > 1
    <3>1. max \in Nat /\ max * u <= Quarter
      BY <1>1
    <3>2. n * u <= max * u
      <4> HIDE DEF max
      <4>1. max - n \in Nat
        BY <1>1, <1>2, <2>2, <3>1
      <4>2. (max - n) * u \in Nat
        BY <1>1, <4>1
      <4>3. (max - n) * u = max * u - n * u
        BY <1>1, <3>1
      <4>4. QED  BY <1>1, <3>1, <4>2, <4>3
    <3>3. n * u \in Nat
      BY <1>1
    <3>4. QED
      <4> HIDE DEF max
      <4> QED  BY <1>1, <3>1, <3>2, <3>3
  <2>3. QED  BY <1>1, <2>1, <2>2
<1>4. \A x \in 0..2 * Quarter - 1 : Wrap(x) = x
  <2>1. \A x \in 0..2 * Quarter - 1 : (x + 2 * Quarter) % (4 * Quarter) = x + 2 * Quarter
    BY <1>1
  <2>2. QED  BY <1>1, <2>1 DEF Wrap
<1>5. QED  BY <1>3, <1>4 DEF n, u

\* A size limit is the size that was written, never a wrapped one.
THEOREM LimitsAreAsWritten == Spec => []SizeIsWhatItSays
<1>1. ASSUME CommandInv, Started, NEW i \in DOMAIN Given("maxBytes")
      PROVE  MaxBytes = Given("maxBytes")[i].n * Given("maxBytes")[i].unit
  <2>1. Given("maxBytes") \in Optional(Sizes)
    BY <1>1, StartedIsValid, SettingTypes, TextIsSaid
  <2>2. PICK s \in Sizes : Given("maxBytes") = <<s>>
    BY <1>1, <2>1 DEF Optional
  <2>3. i = 1 /\ Given("maxBytes")[1] = s /\ Given("maxBytes") # <<>>
    BY <1>1, <2>2
  <2>4. ~TooLarge(s)
    <3>1. ~ParseFails
      BY <1>1, StartedIsValid
    <3>2. QED  BY <2>3, <3>1, Zenon DEF ParseFails
  <2>5. MaxBytes = Wrap(s.n * s.unit)
    BY <2>3, Zenon DEF MaxBytes
  <2>6. QED  BY <2>3, <2>4, <2>5, AcceptedFits, Zenon
<1>2. CommandInv => SizeIsWhatItSays
  BY <1>1 DEF SizeIsWhatItSays
<1>3. QED  BY <1>2, CommandSafety, PTL
=============================================================================
