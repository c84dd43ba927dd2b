----------------------------- MODULE CommandLine -----------------------------
(***************************************************************************)
(* The process from its arguments to its exit code: main with its signals  *)
(* (cmd/sparql-server/main.go), the commands (internal/cli/cli.go), and    *)
(* how flags, environment and token files become settings                  *)
(* (internal/config).                                                      *)
(*                                                                         *)
(* A value is <<v>>, a missing one is <<>>.  The five flags below stand    *)
(* for their kinds; whether the rest of the command line is valid, or has  *)
(* a -h, is one input.  What Run and Load do inside is in Server and       *)
(* DataLoad.                                                               *)
(*                                                                         *)
(* Names starting with Bug are faulty variants of the definition they      *)
(* precede; no specification uses them.                                    *)
(***************************************************************************)
EXTENDS Integers, Sequences

CONSTANTS Cases,   \* invocations to consider
          Quarter  \* of the values an integer has, 1<<62 in the code

\* Tokens as given or in a file without its last line end; "short" has less than
\* 16 characters, "spaced" a space.
GoodTokens == {"A", "B"}
Tokens == GoodTokens \cup {"", "short", "spaced"}
Files == GoodTokens \cup {"", "short", "spaced", "emptyFile", "unreadable"}
Sizes == [n : 0..2 * Quarter - 1, unit : 1..Quarter]

Optional(S) == {<<>>} \cup {<<v>> : v \in S}

Sources == [updateToken : Optional(Tokens), updateTokenFile : Optional(Files),
            queryToken : Optional(Tokens), anonymous : Optional({"true", "false", ""}),
            maxBytes : Optional(Sizes)]

\* What the path of the store leads to; "empty" is a directory or file with no
\* store in it yet.
Stores == {"memory", "present", "empty", "absent"}

Invocations == [cmd : {"serve", "load", "query", "version", "help", "unknown"},
                flag : Sources, env : Sources,
                store : Stores, rest : {"valid", "invalid", "help"}]

ASSUME CommandLineAssumption ==
  Quarter \in Nat \ {0} /\ Cases \subseteq Invocations

VARIABLES
  in,        \* the invocation
  pc,        \* where Main is
  notify,    \* signals go to NotifyContext, not to the default action
  ctxDone,   \* the first one arrived
  store,     \* "closed" or "open"
  created,   \* the process created it on disk
  status,    \* cliWriter.status: "none", "ok" or "error"
  out, err,  \* how much of the result is on stdout; an error body on stderr
  refused,   \* stdout refused a part of it (a full disk)
  code,      \* exit code, -1 before
  end        \* how it came about

signalVars == <<notify, ctxDone>>
storeVars  == <<store, created>>
outputVars == <<status, out, err, refused>>
endVars    == <<code, end>>
vars == <<in, pc, signalVars, storeVars, outputVars, endVars>>

TypeOK ==
  /\ pc \in {"start", "configure", "stat", "open", "serving", "loading",
             "evaluate", "evaluated", "returned", "stopped", "exited"}
  /\ notify \in BOOLEAN /\ ctxDone \in BOOLEAN
  /\ store \in {"closed", "open"} /\ created \in BOOLEAN
  /\ status \in {"none", "ok", "error"} /\ out \in {"nothing", "part", "whole"}
  /\ err \in BOOLEAN /\ refused \in BOOLEAN
  /\ code \in -1..2 /\ end \in {"none", "returned", "panicked", "killed", "pipe"}

Init ==
  /\ in \in Cases /\ pc = "start"
  /\ notify = TRUE /\ ctxDone = FALSE
  /\ store = "closed" /\ created = FALSE
  /\ status = "none" /\ out = "nothing" /\ err = FALSE /\ refused = FALSE
  /\ code = -1 /\ end = "none"
-----------------------------------------------------------------------------
(* Settings. *)

BugGiven(f) == IF in.env[f] # <<>> THEN in.env[f] ELSE in.flag[f]

\* flag.Parse, then ApplyEnv for what was not given.
Given(f) == IF in.flag[f] # <<>> THEN in.flag[f] ELSE in.env[f]

Text(f) == IF Given(f) = <<>> THEN "" ELSE Given(f)[1]

\* tokenValue: a file that is named wins; both are an error.
Token(direct, file) == IF file # "" THEN file ELSE direct

TokenError(direct, file) ==
  \/ direct # "" /\ file # ""
  \/ file \in {"unreadable", "emptyFile"}
  \/ Token(direct, file) \in {"short", "spaced"}

UpdateToken == Token(Text("updateToken"), Text("updateTokenFile"))
QueryToken == Text("queryToken")
AllowAnonymous == Text("anonymous") = "true"

\* ParseBytes.
Wrap(i) == ((i + 2 * Quarter) % (4 * Quarter)) - 2 * Quarter

BugTooLarge(s) == Wrap(s.n * s.unit) < 0

TooLarge(s) == s.unit > 1 /\ s.n > Quarter \div s.unit

MaxBytes == Wrap(Given("maxBytes")[1].n * Given("maxBytes")[1].unit)

ParseFails == \/ Given("anonymous") = <<"">>
              \/ Given("maxBytes") # <<>> /\ TooLarge(Given("maxBytes")[1])

\* Serve.Validate joins all errors; the other commands do not have these flags.
Invalid ==
  \/ in.rest = "invalid"
  \/ in.cmd = "load" /\ in.store = "memory"
  \/ in.cmd = "serve" /\ \/ ParseFails
                         \/ TokenError(Text("updateToken"), Text("updateTokenFile"))
                         \/ TokenError(QueryToken, "")
                         \/ UpdateToken # "" /\ (UpdateToken = QueryToken \/ AllowAnonymous)
-----------------------------------------------------------------------------
(* Commands. *)

Return(c) == pc' = "returned" /\ code' = c /\ end' = "returned"
CloseStore == store' = "closed" /\ UNCHANGED created

Dispatch ==
  /\ pc = "start"
  /\ CASE in.cmd \in {"version", "help"} -> Return(0)
       [] in.cmd = "unknown"             -> Return(2)
       [] OTHER -> pc' = "configure" /\ UNCHANGED endVars
  /\ UNCHANGED <<signalVars, storeVars, outputVars>>

\* parse, which ends with 0 for a -h, and Validate; "stat" is runQuery's os.Stat
\* of a persistent store.
Configure ==
  /\ pc = "configure"
  /\ IF in.rest = "help" THEN Return(0)
     ELSE IF Invalid THEN Return(2)
     ELSE /\ pc' = IF in.cmd = "query" /\ in.store # "memory" THEN "stat" ELSE "open"
          /\ UNCHANGED endVars
  /\ UNCHANGED <<signalVars, storeVars, outputVars>>

BugStat ==
  /\ pc = "stat" /\ pc' = "open"
  /\ UNCHANGED <<signalVars, storeVars, outputVars, endVars>>

\* It asks for the path; whether a store is there shows only when it is opened.
Stat ==
  /\ pc = "stat"
  /\ IF in.store = "absent" THEN Return(1) ELSE pc' = "open" /\ UNCHANGED endVars
  /\ UNCHANGED <<signalVars, storeVars, outputVars>>

OpenFails ==
  /\ pc = "open" /\ Return(1)
  /\ UNCHANGED <<signalVars, storeVars, outputVars>>

\* storage.Open creates the store, and its directory, where there is none.  A query
\* without data files goes on to evaluate.
Open ==
  /\ pc = "open"
  /\ CASE in.cmd = "serve" -> pc' = "serving"
       [] in.cmd = "load"  -> pc' = "loading"
       [] in.cmd = "query" -> pc' \in {"loading", "evaluate"}
  /\ store' = "open" /\ created' = (in.store \in {"absent", "empty"})
  /\ UNCHANGED <<signalVars, outputVars, endVars>>

\* Run returns nil only after a signal; it closes the store.
ServeEnds ==
  /\ pc = "serving"
  /\ (ctxDone /\ Return(0)) \/ Return(1)
  /\ CloseStore /\ UNCHANGED <<signalVars, outputVars>>

LoadEnds ==
  /\ pc = "loading" /\ in.cmd = "load"
  /\ Return(0) \/ Return(1)
  /\ CloseStore /\ UNCHANGED <<signalVars, outputVars>>

\* The data of a query; the store is closed by a deferred call.
DataLoaded ==
  /\ pc = "loading" /\ in.cmd = "query"
  /\ \/ pc' = "evaluate" /\ UNCHANGED <<storeVars, endVars>>
     \/ Return(1) /\ CloseStore
  /\ UNCHANGED <<signalVars, outputVars>>
-----------------------------------------------------------------------------
(* The query command: the endpoint writes to cliWriter. *)

\* cliWriter.Write; without a WriteHeader before, the status is 200.  The error of
\* a refused write goes to the endpoint, which may go on, end or panic, and nowhere
\* else.
Write(amount) ==
  /\ status' = IF status = "none" THEN "ok" ELSE status
  /\ \/ status = "error" /\ err' = TRUE /\ UNCHANGED <<out, refused>>
     \/ status # "error" /\ ~refused /\ out' = amount /\ UNCHANGED <<err, refused>>
     \/ status # "error" /\ refused' = TRUE /\ out' \in {out, "part"} /\ UNCHANGED err

Row ==
  /\ pc = "evaluate" /\ status # "error" /\ Write("part")
  /\ UNCHANGED <<pc, signalVars, storeVars, endVars>>

WriteHeader(s) ==
  /\ pc = "evaluate" /\ status = "none" /\ status' = s
  /\ UNCHANGED <<pc, signalVars, storeVars, out, err, refused, endVars>>

\* The rest of the result, or the body of an error.
LastWrite ==
  /\ pc = "evaluate" /\ Write("whole") /\ pc' = "evaluated"
  /\ UNCHANGED <<signalVars, storeVars, endVars>>

BugEndpointPanics ==
  /\ pc = "evaluate" /\ out = "part" /\ pc' = "evaluated"
  /\ UNCHANGED <<signalVars, storeVars, outputVars, endVars>>

\* http.ErrAbortHandler after part of the result, or after a refused write, which
\* nothing here recovers: the deferred close runs, and the Go runtime exits with 2.
EndpointPanics ==
  /\ \/ pc = "evaluate" /\ out = "part"
     \/ pc \in {"evaluate", "evaluated"} /\ refused
  /\ pc' = "exited" /\ code' = 2 /\ end' = "panicked"
  /\ CloseStore /\ UNCHANGED <<signalVars, outputVars>>

\* Nobody reads stdout any more: SIGPIPE, which the Go runtime leaves to its
\* default action for stdout, kills the process.
BrokenPipe ==
  /\ pc = "evaluate" /\ status # "error"
  /\ pc' = "exited" /\ end' = "pipe"
  /\ UNCHANGED <<signalVars, storeVars, outputVars, code>>

\* Only the status decides.
QueryEnds ==
  /\ pc = "evaluated" /\ Return(IF status = "error" THEN 1 ELSE 0)
  /\ CloseStore /\ UNCHANGED <<signalVars, outputVars>>
-----------------------------------------------------------------------------
(* main and signals. *)

\* stop(), then os.Exit.
StopNotify ==
  /\ pc = "returned" /\ pc' = "stopped" /\ notify' = FALSE
  /\ UNCHANGED <<ctxDone, storeVars, outputVars, endVars>>

Exit ==
  /\ pc = "stopped" /\ pc' = "exited"
  /\ UNCHANGED <<signalVars, storeVars, outputVars, endVars>>

\* The first signal; until notify is restored further ones change nothing.
Signal ==
  /\ pc # "exited" /\ notify /\ ~ctxDone
  /\ ctxDone' = TRUE
  /\ UNCHANGED <<pc, notify, storeVars, outputVars, endVars>>

BugRestore ==
  /\ notify /\ ctxDone /\ pc = "returned" /\ notify' = FALSE
  /\ UNCHANGED <<pc, ctxDone, storeVars, outputVars, endVars>>

BugRestoreEarly ==
  /\ pc # "exited" /\ notify /\ notify' = FALSE
  /\ UNCHANGED <<pc, ctxDone, storeVars, outputVars, endVars>>

\* The goroutine of main.
Restore ==
  /\ pc # "exited" /\ notify /\ ctxDone /\ notify' = FALSE
  /\ UNCHANGED <<pc, ctxDone, storeVars, outputVars, endVars>>

\* The default action of a signal.
Kill ==
  /\ pc # "exited" /\ ~notify
  /\ pc' = "exited" /\ end' = "killed"
  /\ UNCHANGED <<signalVars, storeVars, outputVars, code>>

MainStep == \/ Dispatch \/ Configure \/ Stat \/ OpenFails \/ Open
            \/ ServeEnds \/ LoadEnds \/ DataLoaded
            \/ Row \/ LastWrite \/ EndpointPanics \/ BrokenPipe \/ QueryEnds
            \/ \E s \in {"ok", "error"} : WriteHeader(s)
            \/ StopNotify \/ Exit

Exited == pc = "exited" /\ UNCHANGED <<pc, signalVars, storeVars, outputVars, endVars>>

Next == (MainStep \/ Signal \/ Restore \/ Kill \/ Exited) /\ UNCHANGED in

Spec == Init /\ [][Next]_vars

\* Main may block for ever (a data file can be a FIFO).  An operator who wants
\* the process to end goes on sending signals.
FairSpec == Spec /\ WF_vars(Restore /\ UNCHANGED in) /\ WF_vars(Kill /\ UNCHANGED in)
-----------------------------------------------------------------------------
(* Properties. *)

Said(f, v) == in.flag[f] = <<v>> \/ (in.flag[f] = <<>> /\ in.env[f] = <<v>>)
Started == pc = "serving"

\* Anyone may write only where the operator says so, and a variable left in the
\* environment does not override a flag that says no.
OpenOnlyOnRequest ==
  Started /\ AllowAnonymous => Said("anonymous", "true") /\ UpdateToken = ""

\* A token the operator names, or a file of one, is the one the server asks for:
\* the server does not start without it, with a weaker one, or with one token for
\* both purposes.
NamedTokenIsRequired ==
  LET named(f) == \E v \in Files \ {""} : Said(f, v)
  IN Started =>
     /\ named("updateToken") \/ named("updateTokenFile") =>
          /\ UpdateToken \in GoodTokens \ {QueryToken}
          /\ Said("updateToken", UpdateToken) \/ Said("updateTokenFile", UpdateToken)
     /\ named("queryToken") => QueryToken \in GoodTokens

\* However flags, variables and files are combined, a server that starts is no more
\* open than the operator said.
OpenAsAsked == OpenOnlyOnRequest /\ NamedTokenIsRequired

\* A size limit is the size that was written: none wraps to a small one, or to 0,
\* which is no limit at all.
SizeIsWhatItSays ==
  \A s \in {Given("maxBytes")[i] : i \in DOMAIN Given("maxBytes")} :
    Started => MaxBytes = s.n * s.unit

\* What a script can make of the exit code of a query: 1 means that stdout got
\* nothing of a result, 0 that it got the whole and nothing else, unless it refused
\* it itself (the code does not look).  Otherwise part of a result never ends
\* normally.
ExitTellsOutput ==
  pc = "exited" /\ in.cmd = "query" =>
    /\ end = "returned" /\ code = 0 /\ in.rest # "help" => ~err /\ (out = "whole" \/ refused)
    /\ end = "returned" /\ code # 0 => out = "nothing"
    /\ out = "part" => refused \/ end \in {"panicked", "killed", "pipe"}

\* A query creates no store where its path leads nowhere (in an empty directory or
\* file it does), and a command that was called wrongly creates none at all.
NoStrayStore ==
  created => /\ \/ in.cmd \in {"serve", "load"}
                \/ in.cmd = "query" /\ in.store = "empty"
             /\ end = "returned" => code # 2

\* Unless it is killed, the process leaves its store closed.
StoreClosed == end \in {"returned", "panicked"} => store = "closed"

\* A command touches no store it has no business with, and leaves the one it
\* opened closed.
StoreRespected == NoStrayStore /\ StoreClosed

\* The first signal never kills a command that is still at work.
FirstSignalIsGraceful == end = "killed" => ctxDone \/ code >= 0

\* README.md:383: "A second signal exits at once", even when Main is blocked in a
\* file and sees no context.
SignalsEndIt == ctxDone ~> pc = "exited"
=============================================================================
