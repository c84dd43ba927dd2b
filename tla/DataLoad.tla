------------------------------ MODULE DataLoad ------------------------------
(***************************************************************************)
(* Loading RDF files into a persistent store: storage.Load, rdfio.LoadFile *)
(* and its batcher, run by the load command (runLoad of internal/cli) as   *)
(* often as its user likes, with crashes and signals in between.  The      *)
(* server loads its startup data with the same storage.Load.               *)
(*                                                                         *)
(* A document is its number of statements, whether its format is parsed as *)
(* a whole (Turtle, TriG, RDF/XML, JSON-LD) or as a stream (N-Triples,     *)
(* N-Quads), and whether it is malformed after its last statement.  Its    *)
(* first statement has a blank node, which every load names afresh.  One   *)
(* AddN is one transaction of the store.                                   *)
(*                                                                         *)
(* Names starting with Bug are faulty variants of the definition they      *)
(* precede; no specification uses them.                                    *)
(***************************************************************************)
EXTENDS Naturals, FiniteSets

CONSTANTS Jobs,       \* files per load: 1..Jobs, in order
          Sizes,      \* numbers of statements a document may have
          BatchSize,  \* batchSize, 10000 in the code
          Runs        \* bound on the invocations of the command

ASSUME LoadAssumption ==
  Jobs \in Nat /\ Sizes \subseteq Nat /\ BatchSize \in Nat \ {0} /\ Runs \in Nat

VARIABLES
  docs,     \* the files, the same for every run
  proc,     \* where the command is
  run,      \* which invocation it is
  job,      \* the file being loaded
  fed,      \* statements of the file given to batcher.add
  buf,      \* batcher.buf
  total,    \* statements of the completed files, as the command reports them
  loadErr,  \* the error of storage.Load
  ctxDone,  \* a signal arrived
  late,     \* history: AddN calls after the signal
  store,    \* the quads on disk
  exit      \* the exit code of the last invocation

memVars == <<job, fed, buf, total, loadErr>>
vars == <<docs, proc, run, memVars, ctxDone, late, store, exit>>

Documents == [whole : BOOLEAN, bad : BOOLEAN, size : Sizes]

\* Statement i of file j, as loaded by run r.
Quad(j, i, r) == <<j, i, IF i = 1 THEN r ELSE 0>>
Quads(j, r) == {Quad(j, i, r) : i \in 1..docs[j].size}

TypeOK ==
  /\ docs \in [1..Jobs -> Documents]
  /\ proc \in {"off", "expand", "jobs", "read", "feed", "flush", "add", "lastFlush", "lastAdd",
               "report"}
  /\ run \in 0..Runs /\ job \in 1..(Jobs + 1)
  /\ buf \subseteq fed /\ (proc \in {"feed", "flush"} => fed \subseteq 1..docs[job].size)
  /\ total \in Nat /\ late \in Nat /\ loadErr \in BOOLEAN /\ ctxDone \in BOOLEAN
  /\ store \subseteq UNION {Quads(j, r) : j \in 1..Jobs, r \in 1..run}
  /\ exit \in {"none", "ok", "error", "crashed"}

Init ==
  /\ docs \in [1..Jobs -> Documents]
  /\ proc = "off" /\ run = 0
  /\ job = 1 /\ fed = {} /\ buf = {} /\ total = 0 /\ loadErr = FALSE
  /\ ctxDone = FALSE /\ late = 0
  /\ store = {} /\ exit = "none"

Goto(p) == proc' = p /\ UNCHANGED <<docs, run, ctxDone, exit>>
-----------------------------------------------------------------------------
(* The command. *)

Start ==
  /\ proc = "off" /\ run < Runs
  /\ run' = run + 1 /\ exit' = "none"
  /\ job' = 1 /\ fed' = {} /\ buf' = {} /\ total' = 0 /\ loadErr' = FALSE
  /\ ctxDone' = FALSE /\ late' = 0
  /\ proc' = "expand"
  /\ UNCHANGED <<docs, store>>

\* storage.Open fails, a server holding the Badger directory for one.
OpenFails ==
  /\ proc = "expand"
  /\ proc' = "off" /\ exit' = "error"
  /\ UNCHANGED <<docs, run, memVars, ctxDone, late, store>>

\* storage.Load returns with an error.
Fail == Goto("report") /\ loadErr' = TRUE /\ UNCHANGED <<job, fed, buf, total, late, store>>

\* A pattern without a match ends the load before anything is read.
Expand ==
  /\ proc = "expand"
  /\ \/ Goto("jobs") /\ UNCHANGED <<memVars, late, store>>
     \/ Fail

\* It prints what it loaded and closes the store, which may fail.
Report ==
  /\ \/ proc = "report"
     \/ proc = "jobs" /\ job > Jobs
  /\ proc' = "off"
  /\ exit' \in {IF loadErr THEN "error" ELSE "ok", "error"}
  /\ UNCHANGED <<docs, run, memVars, ctxDone, late, store>>

\* SIGINT or SIGTERM.
Signal ==
  /\ proc # "off" /\ ~ctxDone
  /\ ctxDone' = TRUE
  /\ UNCHANGED <<docs, proc, run, memVars, late, store, exit>>

\* A second signal or a crash: what was in memory is gone.
Crash ==
  /\ proc # "off"
  /\ proc' = "off" /\ exit' = "crashed"
  /\ UNCHANGED <<docs, run, memVars, ctxDone, late, store>>
-----------------------------------------------------------------------------
(* One file. *)

NewBatcher == fed' = {} /\ buf' = {}

\* The context is checked; the file may be missing, of no known extension, or
\* no gzip stream, and its graph no IRI.
OpenFile ==
  /\ proc = "jobs" /\ job <= Jobs
  /\ \/ /\ ~ctxDone /\ Goto("read")
        /\ NewBatcher /\ UNCHANGED <<job, total, loadErr, late, store>>
     \/ Fail

BugMalformed == FALSE

\* A whole document is parsed before any of it is fed to the batcher.
Malformed == docs[job].whole /\ docs[job].bad

Parse ==
  /\ proc = "read"
  /\ \/ Malformed /\ Fail
     \/ ~Malformed /\ Goto("feed") /\ UNCHANGED <<memVars, late, store>>

\* A stream feeds its statements in their order, a graph in any.
Feeds(i) == /\ i \in 1..docs[job].size \ fed
            /\ ~docs[job].whole => \A k \in 1..(i - 1) : k \in fed

Full(b) == Cardinality(b) >= BatchSize

\* batcher.add
Add(i) ==
  /\ proc = "feed" /\ Feeds(i)
  /\ fed' = fed \cup {i} /\ buf' = buf \cup {i}
  /\ Goto(IF Full(buf \cup {i}) THEN "flush" ELSE "feed")
  /\ UNCHANGED <<job, total, loadErr, late, store>>

BugEndOfDocument ==
  /\ proc = "feed" /\ fed = 1..docs[job].size
  /\ IF docs[job].bad THEN Fail
     ELSE /\ Goto("jobs") /\ job' = job + 1 /\ total' = total + docs[job].size
          /\ UNCHANGED <<fed, buf, loadErr, late, store>>

\* The rest of the buffer is flushed unless the stream turns out malformed.
EndOfDocument ==
  /\ proc = "feed" /\ fed = 1..docs[job].size
  /\ IF docs[job].bad THEN Fail
     ELSE Goto("lastFlush") /\ UNCHANGED <<memVars, late, store>>

BugMayFlush == TRUE

\* The context is checked before each AddN, ...
MayFlush == ~ctxDone

Flush ==
  /\ proc \in {"flush", "lastFlush"}
  /\ \/ /\ MayFlush
        /\ Goto(IF proc = "flush" THEN "add" ELSE "lastAdd")
        /\ UNCHANGED <<memVars, late, store>>
     \/ ~MayFlush /\ Fail

BugAddN ==
  /\ store' = store \cup {Quad(job, i, run) : i \in buf}
  /\ late' = IF ctxDone THEN late + 1 ELSE late
  /\ buf' = buf

\* ... which commits the buffer as one transaction.
AddN ==
  /\ store' = store \cup {Quad(job, i, run) : i \in buf}
  /\ late' = IF ctxDone THEN late + 1 ELSE late
  /\ buf' = {}

AddBatch ==
  /\ proc = "add"
  /\ AddN /\ Goto("feed")
  /\ UNCHANGED <<job, fed, total, loadErr>>

AddLast ==
  /\ proc = "lastAdd"
  /\ AddN /\ Goto("jobs")
  /\ job' = job + 1 /\ total' = total + docs[job].size
  /\ UNCHANGED <<fed, loadErr>>
-----------------------------------------------------------------------------
Terminated == proc = "off" /\ run = Runs /\ UNCHANGED vars

Next == \/ Start \/ OpenFails \/ Expand \/ Report \/ Signal \/ Crash
        \/ OpenFile \/ Parse \/ EndOfDocument \/ Flush \/ AddBatch \/ AddLast
        \/ \E n \in Sizes : \E i \in 1..n : Add(i)
        \/ Terminated

Spec == Init /\ [][Next]_vars
-----------------------------------------------------------------------------
(* Properties. *)

\* An invocation that exits 0 has every statement of every file on disk,
\* whatever earlier invocations left there: no batch is lost, the last one
\* included, and no signal makes a partial load look complete.
SuccessIsComplete == exit = "ok" => \A j \in 1..Jobs : Quads(j, run) \subseteq store

\* README.md:198: the formats that are not streamed "are parsed completely
\* before anything is written, so a malformed file adds nothing".
MalformedAddsNothing ==
  \A j \in 1..Jobs : docs[j].whole /\ docs[j].bad => \A q \in store : q[1] # j

\* What a failed, cancelled or crashed load leaves behind is a prefix of the
\* files, and of a stream within its file: the store never holds a later
\* statement of a run without the earlier ones of that run.
LoadedInOrder ==
  \A q \in store :
    \E r \in 1..run :
      /\ q = Quad(q[1], q[2], r)
      /\ \A j \in 1..(q[1] - 1) : Quads(j, r) \subseteq store
      /\ ~docs[q[1]].whole => \A i \in 1..(q[2] - 1) : Quad(q[1], i, r) \in store

\* Of what was parsed, all but less than a batch is on disk: that bounds both
\* the memory of a streamed load and what a crash takes away.
LossBelowBatch ==
  proc = "feed" =>
    /\ Cardinality(buf) < BatchSize
    /\ \A i \in fed \ buf : Quad(job, i, run) \in store

\* "loaded N statements" counts only what is on disk, also when the load failed.
ReportIsTrue == total <= Cardinality({q \in store : q[3] \in {0, run}})

\* After a signal at most the batch already under way is written.
CancelStopsWriting == late <= 1

\* What the command says is true: exit code 0 means everything is on disk, and
\* the printed count is never more than what is there.
ExitIsTruthful == SuccessIsComplete /\ ReportIsTrue

\* What a failure leaves is a prefix of the data, less than one batch short of
\* what was parsed.
FailureLeavesPrefix == LoadedInOrder /\ LossBelowBatch
=============================================================================
