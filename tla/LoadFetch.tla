----------------------------- MODULE LoadFetch -----------------------------
(***************************************************************************)
(* SPARQL LOAD: Allowlist.Load of internal/loader/loader.go fetches a      *)
(* document, following redirects inside the allowlist, reads its body      *)
(* through limitReader, sniffs the format when nothing names it, and has   *)
(* rdfio.ParseInto parse the whole of it before it adds anything to the    *)
(* graph.                                                                  *)
(*                                                                         *)
(* Bytes are counted, not represented.  A read may return fewer bytes than *)
(* asked for; the parser may ask for any number, and may find a syntax     *)
(* error anywhere.                                                         *)
(*                                                                         *)
(* Names starting with Bug are faulty variants of the definition they      *)
(* precede; no specification uses them.                                    *)
(***************************************************************************)
EXTENDS Allowlist

CONSTANTS Allowlists,     \* the sets of prefixes to consider
          Limits,         \* values of maxBytes to consider; 0 is no limit
          MaxSize,        \* largest document considered
          HeadSize,       \* bytes read to sniff the format, 512 in the code
          MaxRequests,    \* requests per LOAD before CheckRedirect refuses, 5
          Batches         \* AddN calls a parsed document takes

ASSUME LoadAssumption ==
  /\ \A ps \in Allowlists : ps \subseteq PrefixURLs
  /\ Limits \subseteq Nat
  /\ MaxSize \in Nat /\ HeadSize \in Nat /\ Batches \in Nat /\ MaxRequests \in Nat \ {0}

VARIABLES
  prefixes,  \* of the allowlist
  pc,        \* where Load is
  result,    \* what it returned
  url,       \* of the request being answered
  requests,  \* how many requests were sent
  limit,     \* maxBytes
  document,  \* bytes of the document the source has
  size,      \* bytes of the body
  framed,    \* the body says where it ends: it has a length or is chunked
  received,  \* bytes taken from the body
  left,      \* limitReader.left
  exceeded,  \* limitReader.exceeded
  broken,    \* every further read of the body fails
  ctxDone,   \* the timeout of the load or of the update
  head,      \* bytes kept from sniffing
  sniffed,   \* the format came from the content
  parsed,    \* bytes the parser was given
  added      \* batches added to the graph

requestVars == <<url, requests>>
docVars     == <<limit, document, size, framed>>
readVars    == <<received, left, exceeded>>
parseVars   == <<head, sniffed, parsed>>
vars == <<prefixes, pc, result, requestVars, docVars, readVars, broken, ctxDone, parseVars, added>>

TypeOK ==
  /\ prefixes \in Allowlists
  /\ pc \in {"start", "fetch", "head", "sniff", "parse", "add", "done"}
  /\ result \in {"none", "ok", "error", "notAllowed", "tooLarge"}
  /\ url \in URLs /\ requests \in 0..MaxRequests
  /\ limit \in Limits /\ document \in 0..MaxSize /\ size \in 0..document /\ framed \in BOOLEAN
  /\ received \in 0..size /\ left \in 0..limit /\ exceeded \in BOOLEAN
  /\ broken \in BOOLEAN /\ ctxDone \in BOOLEAN
  /\ head \in 0..HeadSize /\ sniffed \in BOOLEAN /\ parsed \in 0..size
  /\ added \in 0..Batches

Init ==
  /\ prefixes \in Allowlists
  /\ pc = "start" /\ result = "none"
  /\ url \in URLs /\ requests = 0
  /\ limit \in Limits /\ document \in 0..MaxSize /\ size = document /\ framed = TRUE
  /\ received = 0 /\ left = limit /\ exceeded = FALSE
  /\ broken = FALSE /\ ctxDone = FALSE
  /\ head = 0 /\ sniffed = FALSE /\ parsed = 0
  /\ added = 0

Done(r) == pc' = "done" /\ result' = r

\* The context ends: the transport fails whatever it is doing.
BugContextEnds ==
  /\ pc # "done" /\ ~ctxDone
  /\ ctxDone' = TRUE
  /\ UNCHANGED <<pc, result, requestVars, docVars, readVars, broken, parseVars, added>>

ContextEnds ==
  /\ pc # "done" /\ ~ctxDone
  /\ ctxDone' = TRUE /\ broken' = TRUE
  /\ UNCHANGED <<pc, result, requestVars, docVars, readVars, parseVars, added>>

\* The connection breaks, in a way that the transport notices.
ConnectionBreaks ==
  /\ pc \in {"fetch", "head", "parse"} /\ ~broken
  /\ broken' = TRUE
  /\ UNCHANGED <<pc, result, requestVars, docVars, readVars, ctxDone, parseVars, added>>
-----------------------------------------------------------------------------
(* Fetching. *)

Start ==
  /\ pc = "start"
  /\ \/ ~Allowed(prefixes, url) /\ Done("notAllowed") /\ UNCHANGED requests
     \/ Allowed(prefixes, url) /\ pc' = "fetch" /\ requests' = 1 /\ UNCHANGED result
  /\ UNCHANGED <<url, docVars, readVars, broken, ctxDone, parseVars, added>>

\* CheckRedirect: requests is len(via).
CheckRedirect(u) == Allowed(prefixes, u) /\ requests < MaxRequests

Redirect(u) ==
  /\ pc = "fetch" /\ ~broken
  /\ \/ /\ CheckRedirect(u)
        /\ url' = u /\ requests' = requests + 1
        /\ UNCHANGED <<pc, result>>
     \/ /\ ~CheckRedirect(u)
        /\ Done(IF requests >= MaxRequests THEN "error" ELSE "notAllowed")
        /\ UNCHANGED requestVars
  /\ UNCHANGED <<docVars, readVars, broken, ctxDone, parseVars, added>>

\* A status other than 200.
HTTPError ==
  /\ pc = "fetch" /\ ~broken
  /\ Done("error")
  /\ UNCHANGED <<requestVars, docVars, readVars, broken, ctxDone, parseVars, added>>

\* client.Do fails: a transport error or the timeout.
FetchFails ==
  /\ pc = "fetch" /\ broken
  /\ Done("error")
  /\ UNCHANGED <<requestVars, docVars, readVars, broken, ctxDone, parseVars, added>>

\* 200 with a Content-Length over the limit.
DeclaredTooLarge ==
  /\ pc = "fetch" /\ ~broken /\ limit > 0 /\ size > limit
  /\ Done("tooLarge")
  /\ UNCHANGED <<requestVars, docVars, readVars, broken, ctxDone, parseVars, added>>

\* 200 with a Content-Length in the limit, or without one, in chunks or up to the
\* end of the connection.  A media type or a file extension tells the format, or
\* else the content must.
Respond(end, known) ==
  /\ pc = "fetch" /\ ~broken
  /\ end = "length" => limit = 0 \/ size <= limit
  /\ framed' = (end # "close")
  /\ pc' = IF known THEN "parse" ELSE "head"
  /\ sniffed' = ~known
  /\ UNCHANGED <<result, requestVars, limit, document, size, readVars, broken, ctxDone, head, parsed, added>>
-----------------------------------------------------------------------------
(* limitReader.Read, called to fill the head or by the parser. *)

Limited == limit > 0
Remaining == size - received
Reading == pc \in {"head", "parse"}

\* k bytes reach the caller.
Deliver(k) == /\ received' = received + k
              /\ \/ pc = "head" /\ head' = head + k /\ UNCHANGED parsed
                 \/ pc = "parse" /\ parsed' = parsed + k /\ UNCHANGED head

\* The source closes the connection early: without a length or chunks this is the
\* end of the body like any other.
CutShort ==
  /\ Reading /\ ~broken /\ ~framed /\ Remaining > 0
  /\ size' = received
  /\ UNCHANGED <<pc, result, requestVars, limit, document, framed, readVars, broken, ctxDone,
                 parseVars, added>>

BugReadAdds(k) ==
  /\ Reading /\ ~broken
  /\ (Limited => k <= left) /\ k <= Remaining
  /\ pc = "head" => k <= HeadSize - head
  /\ Deliver(k)
  /\ left' = IF Limited THEN left - k ELSE left
  /\ added' = IF pc = "parse" /\ added < Batches THEN added + 1 ELSE added
  /\ UNCHANGED <<pc, result, requestVars, docVars, exceeded, broken, ctxDone, sniffed>>

\* The buffer is cut to what is left of the limit.
Read(k) ==
  /\ Reading /\ ~broken
  /\ (Limited => k <= left) /\ k <= Remaining
  /\ pc = "head" => k <= HeadSize - head
  /\ Deliver(k)
  /\ left' = IF Limited THEN left - k ELSE left
  /\ UNCHANGED <<pc, result, requestVars, docVars, exceeded, broken, ctxDone, sniffed, added>>

BugProbe ==
  /\ Reading /\ ~broken /\ Limited /\ left = 0 /\ Remaining > 0
  /\ pc' = IF pc = "head" THEN "sniff" ELSE "add"
  /\ received' = received + 1 /\ exceeded' = TRUE
  /\ UNCHANGED <<result, requestVars, docVars, left, broken, ctxDone, parseVars, added>>

BugProbeExact ==
  /\ Reading /\ ~broken /\ Limited /\ left = 0
  /\ \/ pc = "head" /\ pc' = "sniff" /\ UNCHANGED result
     \/ pc = "parse" /\ Done("tooLarge")
  /\ received' = IF Remaining > 0 THEN received + 1 ELSE received
  /\ exceeded' = TRUE
  /\ UNCHANGED <<requestVars, docVars, left, broken, ctxDone, parseVars, added>>

\* At the limit one more byte is read, which is lost: ErrTooLarge.  The head
\* drops the error (n, _ := io.ReadFull).
Probe ==
  /\ Reading /\ ~broken /\ Limited /\ left = 0 /\ Remaining > 0
  /\ \/ pc = "head" /\ head < HeadSize /\ pc' = "sniff" /\ UNCHANGED result
     \/ pc = "parse" /\ Done("tooLarge")
  /\ received' = received + 1 /\ exceeded' = TRUE
  /\ UNCHANGED <<requestVars, docVars, left, broken, ctxDone, parseVars, added>>

\* The body ends.  The parser then parses what it has, without a syntax error.
EndOfBody ==
  /\ Reading /\ ~broken /\ Remaining = 0
  /\ pc' = IF pc = "head" THEN "sniff" ELSE "add"
  /\ UNCHANGED <<result, requestVars, docVars, readVars, broken, ctxDone, parseVars, added>>

\* A read fails: the head drops this error too, the parser reports it.
ReadFails ==
  /\ Reading /\ broken
  /\ \/ pc = "head" /\ pc' = "sniff" /\ UNCHANGED result
     \/ pc = "parse" /\ Done(IF exceeded THEN "tooLarge" ELSE "error")
  /\ UNCHANGED <<requestVars, docVars, readVars, broken, ctxDone, parseVars, added>>

HeadFull ==
  /\ pc = "head" /\ head = HeadSize
  /\ pc' = "sniff"
  /\ UNCHANGED <<result, requestVars, docVars, readVars, broken, ctxDone, parseVars, added>>
-----------------------------------------------------------------------------
(* Parsing. *)

\* The parser gets the head back in front of the rest (io.MultiReader).
Sniff ==
  /\ pc = "sniff"
  /\ \/ pc' = "parse" /\ parsed' = head /\ UNCHANGED result
     \/ Done("error") /\ UNCHANGED parsed
  /\ UNCHANGED <<requestVars, docVars, readVars, broken, ctxDone, head, sniffed, added>>

SyntaxError ==
  /\ pc = "parse"
  /\ Done(IF exceeded THEN "tooLarge" ELSE "error")
  /\ UNCHANGED <<requestVars, docVars, readVars, broken, ctxDone, parseVars, added>>

\* batcher.flush checks the context before each AddN.
AddBatch ==
  /\ pc = "add" /\ added < Batches /\ ~ctxDone
  /\ added' = added + 1
  /\ UNCHANGED <<pc, result, requestVars, docVars, readVars, broken, ctxDone, parseVars>>

AddCanceled ==
  /\ pc = "add" /\ ctxDone
  /\ Done(IF exceeded THEN "tooLarge" ELSE "error")
  /\ UNCHANGED <<requestVars, docVars, readVars, broken, ctxDone, parseVars, added>>

AddDone ==
  /\ pc = "add" /\ added = Batches
  /\ Done("ok")
  /\ UNCHANGED <<requestVars, docVars, readVars, broken, ctxDone, parseVars, added>>

\* Steps that wait for nothing.
Own == \/ Start \/ FetchFails \/ ReadFails \/ HeadFull
       \/ Sniff \/ AddBatch \/ AddCanceled \/ AddDone

\* Steps that need the source to send something.
Source == \/ ConnectionBreaks \/ CutShort \/ DeclaredTooLarge \/ HTTPError
          \/ Probe \/ EndOfBody \/ SyntaxError
          \/ \E u \in URLs : Redirect(u)
          \/ \E end \in {"length", "chunked", "close"}, known \in BOOLEAN : Respond(end, known)
          \/ \E k \in 1..MaxSize : Read(k)

Terminated == pc = "done" /\ UNCHANGED vars

Next == \/ (Own \/ Source \/ ContextEnds) /\ UNCHANGED prefixes
        \/ Terminated

Spec == Init /\ [][Next]_vars

\* The timeout of the load is set (it is 30 s by default): its context ends.
\* The source may stay silent at any point.
FairSpec == Spec /\ WF_vars(Own /\ UNCHANGED prefixes)
                 /\ WF_vars(ContextEnds /\ UNCHANGED prefixes)
-----------------------------------------------------------------------------
(* Properties. *)

\* A document whose format was named is stored whole or not at all: neither
\* the limit nor a broken connection passes for its end, where HTTP says where the
\* end is.
WholeDocument == result = "ok" /\ ~sniffed /\ framed => parsed = document

\* However the reads fall, no more than the limit is ever parsed.
SizeLimit == limit > 0 => parsed <= limit /\ head <= limit

\* A document of exactly the limit's size is not refused.
ExactFitAccepted == result = "tooLarge" => limit > 0 /\ size > limit

\* The limit is exact: no byte above it is parsed, and no document within it is
\* refused for its size.
LimitIsExact == SizeLimit /\ ExactFitAccepted

\* A LOAD that fails leaves the graph as it was, unless its context ended
\* between two batches (ParseInto parses completely before it adds).
FailureAddsNothing ==
  result \notin {"none", "ok"} /\ ~ctxDone => added = 0

\* Every request, also after redirects, asks for a document inside a listed
\* directory however the server there resolves the path: no dot segment, encoded
\* slash or longer name leads out of it.
RequestsAllowed == requests > 0 => Inside(prefixes, url)

\* A source that goes silent cannot hold the update, and with it the dataset's
\* write lock, past the timeout.
LoadEnds == pc = "fetch" ~> pc = "done"

\* loader.go:184: limitReader fails "instead of returning a silent EOF, so a
\* truncated document is never parsed as a complete one."
NeverTruncated == result = "ok" /\ framed => parsed = document
=============================================================================
