----------------------------- MODULE GzipWriter -----------------------------
(***************************************************************************)
(* Response compression: gzipWriter of internal/httpx/gzip.go, between the *)
(* handler of one request and net/http.                                    *)
(*                                                                         *)
(* A handler calls WriteHeader, Write and Flush in any order and returns   *)
(* or panics.  Body bytes are counted, in units of which MinSize make      *)
(* gzipMinSize.  The operators on g, the state of a gzipWriter and of what *)
(* net/http was given, are the methods; the actions are the handler's.     *)
(* Every response has a compressor of its own: gzipPool gets one back only *)
(* after its last use.                                                     *)
(*                                                                         *)
(* Names starting with Bug are faulty variants of the definition they      *)
(* precede; no specification uses them.                                    *)
(***************************************************************************)
EXTENDS Naturals

CONSTANTS MinSize,  \* gzipMinSize
          MaxBody   \* bound on the bytes the handler writes

ASSUME GzipAssumption == MinSize \in Nat \ {0} /\ MaxBody \in Nat

VARIABLES handler,  \* "runs", "returned" or "panicked"
          declared, \* the Content-Length and Content-Encoding the handler set
          written,  \* history: bytes the handler wrote
          flushed,  \* history: the handler flushed
          g         \* the gzipWriter and the response behind it

vars == <<handler, declared, written, flushed, g>>

\* 204 and 304 have no body; 1xx is passed on and is not the response's status.
Codes == {"ok", "bodyless", "info"}

Lengths == {"unset", "small", "large"}  \* small is below gzipMinSize

Writers == [status   : {"none", "ok", "bodyless"},  \* 0 in the code
            buf      : 0..MaxBody,
            decided  : BOOLEAN,
            compress : BOOLEAN,
            encoding : {"none", "own", "gzip"},    \* Content-Encoding
            length   : Lengths,                    \* Content-Length
            headers  : 0..1,                       \* headers sent
            plain    : 0..MaxBody,                 \* bytes sent as they are
            held     : 0..MaxBody,                 \* bytes inside the compressor
            packed   : 0..MaxBody,                 \* bytes sent compressed
            trailer  : BOOLEAN]                    \* gzip trailer sent

TypeOK ==
  /\ handler \in {"runs", "returned", "panicked"}
  /\ declared \in [length : Lengths, encoding : {"none", "own"}]
  /\ written \in 0..MaxBody
  /\ flushed \in BOOLEAN
  /\ g \in Writers

\* The headers the handler sets before it calls anything.
Init ==
  /\ handler = "runs" /\ written = 0 /\ flushed = FALSE
  /\ declared \in [length : Lengths, encoding : {"none", "own"}]
  /\ g = [status |-> "none", buf |-> 0, decided |-> FALSE, compress |-> FALSE,
          encoding |-> declared.encoding, length |-> declared.length, headers |-> 0,
          plain |-> 0, held |-> 0, packed |-> 0, trailer |-> FALSE]
-----------------------------------------------------------------------------
(* The methods. *)

BugDecide(w, z) ==
  [w EXCEPT !.decided = TRUE, !.compress = z, !.headers = @ + 1,
            !.encoding = IF z THEN "gzip" ELSE @]

\* The header is sent, for a compressed body or not.
Decide(w, z) ==
  [w EXCEPT !.decided = TRUE, !.compress = z, !.headers = @ + 1,
            !.encoding = IF z THEN "gzip" ELSE @,
            !.length = IF z THEN "unset" ELSE @]

Emit(w, n) == IF w.compress THEN [w EXCEPT !.held = @ + n] ELSE [w EXCEPT !.plain = @ + n]

DecideAndDrain(w, z) == Emit([Decide(w, z) EXCEPT !.buf = 0], w.buf)

\* The header decides at once when there is nothing to compress, or when it
\* tells the length.
ByHeader(w) == IF w.length = "unset" THEN w ELSE Decide(w, w.length = "large")

WriteHeader(w, code) ==
  LET s == [w EXCEPT !.status = code]
      bare == code = "bodyless" \/ w.encoding # "none"
  IN  IF w.decided \/ w.status # "none" \/ code = "info" THEN w
      ELSE IF bare THEN Decide(s, FALSE)
      ELSE ByHeader(s)

\* Write calls WriteHeader(200) when the status is unset; otherwise
\* WriteHeader would change nothing.
Write(w, n) ==
  LET h == WriteHeader(w, "ok")
      b == [h EXCEPT !.buf = @ + n]
  IN  IF h.decided THEN Emit(h, n)
      ELSE IF b.buf >= MinSize THEN DecideAndDrain(b, TRUE) ELSE b

\* The compressor hands on what it holds.
Push(w) == [w EXCEPT !.packed = @ + w.held, !.held = 0]

BugFlushed(w) == Push(w)

\* Flush decides for compression without looking at the headers.
Flushed(w) ==
  Push(IF w.decided THEN w
       ELSE DecideAndDrain([w EXCEPT !.status = IF @ = "none" THEN "ok" ELSE @], TRUE))

Close(w) == IF w.compress THEN [Push(w) EXCEPT !.trailer = TRUE] ELSE w

\* finish(): what was never large enough goes out uncompressed; of a handler
\* that wrote nothing net/http makes the response.
Finished(w) ==
  Close(IF w.decided \/ (w.status = "none" /\ w.buf = 0) THEN w
        ELSE DecideAndDrain(w, FALSE))
-----------------------------------------------------------------------------
(* The handler. *)

CallWriteHeader ==
  /\ handler = "runs"
  /\ \E code \in Codes : g' = WriteHeader(g, code)
  /\ UNCHANGED <<handler, declared, written, flushed>>

\* A handler writes no body after 204 or 304.
CallWrite ==
  /\ handler = "runs" /\ g.status # "bodyless"
  /\ \E n \in 0..(MaxBody - written) : g' = Write(g, n) /\ written' = written + n
  /\ UNCHANGED <<handler, declared, flushed>>

\* No handler flushes a body it encoded itself before it writes to it.
CallFlush ==
  /\ handler = "runs" /\ (g.encoding = "own" => g.decided)
  /\ g' = Flushed(g) /\ flushed' = TRUE
  /\ UNCHANGED <<handler, declared, written>>

HandlerReturns ==
  /\ handler = "runs"
  /\ handler' = "returned" /\ g' = Finished(g)
  /\ UNCHANGED <<declared, written, flushed>>

BugHandlerPanics ==
  /\ handler = "runs"
  /\ handler' = "panicked" /\ g' = Finished(g)
  /\ UNCHANGED <<declared, written, flushed>>

\* finish is not deferred: net/http cuts the connection.
HandlerPanics ==
  /\ handler = "runs"
  /\ handler' = "panicked"
  /\ UNCHANGED <<declared, written, flushed, g>>

Terminated == handler # "runs" /\ UNCHANGED vars

Next == \/ CallWriteHeader \/ CallWrite \/ CallFlush \/ HandlerReturns \/ HandlerPanics
        \/ Terminated

Spec == Init /\ [][Next]_vars
-----------------------------------------------------------------------------
(* Properties. *)

\* The header goes out once, and before any byte of the body, in every order
\* of WriteHeader, Write, Flush and return.
HeaderBeforeBody ==
  /\ g.headers <= 1
  /\ g.plain + g.held + g.packed > 0 => g.headers = 1

\* A handler that returns has its whole body sent: nothing stays in the buffer
\* or in the compressor.
BodyComplete ==
  handler = "returned" => g.plain + g.packed = written /\ g.held = 0 /\ g.buf = 0

\* gzip.go:27-31: a client never mistakes a truncated result for a complete
\* one, because only a handler that returned has its gzip stream terminated.
AbortedIsUnterminated == g.trailer => handler = "returned" /\ g.compress

\* The header tells the truth about the body: gzip and no Content-Length for
\* a compressed one, the handler's own headers for any other.
HeaderMatchesBody ==
  g.headers = 1 => IF g.compress
                   THEN g.encoding = "gzip" /\ g.length = "unset" /\ g.plain = 0
                   ELSE /\ g.encoding = declared.encoding /\ g.length = declared.length
                        /\ g.held + g.packed = 0

\* A body the handler encoded itself is not compressed again.
NeverEncodedTwice == declared.encoding = "own" => ~g.compress

\* What is compressed was worth it, or had to be streamed; what is not was
\* small, had no body or was encoded already.
CompressedWhenWorthIt ==
  handler = "returned" =>
    IF g.compress THEN flushed \/ declared.length = "large" \/ written >= MinSize
    ELSE written < MinSize \/ declared.length = "small" \/ g.encoding = "own"

\* In every order of the handler's calls the response has one header, before its
\* body, that says truly how the body is encoded, and the body is compressed
\* exactly if it may be and is worth it.
RightlyEncoded ==
  HeaderBeforeBody /\ HeaderMatchesBody /\ NeverEncodedTwice /\ CompressedWhenWorthIt

\* A client that sees the proper end of a response has all of it, and only the
\* handler's return brings it about.
EndIsTruthful == BodyComplete /\ AbortedIsUnterminated

\* Flush gets everything written so far to the client, so results stream.
FlushDelivers == [][CallFlush => g'.plain + g'.packed = written]_vars
=============================================================================
