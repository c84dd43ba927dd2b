------------------------------- MODULE Access -------------------------------
(***************************************************************************)
(* What is decided about a request from its headers alone: the token check *)
(* (internal/auth/auth.go), cross-origin requests (internal/httpx/cors.go) *)
(* and whether a response may be compressed (internal/httpx/gzip.go).      *)
(*                                                                         *)
(* An Authorization header is one of the kinds below or the token it       *)
(* carries, as Bearer or as Basic password: "query" and "update" are the   *)
(* tokens of a server that has them, and wrong ones on a server that has   *)
(* not.                                                                    *)
(*                                                                         *)
(* Names starting with Bug are faulty variants of the definition they      *)
(* precede; no specification uses them.                                    *)
(***************************************************************************)
EXTENDS Naturals, Sequences

Tokens == {"query", "update", "wrong"}

\* No header, no space in it, another scheme; bad base64, no colon; no token.
NoCredentials == {"absent", "otherScheme", "malformed", "empty"}
Headers == Tokens \cup NoCredentials

Origins == {"none", "listed", "other"}

\* One part of an Accept-Encoding header (x-gzip is gzip); q says whether its q
\* is above 0.
Codings == [name : {"gzip", "*", "br"}, q : BOOLEAN]
AcceptEncodings == UNION {[1..n -> Codings] : n \in 0..2}

\* OPTIONS is a preflight when it says which method it asks for.
Requests == [route : {"endpoint", "get"}, kind : {"read", "write", "options", "preflight"},
             authorization : Headers, origin : Origins, accept : AcceptEncodings]

\* What Serve.Validate lets through: an update token excludes anonymous updates.
Configs == {c \in [query : BOOLEAN, update : BOOLEAN, anonymous : BOOLEAN,
                   cors : {"off", "list", "any"}, metrics : BOOLEAN] :
              ~(c.update /\ c.anonymous)}
-----------------------------------------------------------------------------
(* auth.Authorizer: "ok", or the status of the refusal. *)

Present(h) == h \notin NoCredentials
IsUpdate(c, h) == h = "update" /\ c.update
IsQuery(c, h) == h = "query" /\ c.query

BadToken(c, h) == Present(h) /\ ~IsUpdate(c, h) /\ ~IsQuery(c, h) /\ (c.query \/ c.update)

AuthorizeRead(c, h) ==
  IF \/ ~c.query /\ ~BadToken(c, h)
     \/ IsQuery(c, h) \/ IsUpdate(c, h)
  THEN "ok" ELSE "401"

\* Faults: refuses before it looks at anonymous; lets the query token write.
BugAuthorizeWrite(c, h) ==
  IF IsUpdate(c, h) THEN "ok"
  ELSE IF BadToken(c, h) THEN "401"
  ELSE IF IsQuery(c, h) THEN "403"
  ELSE IF c.anonymous THEN "ok"
  ELSE IF ~c.update THEN "403"
  ELSE "401"

BugWritesAllowed(c, h) ==
  IF BadToken(c, h) THEN "401"
  ELSE IF IsUpdate(c, h) \/ IsQuery(c, h) \/ c.anonymous THEN "ok"
  ELSE IF ~c.update THEN "403"
  ELSE "401"

\* The order matters: an anonymous server accepts the query token for writes.
AuthorizeWrite(c, h) ==
  IF IsUpdate(c, h) THEN "ok"
  ELSE IF BadToken(c, h) THEN "401"
  ELSE IF c.anonymous THEN "ok"
  ELSE IF IsQuery(c, h) \/ ~c.update THEN "403"
  ELSE "401"

\* What does not update is authorized as a read.
Writes(q) == q.kind = "write"

Authorize(c, h, write) == IF write THEN AuthorizeWrite(c, h) ELSE AuthorizeRead(c, h)
-----------------------------------------------------------------------------
(* httpx.CORS and httpx.AcceptsGzip. *)

OriginAllowed(c, q) ==
  \/ c.cors = "any" /\ q.origin # "none"
  \/ c.cors = "list" /\ q.origin = "listed"

AnsweredByCORS(c, q) == OriginAllowed(c, q) /\ q.kind = "preflight"

BugAcceptsGzip(accept) ==
  LET named == {i \in DOMAIN accept : accept[i].name # "br"}
  IN  \E i \in named : accept[i].q /\ \A j \in named : i <= j

\* The first entry for gzip decides, without one the last "*".
AcceptsGzip(accept) ==
  LET Entries(name) == {i \in DOMAIN accept : accept[i].name = name}
  IN  IF Entries("gzip") # {}
      THEN \E i \in Entries("gzip") : accept[i].q /\ \A j \in Entries("gzip") : i <= j
      ELSE \E i \in Entries("*") : accept[i].q /\ \A j \in Entries("*") : i >= j
=============================================================================
