----------------------------- MODULE Allowlist -----------------------------
(***************************************************************************)
(* Which URLs a LOAD may fetch: New, normalize and Allowed of              *)
(* internal/loader/loader.go.  A URL is an origin (scheme, host without    *)
(* case, port with its default) and a path, as the sequence of its         *)
(* segments: "/data/" is <<"data", "">>, "/" is <<"">>, and none is <<>>.   *)
(* Besides names a segment can be "..", for the dot segments, plain or as  *)
(* "%2e%2e", or "..%2Fx", for those with an encoded slash.                 *)
(***************************************************************************)
EXTENDS Naturals, Sequences, SequencesExt

CONSTANTS Names,    \* segments that are plain names; "" is the empty one
          Origins,  \* origins that a prefix can name
          Barred,   \* what none can: no host, user info, or another scheme
          Depth     \* segments of a path at most

ASSUME AllowlistAssumption ==
  /\ {"..", "..%2Fx"} \cap Names = {}
  /\ Barred \notin Origins
  /\ Depth \in Nat

Segments == Names \cup {"..", "..%2Fx"}
Paths == UNION {[1..n -> Segments] : n \in 0..Depth}

URLs == [origin : Origins \cup {Barred}, path : Paths]

\* normalize refuses paths that a server might resolve to somewhere else.
BugNormal(path) == \A i \in DOMAIN path : path[i] # ".."

Normal(path) == \A i \in DOMAIN path : path[i] \in Names

\* What New accepts; anything else stops the server from starting.
PrefixURLs == {p \in URLs : p.origin \in Origins /\ Normal(p.path)}

\* strings.HasPrefix of a path and a prefix that ends with a slash; as string
\* prefixes "/data" also covers "/database".
Below(path, dir) == Len(path) > Len(dir) /\ SubSeq(path, 1, Len(dir)) = dir

Covers(prefix, path) ==
  \/ prefix \in {<<>>, <<"">>}
  \/ path = prefix
  \/ prefix # <<>> /\ Last(prefix) = "" /\ Below(path, Front(prefix))
  \/ Below(path, prefix)

Allowed(prefixes, u) ==
  /\ Normal(u.path)
  /\ \E p \in prefixes : p.origin = u.origin /\ Covers(p.path, u.path)
-----------------------------------------------------------------------------
(* The reference: where a server may find the document of a URL, after it  *)
(* has decoded the path and removed its dot segments.                      *)

Up(path) == IF path = <<>> THEN <<>> ELSE Front(path)

Resolve(path) ==
  LET dir[i \in 0..Len(path)] ==
        IF i = 0 THEN <<>>
        ELSE IF path[i] = ".." THEN Up(dir[i - 1])
        ELSE IF path[i] = "..%2Fx" THEN Append(Up(dir[i - 1]), "x")
        ELSE Append(dir[i - 1], path[i])
  IN dir[Len(path)]

Directory(prefix) == IF prefix # <<>> /\ Last(prefix) = "" THEN Front(prefix) ELSE prefix

Inside(prefixes, u) ==
  \E p \in prefixes : p.origin = u.origin /\ IsPrefix(Directory(p.path), Resolve(u.path))
=============================================================================
