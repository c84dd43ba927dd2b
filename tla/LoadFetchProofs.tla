--------------------------- MODULE LoadFetchProofs ---------------------------
(***************************************************************************)
(* SPARQL LOAD, for documents, limits, heads and redirect chains of any    *)
(* size.  Its inductive invariant accounts for every byte: what was taken  *)
(* from the body is in the head, with the parser, or was lost to a probe   *)
(* for the limit.                                                          *)
(***************************************************************************)
EXTENDS LoadFetch, TLAPS, WellFoundedInduction, SequenceTheorems

\* A load that has not sent its first request has read nothing; a redirect starts
\* no reading either.
BeginInv ==
  /\ pc = "start" <=> requests = 0 /\ result = "none"
  /\ pc \in {"start", "fetch"} => received = 0 /\ head = 0 /\ parsed = 0 /\ ~sniffed /\ ~exceeded
  /\ pc = "done" <=> result # "none"

\* Bytes read, by where the load is; Lost is the byte of the probe.
Lost == IF exceeded THEN 1 ELSE 0

ReadInv ==
  /\ pc \in {"head", "sniff"} => sniffed /\ parsed = 0 /\ received = head + Lost
  /\ pc = "parse" => received = parsed + Lost
  /\ pc = "head" => ~exceeded
  /\ ~sniffed => head = 0
  /\ pc \in {"add", "done"} \/ limit = 0 \/ left + received = limit + Lost

\* The limit: only a document above it is ever found to exceed it, and then
\* nothing is left to read.
LimitInv ==
  /\ exceeded => limit > 0 /\ size > limit
  /\ exceeded /\ pc # "done" => left = 0
  /\ LimitIsExact

\* A body that is being added was parsed to its end, unless its head was cut, and it
\* is the whole document if it says where it ends.
ParseInv ==
  /\ pc = "add" \/ result = "ok" => parsed = size \/ sniffed
  /\ pc \in {"start", "fetch"} => framed
  /\ framed => size = document
  /\ exceeded /\ pc # "done" => sniffed

\* Only a parsed document is added; a failure between two batches is the context's.
AddInv == added > 0 => pc = "add" \/ result = "ok" \/ (pc = "done" /\ ctxDone)

\* Every request was allowed.
RequestInv == requests > 0 => Allowed(prefixes, url)

\* The inductive invariant.
LoadInv == TypeOK /\ BeginInv /\ ReadInv /\ LimitInv /\ ParseInv /\ AddInv /\ RequestInv
-----------------------------------------------------------------------------
\* Every step of a load keeps the invariant.
LEMMA StepSafe ==
  ASSUME LoadInv, Own \/ Source \/ ContextEnds, prefixes' = prefixes
  PROVE  LoadInv'
<1> USE LoadAssumption
    DEF LoadInv, TypeOK, BeginInv, ReadInv, LimitInv, ParseInv, AddInv, RequestInv, Lost,
        LimitIsExact, SizeLimit, ExactFitAccepted, Done,
        requestVars, docVars, readVars, parseVars
<1>1. /\ limit \in Nat /\ document \in Nat /\ size \in Nat /\ received \in Nat /\ left \in Nat
      /\ head \in Nat /\ parsed \in Nat /\ added \in Nat /\ requests \in Nat
  OBVIOUS
<1>2. CASE ContextEnds
  BY <1>1, <1>2 DEF ContextEnds
<1>3. CASE ConnectionBreaks
  BY <1>1, <1>3 DEF ConnectionBreaks
<1>4. CASE Start
  BY <1>1, <1>4 DEF Start
<1>5. CASE FetchFails
  BY <1>1, <1>5 DEF FetchFails
<1>6. CASE HTTPError
  BY <1>1, <1>6 DEF HTTPError
<1>7. CASE DeclaredTooLarge
  BY <1>1, <1>7 DEF DeclaredTooLarge
<1>8. CASE Probe
  BY <1>1, <1>8 DEF Probe, Reading, Remaining, Limited
<1>9. CASE EndOfBody
  BY <1>1, <1>9 DEF EndOfBody, Reading, Remaining
<1>10. CASE ReadFails
  BY <1>1, <1>10 DEF ReadFails, Reading
<1>11. CASE HeadFull
  BY <1>1, <1>11 DEF HeadFull
<1>12. CASE Sniff
  BY <1>1, <1>12 DEF Sniff
<1>13. CASE SyntaxError
  BY <1>1, <1>13 DEF SyntaxError
<1>14. CASE AddBatch
  BY <1>1, <1>14 DEF AddBatch
<1>15. CASE AddCanceled
  BY <1>1, <1>15 DEF AddCanceled
<1>16. CASE AddDone
  BY <1>1, <1>16 DEF AddDone
<1>17. CASE \E u \in URLs : Redirect(u)
  BY <1>1, <1>17 DEF Redirect, CheckRedirect
<1>18. CASE \E end \in {"length", "chunked", "close"}, known \in BOOLEAN : Respond(end, known)
  <2>1. PICK known \in BOOLEAN : \E end \in {"length", "chunked", "close"} : Respond(end, known)
    BY <1>18
  <2>2. framed' \in BOOLEAN /\ framed /\ UNCHANGED <<document, size>>
    BY <1>1, <2>1 DEF Respond
  <2>3. CASE known
    BY <1>1, <2>1, <2>2, <2>3 DEF Respond
  <2>4. CASE ~known
    <3>1. sniffed' = TRUE /\ pc' = "head"
      BY <2>1, <2>4, Zenon DEF Respond
    <3>2. QED  BY <1>1, <2>1, <2>2, <2>4, <3>1 DEF Respond
  <2>5. QED  BY <2>3, <2>4
<1>19. CASE \E k \in 1..MaxSize : Read(k)
  BY <1>1, <1>19 DEF Read, Deliver, Reading, Remaining, Limited
<1>20. CASE CutShort
  BY <1>1, <1>20 DEF CutShort, Reading, Remaining
<1>21. QED
  BY <1>2, <1>3, <1>4, <1>5, <1>6, <1>7, <1>8, <1>9, <1>10, <1>11, <1>12, <1>13, <1>14,
     <1>15, <1>16, <1>17, <1>18, <1>19, <1>20, Zenon DEF Own, Source

\* Whatever the source sends, redirects to, holds back or breaks off.
THEOREM LoadSafety == Spec => []LoadInv
<1>1. Init => LoadInv
  <2>1. ASSUME Init PROVE TypeOK
    <3>1. limit \in Limits /\ document \in 0..MaxSize
      BY <2>1, Zenon DEF Init
    <3>2. /\ requests = 0 /\ received = 0 /\ left = limit /\ head = 0 /\ parsed = 0 /\ added = 0
          /\ size = document /\ framed = TRUE
      BY <2>1, Zenon DEF Init
    <3>3. /\ requests \in 0..MaxRequests /\ received \in 0..size /\ left \in 0..limit
          /\ head \in 0..HeadSize /\ parsed \in 0..size /\ added \in 0..Batches
          /\ size \in 0..document
      BY <3>1, <3>2, LoadAssumption
    <3>4. QED  BY <2>1, <3>2, <3>3, Zenon DEF Init, TypeOK
  <2>2. Init => BeginInv /\ ReadInv /\ ParseInv
    BY LoadAssumption DEF Init, BeginInv, ReadInv, ParseInv, Lost
  <2>3. Init => LimitInv /\ AddInv /\ RequestInv
    BY LoadAssumption DEF Init, LimitInv, AddInv, RequestInv, LimitIsExact, SizeLimit, ExactFitAccepted
  <2>4. QED  BY <2>1, <2>2, <2>3 DEF LoadInv
<1>2. LoadInv /\ [Next]_vars => LoadInv'
  <2>1. ASSUME LoadInv, UNCHANGED vars PROVE LoadInv'
    BY <2>1 DEF LoadInv, TypeOK, BeginInv, ReadInv, LimitInv, ParseInv, AddInv, RequestInv, Lost,
                LimitIsExact, SizeLimit, ExactFitAccepted,
                vars, requestVars, docVars, readVars, parseVars
  <2>2. QED  BY <2>1, StepSafe, Zenon DEF Next, Terminated
<1>3. QED  BY <1>1, <1>2, PTL DEF Spec
-----------------------------------------------------------------------------
(* What it says of the document. *)

\* Neither the limit nor a broken connection passes for the end of a document
\* whose format was named and whose end HTTP marks.
THEOREM DocumentsAreWhole == Spec => []WholeDocument
<1>1. LoadInv => WholeDocument
  BY DEF LoadInv, ParseInv, WholeDocument
<1>2. QED  BY <1>1, LoadSafety, PTL

\* The limit refuses no document within it and lets no byte above it through.
THEOREM LimitsAreExact == Spec => []LimitIsExact
<1>1. LoadInv => LimitIsExact
  BY DEF LoadInv, LimitInv
<1>2. QED  BY <1>1, LoadSafety, PTL

\* A failed LOAD leaves the graph as it was, unless its context ended.
THEOREM FailuresAddNothing == Spec => []FailureAddsNothing
<1>1. LoadInv => FailureAddsNothing
  BY LoadAssumption DEF LoadInv, TypeOK, BeginInv, AddInv, FailureAddsNothing
<1>2. QED  BY <1>1, LoadSafety, PTL
-----------------------------------------------------------------------------
(* Paths. *)

\* Induction over the naturals, for a set.
LEMMA Less == \A x, y \in Nat : x < y => <<x, y>> \in OpToRel(<, Nat)
  BY DEF OpToRel

LEMMA Induction ==
  ASSUME NEW S, 0 \in S, \A n \in Nat : n \in S => n + 1 \in S
  PROVE  Nat \subseteq S
<1> DEFINE T == Nat \ S
<1>1. SUFFICES ASSUME T # {} PROVE FALSE
  OBVIOUS
<1>2. \E x \in T : \A y \in Nat : y < x => y \notin T
  <2>1. T \subseteq Nat /\ T # {}
    BY <1>1
  <2> HIDE DEF T
  <2>2. PICK x \in T : \A y \in T : ~(<<y, x>> \in OpToRel(<, Nat))
    BY <2>1, NatLessThanWellFounded, WFMin
  <2>3. QED BY <2>1, <2>2, Less, Zenon
<1>3. PICK x \in Nat : x \notin S /\ \A y \in Nat : y < x => y \in S
  BY <1>2
<1>4. x # 0 /\ x - 1 \in Nat /\ x - 1 < x
  BY <1>3
<1>5. x - 1 \in S
  BY <1>3, <1>4
<1>6. x - 1 + 1 \in S
  BY <1>4, <1>5
<1>7. QED BY <1>3, <1>4, <1>6

\* What a path is.
LEMMA PathIsSeq ==
  ASSUME NEW path \in Paths
  PROVE  path \in Seq(Segments) /\ Len(path) \in 0..Depth
BY AllowlistAssumption DEF Paths

\* Server-side resolution leaves a path alone that normalize accepts.
LEMMA NormalResolves ==
  ASSUME NEW path \in Paths, Normal(path)
  PROVE  Resolve(path) = path
<1> DEFINE n == Len(path)
           Step(f, i) == IF i = 0 THEN <<>>
                         ELSE IF path[i] = ".." THEN Up(f[i - 1])
                         ELSE IF path[i] = "..%2Fx" THEN Append(Up(f[i - 1]), "x")
                         ELSE Append(f[i - 1], path[i])
           IsDir(f) == f = [i \in 0..n |-> Step(f, i)]
           dir == CHOOSE f : IsDir(f)
           prefixOf == [i \in 0..n |-> SubSeq(path, 1, i)]
<1>1. n \in Nat /\ path \in Seq(Segments) /\ \A i \in 1..n : path[i] \notin {"..", "..%2Fx"}
  <2>1. n \in Nat /\ path \in Seq(Segments)
    BY PathIsSeq, AllowlistAssumption
  <2>2. DOMAIN path = 1..n
    BY <2>1
  <2>3. \A i \in 1..n : path[i] \in Names
    BY <2>2, Zenon DEF Normal
  <2>4. QED  BY <2>1, <2>3, AllowlistAssumption
<1>2. ASSUME NEW i \in 1..n
      PROVE  SubSeq(path, 1, i) = Append(SubSeq(path, 1, i - 1), path[i])
  BY <1>1
<1>3. SubSeq(path, 1, 0) = <<>>
  BY <1>1
<1>4. IsDir(prefixOf)
  <2>1. \A i \in 0..n : SubSeq(path, 1, i) = Step(prefixOf, i)
    BY <1>1, <1>2, <1>3
  <2>2. QED  BY <2>1, Zenon
<1>5. IsDir(dir)
  BY <1>4, Zenon
<1>6. Resolve(path) = dir[n]
  BY Zenon DEF Resolve
<1> HIDE DEF dir
<1>7. dir[n] = SubSeq(path, 1, n)
  <2> DEFINE S == {i \in Nat : i <= n => dir[i] = SubSeq(path, 1, i)}
  <2>1. 0 \in S
    BY <1>1, <1>3, <1>5
  <2>2. ASSUME NEW i \in Nat, i \in S PROVE i + 1 \in S
    <3>1. CASE i + 1 <= n
      <4> DEFINE k == i + 1
      <4>1. k \in 0..n /\ k \in 1..n /\ k - 1 = i /\ dir[i] = SubSeq(path, 1, i)
        BY <1>1, <2>2, <3>1
      <4> HIDE DEF k
      <4>2. dir[k] = Step(dir, k)
        BY <1>5, <4>1, Zenon
      <4>3. dir[k] = Append(SubSeq(path, 1, k - 1), path[k])
        <5>1. /\ k # 0 /\ path[k] # ".." /\ path[k] # "..%2Fx"
              /\ dir[k - 1] = SubSeq(path, 1, k - 1)
          BY <1>1, <4>1
        <5>2. QED  BY <4>2, <5>1, Zenon
      <4>4. dir[k] = SubSeq(path, 1, k)
        BY <1>2, <4>1, <4>3
      <4>5. QED  BY <1>1, <4>4 DEF k
    <3>2. QED  BY <1>1, <3>1
  <2>3. QED
    <3> HIDE DEF S
    <3>1. n \in S
      BY <1>1, <2>1, <2>2, Induction
    <3>2. QED  BY <1>1, <3>1 DEF S
<1>8. SubSeq(path, 1, n) = path
  BY <1>1, SubSeqFull
<1>9. QED  BY <1>6, <1>7, <1>8

LEMMA FrontIsSeq ==
  ASSUME NEW s \in Seq(Segments), s # <<>>
  PROVE  Front(s) \in Seq(Segments) /\ Len(Front(s)) = Len(s) - 1 /\ Len(s) >= 1
<1> DEFINE k == Len(s) - 1
<1>1. Len(s) >= 1 /\ k \in Nat /\ \A i \in 1..k : s[i] \in Segments
  OBVIOUS
<1> HIDE DEF k
<1>2. /\ SubSeq(s, 1, k) \in Seq(Segments)
      /\ Len(SubSeq(s, 1, k)) = IF 1 <= k THEN k - 1 + 1 ELSE 0
  BY <1>1, SubSeqProperties
<1>3. Len(SubSeq(s, 1, k)) = k
  BY <1>1, <1>2
<1>4. QED  BY <1>1, <1>2, <1>3 DEF k, Front

\* A prefix that covers a path is, as a directory, one the path is in.
LEMMA CoveredIsBelow ==
  ASSUME NEW prefix \in Paths, NEW path \in Paths, Covers(prefix, path)
  PROVE  IsPrefix(Directory(prefix), path)
<1> DEFINE n == Len(prefix)
           m == Len(path)
<1>1. /\ n \in Nat /\ prefix \in Seq(Segments)
      /\ m \in Nat /\ path \in Seq(Segments)
  BY PathIsSeq, AllowlistAssumption
<1>2. IsPrefix(<<>>, path)
  BY <1>1 DEF IsPrefix
<1>3. prefix # <<>> => Front(prefix) \in Seq(Segments) /\ Len(Front(prefix)) = n - 1 /\ n >= 1
  BY <1>1, FrontIsSeq
<1>4. ASSUME NEW d \in Seq(Segments), Below(path, d)
      PROVE  IsPrefix(d, path)
  <2>1. SubSeq(d, 1, Len(d)) = d
    BY SubSeqFull
  <2>2. QED  BY <1>1, <1>4, <2>1 DEF Below, IsPrefix
<1>5. ASSUME NEW d \in Seq(Segments), d # <<>>, IsPrefix(d, path)
      PROVE  IsPrefix(Front(d), path)
  BY <1>1, <1>5 DEF Front, IsPrefix
<1>6. IsPrefix(path, path)
  BY <1>1 DEF IsPrefix
<1>7. CASE prefix \in {<<>>, <<"">>}
  <2>1. CASE prefix = <<>>
    BY <1>2, <2>1 DEF Directory
  <2>2. CASE prefix = <<"">>
    <3>1. Last(prefix) = "" /\ Front(prefix) = <<>>
      <4>1. Len(prefix) = 1 /\ prefix[1] = ""
        BY <2>2
      <4>2. SubSeq(prefix, 1, 0) = <<>>
        BY SubSeqEmpty
      <4>3. 1 - 1 = 0
        OBVIOUS
      <4>4. QED  BY <4>1, <4>2, <4>3, Zenon DEF Last, Front
    <3>2. QED  BY <1>2, <2>2, <3>1, Zenon DEF Directory
  <2>3. QED  BY <1>7, <2>1, <2>2
<1>8. CASE path = prefix
  BY <1>1, <1>5, <1>6, <1>8 DEF Directory
<1>9. CASE prefix # <<>> /\ Last(prefix) = "" /\ Below(path, Front(prefix))
  BY <1>3, <1>4, <1>9 DEF Directory
<1>10. CASE Below(path, prefix)
  BY <1>1, <1>4, <1>5, <1>10 DEF Directory
<1>11. QED  BY <1>7, <1>8, <1>9, <1>10, Zenon DEF Covers

\* The allowlist does what it is for, for any prefixes that New accepts and paths of
\* any depth: what it allows is inside the directory of a prefix, on its origin,
\* wherever the server resolves it to.
LEMMA AllowedIsInside ==
  ASSUME NEW ps, ps \subseteq PrefixURLs, NEW u \in URLs, Allowed(ps, u)
  PROVE  Inside(ps, u)
<1>1. u.path \in Paths
  BY DEF URLs
<1>2. PICK p \in ps : p.origin = u.origin /\ Covers(p.path, u.path)
  BY DEF Allowed
<1>3. p.path \in Paths
  BY <1>2 DEF PrefixURLs, URLs
<1>4. IsPrefix(Directory(p.path), u.path)
  BY <1>1, <1>2, <1>3, CoveredIsBelow
<1>5. Resolve(u.path) = u.path
  BY <1>1, NormalResolves DEF Allowed
<1>6. QED  BY <1>2, <1>4, <1>5 DEF Inside

\* Every request, also after redirects, asks for a document inside a listed
\* directory, whatever prefixes an operator has listed.
THEOREM RequestsStayInside == Spec => []RequestsAllowed
<1>1. ASSUME LoadInv PROVE RequestsAllowed
  <2>1. prefixes \subseteq PrefixURLs /\ url \in URLs
    BY <1>1, LoadAssumption DEF LoadInv, TypeOK
  <2>2. QED  BY <1>1, <2>1, AllowedIsInside DEF LoadInv, RequestInv, RequestsAllowed
<1>2. QED  BY <1>1, LoadSafety, PTL
=============================================================================
