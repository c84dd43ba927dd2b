-------------------------- MODULE GzipWriterProofs --------------------------
(***************************************************************************)
(* Response compression, for any threshold and any body.  The invariant is *)
(* a predicate on the gzipWriter and the bytes written so far, which every *)
(* method preserves whatever its state: Sound, with the two cases that the *)
(* header is still to be decided on (Open) or was sent (Sent).             *)
(***************************************************************************)
EXTENDS GzipWriter, TLAPS

\* A gzipWriter that has counted any number of bytes.
Counting == [status : {"none", "ok", "bodyless"}, buf : Nat,
             decided : BOOLEAN, compress : BOOLEAN,
             encoding : {"none", "own", "gzip"}, length : Lengths, headers : 0..1,
             plain : Nat, held : Nat, packed : Nat, trailer : BOOLEAN]

Fields == {"status", "buf", "decided", "compress", "encoding", "length", "headers",
           "plain", "held", "packed", "trailer"}

\* Nothing is sent, little is buffered, and the handler's headers stand; once
\* it set a status, they leave the decision to the size of the body.
Open(w) ==
  /\ w.headers = 0 /\ ~w.compress /\ ~w.trailer
  /\ w.plain = 0 /\ w.held = 0 /\ w.packed = 0
  /\ w.encoding = declared.encoding /\ w.length = declared.length /\ w.encoding # "gzip"
  /\ w.buf < MinSize
  /\ w.status # "bodyless"
  /\ w.status = "none" => w.buf = 0
  /\ w.status = "ok" => w.encoding = "none" /\ w.length = "unset"

\* The header is sent, the buffer is drained, and both tell why the body is
\* compressed or not: streamed says that the handler flushed, last that no more
\* will be written.
Sent(w, n, streamed, last) ==
  /\ w.headers = 1 /\ w.buf = 0 /\ w.status # "none"
  /\ w.status = "bodyless" => n = 0 /\ ~w.compress
  /\ w.compress => /\ w.encoding = "gzip" /\ w.length = "unset" /\ w.plain = 0
                   /\ declared.encoding # "own"
                   /\ streamed \/ declared.length = "large" \/ n >= MinSize
  /\ ~w.compress => /\ w.encoding = declared.encoding /\ w.length = declared.length
                    /\ w.held = 0 /\ w.packed = 0 /\ ~w.trailer
                    /\ \/ w.status = "bodyless" \/ w.encoding = "own"
                       \/ w.length = "small" \/ (last /\ n < MinSize)

Sound(w, n, streamed, last) ==
  /\ w \in Counting
  /\ w.plain + w.held + w.packed + w.buf = n
  /\ IF w.decided THEN Sent(w, n, streamed, last) ELSE Open(w)

\* The inductive invariant.
GzipInv ==
  /\ handler \in {"runs", "returned", "panicked"}
  /\ declared \in [length : Lengths, encoding : {"none", "own"}]
  /\ written \in 0..MaxBody /\ flushed \in BOOLEAN
  /\ Sound(g, written, flushed, handler = "returned")
  /\ g.trailer => handler = "returned"
  /\ handler = "returned" => g.held = 0 /\ g.buf = 0
-----------------------------------------------------------------------------
(* What the updates the methods are made of do to each field. *)

LEMMA StatusFields ==
  ASSUME NEW w \in Counting, NEW st \in {"ok", "bodyless"}
  PROVE  LET v == [w EXCEPT !.status = st]
         IN  /\ v \in Counting /\ v.status = st
             /\ v.buf = w.buf /\ v.decided = w.decided /\ v.compress = w.compress
             /\ v.encoding = w.encoding /\ v.length = w.length /\ v.headers = w.headers
             /\ v.plain = w.plain /\ v.held = w.held /\ v.packed = w.packed
             /\ v.trailer = w.trailer
BY DEF Counting

LEMMA BufferFields ==
  ASSUME NEW w \in Counting, NEW k \in Nat
  PROVE  LET v == [w EXCEPT !.buf = k]
         IN  /\ v \in Counting /\ v.buf = k
             /\ v.status = w.status /\ v.decided = w.decided /\ v.compress = w.compress
             /\ v.encoding = w.encoding /\ v.length = w.length /\ v.headers = w.headers
             /\ v.plain = w.plain /\ v.held = w.held /\ v.packed = w.packed
             /\ v.trailer = w.trailer
BY DEF Counting

LEMMA DecideFields ==
  ASSUME NEW w \in Counting, NEW z \in BOOLEAN, w.headers = 0
  PROVE  LET v == Decide(w, z)
         IN  /\ v \in Counting /\ v.decided = TRUE /\ v.compress = z /\ v.headers = 1
             /\ v.encoding = (IF z THEN "gzip" ELSE w.encoding)
             /\ v.length = (IF z THEN "unset" ELSE w.length)
             /\ v.status = w.status /\ v.buf = w.buf
             /\ v.plain = w.plain /\ v.held = w.held /\ v.packed = w.packed
             /\ v.trailer = w.trailer
<1> DEFINE a == [w EXCEPT !.decided = TRUE]
           b == [a EXCEPT !.compress = z]
           c == [b EXCEPT !.headers = 1]
           d == [c EXCEPT !.encoding = IF z THEN "gzip" ELSE w.encoding]
           e == [d EXCEPT !.length = IF z THEN "unset" ELSE w.length]
<1>1. Decide(w, z) = e
  BY DEF Decide, Counting
<1>2. a \in Counting /\ a.decided = TRUE /\ \A f \in Fields \ {"decided"} : a[f] = w[f]
  BY DEF Counting, Fields
<1> HIDE DEF a
<1>3. b \in Counting /\ b.compress = z /\ \A f \in Fields \ {"compress"} : b[f] = a[f]
  BY <1>2 DEF Counting, Fields
<1> HIDE DEF b
<1>4. c \in Counting /\ c.headers = 1 /\ \A f \in Fields \ {"headers"} : c[f] = b[f]
  BY <1>3 DEF Counting, Fields
<1> HIDE DEF c
<1>5. /\ d \in Counting /\ d.encoding = (IF z THEN "gzip" ELSE w.encoding)
      /\ \A f \in Fields \ {"encoding"} : d[f] = c[f]
  BY <1>4 DEF Counting, Fields
<1> HIDE DEF d
<1>6. /\ e \in Counting /\ e.length = (IF z THEN "unset" ELSE w.length)
      /\ \A f \in Fields \ {"length"} : e[f] = d[f]
  BY <1>5 DEF Counting, Fields, Lengths
<1> HIDE DEF e
<1>7. QED  BY <1>1, <1>2, <1>3, <1>4, <1>5, <1>6 DEF Fields

LEMMA EmitFields ==
  ASSUME NEW w \in Counting, NEW n \in Nat
  PROVE  LET v == Emit(w, n)
         IN  /\ v \in Counting
             /\ v.plain = w.plain + (IF w.compress THEN 0 ELSE n)
             /\ v.held = w.held + (IF w.compress THEN n ELSE 0)
             /\ v.packed = w.packed /\ v.buf = w.buf
             /\ v.status = w.status /\ v.decided = w.decided /\ v.compress = w.compress
             /\ v.encoding = w.encoding /\ v.length = w.length /\ v.headers = w.headers
             /\ v.trailer = w.trailer
<1>1. Emit(w, n) \in Counting
  BY DEF Emit, Counting
<1>2. /\ Emit(w, n).plain = w.plain + (IF w.compress THEN 0 ELSE n)
      /\ Emit(w, n).held = w.held + (IF w.compress THEN n ELSE 0)
  BY DEF Emit, Counting
<1>3. \A f \in Fields \ {"plain", "held"} : Emit(w, n)[f] = w[f]
  BY DEF Emit, Counting, Fields
<1>4. QED  BY <1>1, <1>2, <1>3 DEF Fields

LEMMA PushFields ==
  ASSUME NEW w \in Counting
  PROVE  LET v == Push(w)
         IN  /\ v \in Counting /\ v.held = 0 /\ v.packed = w.packed + w.held
             /\ v.plain = w.plain /\ v.buf = w.buf
             /\ v.status = w.status /\ v.decided = w.decided /\ v.compress = w.compress
             /\ v.encoding = w.encoding /\ v.length = w.length /\ v.headers = w.headers
             /\ v.trailer = w.trailer
<1>1. Push(w) \in Counting
  <2> DEFINE v == [w EXCEPT !.packed = w.packed + w.held]
  <2>1. v \in Counting
    BY DEF Counting
  <2>2. [v EXCEPT !.held = 0] \in Counting
    BY <2>1 DEF Counting
  <2>3. Push(w) = [v EXCEPT !.held = 0]
    BY DEF Push, Counting
  <2>4. QED  BY <2>2, <2>3
<1>2. Push(w).held = 0 /\ Push(w).packed = w.packed + w.held
  BY DEF Push, Counting
<1>3. \A f \in Fields \ {"held", "packed"} : Push(w)[f] = w[f]
  BY DEF Push, Counting, Fields
<1>4. QED  BY <1>1, <1>2, <1>3 DEF Fields

LEMMA DrainFields ==
  ASSUME NEW w \in Counting, NEW z \in BOOLEAN, w.headers = 0
  PROVE  LET v == DecideAndDrain(w, z)
         IN  /\ v \in Counting /\ v.decided = TRUE /\ v.compress = z /\ v.headers = 1
             /\ v.encoding = (IF z THEN "gzip" ELSE w.encoding)
             /\ v.length = (IF z THEN "unset" ELSE w.length)
             /\ v.status = w.status /\ v.buf = 0 /\ v.packed = w.packed
             /\ v.plain = w.plain + (IF z THEN 0 ELSE w.buf)
             /\ v.held = w.held + (IF z THEN w.buf ELSE 0)
             /\ v.trailer = w.trailer
<1> DEFINE d == Decide(w, z)
           e == [d EXCEPT !.buf = 0]
<1>1. /\ d \in Counting /\ d.decided = TRUE /\ d.compress = z /\ d.headers = 1
      /\ d.encoding = (IF z THEN "gzip" ELSE w.encoding)
      /\ d.length = (IF z THEN "unset" ELSE w.length)
      /\ d.status = w.status
      /\ d.plain = w.plain /\ d.held = w.held /\ d.packed = w.packed
      /\ d.trailer = w.trailer
  BY DecideFields
<1> HIDE DEF d
<1>2. /\ e \in Counting /\ e.buf = 0
      /\ e.status = d.status /\ e.decided = d.decided /\ e.compress = d.compress
      /\ e.encoding = d.encoding /\ e.length = d.length /\ e.headers = d.headers
      /\ e.plain = d.plain /\ e.held = d.held /\ e.packed = d.packed
      /\ e.trailer = d.trailer
  BY <1>1, BufferFields
<1> HIDE DEF e
<1>3. w.buf \in Nat
  BY DEF Counting
<1>4. LET v == Emit(e, w.buf)
      IN  /\ v \in Counting
          /\ v.plain = e.plain + (IF e.compress THEN 0 ELSE w.buf)
          /\ v.held = e.held + (IF e.compress THEN w.buf ELSE 0)
          /\ v.packed = e.packed /\ v.buf = e.buf
          /\ v.status = e.status /\ v.decided = e.decided /\ v.compress = e.compress
          /\ v.encoding = e.encoding /\ v.length = e.length /\ v.headers = e.headers
          /\ v.trailer = e.trailer
  BY <1>2, <1>3, EmitFields
<1>5. DecideAndDrain(w, z) = Emit(e, w.buf)
  BY DEF DecideAndDrain, d, e
<1>6. QED  BY <1>1, <1>2, <1>4, <1>5
-----------------------------------------------------------------------------
(* The methods. *)

\* While the decision is open, all that was written is in the buffer.
LEMMA OpenState ==
  ASSUME NEW w, NEW n \in Nat, NEW streamed, NEW last, Sound(w, n, streamed, last), ~w.decided
  PROVE  /\ w \in Counting /\ Open(w) /\ w.buf = n /\ w.headers = 0
         /\ w.status \in {"none", "ok"} /\ w.trailer = FALSE
<1>1. w \in Counting /\ Open(w) /\ w.plain + w.held + w.packed + w.buf = n
  BY DEF Sound
<1>2. w.buf \in Nat /\ w.status \in {"none", "ok", "bodyless"} /\ w.trailer \in BOOLEAN
  BY <1>1 DEF Counting
<1> HIDE DEF Sound, Counting
<1>3. QED  BY <1>1, <1>2 DEF Open

\* WriteHeader decides or leaves the decision open; it never unsettles one.
LEMMA WriteHeaderSound ==
  ASSUME NEW w, NEW n \in Nat, NEW streamed \in BOOLEAN, NEW code \in Codes,
         Sound(w, n, streamed, FALSE)
  PROVE  /\ Sound(WriteHeader(w, code), n, streamed, FALSE)
         /\ code = "ok" => WriteHeader(w, code).status # "none"
         /\ code = "ok" /\ w.status # "bodyless" => WriteHeader(w, code).status # "bodyless"
         /\ WriteHeader(w, code).trailer = w.trailer
<1> DEFINE v == WriteHeader(w, code)
           s == [w EXCEPT !.status = code]
           bare == code = "bodyless" \/ w.encoding # "none"
<1>1. CASE w.decided \/ w.status # "none" \/ code = "info"
  <2>1. v = w
    BY <1>1 DEF WriteHeader
  <2> HIDE DEF v
  <2>2. w.decided => w.status # "none"
    BY DEF Sound, Sent
  <2>3. QED  BY <1>1, <2>1, <2>2 DEF v
<1>2. CASE ~(w.decided \/ w.status # "none" \/ code = "info")
  <2>1. /\ Open(w) /\ n = 0 /\ w.buf = 0 /\ w \in Counting /\ w.headers = 0 /\ ~w.decided
        /\ code \in {"ok", "bodyless"}
    <3>1. Open(w) /\ w \in Counting /\ w.headers = 0 /\ w.buf = n
      BY <1>2, OpenState
    <3>2. QED  BY <1>2, <3>1 DEF Open, Codes
  <2>2. /\ s \in Counting /\ s.status = code
        /\ s.buf = w.buf /\ s.decided = w.decided /\ s.compress = w.compress
        /\ s.encoding = w.encoding /\ s.length = w.length /\ s.headers = w.headers
        /\ s.plain = w.plain /\ s.held = w.held /\ s.packed = w.packed
        /\ s.trailer = w.trailer
    BY <2>1, StatusFields
  <2>3. v = IF bare THEN Decide(s, FALSE) ELSE ByHeader(s)
    BY <1>2 DEF WriteHeader
  <2> HIDE DEF v, s
  <2>4. CASE bare \/ s.length # "unset"
    <3>1. PICK z \in BOOLEAN : /\ v = Decide(s, z)
                               /\ z => ~bare /\ s.length = "large"
                               /\ ~z => bare \/ s.length = "small"
      <4>1. CASE bare
        BY <2>3, <4>1
      <4>2. CASE ~bare
        <5>1. s.length \in {"large", "small"}
          BY <2>2, <2>4, <4>2 DEF Counting, Lengths
        <5>2. v = Decide(s, s.length = "large")
          BY <2>3, <4>2, <5>1 DEF ByHeader
        <5>3. CASE s.length = "large"
          <6>1. v = Decide(s, TRUE)
            BY <5>2, <5>3
          <6>2. QED  BY <4>2, <5>3, <6>1
        <5>4. CASE s.length = "small"
          <6>1. v = Decide(s, FALSE)
            BY <5>2, <5>4
          <6>2. QED  BY <4>2, <5>4, <6>1
        <5>5. QED  BY <5>1, <5>3, <5>4
      <4>3. QED  BY <4>1, <4>2
    <3>2. /\ v \in Counting /\ v.decided = TRUE /\ v.compress = z /\ v.headers = 1
          /\ v.encoding = (IF z THEN "gzip" ELSE s.encoding)
          /\ v.length = (IF z THEN "unset" ELSE s.length)
          /\ v.status = s.status /\ v.buf = s.buf
          /\ v.plain = s.plain /\ v.held = s.held /\ v.packed = s.packed
          /\ v.trailer = s.trailer
      <4>1. s \in Counting /\ s.headers = 0
        BY <2>1, <2>2
      <4>2. v = Decide(s, z)
        BY <3>1
      <4>3. QED  BY <4>1, <4>2, DecideFields
    <3>3. Sent(v, n, streamed, FALSE)
      <4>1. CASE z
        BY <2>1, <2>2, <3>1, <3>2, <4>1 DEF Sent, Open
      <4>2. CASE ~z
        <5>1. bare => s.status = "bodyless" \/ s.encoding = "own"
          <6>1. s.encoding \in {"none", "own", "gzip"}
            BY <2>2 DEF Counting
          <6>2. QED  BY <2>1, <2>2, <6>1 DEF Open
        <5>2. QED  BY <2>1, <2>2, <3>1, <3>2, <4>2, <5>1 DEF Sent, Open
      <4>3. QED  BY <4>1, <4>2
    <3>4. Sound(v, n, streamed, FALSE)
      BY <2>1, <2>2, <3>2, <3>3 DEF Sound, Open
    <3>5. QED  BY <2>1, <2>2, <3>2, <3>4 DEF v
  <2>5. CASE ~bare /\ s.length = "unset"
    <3>1. v = s
      BY <2>3, <2>5 DEF ByHeader
    <3>2. Sound(s, n, streamed, FALSE)
      BY <2>1, <2>2, <2>5 DEF Sound, Open
    <3>3. QED  BY <2>1, <2>2, <3>1, <3>2 DEF v
  <2>6. QED  BY <2>4, <2>5
<1>3. QED  BY <1>1, <1>2

\* A decision to compress, forced by a flush or by the size of the buffer.
LEMMA CompressSound ==
  ASSUME NEW w \in Counting, NEW n \in Nat, NEW streamed \in BOOLEAN,
         w.headers = 0, ~w.trailer, w.plain = 0, w.held = 0, w.packed = 0,
         w.buf = n, w.status = "ok", declared.encoding # "own",
         streamed \/ n >= MinSize
  PROVE  /\ DecideAndDrain(w, TRUE).decided
         /\ Sound(DecideAndDrain(w, TRUE), n, streamed, FALSE)
         /\ DecideAndDrain(w, TRUE).trailer = w.trailer
<1> DEFINE v == DecideAndDrain(w, TRUE)
<1>1. /\ v \in Counting /\ v.decided = TRUE /\ v.compress = TRUE /\ v.headers = 1
      /\ v.encoding = "gzip" /\ v.length = "unset"
      /\ v.status = w.status /\ v.buf = 0 /\ v.packed = w.packed
      /\ v.plain = w.plain + 0 /\ v.held = w.held + w.buf
      /\ v.trailer = w.trailer
  BY DrainFields
<1> HIDE DEF v
<1>2. Sound(v, n, streamed, FALSE)
  BY <1>1 DEF Sound, Sent
<1>3. QED  BY <1>1, <1>2 DEF v

\* Write passes the bytes on, buffers them, or lets the full buffer decide.
LEMMA WriteSound ==
  ASSUME NEW w, NEW n \in Nat, NEW k \in Nat, NEW streamed \in BOOLEAN,
         Sound(w, n, streamed, FALSE), w.status # "bodyless"
  PROVE  /\ Sound(Write(w, k), n + k, streamed, FALSE)
         /\ Write(w, k).trailer = w.trailer
<1> DEFINE h == WriteHeader(w, "ok")
           b == [h EXCEPT !.buf = @ + k]
           v == Write(w, k)
<1>1. /\ Sound(h, n, streamed, FALSE) /\ h \in Counting
      /\ h.status = "ok" /\ h.trailer = w.trailer
  <2>1. "ok" \in Codes
    BY DEF Codes
  <2>2. /\ Sound(h, n, streamed, FALSE) /\ h.trailer = w.trailer
        /\ h.status \notin {"none", "bodyless"}
    BY <2>1, WriteHeaderSound
  <2> HIDE DEF h
  <2>3. h \in Counting
    BY <2>2 DEF Sound
  <2>4. h.status \in {"none", "ok", "bodyless"}
    BY <2>3 DEF Counting
  <2>5. QED  BY <2>2, <2>3, <2>4
<1>2. v = IF h.decided THEN Emit(h, k)
          ELSE IF b.buf >= MinSize THEN DecideAndDrain(b, TRUE) ELSE b
  BY DEF Write
<1> HIDE DEF h, v
<1>3. CASE h.decided
  <2>1. Sent(h, n, streamed, FALSE) /\ h.plain + h.held + h.packed + h.buf = n
    BY <1>1, <1>3 DEF Sound
  <2>2. /\ v \in Counting
        /\ v.plain = h.plain + (IF h.compress THEN 0 ELSE k)
        /\ v.held = h.held + (IF h.compress THEN k ELSE 0)
        /\ v.packed = h.packed /\ v.buf = h.buf
        /\ v.status = h.status /\ v.decided = h.decided /\ v.compress = h.compress
        /\ v.encoding = h.encoding /\ v.length = h.length /\ v.headers = h.headers
        /\ v.trailer = h.trailer
    BY <1>1, <1>2, <1>3, EmitFields
  <2>3. Sent(v, n + k, streamed, FALSE)
    BY <1>1, <2>1, <2>2, GzipAssumption DEF Sent
  <2>4. v.plain + v.held + v.packed + v.buf = n + k
    BY <1>1, <2>1, <2>2 DEF Counting
  <2>5. QED  BY <1>1, <1>3, <2>2, <2>3, <2>4 DEF Sound, v
<1>4. CASE ~h.decided
  <2>1. Open(h) /\ h.buf = n
    BY <1>1, <1>4, OpenState
  <2>2. n + k \in Nat /\ b = [h EXCEPT !.buf = n + k]
    BY <2>1
  <2>3. /\ b \in Counting /\ b.buf = n + k
        /\ b.status = h.status /\ b.decided = h.decided /\ b.compress = h.compress
        /\ b.encoding = h.encoding /\ b.length = h.length /\ b.headers = h.headers
        /\ b.plain = h.plain /\ b.held = h.held /\ b.packed = h.packed
        /\ b.trailer = h.trailer
    <3> HIDE DEF b
    <3>1. QED  BY <1>1, <2>2, BufferFields
  <2> HIDE DEF b
  <2>4. CASE b.buf >= MinSize
    <3>1. v = DecideAndDrain(b, TRUE)
      BY <1>2, <1>4, <2>4
    <3>2. declared.encoding # "own"
      BY <1>1, <2>1 DEF Open
    <3>3. /\ b.headers = 0 /\ ~b.trailer /\ b.plain = 0 /\ b.held = 0 /\ b.packed = 0
          /\ b.status = "ok" /\ (streamed \/ n + k >= MinSize)
      BY <1>1, <2>1, <2>3, <2>4 DEF Open
    <3>4. Sound(v, n + k, streamed, FALSE) /\ v.trailer = b.trailer
      BY <2>2, <2>3, <3>1, <3>2, <3>3, CompressSound
    <3>5. QED  BY <1>1, <2>3, <3>4 DEF v
  <2>5. CASE ~(b.buf >= MinSize)
    <3>1. v = b
      BY <1>2, <1>4, <2>5
    <3>2. Open(b)
      <4>1. b.buf < MinSize
        BY <2>2, <2>3, <2>5, GzipAssumption
      <4>2. QED  BY <1>1, <2>1, <2>3, <4>1 DEF Open
    <3>3. b.plain + b.held + b.packed + b.buf = n + k
      BY <2>1, <2>2, <2>3 DEF Open
    <3>4. Sound(v, n + k, streamed, FALSE)
      BY <1>4, <2>3, <3>1, <3>2, <3>3 DEF Sound
    <3>5. QED  BY <1>1, <2>3, <3>1, <3>4 DEF v
  <2>6. QED  BY <2>4, <2>5
<1>5. QED  BY <1>3, <1>4

\* The compressor hands on what it holds, and nothing else changes.
LEMMA PushSound ==
  ASSUME NEW w, NEW n \in Nat, NEW streamed \in BOOLEAN, NEW last \in BOOLEAN,
         Sound(w, n, streamed, last), w.decided
  PROVE  /\ Sound(Push(w), n, streamed, last)
         /\ Push(w).held = 0 /\ Push(w).buf = 0 /\ Push(w).decided
         /\ Push(w).compress = w.compress /\ Push(w).trailer = w.trailer
         /\ Push(w).plain + Push(w).packed = n
<1> DEFINE v == Push(w)
<1>1. w \in Counting /\ Sent(w, n, streamed, last) /\ w.plain + w.held + w.packed + w.buf = n
  BY DEF Sound
<1>2. /\ v \in Counting /\ v.held = 0 /\ v.packed = w.packed + w.held
      /\ v.plain = w.plain /\ v.buf = w.buf
      /\ v.status = w.status /\ v.decided = w.decided /\ v.compress = w.compress
      /\ v.encoding = w.encoding /\ v.length = w.length /\ v.headers = w.headers
      /\ v.trailer = w.trailer
  BY <1>1, PushFields
<1> HIDE DEF v
<1>3. Sent(v, n, streamed, last) /\ v.buf = 0
  BY <1>1, <1>2 DEF Sent
<1>4. v.plain + v.held + v.packed + v.buf = n /\ v.plain + v.packed = n
  BY <1>1, <1>2, <1>3 DEF Counting
<1>5. QED  BY <1>2, <1>3, <1>4 DEF Sound, v

\* Flush decides if need be, and leaves nothing behind.
LEMMA FlushSound ==
  ASSUME NEW w, NEW n \in Nat, NEW streamed \in BOOLEAN,
         Sound(w, n, streamed, FALSE), w.encoding = "own" => w.decided
  PROVE  /\ Sound(Flushed(w), n, TRUE, FALSE)
         /\ Flushed(w).plain + Flushed(w).packed = n
         /\ Flushed(w).trailer = w.trailer
<1> DEFINE s == [w EXCEPT !.status = IF @ = "none" THEN "ok" ELSE @]
           d == IF w.decided THEN w ELSE DecideAndDrain(s, TRUE)
<1>1. Sound(d, n, TRUE, FALSE) /\ d.decided /\ d.trailer = w.trailer
  <2>1. CASE w.decided
    BY <2>1 DEF Sound, Sent
  <2>2. CASE ~w.decided
    <3>1. w \in Counting /\ Open(w) /\ w.buf = n /\ w.status \in {"none", "ok"}
      BY <2>2, OpenState
    <3>2. s = [w EXCEPT !.status = "ok"]
      BY <3>1
    <3>3. /\ s \in Counting /\ s.status = "ok"
          /\ s.buf = w.buf /\ s.headers = w.headers
          /\ s.plain = w.plain /\ s.held = w.held /\ s.packed = w.packed
          /\ s.trailer = w.trailer
      <4> HIDE DEF s
      <4>1. QED  BY <3>1, <3>2, StatusFields
    <3> HIDE DEF s
    <3>4. declared.encoding # "own"
      BY <2>2, <3>1 DEF Open
    <3>5. QED  BY <2>2, <3>1, <3>3, <3>4, CompressSound DEF Open
  <2>3. QED  BY <2>1, <2>2
<1>2. Flushed(w) = Push(d)
  BY DEF Flushed
<1> HIDE DEF d
<1>3. /\ Sound(Push(d), n, TRUE, FALSE) /\ Push(d).plain + Push(d).packed = n
      /\ Push(d).trailer = d.trailer
  BY <1>1, PushSound
<1>4. QED  BY <1>1, <1>2, <1>3

\* finish sends what is left, and ends the stream if there is one.
LEMMA FinishSound ==
  ASSUME NEW w, NEW n \in Nat, NEW streamed \in BOOLEAN,
         Sound(w, n, streamed, FALSE)
  PROVE  /\ Sound(Finished(w), n, streamed, TRUE)
         /\ Finished(w).held = 0 /\ Finished(w).buf = 0
<1> DEFINE silent == w.status = "none" /\ w.buf = 0
           d == IF w.decided \/ silent THEN w ELSE DecideAndDrain(w, FALSE)
<1>1. Sound(d, n, streamed, TRUE) /\ d.buf = 0
  <2>1. CASE w.decided \/ silent
    BY <2>1 DEF Sound, Sent, Open
  <2>2. CASE ~(w.decided \/ silent)
    <3>1. w \in Counting /\ Open(w) /\ w.buf = n /\ w.headers = 0 /\ w.status = "ok"
      BY <2>2, OpenState DEF Open
    <3>2. d = DecideAndDrain(w, FALSE)
      BY <2>2
    <3>3. /\ d \in Counting /\ d.decided = TRUE /\ d.compress = FALSE /\ d.headers = 1
          /\ d.encoding = w.encoding /\ d.length = w.length
          /\ d.status = w.status /\ d.buf = 0 /\ d.packed = w.packed
          /\ d.plain = w.plain + w.buf /\ d.held = w.held + 0
          /\ d.trailer = w.trailer
      <4> HIDE DEF d
      <4>1. QED  BY <3>1, <3>2, DrainFields
    <3> HIDE DEF d
    <3>4. QED  BY <3>1, <3>3, GzipAssumption DEF Sound, Sent, Open
  <2>3. QED  BY <2>1, <2>2
<1>2. Finished(w) = Close(d)
  BY DEF Finished
<1> HIDE DEF d
<1>3. CASE d.compress
  <2> DEFINE p == Push(d)
             v == [p EXCEPT !.trailer = TRUE]
  <2>1. d.decided
    BY <1>1, <1>3 DEF Sound, Open
  <2>2. /\ Sound(p, n, streamed, TRUE) /\ p.held = 0 /\ p.buf = 0 /\ p.decided /\ p.compress
    BY <1>1, <1>3, <2>1, PushSound
  <2>3. Finished(w) = v
    BY <1>2, <1>3 DEF Close
  <2> HIDE DEF p
  <2>4. p \in Counting /\ Sent(p, n, streamed, TRUE)
    BY <2>2 DEF Sound
  <2>5. v \in Counting /\ \A f \in Fields \ {"trailer"} : v[f] = p[f]
    BY <2>4 DEF Counting, Fields
  <2> HIDE DEF v
  <2>6. Sent(v, n, streamed, TRUE)
    BY <2>2, <2>4, <2>5 DEF Sent, Fields
  <2>7. QED  BY <2>2, <2>3, <2>5, <2>6 DEF Sound, Fields
<1>4. CASE ~d.compress
  <2>1. Finished(w) = d
    BY <1>2, <1>4 DEF Close
  <2>2. d.held = 0
    BY <1>1, <1>4 DEF Sound, Open, Sent
  <2>3. QED  BY <1>1, <2>1, <2>2
<1>5. QED  BY <1>3, <1>4
-----------------------------------------------------------------------------
\* The handler may call the methods in any order.
THEOREM GzipSafety == Spec => []GzipInv
<1>1. Init => GzipInv
  <2> SUFFICES ASSUME Init
               PROVE  GzipInv
    OBVIOUS
  <2>1. g \in Counting
    BY DEF Init, Counting, Lengths
  <2>2. Open(g) /\ g.buf = 0 /\ ~g.decided
    BY GzipAssumption DEF Init, Open
  <2>3. Sound(g, 0, FALSE, FALSE)
    BY <2>1, <2>2 DEF Sound, Open
  <2>4. g.trailer = FALSE /\ written \in 0..MaxBody
    BY GzipAssumption DEF Init
  <2>5. QED  BY <2>3, <2>4 DEF Init, GzipInv
<1>2. GzipInv /\ [Next]_vars => GzipInv'
  <2> SUFFICES ASSUME GzipInv, [Next]_vars
               PROVE  GzipInv'
    OBVIOUS
  <2>1. CASE handler = "runs" /\ UNCHANGED <<handler, declared>>
    <3>1. Sound(g, written, flushed, FALSE) /\ ~g.trailer /\ written \in Nat
      BY <2>1, GzipAssumption DEF GzipInv, Sound, Sent
    <3> SUFFICES /\ written' \in 0..MaxBody /\ flushed' \in BOOLEAN
                 /\ Sound(g, written, flushed, FALSE)' /\ ~g'.trailer
      BY <2>1 DEF GzipInv
    <3>2. CASE CallWriteHeader
      BY <2>1, <3>1, <3>2, WriteHeaderSound DEF CallWriteHeader, GzipInv, Sound, Open, Sent
    <3>3. CASE CallWrite
      <4>1. PICK k \in 0..(MaxBody - written) : g' = Write(g, k) /\ written' = written + k
        BY <3>3 DEF CallWrite
      <4>2. k \in Nat /\ written' \in 0..MaxBody /\ g.status # "bodyless" /\ flushed' = flushed
        BY <3>1, <3>3, <4>1, GzipAssumption DEF CallWrite, GzipInv
      <4>3. Sound(Write(g, k), written + k, flushed, FALSE) /\ Write(g, k).trailer = g.trailer
        BY <3>1, <4>2, WriteSound DEF GzipInv
      <4>4. QED  BY <2>1, <3>1, <4>1, <4>2, <4>3 DEF GzipInv, Sound, Open, Sent
    <3>4. CASE CallFlush
      BY <2>1, <3>1, <3>4, FlushSound DEF CallFlush, GzipInv, Sound, Open, Sent
    <3>5. CASE UNCHANGED vars
      BY <2>1, <3>1, <3>5 DEF vars, GzipInv, Sound, Open, Sent
    <3>6. QED
      BY <2>1, <3>2, <3>3, <3>4, <3>5
      DEF Next, HandlerReturns, HandlerPanics, Terminated
  <2>2. CASE HandlerReturns
    <3>1. Sound(g, written, flushed, FALSE) /\ written \in Nat
      BY <2>2, GzipAssumption DEF HandlerReturns, GzipInv, Sound, Sent
    <3>2. /\ Sound(g', written, flushed, TRUE) /\ g'.held = 0 /\ g'.buf = 0
      BY <2>2, <3>1, FinishSound DEF HandlerReturns, GzipInv
    <3>3. QED  BY <2>2, <3>2 DEF HandlerReturns, GzipInv, Sound, Open, Sent
  <2>3. CASE HandlerPanics
    BY <2>3 DEF HandlerPanics, GzipInv, Sound, Open, Sent
  <2>4. CASE UNCHANGED vars
    BY <2>4 DEF vars, GzipInv, Sound, Open, Sent
  <2>5. QED
    BY <2>1, <2>2, <2>3, <2>4, Zenon
    DEF Next, CallWriteHeader, CallWrite, CallFlush, Terminated
<1>3. QED  BY <1>1, <1>2, PTL DEF Spec

\* In every order of WriteHeader, Write, Flush and return there is one header, before
\* the body and true about it, and what is compressed was worth it or had to stream.
THEOREM ResponsesAreRightlyEncoded == Spec => []RightlyEncoded
<1>1. GzipInv => RightlyEncoded
  <2> SUFFICES ASSUME GzipInv PROVE RightlyEncoded
    OBVIOUS
  <2>1. /\ g.plain \in Nat /\ g.held \in Nat /\ g.packed \in Nat /\ written \in Nat
        /\ g.plain + g.held + g.packed + g.buf = written
        /\ handler = "returned" => g.buf = 0
        /\ IF g.decided THEN Sent(g, written, flushed, handler = "returned") ELSE Open(g)
    BY GzipAssumption DEF GzipInv, Sound, Counting
  <2>2. HeaderBeforeBody /\ HeaderMatchesBody
    BY <2>1 DEF Sent, Open, HeaderBeforeBody, HeaderMatchesBody
  <2>3. NeverEncodedTwice
    BY <2>1 DEF Sent, Open, NeverEncodedTwice
  <2>4. CompressedWhenWorthIt
    BY <2>1, GzipAssumption DEF Sent, Open, CompressedWhenWorthIt
  <2>5. QED  BY <2>2, <2>3, <2>4 DEF RightlyEncoded
<1>2. QED  BY <1>1, GzipSafety, PTL

\* gzip.go:27-31: a response that ends properly is complete, an aborted one never
\* ends properly.
THEOREM EndsAreTruthful == Spec => []EndIsTruthful
<1>1. GzipInv => EndIsTruthful
  BY DEF GzipInv, Sound, Open, Sent, Counting, EndIsTruthful, BodyComplete,
         AbortedIsUnterminated
<1>2. QED  BY <1>1, GzipSafety, PTL

\* After a flush nothing of what the handler wrote is still buffered.
THEOREM FlushesDeliver == Spec => FlushDelivers
<1>1. GzipInv /\ [Next]_vars => [CallFlush => g'.plain + g'.packed = written]_vars
  <2> SUFFICES ASSUME GzipInv, CallFlush PROVE g'.plain + g'.packed = written
    OBVIOUS
  <2>1. /\ written \in Nat /\ Sound(g, written, flushed, FALSE) /\ flushed \in BOOLEAN
        /\ g.encoding = "own" => g.decided
    BY GzipAssumption DEF CallFlush, GzipInv, Sound, Sent
  <2>2. Flushed(g).plain + Flushed(g).packed = written
    BY <2>1, FlushSound DEF Sound, Open, Sent
  <2>3. QED  BY <2>2 DEF CallFlush
<1>2. QED  BY <1>1, GzipSafety, PTL DEF Spec, FlushDelivers
=============================================================================
