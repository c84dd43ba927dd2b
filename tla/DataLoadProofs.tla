--------------------------- MODULE DataLoadProofs ---------------------------
(***************************************************************************)
(* Loading files, for any files, batch size and number of runs.  The       *)
(* inductive invariant says what the store holds of the files before the   *)
(* current one (DoneInv), of the current one (FileInv) and of all earlier  *)
(* runs (StoreInv).                                                        *)
(***************************************************************************)
EXTENDS DataLoad, TLAPS, FiniteSetTheorems

Working == {"feed", "flush", "add", "lastFlush", "lastAdd"}

PhaseInv ==
  /\ proc # "off" => run >= 1
  /\ exit = "ok" => proc = "off"
  /\ proc = "report" => loadErr
  /\ proc \in {"read"} \cup Working => job <= Jobs
  /\ proc = "read" => fed = {} /\ buf = {}

\* Of the file being loaded, all that left the buffer is on disk; a stream is
\* read from its start, and a file ends with all of it read.
FileInv ==
  proc \in Working =>
    /\ ~Malformed
    /\ fed \subseteq 1..docs[job].size
    /\ ~docs[job].whole => \A i \in fed : \A k \in 1..(i - 1) : k \in fed
    /\ \A i \in fed \ buf : Quad(job, i, run) \in store
    /\ proc \in {"lastFlush", "lastAdd"} => fed = 1..docs[job].size
    /\ proc = "feed" => Cardinality(buf) < BatchSize

\* The files before it are on disk, and the total is what they have.
Completed == UNION {Quads(j, run) : j \in 1..(job - 1)}

DoneInv ==
  /\ Completed \subseteq store
  /\ IsFiniteSet(Completed) /\ total = Cardinality(Completed)

\* What all runs left; a run that succeeded left all.
StoreInv ==
  /\ IsFiniteSet(store)
  /\ SuccessIsComplete /\ LoadedInOrder /\ MalformedAddsNothing

\* The batch under way when the signal came is the last one.
CancelInv ==
  /\ late <= 1 /\ (late = 1 => ctxDone)
  /\ proc \in {"add", "lastAdd"} => late = 0

\* The type invariant in two parts, what is in memory and what is on disk.
MemType ==
  /\ docs \in [1..Jobs -> Documents]
  /\ proc \in {"off", "expand", "jobs", "read", "report"} \cup Working
  /\ run \in 0..Runs /\ job \in 1..(Jobs + 1)
  /\ buf \subseteq fed /\ (proc \in {"feed", "flush"} => fed \subseteq 1..docs[job].size)
  /\ total \in Nat /\ late \in Nat /\ loadErr \in BOOLEAN /\ ctxDone \in BOOLEAN
  /\ exit \in {"none", "ok", "error", "crashed"}

DiskType == \A q \in store : \E j \in 1..Jobs, r \in 1..run : q \in Quads(j, r)

\* The inductive invariant.
DataInv == TypeOK /\ PhaseInv /\ FileInv /\ DoneInv /\ StoreInv /\ CancelInv
-----------------------------------------------------------------------------
(* Quads. *)

LEMMA TypeParts == TypeOK <=> MemType /\ DiskType
<1> DEFINE all == UNION {Quads(j, r) : j \in 1..Jobs, r \in 1..run}
<1>1. \A q : q \in all <=> \E j \in 1..Jobs, r \in 1..run : q \in Quads(j, r)
  OBVIOUS
<1>2. TypeOK <=> MemType /\ store \subseteq all
  BY DEF TypeOK, MemType, Working
<1> HIDE DEF all
<1>3. store \subseteq all <=> DiskType
  BY <1>1, Zenon DEF DiskType
<1>4. QED  BY <1>2, <1>3

LEMMA QuadParts ==
  \A j, i, r : /\ Quad(j, i, r)[1] = j /\ Quad(j, i, r)[2] = i /\ Quad(j, i, r)[3] \in {0, r}
               /\ \A k, l, m : Quad(j, i, r) = Quad(k, l, m) => j = k /\ i = l
BY DEF Quad

\* A run makes one quad of each statement of a file.
LEMMA QuadsCount ==
  ASSUME docs \in [1..Jobs -> Documents], NEW j \in 1..Jobs, NEW r
  PROVE  IsFiniteSet(Quads(j, r)) /\ Cardinality(Quads(j, r)) = docs[j].size
<1> DEFINE n == docs[j].size
           f == [i \in 1..n |-> Quad(j, i, r)]
<1>1. n \in Nat
  BY LoadAssumption DEF Documents
<1> HIDE DEF n
<1>2. IsFiniteSet(1..n) /\ Cardinality(1..n) = n
  BY <1>1, FS_Interval
<1>3. f \in Bijection(1..n, Quads(j, r))
  <2>1. f \in [1..n -> Quads(j, r)]
    BY DEF Quads, n
  <2>2. \A a, b \in 1..n : f[a] = f[b] => a = b
    BY QuadParts
  <2>3. \A q \in Quads(j, r) : \E a \in 1..n : f[a] = q
    BY DEF Quads, n
  <2>4. QED  BY <2>1, <2>2, <2>3, Zenon DEF Bijection, Injection, Surjection, IsInjective
<1>4. ExistsBijection(1..n, Quads(j, r))
  BY <1>3, Zenon DEF ExistsBijection
<1>5. QED  BY <1>2, <1>4, FS_Bijection, Zenon DEF n

\* The quads of one AddN.
Batch == {Quad(job, i, run) : i \in buf}

LEMMA BatchFinite ==
  ASSUME IsFiniteSet(buf)
  PROVE  IsFiniteSet(Batch)
<1> DEFINE f == [i \in buf |-> Quad(job, i, run)]
<1>1. f \in Surjection(buf, Batch)
  BY Zenon DEF Surjection, Batch
<1>2. QED  BY <1>1, FS_Surjection

\* The buffer is finite as long as the file is open.
LEMMA BufferFinite ==
  ASSUME MemType, PhaseInv, FileInv, proc \in Working
  PROVE  IsFiniteSet(buf) /\ Cardinality(buf) \in Nat /\ docs[job].size \in Nat /\ job \in 1..Jobs
<1>1. job \in 1..Jobs
  BY LoadAssumption DEF MemType, PhaseInv
<1>2. docs[job].size \in Nat
  BY <1>1, LoadAssumption DEF MemType, Documents
<1>3. buf \subseteq 1..docs[job].size
  BY DEF FileInv, MemType
<1>4. IsFiniteSet(buf)
  <2>1. IsFiniteSet(1..docs[job].size)
    BY <1>2, FS_Interval
  <2>2. QED  BY <1>3, <2>1, FS_Subset, Zenon
<1>5. QED  BY <1>1, <1>2, <1>4, FS_CardinalityType
-----------------------------------------------------------------------------
(* Steps that write nothing. *)

LEMMA DiskStays ==
  ASSUME DataInv, docs' = docs, store' = store, run' \in Nat, run' >= run,
         run' = run \/ exit' # "ok", exit' = exit \/ exit' # "ok"
  PROVE  DiskType' /\ StoreInv'
<1>1. run \in Nat
  BY TypeParts DEF DataInv, MemType
<1>2. 1..run \subseteq 1..run'
  BY <1>1
<1>3. \A j, r : Quads(j, r)' = Quads(j, r)
  BY Zenon DEF Quads
<1>4. DiskType'
  BY <1>2, <1>3, TypeParts, Zenon DEF DataInv, DiskType
<1>5. SuccessIsComplete'
  BY <1>3 DEF DataInv, StoreInv, SuccessIsComplete
<1>6. LoadedInOrder'
  BY <1>2, <1>3, Zenon DEF DataInv, StoreInv, LoadedInOrder
<1>7. MalformedAddsNothing'
  BY Zenon DEF DataInv, StoreInv, MalformedAddsNothing
<1>8. QED  BY <1>4, <1>5, <1>6, <1>7 DEF DataInv, StoreInv

LEMMA DoneStays ==
  ASSUME DoneInv, docs' = docs, store' = store, run' = run, job' = job, total' = total
  PROVE  DoneInv'
<1>1. \A j, r : Quads(j, r)' = Quads(j, r)
  BY Zenon DEF Quads
<1>2. \A q : q \in Completed' <=> \E j \in 1..(job - 1) : q \in Quads(j, run)
  BY <1>1 DEF Completed
<1>3. \A q : q \in Completed <=> \E j \in 1..(job - 1) : q \in Quads(j, run)
  BY DEF Completed
<1>4. Completed' = Completed
  BY <1>2, <1>3, Zenon
<1>5. QED  BY <1>4 DEF DoneInv

\* Steps within a run that write nothing.
LEMMA ReadingSafe ==
  ASSUME DataInv, OpenFails \/ Expand \/ Signal \/ Crash \/ OpenFile \/ Parse \/ EndOfDocument \/ Flush
  PROVE  DataInv'
<1> USE DEF Goto, Fail, memVars
<1>1. MemType /\ PhaseInv /\ FileInv /\ DoneInv /\ CancelInv
  BY TypeParts DEF DataInv
<1>2. /\ docs' = docs /\ store' = store /\ run' = run /\ job' = job /\ total' = total /\ late' = late
      /\ proc # "off" /\ (exit' = exit \/ exit' # "ok")
  BY DEF OpenFails, Expand, Signal, Crash, OpenFile, Parse, EndOfDocument, Flush
<1>3. DoneInv'
  BY <1>1, <1>2, DoneStays
<1>4. DiskType' /\ StoreInv'
  <2>1. run \in Nat
    BY <1>1 DEF MemType
  <2>2. QED  BY <1>2, <2>1, DiskStays
<1>5. job \in Nat /\ run \in Nat /\ (proc \in {"read"} \cup Working => docs[job].size \in Nat)
  <2>1. proc \in {"read"} \cup Working => job \in 1..Jobs
    BY <1>1, LoadAssumption DEF MemType, PhaseInv
  <2>2. job \in 1..Jobs => docs[job].size \in Nat
    BY <1>1, LoadAssumption DEF MemType, Documents
  <2>3. QED  BY <1>1, <2>1, <2>2, LoadAssumption DEF MemType
<1>6. MemType' /\ PhaseInv' /\ FileInv' /\ CancelInv'
  <2> USE <1>1, <1>2, <1>5, LoadAssumption
      DEF MemType, PhaseInv, FileInv, CancelInv, Working
  <2>1. CASE OpenFails
    BY <2>1 DEF OpenFails
  <2>2. CASE Fail
    <3>1. proc' = "report" /\ loadErr' = TRUE /\ UNCHANGED <<fed, buf, ctxDone, exit>>
      BY <2>2
    <3>2. QED  BY <3>1
  <2>3. CASE Expand
    BY <2>2, <2>3 DEF Expand
  <2>4. CASE Signal
    BY <2>4 DEF Signal, Malformed
  <2>5. CASE Crash
    BY <2>5 DEF Crash
  <2>6. CASE OpenFile
    <3>1. CASE ~Fail
      <4>1. proc = "jobs" /\ proc' = "read" /\ job <= Jobs /\ fed' = {} /\ buf' = {}
            /\ UNCHANGED <<ctxDone, loadErr, exit>>
        BY <2>6, <3>1 DEF OpenFile, NewBatcher
      <4>2. QED  BY <4>1
    <3>2. QED  BY <2>2, <3>1
  <2>7. CASE Parse
    <3>1. CASE ~Fail
      <4>1. proc = "read" /\ proc' = "feed" /\ ~Malformed /\ fed = {} /\ buf = {}
            /\ UNCHANGED <<fed, buf, ctxDone, loadErr, exit>>
        BY <2>7, <3>1 DEF Parse
      <4>2. ~Malformed' /\ Cardinality(buf') < BatchSize
        BY <4>1, FS_EmptySet DEF Malformed
      <4>3. QED  BY <4>1, <4>2
    <3>2. QED  BY <2>2, <3>1
  <2>8. CASE EndOfDocument
    <3>1. CASE ~Fail
      <4>1. proc = "feed" /\ proc' = "lastFlush" /\ fed = 1..docs[job].size
            /\ UNCHANGED <<fed, buf, ctxDone, loadErr, exit>>
        BY <2>8, <3>1 DEF EndOfDocument
      <4>2. ~Malformed'
        BY <4>1 DEF Malformed
      <4>3. QED  BY <4>1, <4>2
    <3>2. QED  BY <2>2, <3>1
  <2>9. CASE Flush
    <3>1. CASE ~Fail
      <4>1. proc \in {"flush", "lastFlush"} /\ proc' = (IF proc = "flush" THEN "add" ELSE "lastAdd")
            /\ ~ctxDone /\ UNCHANGED <<fed, buf, ctxDone, loadErr, exit>>
        BY <2>9, <3>1 DEF Flush, MayFlush
      <4>2. ~Malformed' /\ late = 0
        BY <4>1 DEF Malformed
      <4>3. CASE proc = "flush"
        BY <4>1, <4>2, <4>3
      <4>4. CASE proc = "lastFlush"
        BY <4>1, <4>2, <4>4
      <4>5. QED  BY <4>1, <4>3, <4>4
    <3>2. QED  BY <2>2, <3>1
  <2>10. QED  BY <2>1, <2>3, <2>4, <2>5, <2>6, <2>7, <2>8, <2>9, Zenon
<1>7. TypeOK'
  BY <1>4, <1>6, TypeParts, PTL
<1>8. QED  BY <1>3, <1>4, <1>6, <1>7 DEF DataInv

\* A new run starts with nothing done.
LEMMA StartSafe ==
  ASSUME DataInv, Start
  PROVE  DataInv'
<1>1. MemType /\ PhaseInv
  BY TypeParts DEF DataInv
<1>2. run \in Nat /\ run' = run + 1 /\ run' \in 0..Runs
  BY <1>1, LoadAssumption DEF MemType, Start
<1>3. DiskType' /\ StoreInv'
  <2>1. docs' = docs /\ store' = store /\ exit' # "ok" /\ run' >= run
    BY <1>2 DEF Start
  <2>2. QED  BY <1>2, <2>1, DiskStays
<1>4. MemType' /\ PhaseInv' /\ FileInv' /\ CancelInv'
  <2>1. /\ docs' = docs /\ exit' = "none" /\ job' = 1 /\ fed' = {} /\ buf' = {} /\ total' = 0
        /\ loadErr' = FALSE /\ ctxDone' = FALSE /\ late' = 0 /\ proc' = "expand"
    BY DEF Start
  <2>2. MemType'
    <3>1. 1 \in 1..(Jobs + 1) /\ 0 \in Nat
      BY LoadAssumption
    <3>2. QED  BY <1>1, <1>2, <2>1, <3>1, Zenon DEF MemType, Working
  <2>3. PhaseInv' /\ FileInv' /\ CancelInv'
    BY <1>2, <2>1 DEF PhaseInv, FileInv, CancelInv, Working
  <2>4. QED  BY <2>2, <2>3
<1>5. DoneInv'
  <2>1. Completed' = {}
    <3>1. job' = 1
      BY DEF Start
    <3>2. 1..(job' - 1) = {}
      BY <3>1
    <3>3. QED  BY <3>2 DEF Completed
  <2>2. QED  BY <2>1, FS_EmptySet DEF Start, DoneInv
<1>6. TypeOK'
  BY <1>3, <1>4, TypeParts, PTL
<1>7. QED  BY <1>3, <1>4, <1>5, <1>6 DEF DataInv

\* A run that ends well has done all.
LEMMA ReportSafe ==
  ASSUME DataInv, Report
  PROVE  DataInv'
<1>1. MemType /\ PhaseInv /\ DoneInv /\ CancelInv
  BY TypeParts DEF DataInv
<1>2. UNCHANGED <<docs, run, job, fed, buf, total, loadErr, ctxDone, late, store>> /\ proc # "off"
  BY DEF Report, memVars
<1>3. MemType' /\ PhaseInv' /\ FileInv' /\ CancelInv'
  BY <1>1, <1>2 DEF Report, MemType, PhaseInv, FileInv, CancelInv, Working
<1>4. DoneInv'
  BY <1>1, <1>2, DoneStays
<1>5. \A j, r : Quads(j, r)' = Quads(j, r)
  BY <1>2, Zenon DEF Quads
<1>6. SuccessIsComplete'
  <2>1. SUFFICES ASSUME exit' = "ok", NEW j \in 1..Jobs
                 PROVE  Quads(j, run) \subseteq store
    BY <1>2, <1>5, Zenon DEF SuccessIsComplete
  <2>2. proc = "jobs" /\ job > Jobs
    BY <1>1, <2>1 DEF Report, PhaseInv
  <2>3. j \in 1..(job - 1)
    BY <1>1, <2>2, LoadAssumption DEF MemType
  <2>4. QED  BY <1>1, <2>3 DEF DoneInv, Completed
<1>7. /\ IsFiniteSet(store)' /\ LoadedInOrder' /\ MalformedAddsNothing' /\ DiskType'
  BY <1>2, <1>5, TypeParts, Zenon DEF DataInv, StoreInv, LoadedInOrder, MalformedAddsNothing, DiskType
<1>8. TypeOK'
  BY <1>3, <1>7, TypeParts, PTL
<1>9. QED  BY <1>3, <1>4, <1>6, <1>7, <1>8 DEF DataInv, StoreInv

\* A statement more in the buffer.
LEMMA AddSafe ==
  ASSUME DataInv, NEW i, Add(i)
  PROVE  DataInv'
<1>1. MemType /\ PhaseInv /\ FileInv /\ DoneInv /\ CancelInv
  BY TypeParts DEF DataInv
<1>2. /\ proc = "feed" /\ proc' \in {"flush", "feed"}
      /\ UNCHANGED <<docs, run, job, total, loadErr, ctxDone, late, store, exit>>
      /\ fed' = fed \cup {i} /\ buf' = buf \cup {i}
  BY DEF Add, Goto
<1>3. job \in 1..Jobs /\ IsFiniteSet(buf)
  BY <1>1, <1>2, BufferFinite DEF Working
<1>4. DoneInv'
  BY <1>1, <1>2, DoneStays
<1>5. DiskType' /\ StoreInv'
  <2>1. run \in Nat /\ run' = run
    BY <1>1, <1>2 DEF MemType
  <2>2. QED  BY <1>2, <2>1, DiskStays
<1>6. ~Malformed /\ ~Malformed'
  BY <1>1, <1>2 DEF FileInv, Malformed, Working
<1>7. FileInv'
  <2>1. proc' = "feed" => Cardinality(buf') < BatchSize
    <3>1. Cardinality(buf') \in Nat
      BY <1>2, <1>3, FS_AddElement, FS_CardinalityType
    <3>2. proc' = "feed" => ~(Cardinality(buf') >= BatchSize)
      BY <1>2 DEF Add, Goto, Full
    <3>3. QED  BY <3>1, <3>2, LoadAssumption
  <2>2. i \in 1..docs[job].size /\ (~docs[job].whole => \A k \in 1..(i - 1) : k \in fed)
    BY DEF Add, Feeds
  <2>3. fed' \subseteq 1..docs[job].size /\ (~docs[job].whole => \A l \in fed' : \A k \in 1..(l - 1) : k \in fed')
    BY <1>1, <1>2, <2>2 DEF FileInv, Working
  <2>4. \A k \in fed' \ buf' : Quad(job, k, run) \in store
    BY <1>1, <1>2 DEF FileInv, Working
  <2>5. QED  BY <1>2, <1>6, <2>1, <2>3, <2>4 DEF FileInv
<1>8. MemType' /\ PhaseInv' /\ CancelInv'
  BY <1>1, <1>2, <1>7 DEF MemType, PhaseInv, CancelInv, FileInv, Working
<1>9. TypeOK'
  BY <1>5, <1>8, TypeParts, PTL
<1>10. QED  BY <1>4, <1>5, <1>7, <1>8, <1>9 DEF DataInv
-----------------------------------------------------------------------------
(* AddN. *)

\* What AddN writes of a file, and that it keeps the order.
LEMMA WriteSafe ==
  ASSUME DataInv, AddN, proc \in {"add", "lastAdd"}, UNCHANGED <<docs, run, ctxDone, exit>>
  PROVE  /\ DiskType' /\ StoreInv' /\ store \subseteq store'
         /\ \A k \in fed : Quad(job, k, run) \in store'
         /\ late' \in Nat /\ late' <= 1 /\ (late' = 1 => ctxDone')
<1>1. MemType /\ PhaseInv /\ FileInv /\ DoneInv /\ CancelInv /\ DiskType /\ StoreInv
  BY TypeParts DEF DataInv
<1>2. proc \in Working
  BY DEF Working
<1>3. IsFiniteSet(buf) /\ job \in 1..Jobs /\ docs[job].size \in Nat
  BY <1>1, <1>2, BufferFinite
<1>4. run \in Nat /\ run \in 1..run
  BY <1>1, LoadAssumption DEF PhaseInv, MemType
<1>5. store' = store \cup Batch
  BY DEF AddN, Batch
<1>6. \A j, r : Quads(j, r)' = Quads(j, r)
  BY Zenon DEF Quads
<1>7. \A k \in fed : Quad(job, k, run) \in store'
  BY <1>1, <1>2, <1>5, Zenon DEF FileInv, Batch
<1>8. /\ fed \subseteq 1..docs[job].size /\ buf \subseteq fed /\ ~Malformed
      /\ ~docs[job].whole => \A i \in fed : \A k \in 1..(i - 1) : k \in fed
  BY <1>1, <1>2 DEF FileInv, MemType
<1>9. \A q \in Batch : \E i \in buf : q = Quad(job, i, run) /\ q[1] = job /\ q[2] = i
  <2>1. SUFFICES ASSUME NEW q \in Batch
                 PROVE  \E i \in buf : q = Quad(job, i, run) /\ q[1] = job /\ q[2] = i
    OBVIOUS
  <2>2. PICK i \in buf : q = Quad(job, i, run)
    BY DEF Batch
  <2>3. Quad(job, i, run)[1] = job /\ Quad(job, i, run)[2] = i
    BY QuadParts
  <2>4. QED  BY <2>2, <2>3, Zenon
<1>10. DiskType'
  <2>1. \A q \in Batch : q \in Quads(job, run)
    BY <1>8, <1>9 DEF Quads
  <2>2. QED  BY <1>1, <1>3, <1>4, <1>5, <1>6, <2>1, Zenon DEF DiskType
<1>11. IsFiniteSet(store')
  BY <1>1, <1>3, <1>5, BatchFinite, FS_Union DEF StoreInv
<1>12. SuccessIsComplete'
  BY <1>1, <1>2 DEF PhaseInv, SuccessIsComplete, Working
<1>13. LoadedInOrder'
  <2>1. \A j \in 1..(job - 1) : Quads(j, run) \subseteq store
    BY <1>1, Zenon DEF DoneInv, Completed
  <2>2. \A i \in buf : ~docs[job].whole => \A k \in 1..(i - 1) : Quad(job, k, run) \in store'
    BY <1>7, <1>8, Zenon
  <2>3. ASSUME NEW q \in Batch
        PROVE  \E r \in 1..run :
                 /\ q = Quad(q[1], q[2], r)
                 /\ \A j \in 1..(q[1] - 1) : Quads(j, r) \subseteq store'
                 /\ ~docs[q[1]].whole => \A i \in 1..(q[2] - 1) : Quad(q[1], i, r) \in store'
    <3>1. PICK i \in buf : q = Quad(job, i, run) /\ q[1] = job /\ q[2] = i
      BY <1>9
    <3>2. /\ q = Quad(q[1], q[2], run)
          /\ \A j \in 1..(q[1] - 1) : Quads(j, run) \subseteq store'
          /\ ~docs[q[1]].whole => \A k \in 1..(q[2] - 1) : Quad(q[1], k, run) \in store'
      BY <1>5, <2>1, <2>2, <3>1, Zenon
    <3>3. QED  BY <1>4, <3>2, Zenon
  <2>4. ASSUME NEW q \in store
        PROVE  \E r \in 1..run :
                 /\ q = Quad(q[1], q[2], r)
                 /\ \A j \in 1..(q[1] - 1) : Quads(j, r) \subseteq store'
                 /\ ~docs[q[1]].whole => \A i \in 1..(q[2] - 1) : Quad(q[1], i, r) \in store'
    <3>1. PICK r \in 1..run :
                 /\ q = Quad(q[1], q[2], r)
                 /\ \A j \in 1..(q[1] - 1) : Quads(j, r) \subseteq store
                 /\ ~docs[q[1]].whole => \A i \in 1..(q[2] - 1) : Quad(q[1], i, r) \in store
      BY <1>1, Zenon DEF StoreInv, LoadedInOrder
    <3>2. QED  BY <1>5, <3>1, Zenon
  <2>5. QED  BY <1>5, <1>6, <2>3, <2>4, Zenon DEF LoadedInOrder
<1>14. MalformedAddsNothing'
  <2>1. ~(docs[job].whole /\ docs[job].bad)
    BY <1>8 DEF Malformed
  <2>2. QED  BY <1>1, <1>5, <1>9, <2>1, Zenon DEF StoreInv, MalformedAddsNothing
<1>15. late' \in Nat /\ late' <= 1 /\ (late' = 1 => ctxDone')
  BY <1>1 DEF AddN, CancelInv, MemType
<1>16. QED  BY <1>5, <1>7, <1>10, <1>11, <1>12, <1>13, <1>14, <1>15 DEF StoreInv

LEMMA AddBatchSafe ==
  ASSUME DataInv, AddBatch
  PROVE  DataInv'
<1>1. MemType /\ PhaseInv /\ FileInv /\ DoneInv /\ CancelInv
  BY TypeParts DEF DataInv
<1>2. /\ AddN /\ proc = "add" /\ proc' = "feed"
      /\ UNCHANGED <<docs, run, ctxDone, exit, job, fed, total, loadErr>> /\ buf' = {}
  BY DEF AddBatch, AddN, Goto
<1>3. /\ DiskType' /\ StoreInv' /\ store \subseteq store'
      /\ \A k \in fed : Quad(job, k, run) \in store'
      /\ late' \in Nat /\ late' <= 1 /\ (late' = 1 => ctxDone')
  BY <1>2, WriteSafe
<1>4. ~Malformed' /\ Cardinality(buf') < BatchSize
  BY <1>1, <1>2, FS_EmptySet, LoadAssumption DEF FileInv, Malformed, Working
<1>5. FileInv'
  BY <1>1, <1>2, <1>3, <1>4 DEF FileInv, Working
<1>6. MemType' /\ PhaseInv' /\ CancelInv'
  BY <1>1, <1>2, <1>3, <1>5 DEF MemType, PhaseInv, CancelInv, FileInv, Working
<1>7. DoneInv'
  <2>1. \A j, r : Quads(j, r)' = Quads(j, r)
    BY <1>2, Zenon DEF Quads
  <2>2. \A q : q \in Completed' <=> \E j \in 1..(job - 1) : q \in Quads(j, run)
    BY <1>2, <2>1 DEF Completed
  <2>3. \A q : q \in Completed <=> \E j \in 1..(job - 1) : q \in Quads(j, run)
    BY DEF Completed
  <2>4. Completed' = Completed
    BY <2>2, <2>3, Zenon
  <2>5. QED  BY <1>1, <1>2, <1>3, <2>4 DEF DoneInv
<1>8. TypeOK'
  BY <1>3, <1>6, TypeParts, PTL
<1>9. QED  BY <1>3, <1>5, <1>6, <1>7, <1>8 DEF DataInv

LEMMA AddLastSafe ==
  ASSUME DataInv, AddLast
  PROVE  DataInv'
<1>1. MemType /\ PhaseInv /\ FileInv /\ DoneInv /\ CancelInv
  BY TypeParts DEF DataInv
<1>2. /\ AddN /\ proc = "lastAdd" /\ proc' = "jobs" /\ job' = job + 1
      /\ total' = total + docs[job].size
      /\ UNCHANGED <<docs, run, ctxDone, exit, fed, loadErr>> /\ buf' = {}
  BY DEF AddLast, AddN, Goto
<1>3. /\ DiskType' /\ StoreInv' /\ store \subseteq store'
      /\ \A k \in fed : Quad(job, k, run) \in store'
      /\ late' \in Nat /\ late' <= 1 /\ (late' = 1 => ctxDone')
  BY <1>2, WriteSafe
<1>4. job \in 1..Jobs /\ docs[job].size \in Nat
  BY <1>1, <1>2, BufferFinite DEF Working
<1>5. FileInv'
  BY <1>2 DEF FileInv, Working
<1>6. MemType' /\ PhaseInv' /\ CancelInv'
  BY <1>1, <1>2, <1>3, <1>4, LoadAssumption DEF MemType, PhaseInv, CancelInv, Working
<1>7. DoneInv'
  <2>1. \A j, r : Quads(j, r)' = Quads(j, r)
    BY <1>2, Zenon DEF Quads
  <2>2. 1..(job' - 1) = 1..(job - 1) \cup {job} /\ job \notin 1..(job - 1)
    BY <1>2, <1>4
  <2>3. \A q : q \in Completed' <=> \E j \in 1..(job' - 1) : q \in Quads(j, run)
    BY <1>2, <2>1 DEF Completed
  <2>4. \A q : q \in Completed <=> \E j \in 1..(job - 1) : q \in Quads(j, run)
    BY DEF Completed
  <2>5. Completed' = Completed \cup Quads(job, run)
    BY <2>2, <2>3, <2>4, Zenon
  <2>6. Completed \cap Quads(job, run) = {}
    <3>1. ASSUME NEW j, NEW q \in Quads(j, run) PROVE q[1] = j
      <4>1. PICK i : q = Quad(j, i, run)
        BY DEF Quads
      <4>2. QED  BY <4>1, QuadParts, Zenon
    <3>2. ASSUME NEW q, q \in Completed, q \in Quads(job, run) PROVE FALSE
      <4>1. PICK j \in 1..(job - 1) : q \in Quads(j, run)
        BY <2>4, <3>2, Zenon
      <4>2. q[1] = j /\ q[1] = job
        BY <3>1, <3>2, <4>1, Zenon
      <4>3. QED  BY <2>2, <4>2, Zenon
    <3>3. QED  BY <3>2, Zenon
  <2>7. Quads(job, run) \subseteq store'
    <3>1. fed = 1..docs[job].size
      BY <1>1, <1>2 DEF FileInv, Working
    <3>2. QED  BY <1>3, <3>1 DEF Quads
  <2>8. IsFiniteSet(Quads(job, run)) /\ Cardinality(Quads(job, run)) = docs[job].size
    BY <1>1, <1>4, QuadsCount DEF MemType
  <2>9. /\ IsFiniteSet(Completed')
        /\ Cardinality(Completed') = Cardinality(Completed) + docs[job].size - Cardinality({})
    BY <1>1, <2>5, <2>6, <2>8, FS_Union DEF DoneInv
  <2>10. total' = Cardinality(Completed')
    BY <1>1, <1>2, <1>4, <2>9, FS_EmptySet DEF DoneInv, MemType
  <2>11. QED  BY <1>1, <1>3, <2>5, <2>7, <2>9, <2>10 DEF DoneInv
<1>8. TypeOK'
  BY <1>3, <1>6, TypeParts, PTL
<1>9. QED  BY <1>3, <1>5, <1>6, <1>7, <1>8 DEF DataInv
-----------------------------------------------------------------------------
\* Runs may fail, be cancelled or crash anywhere, and be repeated.
THEOREM LoadSafety == Spec => []DataInv
<1>1. Init => DataInv
  <2> SUFFICES ASSUME Init
               PROVE  DataInv
    OBVIOUS
  <2>1. MemType
    <3>1. 1 \in 1..(Jobs + 1) /\ 0 \in 0..Runs /\ 0 \in Nat
      BY LoadAssumption
    <3>2. QED  BY <3>1, Zenon DEF Init, MemType
  <2>2. DiskType /\ PhaseInv /\ FileInv /\ CancelInv
    BY DEF Init, DiskType, PhaseInv, FileInv, CancelInv, Working
  <2>3. StoreInv
    BY FS_EmptySet DEF Init, StoreInv, SuccessIsComplete, LoadedInOrder, MalformedAddsNothing
  <2>4. DoneInv
    <3>1. Completed = {}
      BY DEF Init, Completed
    <3>2. QED  BY <3>1, FS_EmptySet DEF Init, DoneInv
  <2>5. QED  BY <2>1, <2>2, <2>3, <2>4, TypeParts DEF DataInv
<1>2. DataInv /\ [Next]_vars => DataInv'
  <2>1. ASSUME DataInv, UNCHANGED vars PROVE DataInv'
    <3>1. MemType /\ PhaseInv /\ FileInv /\ DoneInv /\ CancelInv
      BY <2>1, TypeParts DEF DataInv
    <3>2. run \in Nat /\ UNCHANGED <<docs, store, run, job, fed, buf, proc, total, loadErr, ctxDone, late, exit>>
      BY <2>1, <3>1 DEF vars, memVars, MemType
    <3>3. DiskType' /\ StoreInv'
      BY <2>1, <3>2, DiskStays
    <3>4. DoneInv'
      BY <3>1, <3>2, DoneStays
    <3>5. MemType' /\ PhaseInv' /\ FileInv' /\ CancelInv'
      BY <3>1, <3>2 DEF MemType, PhaseInv, FileInv, CancelInv, Malformed
    <3>6. TypeOK'
      BY <3>3, <3>5, TypeParts, PTL
    <3>7. QED  BY <3>3, <3>4, <3>5, <3>6 DEF DataInv
  <2>2. QED
    BY <2>1, ReadingSafe, StartSafe, ReportSafe, AddSafe, AddBatchSafe, AddLastSafe, Zenon DEF Next, Terminated
<1>3. QED  BY <1>1, <1>2, PTL DEF Spec

\* Exit code 0 means everything is on disk, and the printed count is never more
\* than what is there.
THEOREM ExitsAreTruthful == Spec => []ExitIsTruthful
<1>1. ASSUME DataInv PROVE ReportIsTrue
  <2> DEFINE counted == {q \in store : q[3] \in {0, run}}
  <2>1. Completed \subseteq store /\ total = Cardinality(Completed) /\ IsFiniteSet(store)
    BY <1>1 DEF DataInv, DoneInv, StoreInv
  <2>2. ASSUME NEW q \in Completed PROVE q[3] \in {0, run}
    <3>1. PICK j, i : q = Quad(j, i, run)
      BY DEF Completed, Quads
    <3>2. QED  BY <3>1, QuadParts
  <2>3. Completed \in SUBSET counted /\ counted \in SUBSET store
    BY <2>1, <2>2
  <2> HIDE DEF counted
  <2>4. IsFiniteSet(counted)
    BY <2>1, <2>3, FS_Subset
  <2>5. Cardinality(Completed) <= Cardinality(counted)
    BY <2>3, <2>4, FS_Subset
  <2>6. QED  BY <2>1, <2>5 DEF counted, ReportIsTrue
<1>2. DataInv => ExitIsTruthful
  BY <1>1 DEF DataInv, StoreInv, ExitIsTruthful
<1>3. QED  BY <1>2, LoadSafety, PTL

\* What a failed, cancelled or crashed load leaves is a prefix of the files, less
\* than one batch short of what was parsed.
THEOREM FailuresLeavePrefixes == Spec => []FailureLeavesPrefix
<1>1. DataInv => LoadedInOrder /\ LossBelowBatch
  BY DEF DataInv, StoreInv, FileInv, LossBelowBatch, Working
<1>2. DataInv => FailureLeavesPrefix
  BY <1>1 DEF FailureLeavesPrefix
<1>3. QED  BY <1>2, LoadSafety, PTL

\* A malformed file of a format that is parsed as a whole adds nothing.
THEOREM MalformedFilesAddNothing == Spec => []MalformedAddsNothing
<1>1. DataInv => MalformedAddsNothing
  BY DEF DataInv, StoreInv
<1>2. QED  BY <1>1, LoadSafety, PTL

\* After a signal at most the batch already under way is written.
THEOREM SignalsStopWriting == Spec => []CancelStopsWriting
<1>1. DataInv => CancelStopsWriting
  BY DEF DataInv, CancelInv, CancelStopsWriting
<1>2. QED  BY <1>1, LoadSafety, PTL
=============================================================================
