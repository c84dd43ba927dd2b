---------------------------- MODULE DatasetLock ----------------------------
(***************************************************************************)
(* The readers-writer lock of the goRDFlib endpoint that every access to   *)
(* the dataset takes: queries and graph reads share it, updates, graph     *)
(* writes, the startup load and the closing of the store exclude everyone. *)
(* It is a library; src/ reaches it through Handler.Read(ctx, f) and       *)
(* Handler.Write(ctx, f), which run f under the lock and fail without      *)
(* running f when ctx is done first (internal/server/server.go:143-150,    *)
(* 335-339, 414-417).  Nothing here is fair: whoever waits may starve, and *)
(* each user bounds its own wait with a context.                           *)
(***************************************************************************)
VARIABLES readers,   \* who runs under the shared lock
          writers    \* who runs under the exclusive lock

LockInit == readers = {} /\ writers = {}

LockFree == readers = {} /\ writers = {}

AcquireRead(p) == /\ writers = {}
                  /\ readers' = readers \cup {p}
                  /\ UNCHANGED writers

AcquireWrite(p) == /\ LockFree
                   /\ writers' = {p}
                   /\ UNCHANGED readers

Release(p) == /\ readers' = readers \ {p}
              /\ writers' = writers \ {p}
=============================================================================
