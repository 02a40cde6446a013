----------------------------- MODULE StateStore -----------------------------
(***************************************************************************)
(* The persistence core of nullrouter-state: StateStore in                 *)
(* services/state-actix/src/store.rs.  Request handlers mutate one         *)
(* in-memory snapshot, either durably (write_snapshot: both locks held     *)
(* across the disk write) or deferred (write_snapshot_deferred: memory     *)
(* only, a dirty flag left for the background flush).  The state file is   *)
(* replaced through a temporary and a rename.  The disk can fail, and the  *)
(* process can crash or be shut down between any two steps.                *)
(*                                                                         *)
(* A snapshot is abstracted to the set of writes merged into it, so a      *)
(* stale snapshot is one that misses some of them.                         *)
(***************************************************************************)
EXTENDS Naturals, FiniteSets

CONSTANTS Writers,     \* request handler threads
          Flusher,     \* the background flush task of main.rs
          Durable,     \* the writes handlers make with write_snapshot
          Deferred,    \* the writes handlers make with write_snapshot_deferred
          Free,        \* "no holder" of a lock
          MaxCrashes,  \* bound on process crashes
          MaxFaults    \* bound on failed disk writes

ASSUME StoreAssumption ==
    /\ Flusher \notin Writers
    /\ Free \notin Writers \cup {Flusher}
    /\ Durable \cap Deferred = {}
    /\ MaxCrashes \in Nat
    /\ MaxFaults \in Nat

Writes == Durable \cup Deferred
Actors == Writers \cup {Flusher}

VARIABLES
    mem,          \* StoreInner.snapshot: the writes the running service shows
    disk,         \* the state file
    tmp,          \* the ".tmp" file beside it: {} when absent, else {its snapshot}
    dirty,        \* StoreInner.dirty
    persistLock,  \* holder of StoreInner.persist
    memLock,      \* holder of StoreInner.snapshot's write guard across steps
    pc,           \* where each actor is
    op,           \* the write each handler is making, {} when it makes none
    clone,        \* the snapshot the flush cloned
    mode,         \* "serving", "draining" in a clean shutdown, "unsaved" when its flush failed
    \* history, for the properties
    issued,       \* writes some handler has started
    acked,        \* writes answered with Ok
    lost,         \* acknowledged writes a restart came back without
    crashes, faults

vars == <<mem, disk, tmp, dirty, persistLock, memLock, pc, op, clone, mode,
          issued, acked, lost, crashes, faults>>

PcValues == {"idle", "wantPersist", "mutate", "clone", "encode", "rename",
             "settle", "mark"}

TypeOK ==
    /\ mem \in SUBSET Writes
    /\ disk \in SUBSET Writes
    /\ tmp \in SUBSET (SUBSET Writes)
    /\ dirty \in BOOLEAN
    /\ persistLock \in Actors \cup {Free}
    /\ memLock \in Writers \cup {Free}
    /\ pc \in [Actors -> PcValues]
    /\ op \in [Writers -> SUBSET Writes]
    /\ clone \in SUBSET Writes
    /\ mode \in {"serving", "draining", "unsaved"}
    /\ issued \in SUBSET Writes
    /\ acked \in SUBSET Writes
    /\ lost \in SUBSET Writes
    /\ crashes \in 0..MaxCrashes
    /\ faults \in 0..MaxFaults

Init ==
    /\ mem = {}
    /\ disk = {}
    /\ tmp = {}
    /\ dirty = FALSE
    /\ persistLock = Free
    /\ memLock = Free
    /\ pc = [a \in Actors |-> "idle"]
    /\ op = [t \in Writers |-> {}]
    /\ clone = {}
    /\ mode = "serving"
    /\ issued = {}
    /\ acked = {}
    /\ lost = {}
    /\ crashes = 0
    /\ faults = 0

Goto(a, label) == pc' = [pc EXCEPT ![a] = label]

-----------------------------------------------------------------------------
(* write_snapshot: persist lock, snapshot lock, mutate, persist, clear dirty. *)

StartDurable(t, w) ==
    /\ mode = "serving"
    /\ pc[t] = "idle"
    /\ w \in Durable \ issued
    /\ issued' = issued \cup {w}
    /\ op' = [op EXCEPT ![t] = {w}]
    /\ Goto(t, "wantPersist")
    /\ UNCHANGED <<mem, disk, tmp, dirty, persistLock, memLock, clone, mode,
                   acked, lost, crashes, faults>>

\* Mutant: the flush does not take the persist lock.
TakePersistMutant(a) ==
    /\ pc[a] = "wantPersist"
    /\ a # Flusher => persistLock = Free
    /\ persistLock' = IF a = Flusher THEN persistLock ELSE a
    /\ Goto(a, IF a = Flusher THEN "clone" ELSE "mutate")
    /\ UNCHANGED <<mem, disk, tmp, dirty, memLock, op, clone, mode,
                   issued, acked, lost, crashes, faults>>

\* Both persistence paths take this lock before the snapshot lock.
TakePersist(a) ==
    /\ pc[a] = "wantPersist"
    /\ persistLock = Free
    /\ persistLock' = a
    /\ Goto(a, IF a = Flusher THEN "clone" ELSE "mutate")
    /\ UNCHANGED <<mem, disk, tmp, dirty, memLock, op, clone, mode,
                   issued, acked, lost, crashes, faults>>

\* The write guard is kept until write_snapshot returns.
MutateDurable(t) ==
    /\ pc[t] = "mutate"
    /\ memLock = Free
    /\ memLock' = t
    /\ mem' = mem \cup op[t]
    /\ Goto(t, "encode")
    /\ UNCHANGED <<disk, tmp, dirty, persistLock, op, clone, mode,
                   issued, acked, lost, crashes, faults>>

\* dirty.store(false) runs while both guards are still held.
SettleDurable(t) ==
    /\ pc[t] = "settle"
    /\ dirty' = FALSE
    /\ persistLock' = Free
    /\ memLock' = Free
    /\ acked' = acked \cup op[t]
    /\ op' = [op EXCEPT ![t] = {}]
    /\ Goto(t, "idle")
    /\ UNCHANGED <<mem, disk, tmp, clone, mode, issued, lost, crashes, faults>>

-----------------------------------------------------------------------------
(* persist and write_private: a whole temporary file, then an atomic rename. *)

Payload(a) == IF a = Flusher THEN clone ELSE mem

WriteTemp(a) ==
    /\ pc[a] = "encode"
    /\ tmp' = {Payload(a)}
    /\ Goto(a, "rename")
    /\ UNCHANGED <<mem, disk, dirty, persistLock, memLock, op, clone, mode,
                   issued, acked, lost, crashes, faults>>

Rename(a) ==
    /\ pc[a] = "rename"
    /\ disk' = UNION tmp
    /\ tmp' = {}
    /\ Goto(a, "settle")
    /\ UNCHANGED <<mem, dirty, persistLock, memLock, op, clone, mode,
                   issued, acked, lost, crashes, faults>>

\* Mutant: a failed durable write is answered with Ok.
PersistFailsSwallowed(a) ==
    /\ pc[a] \in {"encode", "rename"}
    /\ faults < MaxFaults
    /\ faults' = faults + 1
    /\ tmp' = {}
    /\ persistLock' = Free
    /\ memLock' = IF a = Flusher THEN memLock ELSE Free
    /\ dirty' = (dirty \/ a = Flusher)
    /\ acked' = IF a = Flusher THEN acked ELSE acked \cup op[a]
    /\ Goto(a, "idle")
    /\ UNCHANGED <<mem, disk, op, clone, mode, issued, lost, crashes>>

\* Mutant: a failed flush does not put the dirty flag back.
PersistFailsForgets(a) ==
    /\ pc[a] \in {"encode", "rename"}
    /\ faults < MaxFaults
    /\ faults' = faults + 1
    /\ tmp' = {}
    /\ persistLock' = Free
    /\ memLock' = IF a = Flusher THEN memLock ELSE Free
    /\ Goto(a, "idle")
    /\ UNCHANGED <<mem, disk, dirty, op, clone, mode, issued, acked, lost, crashes>>

\* Mutant: the error path keeps the persist lock.
PersistFailsKeepsLock(a) ==
    /\ pc[a] \in {"encode", "rename"}
    /\ faults < MaxFaults
    /\ faults' = faults + 1
    /\ tmp' = {}
    /\ memLock' = IF a = Flusher THEN memLock ELSE Free
    /\ dirty' = (dirty \/ a = Flusher)
    /\ Goto(a, "idle")
    /\ UNCHANGED <<mem, disk, persistLock, op, clone, mode, issued, acked, lost, crashes>>

\* Any step of the write may fail.  The temporary is removed, except when it
\* could not even be created: then whatever was there stays.  A durable write
\* answers with the error and leaves its mutation in memory; the flush puts
\* the dirty flag back, and the one of a clean shutdown is not tried again.
PersistFails(a) ==
    /\ pc[a] \in {"encode", "rename"}
    /\ faults < MaxFaults
    /\ faults' = faults + 1
    /\ \/ tmp' = {}
       \/ pc[a] = "encode" /\ UNCHANGED tmp
    /\ persistLock' = Free
    /\ IF a = Flusher
       THEN /\ dirty' = TRUE
            /\ clone' = {}
            /\ mode' = IF mode = "draining" THEN "unsaved" ELSE mode
            /\ UNCHANGED <<memLock, op>>
       ELSE /\ memLock' = Free
            /\ op' = [op EXCEPT ![a] = {}]
            /\ UNCHANGED <<dirty, clone, mode>>
    /\ Goto(a, "idle")
    /\ UNCHANGED <<mem, disk, issued, acked, lost, crashes>>

-----------------------------------------------------------------------------
(* write_snapshot_deferred: mutate under the snapshot lock, then mark dirty. *)

MutateDeferred(t, w) ==
    /\ mode = "serving"
    /\ pc[t] = "idle"
    /\ w \in Deferred \ issued
    /\ memLock = Free
    /\ issued' = issued \cup {w}
    /\ op' = [op EXCEPT ![t] = {w}]
    /\ mem' = mem \cup {w}
    /\ Goto(t, "mark")
    /\ UNCHANGED <<disk, tmp, dirty, persistLock, memLock, clone, mode,
                   acked, lost, crashes, faults>>

MarkDirty(t) ==
    /\ pc[t] = "mark"
    /\ dirty' = TRUE
    /\ acked' = acked \cup op[t]
    /\ op' = [op EXCEPT ![t] = {}]
    /\ Goto(t, "idle")
    /\ UNCHANGED <<mem, disk, tmp, persistLock, memLock, clone, mode,
                   issued, lost, crashes, faults>>

-----------------------------------------------------------------------------
(* flush_if_dirty, from the 250 ms tick and once more at a clean shutdown.   *)

\* The flag is taken before the write; a tick that finds it clear does nothing.
SwapDirty ==
    /\ pc[Flusher] = "idle"
    /\ dirty
    /\ dirty' = FALSE
    /\ Goto(Flusher, "wantPersist")

FlushTick ==
    /\ mode = "serving"
    /\ SwapDirty
    /\ UNCHANGED <<mem, disk, tmp, persistLock, memLock, op, clone, mode,
                   issued, acked, lost, crashes, faults>>

CloneSnapshot ==
    /\ pc[Flusher] = "clone"
    /\ memLock = Free
    /\ clone' = mem
    /\ Goto(Flusher, "encode")
    /\ UNCHANGED <<mem, disk, tmp, dirty, persistLock, memLock, op, mode,
                   issued, acked, lost, crashes, faults>>

\* Mutant: the flag is cleared after the write instead of before it.
SettleFlushClears ==
    /\ pc[Flusher] = "settle"
    /\ dirty' = FALSE
    /\ persistLock' = Free
    /\ clone' = {}
    /\ Goto(Flusher, "idle")
    /\ UNCHANGED <<mem, disk, tmp, memLock, op, mode,
                   issued, acked, lost, crashes, faults>>

SettleFlush ==
    /\ pc[Flusher] = "settle"
    /\ persistLock' = Free
    /\ clone' = {}
    /\ Goto(Flusher, "idle")
    /\ UNCHANGED <<mem, disk, tmp, dirty, memLock, op, mode,
                   issued, acked, lost, crashes, faults>>

-----------------------------------------------------------------------------
(* Crash, clean shutdown, and the load that follows either.                 *)

\* StateStore::file reads the state file and starts from it, dirty clear.
LoadFromDisk ==
    /\ mem' = disk
    /\ dirty' = FALSE
    /\ persistLock' = Free
    /\ memLock' = Free
    /\ pc' = [a \in Actors |-> "idle"]
    /\ mode' = "serving"
    /\ lost' = lost \cup (acked \ disk)
    /\ op' = [t \in Writers |-> {}]
    /\ clone' = {}
    /\ UNCHANGED <<disk, tmp, issued, acked, faults>>

Crash ==
    /\ crashes < MaxCrashes
    /\ crashes' = crashes + 1
    /\ LoadFromDisk

\* Mutant: main stops the ticker and exits, without the last flush.
BeginShutdownNoFlush ==
    /\ mode = "serving"
    /\ \A a \in Actors : pc[a] = "idle"
    /\ mode' = "draining"
    /\ UNCHANGED <<mem, disk, tmp, dirty, persistLock, memLock, pc, op, clone,
                   issued, acked, lost, crashes, faults>>

\* The server has drained its handlers and the flush task is aborted between
\* ticks; main then calls flush_if_dirty one last time.
BeginShutdown ==
    /\ mode = "serving"
    /\ \A a \in Actors : pc[a] = "idle"
    /\ mode' = "draining"
    /\ IF dirty THEN SwapDirty ELSE UNCHANGED <<dirty, pc>>
    /\ UNCHANGED <<mem, disk, tmp, persistLock, memLock, op, clone,
                   issued, acked, lost, crashes, faults>>

ExitAndStart ==
    /\ mode # "serving"
    /\ pc[Flusher] = "idle"
    /\ LoadFromDisk
    /\ UNCHANGED crashes

-----------------------------------------------------------------------------
WriterStep(t) ==
    \/ TakePersist(t)
    \/ MutateDurable(t)
    \/ WriteTemp(t)
    \/ Rename(t)
    \/ SettleDurable(t)
    \/ MarkDirty(t)

FlushStep ==
    \/ FlushTick
    \/ TakePersist(Flusher)
    \/ CloneSnapshot
    \/ WriteTemp(Flusher)
    \/ Rename(Flusher)
    \/ SettleFlush

Next ==
    \/ \E t \in Writers : \E w \in Writes : StartDurable(t, w) \/ MutateDeferred(t, w)
    \/ \E t \in Writers : WriterStep(t)
    \/ FlushStep
    \/ \E a \in Actors : PersistFails(a)
    \/ Crash
    \/ BeginShutdown
    \/ ExitAndStart

Spec == Init /\ [][Next]_vars

\* A handler that has started runs to its answer, and the flush task keeps
\* ticking; a restarted process completes its shutdown.
Fairness ==
    /\ \A t \in Writers : WF_vars(WriterStep(t))
    /\ WF_vars(FlushStep)
    /\ WF_vars(ExitAndStart)

FairSpec == Spec /\ Fairness
-----------------------------------------------------------------------------
(* Safety *)

\* A write the caller was told is saved (write_snapshot returned Ok) is in the
\* state file from then on, whatever crashes, flushes and failures follow.
DurableWritesSurvive ==
    /\ acked \cap Durable \subseteq disk
    /\ lost \subseteq Deferred

\* "Clearing afterwards could drop it": a write acknowledged from memory and
\* not yet in the file is always owned by someone who will save it, either the
\* dirty flag or a flush that took the flag and has not cloned without it.
FlushWillSave(w) ==
    \/ dirty
    \/ pc[Flusher] \in {"wantPersist", "clone"}
    \/ pc[Flusher] \in {"encode", "rename"} /\ w \in clone

NoAckedWriteForgotten ==
    \A w \in (acked \ lost) \ disk : FlushWillSave(w)

\* The state file never goes back to an older snapshot (the out-of-order
\* save the persist lock exists for), nor to a partial one.
DiskNeverRegresses == [][disk \subseteq disk']_vars

\* "A clean shutdown must not lose the usage rows recorded in its final 250ms":
\* only one whose last flush failed (mode "unsaved") may.
ShutdownKeepsAcked ==
    [][mode = "draining" /\ mode' = "serving" /\ crashes' = crashes
         => lost' = lost]_vars

\* The doc of StoreInner.dirty: "Set when the in-memory snapshot has changes
\* not yet on disk", whenever no write is in progress.
DirtyFlagAccurate ==
    (\A a \in Actors : pc[a] = "idle") /\ ~dirty => mem = disk

-----------------------------------------------------------------------------
(* Liveness *)

\* The two locks are always taken in one order, so every handler answers.
HandlersFinish == \A t \in Writers : pc[t] # "idle" ~> pc[t] = "idle"

\* A deferred write reaches the file, unless a crash or a failed last flush
\* came first: a failed flush is retried by a later tick.
AckedWritesReachDisk ==
    \A w \in Writes : w \in acked ~> w \in disk \cup lost

\* No write is left hanging: its handler answers, and what it answered Ok for
\* reaches the file, through every order of the two locks and every failed save.
EveryWriteSettles == HandlersFinish /\ AckedWritesReachDisk

-----------------------------------------------------------------------------
(* The store implements the abstract durable store. *)
Abs == INSTANCE DurableStore WITH view <- mem, stable <- disk

AbsSpec == Abs!AbsSpec
=============================================================================
