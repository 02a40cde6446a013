--------------------------- MODULE RestartProofs ---------------------------
(***************************************************************************)
(* What a process that stops may not take with it: the writes that the     *)
(* state service has acknowledged (StateStore), and the sight of the        *)
(* children that a service keeps (ChildProcesses).  Neither knows of the    *)
(* other, and nothing is proved of both at once.                           *)
(***************************************************************************)
EXTENDS StateStore, ChildProcesses, TLAPS

(***************************************************************************)
(* StateStore, for any set of handler threads, any writes and any number   *)
(* of crashes and disk failures.                                           *)
(*                                                                         *)
(* The inductive invariant says who holds which lock at which program      *)
(* counter, and what that gives about the data: while a writer may rename, *)
(* nobody else is between its clone and its rename, so the snapshot that   *)
(* reaches the disk holds what was there before.                           *)
(***************************************************************************)

HoldsPersist(a) ==
    IF a = Flusher THEN pc[a] \in {"clone", "encode", "rename", "settle"}
                   ELSE pc[a] \in {"mutate", "encode", "rename", "settle"}

LockInv ==
    /\ \A a \in Actors : HoldsPersist(a) <=> persistLock = a
    /\ \A t \in Writers : pc[t] \in {"encode", "rename", "settle"} <=> memLock = t
    /\ \A t \in Writers : pc[t] # "clone"
    /\ pc[Flusher] \notin {"mutate", "mark"}

\* What a handler is writing, at each point of its way.
OpInv ==
    \A t \in Writers :
        /\ pc[t] \in {"wantPersist", "mutate", "encode", "rename", "settle"}
             => \E w \in Durable : op[t] = {w}
        /\ pc[t] \in {"encode", "rename", "settle"} => op[t] \subseteq mem
        /\ pc[t] = "mark" => \E w \in Deferred \cap mem : op[t] = {w}

\* What the files hold, relative to memory.
FileInv ==
    /\ disk \subseteq mem
    /\ \A a \in Actors : pc[a] = "rename" => tmp = {Payload(a)}
    /\ \A t \in Writers : pc[t] = "settle" => disk = mem
    /\ pc[Flusher] \in {"encode", "rename"} => disk \subseteq clone /\ clone \subseteq mem

AckInv ==
    /\ acked \ lost \subseteq mem
    /\ acked \cap Durable \subseteq disk
    /\ lost \subseteq Deferred

\* The last flush of a clean shutdown runs alone.
DrainInv ==
    /\ mode # "serving" => \A t \in Writers : pc[t] = "idle"
    /\ mode = "draining" => ~dirty

IInv ==
    /\ TypeOK
    /\ LockInv
    /\ OpInv
    /\ FileInv
    /\ AckInv
    /\ NoAckedWriteForgotten
    /\ DrainInv

-----------------------------------------------------------------------------
\* The invariant holds of an empty store.
LEMMA InitIInv == Init => IInv
  <1>. SUFFICES ASSUME Init PROVE IInv
    OBVIOUS
  <1>. USE StoreAssumption DEF Init, Actors
  <1>1. TypeOK
    <2>1. pc \in [Actors -> PcValues]  BY DEF PcValues
    <2>2. op \in [Writers -> SUBSET Writes]  OBVIOUS
    <2>3. crashes \in 0..MaxCrashes /\ faults \in 0..MaxFaults  OBVIOUS
    <2>4. mem = {} /\ disk = {} /\ tmp = {} /\ clone = {} /\ issued = {}
          /\ acked = {} /\ lost = {} /\ dirty = FALSE /\ mode = "serving"
          /\ persistLock = Free /\ memLock = Free
      OBVIOUS
    <2>. QED BY ONLY <2>1, <2>2, <2>3, <2>4 DEF TypeOK, Actors
  <1>2. LockInv  BY DEF LockInv, HoldsPersist
  <1>3. OpInv /\ FileInv /\ AckInv /\ DrainInv
    BY DEF OpInv, FileInv, AckInv, DrainInv
  <1>4. NoAckedWriteForgotten  BY DEF NoAckedWriteForgotten
  <1>. QED BY <1>1, <1>2, <1>3, <1>4 DEF IInv

\* A durable handler that starts preserves the invariant.
LEMMA StartDurableIInv ==
  ASSUME IInv, NEW t \in Writers, NEW w \in Writes, StartDurable(t, w)
  PROVE  IInv'
  <1>. USE StoreAssumption DEF IInv, StartDurable, Goto, Actors, Writes
  <1>1. TypeOK'  BY DEF TypeOK, PcValues
  <1>2. LockInv' BY DEF LockInv, HoldsPersist, TypeOK
  <1>3. OpInv'   BY DEF OpInv, LockInv, TypeOK
  <1>4. FileInv' BY DEF FileInv, LockInv, HoldsPersist, OpInv, Payload, TypeOK
  <1>5. AckInv'  BY DEF AckInv, OpInv, FileInv, TypeOK
  <1>6. NoAckedWriteForgotten'
    BY DEF NoAckedWriteForgotten, FlushWillSave, AckInv, FileInv, OpInv, LockInv, HoldsPersist, TypeOK
  <1>7. DrainInv' BY DEF DrainInv, LockInv, TypeOK
  <1>. QED BY <1>1, <1>2, <1>3, <1>4, <1>5, <1>6, <1>7

\* Taking the persist lock preserves the invariant.
LEMMA TakePersistIInv ==
  ASSUME IInv, NEW a \in Actors, TakePersist(a)
  PROVE  IInv'
  <1>. USE StoreAssumption DEF IInv, TakePersist, Goto, Actors, Writes
  <1>1. TypeOK'  BY DEF TypeOK, PcValues
  <1>2. LockInv' BY DEF LockInv, HoldsPersist, TypeOK
  <1>3. OpInv'   BY DEF OpInv, LockInv, TypeOK
  <1>4. FileInv' BY DEF FileInv, LockInv, HoldsPersist, OpInv, Payload, TypeOK
  <1>5. AckInv'  BY DEF AckInv, OpInv, FileInv, TypeOK
  <1>6. NoAckedWriteForgotten'
    BY DEF NoAckedWriteForgotten, FlushWillSave, AckInv, FileInv, OpInv, LockInv, HoldsPersist, TypeOK
  <1>7. DrainInv' BY DEF DrainInv, LockInv, TypeOK
  <1>. QED BY <1>1, <1>2, <1>3, <1>4, <1>5, <1>6, <1>7

\* The mutation of write_snapshot preserves the invariant.
LEMMA MutateDurableIInv ==
  ASSUME IInv, NEW t \in Writers, MutateDurable(t)
  PROVE  IInv'
  <1>. USE StoreAssumption DEF IInv, MutateDurable, Goto, Actors, Writes
  <1>1. TypeOK'  BY DEF TypeOK, PcValues
  <1>2. LockInv' BY DEF LockInv, HoldsPersist, TypeOK
  <1>3. OpInv'   BY DEF OpInv, LockInv, TypeOK
  <1>4. FileInv' BY DEF FileInv, LockInv, HoldsPersist, OpInv, Payload, TypeOK
  <1>5. AckInv'  BY DEF AckInv, OpInv, FileInv, TypeOK
  <1>6. NoAckedWriteForgotten'
    BY DEF NoAckedWriteForgotten, FlushWillSave, AckInv, FileInv, OpInv, LockInv, HoldsPersist, TypeOK
  <1>7. DrainInv' BY DEF DrainInv, LockInv, TypeOK
  <1>. QED BY <1>1, <1>2, <1>3, <1>4, <1>5, <1>6, <1>7

\* The end of write_snapshot preserves the invariant.
LEMMA SettleDurableIInv ==
  ASSUME IInv, NEW t \in Writers, SettleDurable(t)
  PROVE  IInv'
  <1>. USE StoreAssumption DEF IInv, SettleDurable, Goto, Actors, Writes
  <1>1. TypeOK'  BY DEF TypeOK, PcValues
  <1>2. LockInv' BY DEF LockInv, HoldsPersist, TypeOK
  <1>3. OpInv'   BY DEF OpInv, LockInv, TypeOK
  <1>4. FileInv' BY DEF FileInv, LockInv, HoldsPersist, OpInv, Payload, TypeOK
  <1>5. AckInv'  BY DEF AckInv, OpInv, FileInv, TypeOK
  <1>6. NoAckedWriteForgotten'
    BY DEF NoAckedWriteForgotten, FlushWillSave, AckInv, FileInv, OpInv, LockInv, HoldsPersist, TypeOK
  <1>7. DrainInv' BY DEF DrainInv, LockInv, TypeOK
  <1>. QED BY <1>1, <1>2, <1>3, <1>4, <1>5, <1>6, <1>7

\* Writing the temporary file preserves the invariant.
LEMMA WriteTempIInv ==
  ASSUME IInv, NEW a \in Actors, WriteTemp(a)
  PROVE  IInv'
  <1>. USE StoreAssumption DEF IInv, WriteTemp, Payload, Goto, Actors, Writes
  <1>1. TypeOK'  BY DEF TypeOK, PcValues
  <1>2. LockInv' BY DEF LockInv, HoldsPersist, TypeOK
  <1>3. OpInv'   BY DEF OpInv, LockInv, TypeOK
  <1>4. FileInv' BY DEF FileInv, LockInv, HoldsPersist, OpInv, Payload, TypeOK
  <1>5. AckInv'  BY DEF AckInv, OpInv, FileInv, TypeOK
  <1>6. NoAckedWriteForgotten'
    BY DEF NoAckedWriteForgotten, FlushWillSave, AckInv, FileInv, OpInv, LockInv, HoldsPersist, TypeOK
  <1>7. DrainInv' BY DEF DrainInv, LockInv, TypeOK
  <1>. QED BY <1>1, <1>2, <1>3, <1>4, <1>5, <1>6, <1>7

\* The rename over the state file preserves the invariant.
LEMMA RenameIInv ==
  ASSUME IInv, NEW a \in Actors, Rename(a)
  PROVE  IInv'
  <1>. USE StoreAssumption DEF IInv, Rename, Goto, Actors, Writes
  <1>0. disk' = Payload(a)
    <2>1. tmp = {Payload(a)}  BY DEF FileInv
    <2>. QED BY <2>1
  <1>1. TypeOK'  BY DEF TypeOK, PcValues
  <1>2. LockInv' BY DEF LockInv, HoldsPersist, TypeOK
  <1>3. OpInv'   BY DEF OpInv, LockInv, TypeOK
  <1>4. FileInv' BY <1>0 DEF FileInv, LockInv, HoldsPersist, OpInv, Payload, TypeOK
  <1>5. AckInv'  BY <1>0 DEF AckInv, OpInv, FileInv, Payload, LockInv, TypeOK
  <1>6. NoAckedWriteForgotten'
    BY <1>0 DEF NoAckedWriteForgotten, Payload, FlushWillSave, AckInv, FileInv, OpInv, LockInv, HoldsPersist, TypeOK
  <1>7. DrainInv' BY DEF DrainInv, LockInv, TypeOK
  <1>. QED BY <1>1, <1>2, <1>3, <1>4, <1>5, <1>6, <1>7

\* A failed disk write preserves the invariant.
LEMMA PersistFailsIInv ==
  ASSUME IInv, NEW a \in Actors, PersistFails(a)
  PROVE  IInv'
  <1>. USE StoreAssumption DEF IInv, PersistFails, Goto, Actors, Writes
  <1>1. TypeOK'
    <2>1. faults' \in 0..MaxFaults  BY DEF TypeOK
    <2>2. tmp' \in SUBSET (SUBSET Writes)  BY DEF TypeOK
    <2>3. CASE a = Flusher   BY <2>1, <2>2, <2>3 DEF TypeOK, PcValues
    <2>4. CASE a \in Writers  BY <2>1, <2>2, <2>4 DEF TypeOK, PcValues
    <2>. QED BY <2>3, <2>4
  <1>2. LockInv' BY DEF LockInv, HoldsPersist, TypeOK
  <1>3. OpInv'   BY DEF OpInv, LockInv, TypeOK
  <1>4. FileInv' BY DEF FileInv, LockInv, HoldsPersist, OpInv, Payload, TypeOK
  <1>5. AckInv'  BY DEF AckInv, OpInv, FileInv, TypeOK
  <1>6. NoAckedWriteForgotten'
    BY DEF NoAckedWriteForgotten, FlushWillSave, AckInv, FileInv, OpInv, LockInv, HoldsPersist, TypeOK
  <1>7. DrainInv' BY DEF DrainInv, LockInv, TypeOK
  <1>. QED BY <1>1, <1>2, <1>3, <1>4, <1>5, <1>6, <1>7

\* The mutation of write_snapshot_deferred preserves the invariant.
LEMMA MutateDeferredIInv ==
  ASSUME IInv, NEW t \in Writers, NEW w \in Writes, MutateDeferred(t, w)
  PROVE  IInv'
  <1>. USE StoreAssumption DEF IInv, MutateDeferred, Goto, Actors, Writes
  <1>1. TypeOK'  BY DEF TypeOK, PcValues
  <1>2. LockInv' BY DEF LockInv, HoldsPersist, TypeOK
  <1>3. OpInv'   BY DEF OpInv, LockInv, TypeOK
  <1>4. FileInv' BY DEF FileInv, LockInv, HoldsPersist, OpInv, Payload, TypeOK
  <1>5. AckInv'  BY DEF AckInv, OpInv, FileInv, TypeOK
  <1>6. NoAckedWriteForgotten'
    BY DEF NoAckedWriteForgotten, FlushWillSave, AckInv, FileInv, OpInv, LockInv, HoldsPersist, TypeOK
  <1>7. DrainInv' BY DEF DrainInv, LockInv, TypeOK
  <1>. QED BY <1>1, <1>2, <1>3, <1>4, <1>5, <1>6, <1>7

\* Setting the dirty flag preserves the invariant.
LEMMA MarkDirtyIInv ==
  ASSUME IInv, NEW t \in Writers, MarkDirty(t)
  PROVE  IInv'
  <1>. USE StoreAssumption DEF IInv, MarkDirty, Goto, Actors, Writes
  <1>1. TypeOK'  BY DEF TypeOK, PcValues
  <1>2. LockInv' BY DEF LockInv, HoldsPersist, TypeOK
  <1>3. OpInv'   BY DEF OpInv, LockInv, TypeOK
  <1>4. FileInv' BY DEF FileInv, LockInv, HoldsPersist, OpInv, Payload, TypeOK
  <1>5. AckInv'  BY DEF AckInv, OpInv, FileInv, TypeOK
  <1>6. NoAckedWriteForgotten'
    BY DEF NoAckedWriteForgotten, FlushWillSave, AckInv, FileInv, OpInv, LockInv, HoldsPersist, TypeOK
  <1>7. DrainInv' BY DEF DrainInv, LockInv, TypeOK
  <1>. QED BY <1>1, <1>2, <1>3, <1>4, <1>5, <1>6, <1>7

\* Taking the dirty flag, by a tick or by the last flush of a shutdown, preserves the invariant.
LEMMA SwapDirtyIInv ==
  ASSUME IInv, SwapDirty, UNCHANGED <<mem, disk, tmp, persistLock, memLock, op, clone,
                   issued, acked, lost, crashes, faults>>,
         \/ mode' = mode
         \/ mode' = "draining" /\ \A a \in Actors : pc[a] = "idle"
  PROVE  IInv'
  <1>. USE StoreAssumption DEF IInv, SwapDirty, Goto, Actors, Writes
  <1>1. TypeOK'  BY DEF TypeOK, PcValues
  <1>2. LockInv' BY DEF LockInv, HoldsPersist, TypeOK
  <1>3. OpInv'   BY DEF OpInv, LockInv, TypeOK
  <1>4. FileInv' BY DEF FileInv, LockInv, HoldsPersist, OpInv, Payload, TypeOK
  <1>5. AckInv'  BY DEF AckInv, OpInv, FileInv, TypeOK
  <1>6. NoAckedWriteForgotten'
    BY DEF NoAckedWriteForgotten, FlushWillSave, AckInv, FileInv, OpInv, LockInv, HoldsPersist, TypeOK
  <1>7. DrainInv' BY DEF DrainInv, LockInv, TypeOK
  <1>. QED BY <1>1, <1>2, <1>3, <1>4, <1>5, <1>6, <1>7

\* The clone of the flush preserves the invariant.
LEMMA CloneSnapshotIInv ==
  ASSUME IInv, CloneSnapshot
  PROVE  IInv'
  <1>. USE StoreAssumption DEF IInv, CloneSnapshot, Goto, Actors, Writes
  <1>1. TypeOK'  BY DEF TypeOK, PcValues
  <1>2. LockInv' BY DEF LockInv, HoldsPersist, TypeOK
  <1>3. OpInv'   BY DEF OpInv, LockInv, TypeOK
  <1>4. FileInv' BY DEF FileInv, LockInv, HoldsPersist, OpInv, Payload, TypeOK
  <1>5. AckInv'  BY DEF AckInv, OpInv, FileInv, TypeOK
  <1>6. NoAckedWriteForgotten'
    BY DEF NoAckedWriteForgotten, FlushWillSave, AckInv, FileInv, OpInv, LockInv, HoldsPersist, TypeOK
  <1>7. DrainInv' BY DEF DrainInv, LockInv, TypeOK
  <1>. QED BY <1>1, <1>2, <1>3, <1>4, <1>5, <1>6, <1>7

\* The end of a flush preserves the invariant.
LEMMA SettleFlushIInv ==
  ASSUME IInv, SettleFlush
  PROVE  IInv'
  <1>. USE StoreAssumption DEF IInv, SettleFlush, Goto, Actors, Writes
  <1>1. TypeOK'  BY DEF TypeOK, PcValues
  <1>2. LockInv' BY DEF LockInv, HoldsPersist, TypeOK
  <1>3. OpInv'   BY DEF OpInv, LockInv, TypeOK
  <1>4. FileInv' BY DEF FileInv, LockInv, HoldsPersist, OpInv, Payload, TypeOK
  <1>5. AckInv'  BY DEF AckInv, OpInv, FileInv, TypeOK
  <1>6. NoAckedWriteForgotten'
    BY DEF NoAckedWriteForgotten, FlushWillSave, AckInv, FileInv, OpInv, LockInv, HoldsPersist, TypeOK
  <1>7. DrainInv' BY DEF DrainInv, LockInv, TypeOK
  <1>. QED BY <1>1, <1>2, <1>3, <1>4, <1>5, <1>6, <1>7

\* A restart from the state file preserves the invariant.
LEMMA LoadIInv ==
  ASSUME IInv, LoadFromDisk, crashes' \in 0..MaxCrashes
  PROVE  IInv'
  <1>. USE StoreAssumption DEF IInv, LoadFromDisk, Goto, Actors, Writes
  <1>1. TypeOK'  BY DEF TypeOK, PcValues
  <1>2. LockInv' BY DEF LockInv, HoldsPersist, TypeOK
  <1>3. OpInv'   BY DEF OpInv, LockInv, TypeOK
  <1>4. FileInv' BY DEF FileInv, LockInv, HoldsPersist, OpInv, Payload, TypeOK
  <1>5. AckInv'  BY DEF AckInv, OpInv, FileInv, TypeOK
  <1>6. NoAckedWriteForgotten'
    BY DEF NoAckedWriteForgotten, FlushWillSave, AckInv, FileInv, OpInv, LockInv, HoldsPersist, TypeOK
  <1>7. DrainInv' BY DEF DrainInv, LockInv, TypeOK
  <1>. QED BY <1>1, <1>2, <1>3, <1>4, <1>5, <1>6, <1>7

-----------------------------------------------------------------------------
\* Every step preserves the invariant.
LEMMA NextIInv == IInv /\ [Next]_vars => IInv'
  <1>. SUFFICES ASSUME IInv, [Next]_vars PROVE IInv'
    OBVIOUS
  <1>1. ASSUME NEW t \in Writers, NEW w \in Writes, StartDurable(t, w)  PROVE IInv'
    BY <1>1, StartDurableIInv
  <1>2. ASSUME NEW t \in Writers, NEW w \in Writes, MutateDeferred(t, w)  PROVE IInv'
    BY <1>2, MutateDeferredIInv
  <1>3. ASSUME NEW t \in Writers, WriterStep(t)  PROVE IInv'
    BY <1>3, TakePersistIInv, MutateDurableIInv, WriteTempIInv, RenameIInv,
       SettleDurableIInv, MarkDirtyIInv DEF WriterStep, Actors
  <1>4. CASE FlushStep
    <2>1. CASE FlushTick
      <3>1. SwapDirty /\ mode' = mode  BY <2>1 DEF FlushTick
      <3>2. UNCHANGED <<mem, disk, tmp, persistLock, memLock, op, clone,
                        issued, acked, lost, crashes, faults>>
        BY <2>1 DEF FlushTick
      <3>. QED BY <3>1, <3>2, SwapDirtyIInv
    <2>2. CASE TakePersist(Flusher) \/ WriteTemp(Flusher) \/ Rename(Flusher)
      BY <2>2, TakePersistIInv, WriteTempIInv, RenameIInv DEF Actors
    <2>3. CASE CloneSnapshot \/ SettleFlush
      BY <2>3, CloneSnapshotIInv, SettleFlushIInv
    <2>. QED BY <1>4, <2>1, <2>2, <2>3 DEF FlushStep
  <1>5. ASSUME NEW a \in Actors, PersistFails(a)  PROVE IInv'
    BY <1>5, PersistFailsIInv
  <1>6. CASE Crash
    <2>1. crashes' \in 0..MaxCrashes
      BY <1>6, StoreAssumption DEF Crash, IInv, TypeOK
    <2>. QED BY <1>6, <2>1, LoadIInv DEF Crash
  <1>7. CASE BeginShutdown
    <2>1. CASE dirty
      BY <1>7, <2>1, SwapDirtyIInv DEF BeginShutdown
    <2>2. CASE ~dirty
      <3>. USE <1>7, <2>2 DEF BeginShutdown, IInv, Actors
      <3>1. TypeOK'  BY DEF TypeOK
      <3>2. LockInv' /\ OpInv'  BY DEF LockInv, HoldsPersist, OpInv
      <3>3. FileInv' /\ AckInv' /\ DrainInv'  BY DEF FileInv, Payload, AckInv, DrainInv
      <3>4. NoAckedWriteForgotten'  BY DEF NoAckedWriteForgotten, FlushWillSave
      <3>. QED BY <3>1, <3>2, <3>3, <3>4
    <2>. QED BY <2>1, <2>2
  <1>8. CASE ExitAndStart
    <2>1. crashes' \in 0..MaxCrashes
      BY <1>8 DEF ExitAndStart, IInv, TypeOK
    <2>. QED BY <1>8, <2>1, LoadIInv DEF ExitAndStart
  <1>9. CASE UNCHANGED vars
    <2>. USE <1>9 DEF vars, IInv
    <2>1. TypeOK' /\ LockInv' /\ OpInv'  BY DEF TypeOK, LockInv, HoldsPersist, OpInv
    <2>2. FileInv' /\ AckInv' /\ DrainInv'  BY DEF FileInv, Payload, AckInv, DrainInv
    <2>3. NoAckedWriteForgotten'  BY DEF NoAckedWriteForgotten, FlushWillSave
    <2>. QED BY <2>1, <2>2, <2>3
  <1>. QED
    BY <1>1, <1>2, <1>3, <1>4, <1>5, <1>6, <1>7, <1>8, <1>9 DEF Next

\* The invariant holds in every reachable state.
THEOREM Invariance == Spec => []IInv
  <1>. QED BY InitIInv, NextIInv, PTL DEF Spec

\* Every variable keeps its type, for any number of handler threads.
THEOREM TypeCorrect == Spec => []TypeOK
  <1>1. IInv => TypeOK  BY DEF IInv
  <1>. QED BY <1>1, Invariance, PTL

\* write_snapshot's promise: an acknowledged durable write is in the state file,
\* and stays there.
THEOREM DurableWritesAreSafe == Spec => []DurableWritesSurvive
  <1>1. IInv => DurableWritesSurvive  BY DEF IInv, AckInv, DurableWritesSurvive
  <1>. QED BY <1>1, Invariance, PTL

\* flush_if_dirty's promise: an acknowledged deferred write that is not in the
\* file has the flag, or a flush, that will put it there.
THEOREM DeferredWritesAreOwned == Spec => []NoAckedWriteForgotten
  <1>1. IInv => NoAckedWriteForgotten  BY DEF IInv
  <1>. QED BY <1>1, Invariance, PTL

-----------------------------------------------------------------------------
(* How each step changes what the abstract store shows. *)

\* What reaches the file holds what was there, and nothing memory does not hold.
LEMMA RenameSaves ==
  ASSUME IInv, NEW a \in Actors, Rename(a)
  PROVE  disk \subseteq disk' /\ disk' \subseteq mem
  <1>1. disk' = Payload(a)
    <2>1. tmp = {Payload(a)}  BY DEF IInv, FileInv, Rename
    <2>. QED BY <2>1 DEF Rename
  <1>2. disk \subseteq Payload(a) /\ Payload(a) \subseteq mem
    BY DEF IInv, FileInv, Rename, Payload, Actors
  <1>. QED BY <1>1, <1>2

\* Every step is a step of the abstract store, or changes nothing it shows.
LEMMA NextAbs == IInv /\ [Next]_vars => [Abs!AbsNext]_(Abs!absVars)
  <1>. SUFFICES ASSUME IInv, [Next]_vars
                PROVE  Abs!AbsNext \/ UNCHANGED <<mem, disk, acked>>
    BY DEF Abs!absVars
  <1>1. ASSUME NEW t \in Writers, NEW w \in Writes,
               StartDurable(t, w) \/ MutateDeferred(t, w)
        PROVE  Abs!AbsNext \/ UNCHANGED <<mem, disk, acked>>
    BY <1>1 DEF StartDurable, MutateDeferred, Abs!AbsNext, Abs!Apply, Writes
  <1>2. ASSUME NEW a \in Actors, TakePersist(a) \/ WriteTemp(a) \/ PersistFails(a)
        PROVE  UNCHANGED <<mem, disk, acked>>
    BY <1>2 DEF TakePersist, WriteTemp, PersistFails
  <1>3. ASSUME NEW a \in Actors, Rename(a)  PROVE Abs!AbsNext
    <2>1. disk' \in SUBSET mem /\ disk \subseteq disk'  BY <1>3, RenameSaves
    <2>2. Abs!Save  BY <1>3, <2>1 DEF Rename, Abs!Save
    <2>. QED BY <2>2 DEF Abs!AbsNext
  <1>4. ASSUME NEW t \in Writers, MutateDurable(t)  PROVE Abs!AbsNext
    <2>1. PICK w \in Durable : op[t] = {w}
      BY <1>4 DEF IInv, OpInv, MutateDurable
    <2>2. Abs!Apply(w)  BY <1>4, <2>1 DEF MutateDurable, Abs!Apply
    <2>. QED BY <2>2 DEF Abs!AbsNext
  <1>5. ASSUME NEW t \in Writers, SettleDurable(t)  PROVE Abs!AbsNext
    <2>1. PICK w \in Durable : op[t] = {w}
      BY <1>5 DEF IInv, OpInv, SettleDurable
    <2>2. w \in mem /\ w \in disk
      BY <1>5, <2>1 DEF IInv, OpInv, FileInv, SettleDurable
    <2>3. Abs!Acknowledge(w)
      BY <1>5, <2>1, <2>2 DEF SettleDurable, Abs!Acknowledge
    <2>. QED BY <2>3 DEF Abs!AbsNext
  <1>6. ASSUME NEW t \in Writers, MarkDirty(t)  PROVE Abs!AbsNext
    <2>1. PICK w \in Deferred \cap mem : op[t] = {w}
      BY <1>6 DEF IInv, OpInv, MarkDirty
    <2>2. w \notin Durable  BY <2>1, StoreAssumption
    <2>3. Abs!Acknowledge(w)
      BY <1>6, <2>1, <2>2 DEF MarkDirty, Abs!Acknowledge
    <2>. QED BY <2>1, <2>3 DEF Abs!AbsNext
  <1>7. CASE FlushTick \/ CloneSnapshot \/ SettleFlush \/ BeginShutdown \/ UNCHANGED vars
    BY <1>7 DEF FlushTick, CloneSnapshot, SettleFlush, BeginShutdown, SwapDirty, vars
  <1>8. CASE Crash \/ ExitAndStart
    <2>1. Abs!Restart  BY <1>8 DEF Crash, ExitAndStart, LoadFromDisk, Abs!Restart
    <2>. QED BY <2>1 DEF Abs!AbsNext
  <1>. QED
    BY <1>1, <1>2, <1>3, <1>4, <1>5, <1>6, <1>7, <1>8
       DEF Next, WriterStep, FlushStep, Actors

\* The locks, the flag, the temporary and the flush implement the abstract
\* durable store: nothing a caller was promised is undone by any interleaving.
THEOREM ImplementsDurableStore == Spec => AbsSpec
  <1>1. Init => Abs!AbsInit  BY DEF Init, Abs!AbsInit
  <1>. QED BY <1>1, NextAbs, Invariance, PTL DEF Spec, AbsSpec, Abs!AbsSpec

\* The state file is never replaced by one that misses what it held.
THEOREM FileNeverGoesBack == Spec => DiskNeverRegresses
  <1>1. IInv /\ [Next]_vars => [disk \subseteq disk']_vars
    BY RenameSaves DEF Next, WriterStep, FlushStep, StartDurable, MutateDeferred,
       TakePersist, WriteTemp, PersistFails, MutateDurable, SettleDurable, MarkDirty,
       FlushTick, SwapDirty, CloneSnapshot, SettleFlush, BeginShutdown, Crash,
       ExitAndStart, LoadFromDisk, Actors, vars
  <1>. QED BY <1>1, Invariance, PTL DEF Spec, DiskNeverRegresses

\* A clean shutdown whose last flush did not fail loses nothing that was
\* acknowledged, however long the service ran and failed before.
THEOREM CleanShutdownLosesNothing == Spec => ShutdownKeepsAcked
  <1> DEFINE P == mode = "draining" /\ mode' = "serving" /\ crashes' = crashes
                    => lost' = lost
  <1>1. ASSUME IInv, [Next]_vars, mode = "draining", mode' = "serving", crashes' = crashes
        PROVE  lost' = lost
    <2>1. ~Crash  BY <1>1, StoreAssumption DEF Crash, IInv, TypeOK
    <2>2. ExitAndStart
      BY <1>1, <2>1 DEF Next, WriterStep, FlushStep, StartDurable, MutateDeferred,
         TakePersist, WriteTemp, Rename, PersistFails, MutateDurable, SettleDurable,
         MarkDirty, FlushTick, CloneSnapshot, SettleFlush, BeginShutdown, vars
    <2>3. (acked \ lost) \ disk = {}
      BY <1>1, <2>2 DEF ExitAndStart, IInv, DrainInv, NoAckedWriteForgotten, FlushWillSave
    <2>. QED BY <2>2, <2>3 DEF ExitAndStart, LoadFromDisk
  <1>2. IInv /\ [Next]_vars => [P]_vars  BY <1>1
  <1>. QED BY <1>2, Invariance, PTL DEF Spec, ShutdownKeepsAcked

(***************************************************************************)
(* The children of the services, for any number of clients, callers,       *)
(* children and restarts: no child is lost from sight, and what is told of  *)
(* a supervised child is so.                                               *)
(*                                                                         *)
(* The two keepers never move together, so the invariant is one for each:  *)
(* BridgeInv says that the map of the bridge and the numbers of the        *)
(* children agree; EngineInv says, beside the claim, who waits for what,    *)
(* because a restart is right only if the start it repeats was answered.    *)
(***************************************************************************)

(* The MCP bridge. *)

BridgeShape ==
    /\ created \in 0..MaxSpawns
    /\ current \in 0..created
    /\ child \in [Sessions -> {"none", "running", "exited"}]
    /\ pump \in [Sessions -> {"reading", "ended"}]
    /\ DOMAIN listeners = Sessions
    /\ DOMAIN phase = Clients /\ DOMAIN home = Clients

\* A bridge that has reaped has nothing in its map, and never will again.
ReapedInv == server = "reaped" => current = NoSession

\* Who is in a map came to that session, and is reading or has dropped its body.
MapInv ==
    \A s \in Sessions : \A c \in Range(listeners[s]) :
        c \in Clients /\ home[c] = s /\ phase[c] \in {"streaming", "dropped"}

\* The session in the map is there for somebody who came to it, and nobody's
\* detach is behind him.
HeardInv ==
    /\ current # NoSession => \E c \in Clients :
            home[c] = current /\ phase[c] \in {"streaming", "closing", "dropped"}
    /\ current # NoSession /\ pump[current] = "reading" => DOMAIN listeners[current] # {}

BridgeInv == BridgeShape /\ ReapedInv /\ NoOrphanChild /\ MapInv /\ HeardInv

\* A map that is not empty has somebody in it.
LEMMA SomebodyIsIn ==
    ASSUME NEW f, DOMAIN f # {}
    PROVE  \E c : c \in Range(f)
  BY DEF Range

\* With an empty map no child runs: that is what a shutdown leaves.
LEMMA BridgeInvAccounts == BridgeInv => ChildrenAccountedFor
  <1> SUFFICES ASSUME BridgeInv PROVE ChildrenAccountedFor
    OBVIOUS
  <1>1. ShutdownLeavesNoChild
    BY McpAssumption DEF BridgeInv, ReapedInv, ShutdownLeavesNoChild, NoOrphanChild, Sessions, NoSession
  <1>2. ASSUME NEW s \in Sessions, ~Abandoned(s), child[s] = "running"
        PROVE  \E c \in Clients : home[c] = s /\ phase[c] \in {"streaming", "closing"}
    <2>1. s = current /\ current # NoSession
      BY <1>2, McpAssumption DEF BridgeInv, NoOrphanChild, Sessions, NoSession
    <2> QED  BY <1>2, <2>1 DEF BridgeInv, HeardInv, Abandoned
  <1>3. ASSUME NEW s \in Sessions, ~Abandoned(s), s = current, pump[s] = "reading"
        PROVE  \E c \in Range(listeners[s]) : phase[c] = "streaming"
    <2>1. DOMAIN listeners[s] # {}
      BY <1>3, McpAssumption DEF BridgeInv, HeardInv, Sessions, NoSession
    <2>2. PICK c : c \in Range(listeners[s])
      BY <2>1, SomebodyIsIn
    <2> QED  BY <1>3, <2>2 DEF BridgeInv, MapInv, Abandoned
  <1> QED  BY <1>1, <1>2, <1>3 DEF BridgeInv, ChildrenAccountedFor, NoUnheardChild

\* There is no session at the start.
LEMMA BridgeInitially == BridgeInit => BridgeInv
  <1> SUFFICES ASSUME BridgeInit PROVE BridgeInv
    OBVIOUS
  <1>1. MapInv
    BY DEF BridgeInit, MapInv, Nobody, Range
  <1> QED  BY <1>1, McpAssumption DEF BridgeInit, BridgeInv, BridgeShape, ReapedInv, NoOrphanChild,
                                      HeardInv, Sessions, NoSession

\* Attaching adds a listener, to the session in the map or to a new one.
LEMMA AttachStep ==
    ASSUME BridgeInv, NEW c \in Clients, AttachJoins(c) \/ AttachSpawns(c)
    PROVE  BridgeInv'
  <1> USE McpAssumption DEF BridgeInv, Sessions, NoSession
  <1>1. current' \in 1..created' /\ created' \in created..MaxSpawns
    BY DEF AttachJoins, AttachSpawns, BridgeShape
  <1>2. BridgeShape'
    BY <1>1 DEF AttachJoins, AttachSpawns, AddListener, BridgeShape
  <1>3. ReapedInv'
    BY DEF AttachJoins, AttachSpawns, AddListener, ReapedInv
  <1>4. NoOrphanChild'
    BY DEF AttachJoins, AttachSpawns, BridgeShape, NoOrphanChild
  <1>5. PICK others : /\ AddListener(c, current', others)
                      /\ others = listeners[current'] \/ others = Nobody
    BY DEF AttachJoins, AttachSpawns
  <1>6. listeners'[current'] = [i \in DOMAIN others \cup {nextId[current']} |->
                                   IF i = nextId[current'] THEN c ELSE others[i]]
    BY <1>1, <1>2, <1>5 DEF AddListener, BridgeShape
  <1>7. /\ home' = [home EXCEPT ![c] = current'] /\ phase' = [phase EXCEPT ![c] = "streaming"]
        /\ phase[c] = "new" /\ pump' = pump
        /\ \A s \in Sessions \ {current'} : listeners'[s] = listeners[s]
    BY <1>1, <1>5 DEF AttachJoins, AttachSpawns, AddListener, BridgeShape
  <1>8. MapInv'
    <2> SUFFICES ASSUME NEW s \in Sessions, NEW d \in Range(listeners'[s])
                 PROVE  d \in Clients /\ home'[d] = s /\ phase'[d] \in {"streaming", "dropped"}
      BY DEF MapInv
    <2>1. CASE d \in Range(listeners[s])
      BY <1>7, <2>1 DEF MapInv, BridgeShape
    <2>2. CASE d \notin Range(listeners[s])
      <3>1. s = current'
        BY <1>7, <2>2
      <3>2. PICK i \in DOMAIN others \cup {nextId[current']} :
                d = IF i = nextId[current'] THEN c ELSE others[i]
        BY <1>6, <3>1 DEF Range
      <3>3. CASE d = c
        BY <1>7, <3>1, <3>3 DEF BridgeShape
      <3>4. CASE d # c
        <4>1. i \in DOMAIN others /\ d = others[i]
          BY <3>2, <3>4
        <4>2. others = listeners[s]
          BY <1>5, <3>1, <4>1 DEF Nobody
        <4> QED  BY <2>2, <4>1, <4>2 DEF Range
      <3> QED  BY <3>3, <3>4
    <2> QED  BY <2>1, <2>2
  <1>9. HeardInv'
    <2>1. DOMAIN listeners'[current'] # {}
      BY <1>6
    <2>2. home'[c] = current' /\ phase'[c] = "streaming"
      BY <1>7 DEF BridgeShape
    <2> QED BY <2>1, <2>2 DEF HeardInv
  <1> QED BY <1>2, <1>3, <1>4, <1>8, <1>9

\* A detach empties the map of the session it ends, and of no other.
LEMMA DetachStep ==
    ASSUME BridgeInv, NEW c \in Clients, Detach(c)
    PROVE  BridgeInv'
  <1> USE McpAssumption DEF BridgeInv, Sessions, NoSession, Detach
  <1>1. BridgeShape'
    BY DEF BridgeShape
  <1>2. ReapedInv'
    BY DEF ReapedInv
  <1>3. NoOrphanChild'
    BY DEF BridgeShape, NoOrphanChild
  <1>4. \A s \in Sessions : Range(listeners'[s]) \subseteq Range(listeners[s])
    <2>1. CASE current = NoSession
      BY <2>1
    <2>2. CASE current # NoSession
      <3>1. listeners'[current] = Restrict(listeners[current], Remaining(c))
        BY <2>2 DEF BridgeShape
      <3>2. Range(listeners'[current]) \subseteq Range(listeners[current])
        BY <3>1 DEF Restrict, Range, Remaining
      <3>3. \A s \in Sessions \ {current} : listeners'[s] = listeners[s]
        BY <2>2 DEF BridgeShape
      <3> QED  BY <3>2, <3>3
    <2> QED BY <2>1, <2>2
  <1>5. MapInv'
    BY <1>4 DEF MapInv, BridgeShape
  <1>6. HeardInv'
    <2>1. CASE current = NoSession \/ Remaining(c) = {}
      BY <2>1 DEF HeardInv
    <2>2. CASE current # NoSession /\ Remaining(c) # {}
      <3>1. DOMAIN listeners'[current] = Remaining(c) /\ current' = current /\ current \in Sessions
        BY <2>2 DEF BridgeShape, Restrict
      <3>2. DOMAIN listeners'[current] # {}
        BY <3>1, <2>2
      <3>3. PICK d : d \in Range(listeners'[current])
        BY <3>2, SomebodyIsIn
      <3>4. d \in Clients /\ home'[d] = current' /\ phase'[d] \in {"streaming", "closing", "dropped"}
        BY <1>5, <3>1, <3>3 DEF MapInv
      <3> QED BY <3>1, <3>2, <3>4 DEF HeardInv
    <2> QED BY <2>1, <2>2
  <1> QED BY <1>1, <1>2, <1>3, <1>5, <1>6

\* The end of a pump clears a map nobody will be written to from.
LEMMA PumpEndsStep ==
    ASSUME BridgeInv, NEW s \in Sessions, EndOfPump(s)
    PROVE  BridgeInv'
  <1> USE DEF BridgeInv, EndOfPump
  <1>1. BridgeShape' /\ ReapedInv' /\ NoOrphanChild'
    BY DEF BridgeShape, ReapedInv, NoOrphanChild
  <1>2. MapInv'
    <2>1. Range(listeners'[s]) = {}
      BY DEF BridgeShape, Nobody, Range
    <2>2. \A r \in Sessions \ {s} : listeners'[r] = listeners[r]
      BY DEF BridgeShape
    <2> QED  BY <2>1, <2>2 DEF MapInv
  <1>3. HeardInv'
    BY DEF BridgeShape, HeardInv
  <1> QED  BY <1>1, <1>2, <1>3

\* The rest ends children, or leaves the map and the children alone.
LEMMA OtherBridgeSteps ==
    ASSUME BridgeInv,
           \/ \E c \in Clients : AttachFails(c) \/ NextFrame(c) \/ NextFrameEnds(c) \/ Disconnect(c)
           \/ \E s \in Sessions : ChildWrites(s) \/ McpChildExits(s) \/ PumpFrame(s)
           \/ SendBegins \/ SendEnds \/ StopServer \/ KillAll \/ UNCHANGED bridgeVars
    PROVE  BridgeInv'
  <1> USE McpAssumption DEF BridgeInv, BridgeShape, ReapedInv, NoOrphanChild, MapInv, HeardInv,
              Sessions, NoSession
  <1>1. CASE \E c \in Clients : AttachFails(c) \/ NextFrame(c) \/ NextFrameEnds(c) \/ Disconnect(c)
    <2>1. PICK c \in Clients : AttachFails(c) \/ NextFrame(c) \/ NextFrameEnds(c) \/ Disconnect(c)
      BY <1>1
    <2>2. CASE AttachFails(c)
      BY <2>2 DEF AttachFails
    <2>3. CASE NextFrame(c)
      BY <2>3 DEF NextFrame
    <2>4. CASE NextFrameEnds(c)
      <3>1. \A s \in Sessions : c \notin Range(listeners[s])
        BY <2>4 DEF NextFrameEnds, SenderAlive
      <3> QED  BY <2>4, <3>1 DEF NextFrameEnds
    <2>5. CASE Disconnect(c)
      BY <2>5 DEF Disconnect
    <2> QED  BY <2>1, <2>2, <2>3, <2>4, <2>5
  <1>2. CASE \E s \in Sessions : ChildWrites(s) \/ McpChildExits(s) \/ PumpFrame(s)
    BY <1>2 DEF ChildWrites, McpChildExits, PumpFrame
  <1>3. CASE SendBegins \/ SendEnds \/ StopServer \/ UNCHANGED bridgeVars
    BY <1>3 DEF SendBegins, SendEnds, StopServer, bridgeVars
  <1>4. CASE KillAll
    BY <1>4 DEF KillAll
  <1> QED BY <1>1, <1>2, <1>3, <1>4

\* The invariant is kept by every step of the bridge.
LEMMA BridgeStep == BridgeInv /\ [BridgeNext]_bridgeVars => BridgeInv'
  <1> SUFFICES ASSUME BridgeInv, [BridgeNext]_bridgeVars PROVE BridgeInv'
    OBVIOUS
  <1>1. ASSUME NEW s \in Sessions, PumpSeesEof(s) \/ PumpReadFails(s) PROVE BridgeInv'
    BY <1>1, PumpEndsStep DEF PumpSeesEof, PumpReadFails
  <1> QED BY <1>1, AttachStep, DetachStep, OtherBridgeSteps DEF BridgeNext

-----------------------------------------------------------------------------
(* The supervisor. *)

EngineShape ==
    /\ slot \in [kind : {"Empty", "Starting", "Live", "Backoff"}, child : Nat,
                 rule : Rules \cup {"none"}, ready : {"none", "open", "sent", "dropped"},
                 reply : Starters \cup {NoCaller}, attempt : Nat, healthy : BOOLEAN]
    /\ engine \in {"select", "teardown", "gone"}
    /\ doing \in Commands \cup {[kind |-> k] : k \in {"none", "Close", "Deadline"}}
    /\ shared \in [state : {"Stopped", "Starting", "Running", "Backoff", "Failed"},
                   pid : Nat, started_at : BOOLEAN, restarts : Nat]
    /\ alive \subseteq Nat \ {NoChild}
    /\ spawned \in Nat
    /\ queue \in Seq(Commands)
    /\ caller \in [Callers -> {"idle", "waiting", "ok", "failed", "stopped", "cancelled"}]
    /\ last \in Commands \cup {[kind |-> k] : k \in {"none", "Close"}}

\* What a slot that has no child, or whose start was answered, cannot hold.
SlotInv ==
    /\ slot.kind = "Empty" => slot = Empty
    /\ slot.kind = "Backoff" => slot.child = NoChild
    /\ slot.kind # "Starting" => slot.reply = NoCaller
    /\ OneChild

\* The snapshot matches the slot, during a teardown too.
SnapshotInv ==
    /\ shared.state = "Running" <=> slot.kind = "Live"
    /\ shared.state = "Starting" <=> slot.kind = "Starting"
    /\ shared.state = "Backoff" <=> slot.kind = "Backoff"
    /\ shared.pid = slot.child

ReadyInv ==
    slot.rule = "Line" /\ (slot.kind = "Live" \/ (slot.kind = "Starting" /\ slot.ready = "sent"))
        => slot.child \in announced

\* Nothing is held after a stop, and by an engine that is gone.
StopInv == last.kind = "Stop" \/ engine = "gone" => slot = Empty

\* Where a caller is that has asked and was not answered.
Asked == {"waiting", "cancelled"}

\* Every command under way is another caller's, and none was answered.
QueueInv ==
    /\ \A i \in 1..Len(queue) :
          /\ caller[queue[i].caller] \in Asked
          /\ queue[i].caller # slot.reply
          /\ doing.kind \in {"Start", "Stop"} => queue[i].caller # doing.caller
          /\ \A j \in 1..Len(queue) : queue[i].caller = queue[j].caller => i = j
    /\ doing.kind \in {"Start", "Stop"} =>
          caller[doing.caller] \in Asked /\ doing.caller # slot.reply

\* What the slot holds is of the last start: not answered yet, or told that it
\* is up.
StartInv ==
    slot.kind # "Empty" =>
        /\ last.kind = "Start"
        /\ slot.reply # NoCaller =>
              slot.reply = last.caller /\ caller[last.caller] \in Asked
        /\ slot.reply = NoCaller => caller[last.caller] \in {"ok", "cancelled"}

EngineInv ==
    /\ EngineShape /\ SlotInv /\ SnapshotInv /\ ReadyInv
    /\ StopInv /\ QueueInv /\ StartInv

\* The invariant gives what is claimed of a supervised child.
LEMMA EngineInvHolds == EngineInv => OneChild /\ SupervisionHolds
  BY DEF EngineInv, EngineShape, SlotInv, SnapshotInv, ReadyInv, StopInv, StartInv, OneChild,
     SupervisionHolds, StatusTruthful, NoFalseReady, StopIsFinal, RestartsOnlyWhatWasUp, Empty

\* An engine starts idle, or does not start.
LEMMA EngineInitially == SupervisorInit => EngineInv
  <1> SUFFICES ASSUME SupervisorInit PROVE EngineInv
    OBVIOUS
  <1> USE SupervisorAssumption DEF SupervisorInit, Empty, NoCommand, NoChild
  <1>1. EngineShape
    BY DEF EngineShape
  <1>2. SlotInv /\ SnapshotInv /\ ReadyInv /\ StopInv
    BY DEF SlotInv, SnapshotInv, ReadyInv, StopInv, OneChild
  <1>3. QueueInv /\ StartInv
    BY DEF QueueInv, StartInv
  <1> QED BY <1>1, <1>2, <1>3 DEF EngineInv

\* A caller that asks has not asked before, so no other command is its own.
LEMMA SendStep ==
    ASSUME EngineInv, NEW c \in Callers, NEW command \in Commands, command.caller = c,
           Send(c, command)
    PROVE  EngineInv'
  <1> USE SupervisorAssumption DEF EngineInv, Send
  <1>1. EngineShape'
    BY DEF EngineShape
  <1>2. SlotInv' /\ SnapshotInv' /\ ReadyInv' /\ StopInv'
    BY DEF SlotInv, SnapshotInv, ReadyInv, StopInv, OneChild
  <1>3. c # slot.reply /\ (doing.kind \in {"Start", "Stop"} => c # doing.caller)
    BY DEF SlotInv, StartInv, QueueInv, Asked, EngineShape, Callers
  <1>4. QueueInv'
    <2>1. Len(queue') = Len(queue) + 1 /\ Len(queue) \in Nat
      BY DEF EngineShape
    <2>2. \A i \in 1..Len(queue') :
             \/ i \in 1..Len(queue) /\ queue'[i] = queue[i] /\ queue[i].caller # c
             \/ i = Len(queue) + 1 /\ queue'[i] = command
      BY <2>1 DEF EngineShape, QueueInv, Asked
    <2>3. \A d \in Callers : caller[d] \in Asked => caller'[d] \in Asked
      BY DEF EngineShape, Asked
    <2> QED BY <1>3, <2>1, <2>2, <2>3 DEF QueueInv, EngineShape, Asked
  <1>5. StartInv'
    BY DEF StartInv, EngineShape, Asked
  <1> QED BY <1>1, <1>2, <1>4, <1>5

\* Giving up, and an answer to somebody who has not asked, change only whoever
\* gives up or is answered.
LEMMA CallerStepKeeps ==
    ASSUME EngineInv,
           \/ \E c \in Callers : SendToNobody(c) \/ Cancel(c)
           \/ DropHandles
    PROVE  EngineInv'
  <1> USE DEF EngineInv
  <1>1. /\ slot' = slot /\ engine' = engine /\ doing' = doing /\ shared' = shared
        /\ alive' = alive /\ spawned' = spawned /\ queue' = queue
        /\ announced' = announced /\ last' = last
    BY DEF SendToNobody, Cancel, DropHandles
  <1>2. /\ caller' \in [Callers -> {"idle", "waiting", "ok", "failed", "stopped", "cancelled"}]
        /\ \A d \in Callers : /\ caller[d] \in Asked => caller'[d] \in Asked
                              /\ caller[d] \in {"ok", "cancelled"} => caller'[d] = caller[d]
    BY DEF SendToNobody, Cancel, DropHandles, EngineShape, Asked
  <1>3. EngineShape'
    BY <1>1, <1>2 DEF EngineShape
  <1>4. SlotInv' /\ SnapshotInv' /\ ReadyInv' /\ StopInv'
    BY <1>1 DEF SlotInv, SnapshotInv, ReadyInv, StopInv, OneChild
  <1>5. \A i \in 1..Len(queue) : queue[i].caller \in Callers
    BY DEF EngineShape, Commands, Callers
  <1>6. doing.kind \in {"Start", "Stop"} => doing.caller \in Callers
    BY DEF EngineShape, Commands, Callers
  <1>7. QueueInv'
    BY <1>1, <1>2, <1>5, <1>6 DEF QueueInv
  <1>8. last.kind = "Start" => last.caller \in Callers
    BY DEF EngineShape, Commands, Callers
  <1>9. StartInv'
    BY <1>1, <1>2, <1>8 DEF StartInv
  <1> QED BY <1>3, <1>4, <1>7, <1>9

\* What an answer does to a caller: one that waits is answered, one that has
\* been is not answered again, and nobody else is concerned.
LEMMA AnsweredOnce ==
    ASSUME EngineShape, NEW c, NEW result \in {"ok", "failed", "stopped"}
    PROVE  /\ Answered(c, result)
                 \in [Callers -> {"idle", "waiting", "ok", "failed", "stopped", "cancelled"}]
           /\ \A d \in Callers : d # c => Answered(c, result)[d] = caller[d]
           /\ \A d \in Callers : caller[d] # "waiting" => Answered(c, result)[d] = caller[d]
           /\ c \in Callers /\ caller[c] \in Asked => Answered(c, result)[c] \in {result, "cancelled"}
  BY DEF EngineShape, Answered, Asked

\* What the head and the tail of a sequence are.
LEMMA HeadAndTail ==
    ASSUME NEW S, NEW s \in Seq(S), s # <<>>
    PROVE  /\ Tail(s) \in Seq(S) /\ Head(s) \in S /\ Head(s) = s[1] /\ 1 \in 1..Len(s)
           /\ Len(s) \in Nat \ {0} /\ Len(Tail(s)) = Len(s) - 1
           /\ \A i \in 1..Len(Tail(s)) :
                 i + 1 \in 1..Len(s) /\ i + 1 # 1 /\ Tail(s)[i] = s[i + 1]
  <1>1. /\ Tail(s) \in Seq(S) /\ Head(s) \in S /\ Head(s) = s[1]
        /\ Len(s) \in Nat \ {0} /\ Len(Tail(s)) = Len(s) - 1
    OBVIOUS
  <1>2. \A i \in 1..(Len(s) - 1) : Tail(s)[i] = s[i + 1]
    OBVIOUS
  <1> QED BY <1>1, <1>2

\* A command leaves the queue for the engine.
LEMMA TakeStep ==
    ASSUME EngineInv, TakeCommand \/ TakeClosed
    PROVE  EngineInv'
  <1> USE DEF EngineInv
  <1>1. /\ slot' = slot /\ shared' = shared /\ alive' = alive /\ spawned' = spawned
        /\ caller' = caller /\ announced' = announced /\ last' = last /\ engine' = "teardown"
    BY DEF TakeCommand, TakeClosed
  <1>2. SlotInv' /\ SnapshotInv' /\ ReadyInv' /\ StopInv' /\ StartInv'
    BY <1>1 DEF SlotInv, SnapshotInv, ReadyInv, StopInv, StartInv, OneChild, TakeCommand, TakeClosed
  <1>3. CASE TakeCommand
    <2>1. /\ queue \in Seq(Commands) /\ queue # <<>> /\ queue' = Tail(queue)
          /\ doing' = Head(queue)
      BY <1>3 DEF EngineShape, TakeCommand
    <2>2. /\ queue' \in Seq(Commands) /\ doing' \in Commands /\ doing' = queue[1]
          /\ 1 \in 1..Len(queue) /\ Len(queue') = Len(queue) - 1 /\ Len(queue) \in Nat \ {0}
          /\ \A i \in 1..Len(queue') :
                i + 1 \in 1..Len(queue) /\ i + 1 # 1 /\ queue'[i] = queue[i + 1]
      BY <2>1, HeadAndTail
    <2>3. EngineShape'
      BY <1>1, <2>2 DEF EngineShape
    <2>4. doing'.caller # slot'.reply /\ caller'[doing'.caller] \in Asked
      BY <1>1, <2>2 DEF QueueInv
    <2>5. ASSUME NEW i \in 1..Len(queue')
          PROVE  /\ caller'[queue'[i].caller] \in Asked
                 /\ queue'[i].caller # slot'.reply
                 /\ queue'[i].caller # doing'.caller
                 /\ \A j \in 1..Len(queue') : queue'[i].caller = queue'[j].caller => i = j
      <3>1. /\ caller'[queue'[i].caller] \in Asked
            /\ queue'[i].caller # slot'.reply
            /\ queue'[i].caller # doing'.caller
        BY <1>1, <2>2 DEF QueueInv
      <3>2. \A j \in 1..Len(queue') : queue'[i].caller = queue'[j].caller => i + 1 = j + 1
        BY <2>2 DEF QueueInv
      <3> QED BY <3>1, <3>2
    <2>6. QueueInv'
      BY <2>4, <2>5 DEF QueueInv
    <2> QED BY <1>2, <2>3, <2>6
  <1>4. CASE TakeClosed
    <2>1. queue' = queue /\ queue = <<>> /\ doing' = [kind |-> "Close"]
      BY <1>4 DEF TakeClosed
    <2>2. EngineShape'
      BY <1>1, <2>1 DEF EngineShape
    <2>3. QueueInv'
      BY <1>1, <2>1 DEF QueueInv
    <2> QED BY <1>2, <2>2, <2>3
  <1> QED BY <1>3, <1>4

\* A teardown leaves no child: there was one at most, and it was reaped.
LEMMA NoSurvivors == EngineInv => Survivors = {}
  BY DEF EngineInv, SlotInv, OneChild, Survivors

\* The commands in the queue are not concerned by the end of the one the engine
\* carried out, nor by that of the start it replaced.
LEMMA QueueGoesOn ==
    ASSUME EngineInv, doing' = NoCommand, queue' = queue,
           slot'.reply = NoCaller \/ (doing.kind = "Start" /\ slot'.reply = doing.caller),
           \A d \in Callers :
              d # slot.reply /\ ~(doing.kind \in {"Start", "Stop"} /\ d = doing.caller)
                => caller'[d] = caller[d]
    PROVE  QueueInv'
  <1> USE SupervisorAssumption DEF EngineInv, NoCommand
  <1>1. \A i \in 1..Len(queue) : queue[i].caller \in Callers
    BY DEF EngineShape, Commands, Callers
  <1> QED BY <1>1 DEF QueueInv, EngineShape, Callers

\* A start replaces whatever there was, and is answered if nothing was spawned.
LEMMA DoStartStep ==
    ASSUME EngineInv, DoStart
    PROVE  EngineInv'
  <1> USE SupervisorAssumption DEF EngineInv, DoStart, NoCommand, NoChild
  <1> DEFINE old == Answered(slot.reply, "failed")
  <1>1. /\ doing.caller \in Starters /\ doing.rule \in Rules /\ doing \in Commands
        /\ doing.caller \in Callers
    BY DEF EngineShape, Commands, Callers
  <1>2. /\ old \in [Callers -> {"idle", "waiting", "ok", "failed", "stopped", "cancelled"}]
        /\ \A d \in Callers : d # slot.reply => old[d] = caller[d]
        /\ old[doing.caller] \in Asked
    BY <1>1, AnsweredOnce DEF QueueInv
  <1> HIDE DEF old
  <1>3. CASE SpawnSucceeds(doing.rule, doing.caller, 0, 0, Survivors) /\ caller' = old
    <2> USE <1>3 DEF SpawnSucceeds
    <2>1. EngineShape'
      BY <1>1, <1>2, NoSurvivors DEF EngineShape
    <2>2. SlotInv' /\ SnapshotInv' /\ StopInv'
      BY <1>1, NoSurvivors DEF SlotInv, SnapshotInv, StopInv, OneChild
    <2>3. ReadyInv' /\ StartInv'
      BY <1>1, <1>2 DEF ReadyInv, StartInv
    <2>4. QueueInv'
      BY <1>2, QueueGoesOn
    <2> QED BY <2>1, <2>2, <2>3, <2>4
  <1>4. CASE /\ SpawnFails(0, Survivors)
             /\ caller' = [old EXCEPT ![doing.caller] = IF @ = "waiting" THEN "failed" ELSE @]
    <2> USE <1>4 DEF SpawnFails, Failed, Empty
    <2>1. EngineShape'
      BY <1>1, <1>2, NoSurvivors DEF EngineShape
    <2>2. SlotInv' /\ SnapshotInv' /\ StopInv' /\ ReadyInv' /\ StartInv'
      BY NoSurvivors DEF SlotInv, SnapshotInv, StopInv, OneChild, ReadyInv, StartInv
    <2>3. QueueInv'
      BY <1>1, <1>2, QueueGoesOn
    <2> QED BY <2>1, <2>2, <2>3
  <1> QED BY <1>3, <1>4 DEF old

\* A stop, the end of all handles and a deadline leave an empty slot behind.
LEMMA TeardownStep ==
    ASSUME EngineInv, DoStop \/ DoClose \/ OnDeadline
    PROVE  EngineInv'
  <1> USE SupervisorAssumption DEF EngineInv
  <1> DEFINE old == Answered(slot.reply, "failed")
  <1>1. /\ old \in [Callers -> {"idle", "waiting", "ok", "failed", "stopped", "cancelled"}]
        /\ \A d \in Callers : d # slot.reply => old[d] = caller[d]
    BY AnsweredOnce
  <1>2. /\ slot' = Empty /\ alive' = {} /\ doing' = NoCommand /\ queue' = queue
        /\ spawned' = spawned /\ announced' = announced
        /\ shared'.state \in {"Stopped", "Failed"} /\ shared'.pid = NoChild
        /\ engine' = IF doing.kind = "Close" THEN "gone" ELSE "select"
    BY NoSurvivors DEF DoStop, DoClose, OnDeadline, Stopped, Failed
  <1>3. shared' \in [state : {"Stopped", "Failed"}, pid : {NoChild}, started_at : {FALSE},
                     restarts : Nat]
    <2>1. shared' \in {Stopped, Failed(shared.restarts)}
      BY DEF DoStop, DoClose, OnDeadline
    <2>2. shared.restarts \in Nat
      BY DEF EngineShape
    <2>3. CASE shared' = Stopped
      BY <2>2, <2>3 DEF Stopped
    <2>4. CASE shared' = Failed(shared.restarts)
      BY <2>2, <2>4 DEF Failed
    <2> QED BY <2>1, <2>3, <2>4
  <1>4. last' \in Commands \cup {[kind |-> k] : k \in {"none", "Close"}}
    BY DEF DoStop, DoClose, OnDeadline, EngineShape, Commands
  <1>5. caller' \in [Callers -> {"idle", "waiting", "ok", "failed", "stopped", "cancelled"}]
    BY <1>1 DEF DoStop, DoClose, OnDeadline
  <1>6. \A d \in Callers :
           d # slot.reply /\ ~(doing.kind \in {"Start", "Stop"} /\ d = doing.caller)
             => caller'[d] = caller[d]
    BY <1>1 DEF DoStop, DoClose, OnDeadline
  <1> HIDE DEF old
  <1>7. EngineShape'
    <2>1. Empty \in [kind : {"Empty"}, child : Nat, rule : {"none"}, ready : {"none"},
                    reply : {NoCaller}, attempt : Nat, healthy : {FALSE}]
      BY DEF Empty, NoChild
    <2>2. NoCommand \in {[kind |-> k] : k \in {"none"}}
      BY DEF NoCommand
    <2>3. slot' \in [kind : {"Empty", "Starting", "Live", "Backoff"}, child : Nat,
                     rule : Rules \cup {"none"}, ready : {"none", "open", "sent", "dropped"},
                     reply : Starters \cup {NoCaller}, attempt : Nat, healthy : BOOLEAN]
      BY <1>2, <2>1, Zenon
    <2>4. shared' \in [state : {"Stopped", "Starting", "Running", "Backoff", "Failed"},
                       pid : Nat, started_at : BOOLEAN, restarts : Nat]
      <3>1. {NoChild} \subseteq Nat
        BY DEF NoChild
      <3> QED BY <1>3, <3>1, Zenon
    <2>5. /\ engine' \in {"select", "teardown", "gone"} /\ alive' \subseteq Nat \ {NoChild}
          /\ spawned' \in Nat /\ queue' \in Seq(Commands)
          /\ doing' \in Commands \cup {[kind |-> k] : k \in {"none", "Close", "Deadline"}}
      BY <1>2, <2>2 DEF EngineShape
    <2> QED BY <1>4, <1>5, <2>3, <2>4, <2>5 DEF EngineShape
  <1>8. SlotInv' /\ SnapshotInv' /\ ReadyInv' /\ StopInv' /\ StartInv'
    BY <1>2 DEF SlotInv, SnapshotInv, ReadyInv, StopInv, StartInv, OneChild, Empty
  <1>9. QueueInv'
    BY <1>2, <1>6, QueueGoesOn DEF Empty
  <1> QED BY <1>7, <1>8, <1>9

\* What neither asks nor answers anybody keeps the queue.
LEMMA QueueKept ==
    ASSUME EngineInv, doing' = doing, queue' = queue,
           slot'.reply \in {NoCaller, slot.reply},
           \A d \in Callers : d # slot.reply => caller'[d] = caller[d]
    PROVE  QueueInv'
  <1> USE SupervisorAssumption DEF EngineInv
  <1>1. \A i \in 1..Len(queue) : queue[i].caller \in Callers
    BY DEF EngineShape, Commands, Callers
  <1>2. doing.kind \in {"Start", "Stop"} => doing.caller \in Callers
    BY DEF EngineShape, Commands, Callers
  <1> QED BY <1>1, <1>2 DEF QueueInv, Callers

\* What the child and its watchers do is seen in the slot, or when it is gone.
LEMMA ChildStepKeeps ==
    ASSUME EngineInv, ChildStep
    PROVE  EngineInv'
  <1> USE SupervisorAssumption DEF EngineInv
  <1>1. /\ slot'.kind = slot.kind /\ slot'.child = slot.child /\ slot'.rule = slot.rule
        /\ slot'.reply = slot.reply /\ (slot.kind \in {"Empty", "Backoff"} => slot' = slot)
        /\ alive' \subseteq alive /\ announced \subseteq announced'
        /\ slot'.ready = "sent" => slot.ready = "sent" \/ slot.child \in announced'
    BY DEF EngineShape, SlotInv, OneChild, ChildStep, ChildExits, WatcherSignals, WatcherEnds,
           UptimeElapses
  <1>2. /\ engine' = engine /\ doing' = doing /\ shared' = shared /\ queue' = queue
        /\ caller' = caller /\ last' = last /\ spawned' = spawned
    BY DEF ChildStep, ChildExits, WatcherSignals, WatcherEnds, UptimeElapses
  <1>3. EngineShape'
    <2>1. \/ slot' = slot \/ slot' = [slot EXCEPT !.ready = "sent"]
          \/ slot' = [slot EXCEPT !.ready = "dropped"] \/ slot' = [slot EXCEPT !.healthy = TRUE]
      BY DEF ChildStep, ChildExits, WatcherSignals, WatcherEnds, UptimeElapses
    <2>2. slot' \in [kind : {"Empty", "Starting", "Live", "Backoff"}, child : Nat,
                     rule : Rules \cup {"none"}, ready : {"none", "open", "sent", "dropped"},
                     reply : Starters \cup {NoCaller}, attempt : Nat, healthy : BOOLEAN]
      <3>1. CASE slot' = slot
        BY <3>1 DEF EngineShape
      <3>4. CASE slot' = [slot EXCEPT !.healthy = TRUE]
        <4>1. slot' = [kind |-> slot.kind, child |-> slot.child, rule |-> slot.rule,
                       ready |-> slot.ready, reply |-> slot.reply, attempt |-> slot.attempt,
                       healthy |-> TRUE]
          BY <3>4 DEF EngineShape
        <4> QED BY <4>1 DEF EngineShape
      <3>2. CASE slot' = [slot EXCEPT !.ready = "sent"]
        BY <3>2 DEF EngineShape
      <3>3. CASE slot' = [slot EXCEPT !.ready = "dropped"]
        BY <3>3 DEF EngineShape
      <3> QED BY <2>1, <3>1, <3>2, <3>3, <3>4
    <2> QED BY <1>1, <1>2, <2>2 DEF EngineShape
  <1>4. SlotInv' /\ SnapshotInv' /\ ReadyInv' /\ StopInv' /\ StartInv'
    BY <1>1, <1>2 DEF SlotInv, SnapshotInv, ReadyInv, StopInv, StartInv, OneChild, Empty
  <1>5. QueueInv'
    BY <1>1, <1>2, QueueKept
  <1> QED BY <1>3, <1>4, <1>5

\* A start that is ready is answered and left alone.
LEMMA OnReadyStep ==
    ASSUME EngineInv, OnReady
    PROVE  EngineInv'
  <1> USE SupervisorAssumption DEF EngineInv, OnReady
  <1>1. /\ caller' \in [Callers -> {"idle", "waiting", "ok", "failed", "stopped", "cancelled"}]
        /\ \A d \in Callers : d # slot.reply => caller'[d] = caller[d]
        /\ slot.reply \in Callers /\ caller[slot.reply] \in Asked
             => caller'[slot.reply] \in {"ok", "cancelled"}
    BY AnsweredOnce
  <1>2. /\ slot'.kind = "Live" /\ slot'.child = slot.child /\ slot'.rule = slot.rule
        /\ slot'.reply = NoCaller
        /\ shared'.state = "Running" /\ shared'.pid = shared.pid
    BY DEF EngineShape
  <1>3. EngineShape'
    BY <1>1 DEF EngineShape
  <1>4. SlotInv' /\ SnapshotInv' /\ StopInv'
    BY <1>2 DEF SlotInv, SnapshotInv, StopInv, OneChild, Empty
  <1>5. ReadyInv'
    BY <1>2 DEF ReadyInv, ReadyNow
  <1>6. StartInv'
    BY <1>1, <1>2 DEF StartInv, EngineShape, Commands, Callers
  <1>7. QueueInv'
    BY <1>1, <1>2, QueueKept
  <1> QED BY <1>3, <1>4, <1>5, <1>6, <1>7

\* A channel that is closed, and a deadline, change who waits for what alone.
LEMMA ReadyImpossibleStep ==
    ASSUME EngineInv, ReadyImpossible
    PROVE  EngineInv'
  <1> USE SupervisorAssumption DEF EngineInv, ReadyImpossible
  <1>1. EngineShape'
    BY DEF EngineShape
  <1>2. /\ slot'.kind = slot.kind /\ slot'.child = slot.child /\ slot'.rule = slot.rule
        /\ slot'.reply = slot.reply /\ slot'.ready = "none"
    BY DEF EngineShape
  <1>3. SlotInv' /\ SnapshotInv' /\ ReadyInv' /\ StopInv' /\ StartInv'
    BY <1>2 DEF SlotInv, SnapshotInv, ReadyInv, StopInv, StartInv, OneChild, Empty
  <1>4. QueueInv'
    BY <1>2, QueueKept
  <1> QED BY <1>1, <1>3, <1>4

\* The deadline of a start begins a teardown that is no command's.
LEMMA DeadlinePassesStep ==
    ASSUME EngineInv, DeadlinePasses
    PROVE  EngineInv'
  <1> USE DEF EngineInv, DeadlinePasses
  <1>1. EngineShape'
    BY DEF EngineShape
  <1>2. SlotInv' /\ SnapshotInv' /\ ReadyInv' /\ StopInv' /\ StartInv'
    BY DEF SlotInv, SnapshotInv, ReadyInv, StopInv, StartInv, OneChild
  <1>3. QueueInv'
    BY DEF QueueInv
  <1> QED BY <1>1, <1>2, <1>3

\* A restart is scheduled while attempts are left, of a child that was up.
LEMMA RestartScheduled ==
    ASSUME EngineInv, NEW attempt \in Nat, ScheduleRestart(attempt)
    PROVE  /\ slot' = Empty \/ (slot'.kind = "Backoff" /\ slot'.rule = slot.rule)
           /\ slot' \in [kind : {"Empty", "Backoff"}, child : {NoChild}, rule : Rules \cup {"none"},
                         ready : {"none"}, reply : {NoCaller}, attempt : Nat, healthy : {FALSE}]
           /\ shared' \in [state : {"Failed", "Backoff"}, pid : {NoChild}, started_at : {FALSE},
                           restarts : Nat]
           /\ shared'.state = "Backoff" <=> slot'.kind = "Backoff"
  <1>1. CASE attempt + 1 > MaxAttempts
    <2>1. slot' = Empty /\ shared' = Failed(attempt)
      BY <1>1 DEF ScheduleRestart
    <2>2. Empty.kind = "Empty"
      BY DEF Empty
    <2> QED BY <2>1, <2>2 DEF Failed, Empty, NoChild
  <1>2. CASE ~(attempt + 1 > MaxAttempts)
    <2>1. slot' = [kind |-> "Backoff", child |-> NoChild, rule |-> slot.rule, ready |-> "none",
                   reply |-> NoCaller, attempt |-> attempt + 1, healthy |-> FALSE]
      BY <1>2 DEF ScheduleRestart, Empty
    <2>2. shared' = [state |-> "Backoff", pid |-> NoChild, started_at |-> FALSE,
                     restarts |-> attempt]
      BY <1>2 DEF ScheduleRestart
    <2>3. slot.rule \in Rules \cup {"none"} /\ attempt + 1 \in Nat
      BY DEF EngineInv, EngineShape
    <2> QED BY <2>1, <2>2, <2>3
  <1> QED BY <1>1, <1>2

\* What the slot becomes when its child is gone: nothing, or the wait for a
\* restart of what its caller was told is up.
LEMMA ChildGoneKeeps ==
    ASSUME EngineInv, slot.kind \in {"Starting", "Live"}, slot.child \notin alive,
           engine' = engine, engine = "select", doing' = doing, alive' = alive,
           spawned' = spawned, queue' = queue, announced' = announced, last' = last,
           slot' \in [kind : {"Empty", "Backoff"}, child : {NoChild}, rule : Rules \cup {"none"},
                      ready : {"none"}, reply : {NoCaller}, attempt : Nat, healthy : {FALSE}],
           shared' \in [state : {"Stopped", "Failed", "Backoff"}, pid : {NoChild},
                        started_at : {FALSE}, restarts : Nat],
           shared'.state = "Backoff" <=> slot'.kind = "Backoff",
           slot' = Empty \/ (slot'.kind = "Backoff" /\ slot.reply = NoCaller),
           caller' \in [Callers -> {"idle", "waiting", "ok", "failed", "stopped", "cancelled"}],
           \A d \in Callers : d # slot.reply => caller'[d] = caller[d]
    PROVE  EngineInv'
  <1> USE SupervisorAssumption DEF EngineInv
  <1>1. EngineShape'
    <2>1. slot' \in [kind : {"Empty", "Starting", "Live", "Backoff"}, child : Nat,
                     rule : Rules \cup {"none"}, ready : {"none", "open", "sent", "dropped"},
                     reply : Starters \cup {NoCaller}, attempt : Nat, healthy : BOOLEAN]
      <3>1. /\ {"Empty", "Backoff"} \subseteq {"Empty", "Starting", "Live", "Backoff"}
            /\ {NoChild} \subseteq Nat /\ {FALSE} \subseteq BOOLEAN
            /\ {"none"} \subseteq {"none", "open", "sent", "dropped"}
            /\ {NoCaller} \subseteq Starters \cup {NoCaller}
        BY DEF NoChild
      <3> QED BY <3>1, Zenon
    <2>2. shared' \in [state : {"Stopped", "Starting", "Running", "Backoff", "Failed"},
                       pid : Nat, started_at : BOOLEAN, restarts : Nat]
      <3>1. /\ {"Stopped", "Failed", "Backoff"}
                  \subseteq {"Stopped", "Starting", "Running", "Backoff", "Failed"}
            /\ {NoChild} \subseteq Nat /\ {FALSE} \subseteq BOOLEAN
        BY DEF NoChild
      <3> QED BY <3>1, Zenon
    <2>3. /\ engine' \in {"select", "teardown", "gone"} /\ alive' \subseteq Nat \ {NoChild}
          /\ doing' \in Commands \cup {[kind |-> k] : k \in {"none", "Close", "Deadline"}}
          /\ last' \in Commands \cup {[kind |-> k] : k \in {"none", "Close"}}
          /\ spawned' \in Nat /\ queue' \in Seq(Commands)
      BY DEF EngineShape
    <2> QED BY <2>1, <2>2, <2>3 DEF EngineShape
  <1>2. alive = {}
    BY DEF SlotInv, OneChild
  <1>3. SlotInv' /\ SnapshotInv' /\ ReadyInv' /\ StopInv'
    BY <1>2 DEF SlotInv, SnapshotInv, ReadyInv, StopInv, OneChild, Empty
  <1>4. StartInv'
    BY DEF StartInv, EngineShape, Commands, Callers, Empty
  <1>5. QueueInv'
    BY QueueKept DEF Empty
  <1> QED BY <1>1, <1>3, <1>4, <1>5

\* An exit: of a command that was to complete, of a start, of a child that was up.
LEMMA OnExitStep ==
    ASSUME EngineInv, OnExitCompleted \/ OnExitEarly \/ OnExitLive
    PROVE  EngineInv'
  <1> USE DEF EngineInv
  <1>1. \A result \in {"ok", "failed"} :
           /\ Answered(slot.reply, result)
                 \in [Callers -> {"idle", "waiting", "ok", "failed", "stopped", "cancelled"}]
           /\ \A d \in Callers : d # slot.reply => Answered(slot.reply, result)[d] = caller[d]
    BY AnsweredOnce
  <1>2. Empty \in [kind : {"Empty", "Backoff"}, child : {NoChild}, rule : Rules \cup {"none"},
                   ready : {"none"}, reply : {NoCaller}, attempt : Nat, healthy : {FALSE}]
    BY DEF Empty, NoChild
  <1>3. /\ Stopped \in [state : {"Stopped", "Failed", "Backoff"}, pid : {NoChild},
                        started_at : {FALSE}, restarts : Nat]
        /\ Failed(shared.restarts)
              \in [state : {"Stopped", "Failed", "Backoff"}, pid : {NoChild},
                   started_at : {FALSE}, restarts : Nat]
    BY DEF Stopped, Failed, EngineShape
  <1>4. CASE OnExitCompleted
    BY <1>1, <1>2, <1>3, <1>4, ChildGoneKeeps DEF OnExitCompleted, ChildIsGone, Stopped, Empty
  <1>5. CASE OnExitEarly /\ slot.reply # NoCaller
    BY <1>1, <1>2, <1>3, <1>5, ChildGoneKeeps DEF OnExitEarly, ChildIsGone, Failed, Empty
  <1>6. CASE OnExitEarly /\ slot.reply = NoCaller
    <2>1. ScheduleRestart(slot.attempt) /\ slot.attempt \in Nat
      BY <1>6 DEF OnExitEarly, EngineShape
    <2> QED BY <1>1, <1>6, <2>1, RestartScheduled, ChildGoneKeeps DEF OnExitEarly, ChildIsGone
  <1>7. CASE OnExitLive
    <2>1. PICK attempt \in Nat : ScheduleRestart(attempt)
      BY <1>7 DEF OnExitLive, EngineShape
    <2>2. slot.reply = NoCaller /\ caller' = caller
      BY <1>7 DEF OnExitLive, ChildIsGone, SlotInv
    <2>3. caller' \in [Callers -> {"idle", "waiting", "ok", "failed", "stopped", "cancelled"}]
      BY <2>2 DEF EngineShape
    <2> QED BY <1>7, <2>1, <2>2, <2>3, RestartScheduled, ChildGoneKeeps DEF OnExitLive, ChildIsGone
  <1> QED BY <1>4, <1>5, <1>6, <1>7

\* A restart spawns or fails for good, and answers nobody.
LEMMA RestartDueStep ==
    ASSUME EngineInv, RestartDue
    PROVE  EngineInv'
  <1> USE SupervisorAssumption DEF EngineInv, RestartDue, NoChild
  <1>1. alive = {} /\ slot.reply = NoCaller
    BY DEF SlotInv, OneChild, EngineShape
  <1>2. slot'.reply = NoCaller
    BY DEF SpawnSucceeds, SpawnFails, Empty
  <1>3. QueueInv'
    BY <1>2, QueueKept
  <1>4. CASE SpawnSucceeds(slot.rule, NoCaller, slot.attempt, shared.restarts, alive)
    <2> USE <1>4 DEF SpawnSucceeds
    <2>1. EngineShape'
      BY <1>1 DEF EngineShape
    <2>2. SlotInv' /\ SnapshotInv' /\ StopInv' /\ ReadyInv' /\ StartInv'
      BY <1>1 DEF SlotInv, SnapshotInv, StopInv, OneChild, ReadyInv, StartInv, EngineShape
    <2> QED BY <1>3, <2>1, <2>2
  <1>5. CASE SpawnFails(shared.restarts, alive)
    <2> USE <1>5 DEF SpawnFails, Failed, Empty
    <2>1. EngineShape'
      <3>1. slot' \in [kind : {"Empty"}, child : Nat, rule : {"none"}, ready : {"none"},
                       reply : {NoCaller}, attempt : Nat, healthy : {FALSE}]
        OBVIOUS
      <3>2. shared' \in [state : {"Failed"}, pid : Nat, started_at : {FALSE}, restarts : Nat]
        BY DEF EngineShape
      <3> QED BY <1>1, <3>1, <3>2 DEF EngineShape
    <2>2. SlotInv' /\ SnapshotInv' /\ StopInv' /\ ReadyInv' /\ StartInv'
      BY <1>1 DEF SlotInv, SnapshotInv, StopInv, OneChild, ReadyInv, StartInv
    <2> QED BY <1>3, <2>1, <2>2
  <1> QED BY <1>4, <1>5

\* The invariant is kept by every step of the supervisor.
LEMMA EngineStepKeeps == EngineInv /\ [SupervisorNext]_supervisorVars => EngineInv'
  <1> SUFFICES ASSUME EngineInv, [SupervisorNext]_supervisorVars PROVE EngineInv'
    OBVIOUS
  <1>1. ASSUME NEW c \in Starters, NEW r \in Rules, SendStart(c, r) PROVE EngineInv'
    <2>1. c \in Callers /\ [kind |-> "Start", caller |-> c, rule |-> r] \in Commands
      BY DEF Commands, Callers
    <2> QED BY <1>1, <2>1, SendStep DEF SendStart
  <1>2. ASSUME NEW c \in Stoppers, SendStop(c) PROVE EngineInv'
    <2>1. c \in Callers /\ [kind |-> "Stop", caller |-> c] \in Commands
      BY DEF Commands, Callers
    <2> QED BY <1>2, <2>1, SendStep DEF SendStop
  <1>3. CASE CallerStep
    BY <1>1, <1>2, <1>3, CallerStepKeeps DEF CallerStep
  <1>4. CASE EngineStep
    BY <1>4, TakeStep, DoStartStep, TeardownStep, OnReadyStep, ReadyImpossibleStep,
       DeadlinePassesStep, OnExitStep, RestartDueStep DEF EngineStep
  <1>5. CASE ChildStep
    BY <1>5, ChildStepKeeps
  <1>6. CASE UNCHANGED supervisorVars
    BY <1>6 DEF supervisorVars, EngineInv, EngineShape, SlotInv, SnapshotInv, ReadyInv, StopInv,
                QueueInv, StartInv, OneChild
  <1> QED BY <1>3, <1>4, <1>5, <1>6 DEF SupervisorNext

-----------------------------------------------------------------------------
(* The two beside each other. *)

ChildrenInv == BridgeInv /\ EngineInv

\* A step is of one keeper and leaves the other as it is.
LEMMA ChildrenStep ==
    ChildrenInv /\ [ChildrenNext]_<<bridgeVars, supervisorVars>> => ChildrenInv'
  <1> SUFFICES ASSUME ChildrenInv, [ChildrenNext]_<<bridgeVars, supervisorVars>>
               PROVE  ChildrenInv'
    OBVIOUS
  <1>1. [BridgeNext]_bridgeVars /\ [SupervisorNext]_supervisorVars
    BY DEF ChildrenNext, BridgeTurn, SupervisorTurn
  <1> QED BY <1>1, BridgeStep, EngineStepKeeps DEF ChildrenInv

\* Whatever the clients, callers, children and restarts: the bridge has at most
\* one child running, the one in its map, and none once it has reaped; somebody reads
\* that child or is about to detach from it, unless a client of its session dropped
\* the body; and a supervisor has at most one, the one it can stop.
THEOREM NoChildGoesAstray == ChildrenSpec => []NoChildIsLost
  <1>1. ChildrenInit => ChildrenInv
    BY BridgeInitially, EngineInitially DEF ChildrenInit, ChildrenInv
  <1>2. ChildrenInv => NoChildIsLost
    BY BridgeInvAccounts, EngineInvHolds DEF ChildrenInv, NoChildIsLost
  <1> QED BY <1>1, <1>2, ChildrenStep, PTL DEF ChildrenSpec

\* And what a caller reads is so: the snapshot is that of the child there is,
\* readiness was announced, a stop leaves nothing that comes back, and only what
\* was answered as up is restarted.
THEOREM SupervisionIsTruthful == ChildrenSpec => []SupervisionHolds
  <1>1. ChildrenInit => ChildrenInv
    BY BridgeInitially, EngineInitially DEF ChildrenInit, ChildrenInv
  <1>2. ChildrenInv => SupervisionHolds
    BY EngineInvHolds DEF ChildrenInv
  <1> QED BY <1>1, <1>2, ChildrenStep, PTL DEF ChildrenSpec
============================================================================
