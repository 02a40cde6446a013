---------------------------- MODULE PxpipeBridge ----------------------------
(***************************************************************************)
(* The token saver's worker: Bridge in crates/pxpipe/src/bridge.rs, which   *)
(* the runtime calls for every large request, and the loop of the Node      *)
(* script it runs (WORKER_SOURCE in the same file).                         *)
(*                                                                         *)
(* One tokio mutex guards the slot of the worker and is held over the whole *)
(* conversation: spawn, write, read.  A caller whose client goes away is    *)
(* dropped at whatever await it is in.  Frames are named after the request  *)
(* they belong to; the id they carry is never compared, so it is left out.  *)
(***************************************************************************)
EXTENDS Naturals, Sequences

CONSTANTS Callers,      \* calls of the bridge, one each
          Large,        \* those whose body does not fit the pipe
          MaxWorkers,   \* bound on workers spawned
          MaxGone,      \* bound on callers that are dropped
          MaxExits      \* bound on workers that exit by themselves

\* Marks beside the callers' own names.
Torn == "torn"          \* a line cut short: what follows is glued to it
Glued == "glued"        \* a whole line behind a torn one

ASSUME BridgeAssumption ==
    /\ Callers \cap {"free", "idle", "hung", "none", "bypass", Torn, Glued} = {}
    /\ Large \subseteq Callers
    /\ MaxWorkers \in Nat /\ MaxGone \in Nat /\ MaxExits \in Nat

Operations == {"transform", "start", "stop", "restart"}
Phases == {"new", "queued", "spawning", "writing", "reading", "closing", "done"}
Workers == 1..MaxWorkers

VARIABLES
    at,        \* where each call is
    asks,      \* its operation
    lock,      \* who holds Bridge.worker, or "free"
    line,      \* callers waiting for it, in order
    slot,      \* the worker in the slot, 0 for None
    taken,     \* the worker a call spawns or shuts down, 0 for none
    stdin,     \* lines the slot's worker has not read; the last may be torn
    job,       \* the request it transforms, or "idle", or "hung" in one
    stdout,    \* frames it has sent and nobody has read
    alive,     \* worker processes that run
    outcome,   \* what each transform got: "none", "bypass", or whose body
    \* history, for the properties
    spawned, gone, exits,
    spoilt     \* workers with a call dropped in the middle of a conversation

pipes == <<stdin, job, stdout>>
pipeVars == <<at, asks, lock, line, slot, taken, pipes, alive, outcome,
              spawned, gone, exits, spoilt>>

Frames == Callers \cup {Torn, Glued}

PipeTypeOK ==
    /\ at \in [Callers -> Phases]
    /\ asks \in [Callers -> Operations]
    /\ lock \in Callers \cup {"free"}
    /\ line \in Seq(Callers)
    /\ slot \in 0..MaxWorkers
    /\ taken \in [Callers -> 0..MaxWorkers]
    /\ stdin \in Seq(Frames)
    /\ job \in Callers \cup {"idle", "hung"}
    /\ stdout \in Seq(Frames)
    /\ alive \subseteq Workers
    /\ outcome \in [Callers -> Callers \cup {"none", "bypass"}]
    /\ spawned \in 0..MaxWorkers
    /\ gone \in 0..MaxGone
    /\ exits \in 0..MaxExits
    /\ spoilt \subseteq Workers

PipeInit ==
    /\ at = [c \in Callers |-> "new"]
    /\ asks = [c \in Callers |-> "transform"]
    /\ lock = "free"
    /\ line = <<>>
    /\ slot = 0
    /\ taken = [c \in Callers |-> 0]
    /\ stdin = <<>> /\ job = "idle" /\ stdout = <<>>
    /\ alive = {}
    /\ outcome = [c \in Callers |-> "none"]
    /\ spawned = 0 /\ gone = 0 /\ exits = 0
    /\ spoilt = {}

Goes(c, phase) == at' = [at EXCEPT ![c] = phase]
Ends(c, answer) ==
    /\ Goes(c, "done")
    /\ outcome' = [outcome EXCEPT ![c] = answer]
Unlock == lock' = "free"
EndsTorn == stdin # <<>> /\ stdin[Len(stdin)] = Torn

-----------------------------------------------------------------------------
(* transform, start, stop *)

Arrive(c, what) ==
    /\ at[c] = "new"
    /\ Goes(c, "queued")
    /\ asks' = [asks EXCEPT ![c] = what]
    /\ line' = Append(line, c)
    /\ UNCHANGED <<lock, slot, taken, pipes, alive, outcome, spawned, gone, exits, spoilt>>

\* The mutex is handed over in the order of arrival.
Served(c) ==
    /\ at[c] = "queued"
    /\ line # <<>> /\ Head(line) = c
    /\ lock = "free"
    /\ line' = Tail(line)

\* stop: the guard lives for the statement that takes the worker.
TakeToStop(c) ==
    /\ asks[c] \in {"stop", "restart"}
    /\ Served(c)
    /\ taken' = [taken EXCEPT ![c] = slot]
    /\ slot' = 0
    /\ Goes(c, "closing")
    /\ UNCHANGED <<asks, lock, pipes, alive, outcome, spawned, gone, exits, spoilt>>

\* start with a worker in the slot.
AlreadyLoaded(c) ==
    /\ asks[c] = "start"
    /\ Served(c)
    /\ slot # 0
    /\ Goes(c, "done")
    /\ UNCHANGED <<asks, lock, slot, taken, pipes, alive, outcome, spawned, gone, exits, spoilt>>

\* spawn_worker, with the lock held; the pipes are the new worker's.
Spawn(c) ==
    /\ asks[c] \in {"start", "transform"}
    /\ Served(c)
    /\ slot = 0
    /\ spawned < MaxWorkers
    /\ lock' = c
    /\ Goes(c, "spawning")
    /\ spawned' = spawned + 1
    /\ taken' = [taken EXCEPT ![c] = spawned + 1]
    /\ alive' = alive \cup {spawned + 1}
    /\ stdin' = <<>> /\ job' = "idle" /\ stdout' = <<>>
    /\ UNCHANGED <<asks, slot, outcome, gone, exits, spoilt>>

\* Not installed, no Node, or the process does not start.
SpawnFails(c) ==
    /\ asks[c] \in {"start", "transform"}
    /\ Served(c)
    /\ slot = 0
    /\ Ends(c, "bypass")
    /\ UNCHANGED <<asks, lock, slot, taken, pipes, alive, spawned, gone, exits, spoilt>>

\* The worker reports ready: start is done, a transform goes on to its write.
Ready(c) ==
    /\ at[c] = "spawning"
    /\ taken[c] \in alive
    /\ slot' = taken[c]
    /\ taken' = [taken EXCEPT ![c] = 0]
    /\ IF asks[c] = "start"
       THEN Goes(c, "done") /\ Unlock
       ELSE Goes(c, "writing") /\ UNCHANGED lock
    /\ UNCHANGED <<asks, line, pipes, alive, outcome, spawned, gone, exits, spoilt>>

\* It does not within READY_TIMEOUT_MS, or reports an error or too old a Node:
\* it is shut down before the lock is let go.
NotReady(c) ==
    /\ at[c] = "spawning"
    /\ alive' = alive \ {taken[c]}
    /\ taken' = [taken EXCEPT ![c] = 0]
    /\ Ends(c, "bypass")
    /\ Unlock
    /\ UNCHANGED <<asks, line, slot, pipes, spawned, gone, exits, spoilt>>

\* transform with a worker in the slot.
Converse(c) ==
    /\ asks[c] = "transform"
    /\ Served(c)
    /\ slot # 0
    /\ lock' = c
    /\ Goes(c, "writing")
    /\ UNCHANGED <<asks, slot, taken, pipes, alive, outcome, spawned, gone, exits, spoilt>>

\* write_all: a body that does not fit the pipe needs the worker to read, and
\* there is no timeout on that.  Glued to a torn line it is torn as well.
WriteDone(c) ==
    /\ at[c] = "writing"
    /\ slot \in alive
    /\ c \in Large => job = "idle" /\ stdin \in {<<>>, <<Torn>>}
    /\ stdin' = IF EndsTorn
                THEN SubSeq(stdin, 1, Len(stdin) - 1) \o <<Glued>>
                ELSE Append(stdin, c)
    /\ Goes(c, "reading")
    /\ UNCHANGED <<asks, lock, line, slot, taken, job, stdout, alive, outcome,
                   spawned, gone, exits, spoilt>>

\* Mutant: the slot is emptied and the worker in it forgotten.
DiscardForgets(c) ==
    /\ slot' = 0
    /\ Goes(c, "closing")
    /\ Unlock
    /\ UNCHANGED <<asks, line, taken, pipes, alive, outcome, spawned, gone, exits, spoilt>>

\* Taken from the slot under the lock, shut down without it.
Discard(c) ==
    /\ taken' = [taken EXCEPT ![c] = slot]
    /\ slot' = 0
    /\ Goes(c, "closing")
    /\ Unlock
    /\ UNCHANGED <<asks, line, pipes, alive, outcome, spawned, gone, exits, spoilt>>

WriteFails(c) ==
    /\ at[c] = "writing"
    /\ slot \notin alive
    /\ Discard(c)

\* read_frame and settle: the next line is the reply, applied or a refusal.
Reply(c) ==
    /\ at[c] = "reading"
    /\ stdout # <<>> /\ Head(stdout) # Torn
    /\ stdout' = Tail(stdout)
    /\ \/ Ends(c, Head(stdout))
       \/ Ends(c, "bypass")
    /\ Unlock
    /\ UNCHANGED <<asks, line, slot, taken, stdin, job, alive, spawned, gone, exits, spoilt>>

\* Half a reply is unreadable; no more output is the end of the worker.
ReadFails(c) ==
    /\ at[c] = "reading"
    /\ IF stdout = <<>> THEN slot \notin alive ELSE Head(stdout) = Torn
    /\ Discard(c)

\* Mutant: the worker stays, as after a reply.
TimesOutKeepsWorker(c) ==
    /\ at[c] = "reading"
    /\ stdout = <<>>
    /\ Ends(c, "bypass")
    /\ Unlock
    /\ UNCHANGED <<asks, line, slot, taken, pipes, alive, spawned, gone, exits, spoilt>>

\* Mutant: only a worker that has exited is given up.
TimesOutAfterExit(c) ==
    /\ at[c] = "reading"
    /\ stdout = <<>> /\ slot \notin alive
    /\ Discard(c)

\* The frame that is there is taken before the timer is looked at.
TimesOut(c) ==
    /\ at[c] = "reading"
    /\ stdout = <<>>
    /\ Discard(c)

\* shut_down.  restart goes on with start.
Close(c) ==
    /\ at[c] = "closing"
    /\ alive' = alive \ {taken[c]}
    /\ taken' = [taken EXCEPT ![c] = 0]
    /\ \/ /\ asks[c] = "transform"
          /\ Ends(c, "bypass")
          /\ UNCHANGED <<asks, line>>
       \/ /\ asks[c] = "stop"
          /\ Goes(c, "done")
          /\ UNCHANGED <<asks, line, outcome>>
       \/ /\ asks[c] = "restart"
          /\ Goes(c, "queued")
          /\ asks' = [asks EXCEPT ![c] = "start"]
          /\ line' = Append(line, c)
          /\ UNCHANGED outcome
    /\ UNCHANGED <<lock, slot, pipes, spawned, gone, exits, spoilt>>

-----------------------------------------------------------------------------
(* The client goes away *)

\* What the drop leaves in the pipes: some of the line written, or none; the
\* reply unread, or some of it read.
LeftBehind(c) ==
    CASE at[c] = "writing" ->
           /\ \/ UNCHANGED stdin
              \/ /\ slot \in alive
                 /\ ~EndsTorn
                 /\ stdin' = Append(stdin, Torn)
           /\ UNCHANGED stdout
      [] at[c] = "reading" ->
           /\ \/ UNCHANGED stdout
              \/ stdout # <<>> /\ stdout' = <<Torn>> \o Tail(stdout)
           /\ UNCHANGED stdin
      [] OTHER -> UNCHANGED <<stdin, stdout>>

\* A worker the call owns is killed by its drop; the one in the slot stays.
Gone(c) ==
    /\ at[c] \notin {"new", "done"}
    /\ gone < MaxGone
    /\ gone' = gone + 1
    /\ LeftBehind(c)
    /\ alive' = alive \ {taken[c]}
    /\ taken' = [taken EXCEPT ![c] = 0]
    /\ line' = SelectSeq(line, LAMBDA d : d # c)
    /\ lock' = IF lock = c THEN "free" ELSE lock
    /\ spoilt' = IF at[c] \in {"writing", "reading"} THEN spoilt \cup {slot} ELSE spoilt
    /\ Goes(c, "done")
    /\ UNCHANGED <<asks, slot, job, outcome, spawned, exits>>

-----------------------------------------------------------------------------
(* The worker's script, one request at a time *)

Serving == slot \in alive

\* A line that does not parse is skipped without a reply.
TakeLine ==
    /\ Serving
    /\ job = "idle"
    /\ stdin # <<>> /\ Head(stdin) # Torn
    /\ stdin' = Tail(stdin)
    /\ job' = IF Head(stdin) = Glued THEN "idle" ELSE Head(stdin)
    /\ UNCHANGED <<at, asks, lock, line, slot, taken, stdout, alive, outcome,
                   spawned, gone, exits, spoilt>>

SendReply ==
    /\ Serving
    /\ job \in Callers
    /\ stdout' = Append(stdout, job)
    /\ job' = "idle"
    /\ UNCHANGED <<at, asks, lock, line, slot, taken, stdin, alive, outcome,
                   spawned, gone, exits, spoilt>>

\* A transform that never comes back.
Hang ==
    /\ Serving
    /\ job \in Callers
    /\ job' = "hung"
    /\ UNCHANGED <<at, asks, lock, line, slot, taken, stdin, stdout, alive, outcome,
                   spawned, gone, exits, spoilt>>

Exit(w) ==
    /\ w \in alive
    /\ exits < MaxExits
    /\ exits' = exits + 1
    /\ alive' = alive \ {w}
    /\ UNCHANGED <<at, asks, lock, line, slot, taken, pipes, outcome, spawned, gone, spoilt>>

WorkerStep == TakeLine \/ SendReply

\* What the bridge itself does for a call, once it has arrived.
BridgeStep(c) ==
    \/ TakeToStop(c)
    \/ AlreadyLoaded(c)
    \/ Spawn(c)
    \/ SpawnFails(c)
    \/ Ready(c)
    \/ NotReady(c)
    \/ Converse(c)
    \/ WriteDone(c)
    \/ WriteFails(c)
    \/ Reply(c)
    \/ ReadFails(c)
    \/ TimesOut(c)
    \/ Close(c)

PipeNext ==
    \/ \E c \in Callers : (\E what \in Operations : Arrive(c, what)) \/ BridgeStep(c) \/ Gone(c)
    \/ WorkerStep
    \/ Hang
    \/ \E w \in Workers : Exit(w)

PipeSpec == PipeInit /\ [][PipeNext]_pipeVars

\* Every call is polled, and its timers run.  The script may hang.
PipeFairness == \A c \in Callers : WF_pipeVars(BridgeStep(c))

-----------------------------------------------------------------------------
\* The frame a transform is about to read is its own, unless a call on the same
\* worker was dropped between its write and its reply: "The worker is not
\* reusable: a late answer would be read as the reply to whichever request
\* comes next" is kept for every timeout, exit and unreadable reply.
ReplyMatches ==
    \A c \in Callers :
        at[c] = "reading" /\ stdout # <<>> => Head(stdout) = c \/ slot \in spoilt

\* No worker outlives its use: each is in the slot, or owned by the one call
\* that spawns it or shuts it down.
WorkersAccountedFor ==
    /\ alive \subseteq {slot} \cup {taken[c] : c \in Callers}
    /\ \A c, d \in Callers : c # d /\ taken[c] # 0 => taken[c] \notin {taken[d], slot}

WorkerSafe == ReplyMatches /\ WorkersAccountedFor

\* "The timeout here actually stops the work": every call ends, whatever the
\* worker does, unless the slot keeps a spoilt one for ever: behind what a dropped
\* call left there, a large write waits without a timeout, with the lock held.
EveryCallEnds ==
    \/ \A c \in Callers : at[c] = "queued" ~> at[c] = "done"
    \/ <>[](slot \in spoilt)

\* "A late answer would be read as the reply to whichever request comes next."
\* The code breaks it: a call dropped while it waits leaves its reply behind.
ReplyIsOwn == \A c \in Callers : outcome[c] \in {"none", "bypass", c}
=============================================================================
