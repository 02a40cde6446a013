----------------------------- MODULE Supervisor -----------------------------
(***************************************************************************)
(* The child supervisor of crates/procctl: the engine thread's state       *)
(* machine (supervise/engine.rs) and the handle its callers use            *)
(* (supervise.rs).  One engine keeps at most one child; start and stop     *)
(* requests reach it through a bounded queue and are answered on a channel *)
(* of their own; a child that exits is restarted after a backoff.          *)
(*                                                                         *)
(* Time is abstract: a deadline, a backoff, a survival grace or a healthy  *)
(* uptime elapses by an action.  Output is abstract: a line that satisfies *)
(* the readiness rule, and the end of both pipes.                          *)
(***************************************************************************)
EXTENDS Naturals, Sequences, FiniteSets

CONSTANTS Starters,     \* callers of Supervisor::start, each once
          Stoppers,     \* callers of Supervisor::stop, each once
          NoCaller,     \* no reply channel
          Rules,        \* the readiness rules starts ask for
          MaxAttempts,  \* RestartPolicy.max_attempts
          QueueDepth    \* COMMAND_QUEUE

ASSUME SupervisorAssumption ==
    /\ Starters \cap Stoppers = {}
    /\ NoCaller \notin Starters \cup Stoppers
    /\ Rules \subseteq {"Spawned", "CompletesSuccessfully", "SurvivesOr", "Line"}
    /\ MaxAttempts \in Nat
    /\ QueueDepth \in Nat \ {0}

Callers == Starters \cup Stoppers

\* Every child of every start: its first spawn and its restarts.
MaxChildren == Cardinality(Starters) * (MaxAttempts + 1)
NoChild == 0
Children == 1..MaxChildren

VARIABLES
    slot,       \* Slot: what the engine holds
    engine,     \* "select" in next_event, "teardown" in stop_child, or "gone"
    doing,      \* the command or deadline that the teardown is for
    shared,     \* Shared: what a snapshot shows
    alive,      \* the child processes that run
    spawned,    \* children ever spawned
    queue,      \* the command channel
    caller,     \* where each caller is, or how it was answered
    closed,     \* every handle was dropped
    \* history, for the properties
    announced,  \* children whose output met their rule
    last        \* the last command the engine carried out

supervisorVars == <<slot, engine, doing, shared, alive, spawned, queue, caller, closed,
          announced, last>>

Slots == [kind : {"Empty", "Starting", "Live", "Backoff"},
          child : Children \cup {NoChild},
          rule : Rules \cup {"none"},
          ready : {"none", "open", "sent", "dropped"},  \* the readiness channel
          reply : Starters \cup {NoCaller},
          attempt : 0..MaxAttempts,
          healthy : BOOLEAN]                            \* up for reset_after

Commands == [kind : {"Start"}, caller : Starters, rule : Rules]
              \cup [kind : {"Stop"}, caller : Stoppers]

NoCommand == [kind |-> "none"]

SupervisorTypeOK ==
    /\ slot \in Slots
    /\ engine \in {"select", "teardown", "gone"}
    /\ doing \in Commands \cup {[kind |-> k] : k \in {"none", "Close", "Deadline"}}
    /\ shared \in [state : {"Stopped", "Starting", "Running", "Backoff", "Failed"},
                   pid : Children \cup {NoChild},
                   started_at : BOOLEAN,   \* whether it is Some
                   restarts : 0..MaxAttempts]
    /\ alive \subseteq Children
    /\ spawned \in 0..MaxChildren
    /\ queue \in Seq(Commands)
    /\ Len(queue) <= QueueDepth
    /\ caller \in [Callers -> {"idle", "waiting", "ok", "failed", "stopped", "cancelled"}]
    /\ closed \in BOOLEAN
    /\ announced \subseteq Children
    /\ last \in Commands \cup {[kind |-> k] : k \in {"none", "Close"}}

Empty == [kind |-> "Empty", child |-> NoChild, rule |-> "none", ready |-> "none",
          reply |-> NoCaller, attempt |-> 0, healthy |-> FALSE]

\* A supervisor whose thread or runtime could not be created is gone from the
\* start: its queue has no receiver.
SupervisorInit ==
    /\ slot = Empty
    /\ engine \in {"select", "gone"}
    /\ doing = NoCommand
    /\ shared = [state |-> "Stopped", pid |-> NoChild, started_at |-> FALSE, restarts |-> 0]
    /\ alive = {}
    /\ spawned = 0
    /\ queue = <<>>
    /\ caller = [c \in Callers |-> "idle"]
    /\ closed = FALSE
    /\ announced = {}
    /\ last = NoCommand

-----------------------------------------------------------------------------
(* Supervisor::start, Supervisor::stop, and dropping the handles. *)

Send(c, command) ==
    /\ engine # "gone"
    /\ ~closed
    /\ caller[c] = "idle"
    /\ Len(queue) < QueueDepth
    /\ queue' = Append(queue, command)
    /\ caller' = [caller EXCEPT ![c] = "waiting"]
    /\ UNCHANGED <<slot, engine, doing, shared, alive, spawned, closed, announced, last>>

SendStart(c, r) == Send(c, [kind |-> "Start", caller |-> c, rule |-> r])

SendStop(c) == Send(c, [kind |-> "Stop", caller |-> c])

SendToNobody(c) ==
    /\ engine = "gone"
    /\ caller[c] = "idle"
    /\ caller' = [caller EXCEPT ![c] = IF c \in Starters THEN "failed" ELSE "stopped"]
    /\ UNCHANGED <<slot, engine, doing, shared, alive, spawned, queue, closed, announced, last>>

\* The caller's future is dropped; its command stays queued or running.
Cancel(c) ==
    /\ caller[c] = "waiting"
    /\ caller' = [caller EXCEPT ![c] = "cancelled"]
    /\ UNCHANGED <<slot, engine, doing, shared, alive, spawned, queue, closed, announced, last>>

DropHandles ==
    /\ ~closed
    /\ \A c \in Callers : caller[c] # "waiting"
    /\ closed' = TRUE
    /\ UNCHANGED <<slot, engine, doing, shared, alive, spawned, queue, caller, announced, last>>

\* A reply to a caller that gave up goes nowhere.
Answered(c, result) ==
    [d \in Callers |-> IF d = c /\ caller[d] = "waiting" THEN result ELSE caller[d]]

-----------------------------------------------------------------------------
(* begin: spawn the child and start watching its output. *)

SpawnSucceeds(rule, reply, attempt, restarts, others) ==
    /\ spawned < MaxChildren
    /\ spawned' = spawned + 1
    /\ alive' = others \cup {spawned + 1}
    /\ slot' = [kind |-> "Starting", child |-> spawned + 1, rule |-> rule,
                ready |-> IF rule = "Spawned" THEN "sent" ELSE "open",
                reply |-> reply, attempt |-> attempt, healthy |-> FALSE]
    /\ shared' = [state |-> "Starting", pid |-> spawned + 1,
                  started_at |-> FALSE, restarts |-> restarts]

Failed(restarts) ==
    [state |-> "Failed", pid |-> NoChild, started_at |-> FALSE, restarts |-> restarts]

SpawnFails(restarts, others) ==
    /\ alive' = others
    /\ slot' = Empty
    /\ shared' = Failed(restarts)
    /\ UNCHANGED spawned

-----------------------------------------------------------------------------
(* run: a command, and the teardown of whatever the slot held. *)

TakeCommand ==
    /\ engine = "select"
    /\ queue # <<>>
    /\ doing' = Head(queue)
    /\ queue' = Tail(queue)
    /\ engine' = "teardown"
    /\ UNCHANGED <<slot, shared, alive, spawned, caller, closed, announced, last>>

TakeClosed ==
    /\ engine = "select"
    /\ queue = <<>>
    /\ closed
    /\ doing' = [kind |-> "Close"]
    /\ engine' = "teardown"
    /\ UNCHANGED <<slot, shared, alive, spawned, queue, caller, closed, announced, last>>

\* stop_child returns once the child is reaped, killed if it has to be.
Survivors == alive \ {slot.child}

Stopped == [state |-> "Stopped", pid |-> NoChild, started_at |-> FALSE,
            restarts |-> shared.restarts]

\* Mutant: a new start does not wait for the old child to be gone.
DoStartLeavesOld ==
    /\ engine = "teardown"
    /\ doing.kind = "Start"
    /\ engine' = "select"
    /\ doing' = NoCommand
    /\ last' = doing
    /\ SpawnSucceeds(doing.rule, doing.caller, 0, 0, alive)
    /\ caller' = Answered(slot.reply, "failed")
    /\ UNCHANGED <<queue, closed, announced>>

DoStart ==
    LET old == Answered(slot.reply, "failed") IN
    /\ engine = "teardown"
    /\ doing.kind = "Start"
    /\ engine' = "select"
    /\ doing' = NoCommand
    /\ last' = doing
    /\ \/ /\ SpawnSucceeds(doing.rule, doing.caller, 0, 0, Survivors)
          /\ caller' = old
       \/ /\ SpawnFails(0, Survivors)
          /\ caller' = [old EXCEPT ![doing.caller] =
                            IF @ = "waiting" THEN "failed" ELSE @]
    /\ UNCHANGED <<queue, closed, announced>>

\* Mutant: a stop ends the child and leaves a scheduled restart alone.
DoStopKeepsBackoff ==
    /\ engine = "teardown"
    /\ doing.kind = "Stop"
    /\ engine' = "select"
    /\ doing' = NoCommand
    /\ last' = doing
    /\ alive' = Survivors
    /\ slot' = IF slot.kind = "Backoff" THEN slot ELSE Empty
    /\ shared' = IF slot.kind = "Backoff" THEN shared ELSE Stopped
    /\ caller' = [Answered(slot.reply, "failed") EXCEPT ![doing.caller] =
                      IF @ = "waiting" THEN "stopped" ELSE @]
    /\ UNCHANGED <<spawned, queue, closed, announced>>

DoStop ==
    LET old == Answered(slot.reply, "failed") IN
    /\ engine = "teardown"
    /\ doing.kind = "Stop"
    /\ engine' = "select"
    /\ doing' = NoCommand
    /\ last' = doing
    /\ alive' = Survivors
    /\ slot' = Empty
    /\ shared' = Stopped
    /\ caller' = [old EXCEPT ![doing.caller] = IF @ = "waiting" THEN "stopped" ELSE @]
    /\ UNCHANGED <<spawned, queue, closed, announced>>

DoClose ==
    /\ engine = "teardown"
    /\ doing.kind = "Close"
    /\ engine' = "gone"
    /\ doing' = NoCommand
    /\ last' = doing
    /\ alive' = Survivors
    /\ slot' = Empty
    /\ shared' = Stopped
    /\ caller' = Answered(slot.reply, "failed")
    /\ UNCHANGED <<spawned, queue, closed, announced>>

-----------------------------------------------------------------------------
(* The child and the task watching its output. *)

ChildExits ==
    /\ slot.child \in alive
    /\ alive' = alive \ {slot.child}
    /\ UNCHANGED <<slot, engine, doing, shared, spawned, queue, caller, closed, announced, last>>

\* A line that meets the rule, perhaps one still queued after an exit.
WatcherSignals ==
    /\ slot.kind = "Starting"
    /\ slot.rule \in {"Line", "SurvivesOr"}
    /\ slot.ready = "open"
    /\ slot' = [slot EXCEPT !.ready = "sent"]
    /\ announced' = announced \cup {slot.child}
    /\ UNCHANGED <<engine, doing, shared, alive, spawned, queue, caller, closed, last>>

\* Both pipes are at their end: the child died, or it closed its output.
WatcherEnds ==
    /\ slot.kind = "Starting"
    /\ slot.ready = "open"
    /\ slot' = [slot EXCEPT !.ready = "dropped"]
    /\ UNCHANGED <<engine, doing, shared, alive, spawned, queue, caller, closed, announced, last>>

\* The child has been up for RestartPolicy.reset_after.
UptimeElapses ==
    /\ slot.kind = "Live"
    /\ slot.child \in alive
    /\ ~slot.healthy
    /\ slot' = [slot EXCEPT !.healthy = TRUE]
    /\ UNCHANGED <<engine, doing, shared, alive, spawned, queue, caller, closed, announced, last>>

-----------------------------------------------------------------------------
(* The events of a starting child. *)

\* Mutant: the Err of a closed channel is collapsed into readiness.
ReadyNowIfClosed == slot.ready \in {"sent", "dropped"} \/ slot.rule = "SurvivesOr"

\* The readiness channel carried a signal, or survival alone is enough.
ReadyNow == slot.ready = "sent" \/ slot.rule = "SurvivesOr"

OnReady ==
    /\ engine = "select"
    /\ slot.kind = "Starting"
    /\ ReadyNow
    /\ shared' = [shared EXCEPT !.state = "Running", !.started_at = TRUE,
                                !.restarts = slot.attempt]
    /\ caller' = Answered(slot.reply, "ok")
    /\ slot' = [slot EXCEPT !.kind = "Live", !.ready = "none", !.reply = NoCaller]
    /\ UNCHANGED <<engine, doing, alive, spawned, queue, closed, announced, last>>

\* The branch is retired; the exit or the deadline decides.
ReadyImpossible ==
    /\ engine = "select"
    /\ slot.kind = "Starting"
    /\ slot.ready = "dropped"
    /\ slot' = [slot EXCEPT !.ready = "none"]
    /\ UNCHANGED <<engine, doing, shared, alive, spawned, queue, caller, closed, announced, last>>

\* Mutant: the deadline is only waited for while the channel is open.
DeadlineNeedsChannel ==
    /\ engine = "select"
    /\ slot.kind = "Starting"
    /\ slot.rule # "SurvivesOr"
    /\ slot.ready = "open"
    /\ doing' = [kind |-> "Deadline"]
    /\ engine' = "teardown"
    /\ UNCHANGED <<slot, shared, alive, spawned, queue, caller, closed, announced, last>>

\* The survival grace is clamped to end before this.
DeadlinePasses ==
    /\ engine = "select"
    /\ slot.kind = "Starting"
    /\ slot.rule # "SurvivesOr"
    /\ doing' = [kind |-> "Deadline"]
    /\ engine' = "teardown"
    /\ UNCHANGED <<slot, shared, alive, spawned, queue, caller, closed, announced, last>>

OnDeadline ==
    /\ engine = "teardown"
    /\ doing.kind = "Deadline"
    /\ engine' = "select"
    /\ doing' = NoCommand
    /\ alive' = Survivors
    /\ shared' = Failed(shared.restarts)
    /\ caller' = Answered(slot.reply, "failed")
    /\ slot' = Empty
    /\ UNCHANGED <<spawned, queue, closed, announced, last>>

-----------------------------------------------------------------------------
(* An exit, and the restart policy. *)

\* Mutant: the pid of the dead child stays in the snapshot.
ScheduleKeepsPid(attempt) ==
    IF attempt + 1 > MaxAttempts
    THEN /\ slot' = Empty
         /\ shared' = [shared EXCEPT !.state = "Failed"]
    ELSE /\ slot' = [Empty EXCEPT !.kind = "Backoff", !.rule = slot.rule,
                                  !.attempt = attempt + 1]
         /\ shared' = [shared EXCEPT !.state = "Backoff", !.restarts = attempt]

ScheduleRestart(attempt) ==
    IF attempt + 1 > MaxAttempts
    THEN /\ slot' = Empty
         /\ shared' = Failed(attempt)
    ELSE /\ slot' = [Empty EXCEPT !.kind = "Backoff", !.rule = slot.rule,
                                  !.attempt = attempt + 1]
         /\ shared' = [state |-> "Backoff", pid |-> NoChild,
                       started_at |-> FALSE, restarts |-> attempt]

ChildIsGone(kind) ==
    /\ engine = "select"
    /\ slot.kind = kind
    /\ slot.child \notin alive

OnExitCompleted ==
    /\ ChildIsGone("Starting")
    /\ slot.rule = "CompletesSuccessfully"
    /\ shared' = Stopped
    /\ caller' = Answered(slot.reply, "ok")
    /\ slot' = Empty
    /\ UNCHANGED <<engine, doing, alive, spawned, queue, closed, announced, last>>

\* Mutant: an early exit is always restarted.
OnExitEarlyRestarts ==
    /\ ChildIsGone("Starting")
    /\ caller' = Answered(slot.reply, "failed")
    /\ ScheduleRestart(slot.attempt)
    /\ UNCHANGED <<engine, doing, alive, spawned, queue, closed, announced, last>>

\* The caller has the failure and will decide; a restart goes on by itself.
OnExitEarly ==
    /\ ChildIsGone("Starting")
    /\ caller' = Answered(slot.reply, "failed")
    /\ IF slot.reply # NoCaller
       THEN slot' = Empty /\ shared' = Failed(shared.restarts)
       ELSE ScheduleRestart(slot.attempt)
    /\ UNCHANGED <<engine, doing, alive, spawned, queue, closed, announced, last>>

\* on_exit clears started_at before healthy_uptime reads it.
HealthyUptime(started) == started /\ slot.healthy

OnExitLive ==
    LET cleared == [shared EXCEPT !.pid = NoChild, !.started_at = FALSE] IN
    /\ ChildIsGone("Live")
    /\ ScheduleRestart(IF HealthyUptime(cleared.started_at) THEN 0 ELSE cleared.restarts)
    /\ UNCHANGED <<engine, doing, alive, spawned, queue, caller, closed, announced, last>>

\* A restart that cannot spawn is not retried.
RestartDue ==
    /\ engine = "select"
    /\ slot.kind = "Backoff"
    /\ \/ SpawnSucceeds(slot.rule, NoCaller, slot.attempt, shared.restarts, alive)
       \/ SpawnFails(shared.restarts, alive)
    /\ UNCHANGED <<engine, doing, queue, caller, closed, announced, last>>

-----------------------------------------------------------------------------
CallerStep ==
    \/ \E c \in Starters, r \in Rules : SendStart(c, r)
    \/ \E c \in Stoppers : SendStop(c)
    \/ \E c \in Callers : SendToNobody(c) \/ Cancel(c)
    \/ DropHandles

EngineStep ==
    \/ TakeCommand
    \/ TakeClosed
    \/ DoStart
    \/ DoStop
    \/ DoClose
    \/ OnReady
    \/ ReadyImpossible
    \/ DeadlinePasses
    \/ OnDeadline
    \/ OnExitCompleted
    \/ OnExitEarly
    \/ OnExitLive
    \/ RestartDue

ChildStep ==
    \/ ChildExits
    \/ WatcherSignals
    \/ WatcherEnds
    \/ UptimeElapses

SupervisorNext == CallerStep \/ EngineStep \/ ChildStep

SupervisorSpec == SupervisorInit /\ [][SupervisorNext]_supervisorVars

\* The engine's thread keeps running and every timer elapses.
FairSupervisorSpec == SupervisorSpec /\ WF_supervisorVars(EngineStep)

-----------------------------------------------------------------------------
(* Safety *)

\* At most one child runs, and it is the one the engine can stop.
OneChild == alive \subseteq {slot.child}

\* A snapshot taken while the engine waits tells the truth: running means past
\* its readiness rule, and the pid is the pid of the child there is.
StatusTruthful ==
    engine = "select" =>
        /\ shared.state = "Running" <=> slot.kind = "Live"
        /\ shared.state = "Starting" <=> slot.kind = "Starting"
        /\ shared.state = "Backoff" <=> slot.kind = "Backoff"
        /\ shared.pid = slot.child

\* A stop cancels everything: no child and no restart until the next start; and
\* when the last handle is gone the engine leaves nothing behind.
StopIsFinal ==
    /\ engine = "select" /\ last.kind = "Stop" => slot = Empty /\ alive = {}
    /\ engine = "gone" => slot = Empty /\ alive = {}

\* "The caller has the failure and will decide; do not also restart underneath
\* them": only a start that was reported up is ever restarted.
RestartsOnlyWhatWasUp ==
    slot.kind = "Backoff" \/ (slot.kind = "Starting" /\ slot.reply = NoCaller)
        => caller[last.caller] \in {"ok", "cancelled"}

\* The readiness channel closing is never taken for readiness.
NoFalseReady ==
    slot.kind = "Live" /\ slot.rule = "Line" => slot.child \in announced

\* What a caller reads is so: the snapshot matches the child, and readiness is
\* never reported for one that did not announce it. And restarts are for children
\* that were up and that nobody has stopped since.
SupervisionHolds ==
    /\ StatusTruthful /\ NoFalseReady
    /\ StopIsFinal /\ RestartsOnlyWhatWasUp

\* The doc of RestartPolicy.reset_after: "Uptime after which a child counts as
\* healthy and the attempt counter resets", so its next exit is a first one.
HealthyUptimeResets ==
    [][engine = "select" /\ engine' = "select" /\ slot.kind = "Live" /\ slot.healthy
         /\ slot'.kind # "Live"
           => slot'.kind = "Backoff" /\ slot'.attempt = 1]_supervisorVars

-----------------------------------------------------------------------------
(* Liveness *)

\* Every start and every stop is answered, whatever the child does, however the
\* requests overtake each other; a caller asks once, so in the end nobody waits.
EveryCallerAnswered == []<>(\A c \in Callers : caller[c] # "waiting")
=============================================================================
