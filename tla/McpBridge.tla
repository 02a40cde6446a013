----------------------------- MODULE McpBridge -----------------------------
(***************************************************************************)
(* The MCP stdio bridge of nullrouter-events, for one plugin:              *)
(* services/events-actix/src/mcp/bridge.rs and its SSE route, mcp_sse.     *)
(*                                                                         *)
(* One child process serves every SSE listener of the plugin.  A session   *)
(* owns the child, the listener map (an Arc the pump task shares, so the   *)
(* pump of a reaped session still sees its own map) and the id counter.    *)
(* The bridge's map has at most one session per plugin, found under one    *)
(* lock; listeners remember their id, not their session.                   *)
(*                                                                         *)
(* Frames are counted, not told apart: what is modelled is which channels  *)
(* they reach and when a channel ends.                                     *)
(***************************************************************************)
EXTENDS Naturals, FiniteSets, Functions

CONSTANTS Clients,    \* SSE requests, each made once
          Readers,    \* the clients that keep reading their stream
          MaxSpawns,  \* bound on children ever started
          Buffer,     \* LISTENER_BUFFER_FRAMES
          MaxPipe     \* bound on lines written by a child and not yet pumped

ASSUME McpAssumption ==
    /\ Readers \subseteq Clients
    /\ MaxSpawns \in Nat
    /\ Buffer \in Nat \ {0}
    /\ MaxPipe \in Nat \ {0}

Sessions == 1..MaxSpawns
NoSession == 0
Ids == 0..Cardinality(Clients)

VARIABLES
    current,    \* Bridge.sessions: the plugin's session, or NoSession
    created,    \* sessions ever created
    child,      \* per session: "none", "running" or "exited"
    pump,       \* per session: "reading", or "ended" once the map was cleared
    pipe,       \* per session: lines on the child's stdout
    listeners,  \* Session.listeners: the client behind each id in the map
    nextId,     \* Session.next_listener_id
    phase,      \* where each client's request is
    id,         \* Listener.id
    home,       \* the session whose map the client's sender was put in
    buffered,   \* frames in the client's channel
    sending,    \* a send holds the bridge lock, blocked on the child's stdin
    server      \* "up", "stopped", or "reaped" once kill_all has run

bridgeVars == <<current, created, child, pump, pipe, listeners, nextId, phase, id,
          home, buffered, sending, server>>

Phases == {"new",        \* not requested yet
           "streaming",  \* polling next_frame
           "closing",    \* next_frame returned None, about to detach
           "ended",      \* the response completed
           "dropped"}    \* the client disconnected and the body was dropped

BridgeTypeOK ==
    /\ current \in Sessions \cup {NoSession}
    /\ created \in 0..MaxSpawns
    /\ child \in [Sessions -> {"none", "running", "exited"}]
    /\ pump \in [Sessions -> {"reading", "ended"}]
    /\ pipe \in [Sessions -> 0..MaxPipe]
    /\ \A s \in Sessions : /\ DOMAIN listeners[s] \subseteq Ids
                           /\ Range(listeners[s]) \subseteq Clients
    /\ nextId \in [Sessions -> Ids]
    /\ phase \in [Clients -> Phases]
    /\ id \in [Clients -> Ids]
    /\ home \in [Clients -> Sessions \cup {NoSession}]
    /\ buffered \in [Clients -> 0..Buffer]
    /\ sending \in BOOLEAN
    /\ server \in {"up", "stopped", "reaped"}

Nobody == [i \in {} |-> 0]

BridgeInit ==
    /\ current = NoSession
    /\ created = 0
    /\ child = [s \in Sessions |-> "none"]
    /\ pump = [s \in Sessions |-> "reading"]
    /\ pipe = [s \in Sessions |-> 0]
    /\ listeners = [s \in Sessions |-> Nobody]
    /\ nextId = [s \in Sessions |-> 0]
    /\ phase = [c \in Clients |-> "new"]
    /\ id = [c \in Clients |-> 0]
    /\ home = [c \in Clients |-> NoSession]
    /\ buffered = [c \in Clients |-> 0]
    /\ sending = FALSE
    /\ server = "up"

-----------------------------------------------------------------------------
(* Bridge::attach and the two ways it goes. *)

\* The rest of attach, in the session that is in the map by then.
AddListener(c, s, others) ==
    /\ listeners' = [listeners EXCEPT ![s] =
            [i \in DOMAIN others \cup {nextId[s]} |->
                IF i = nextId[s] THEN c ELSE others[i]]]
    /\ nextId' = [nextId EXCEPT ![s] = @ + 1]
    /\ phase' = [phase EXCEPT ![c] = "streaming"]
    /\ id' = [id EXCEPT ![c] = nextId[s]]
    /\ home' = [home EXCEPT ![c] = s]
    /\ UNCHANGED <<pump, pipe, buffered, sending, server>>

\* A session in the map is used as it is: nothing looks at its child.
AttachJoins(c) ==
    /\ server = "up"
    /\ phase[c] = "new"
    /\ ~sending
    /\ current # NoSession
    /\ AddListener(c, current, listeners[current])
    /\ UNCHANGED <<current, created, child>>

\* Mutant: the child is created before the map is looked at under the lock.
AttachSpawnsUnlocked(c) ==
    /\ server = "up"
    /\ phase[c] = "new"
    /\ created < MaxSpawns
    /\ created' = created + 1
    /\ current' = created + 1
    /\ child' = [child EXCEPT ![created + 1] = "running"]
    /\ AddListener(c, created + 1, Nobody)

AttachSpawns(c) ==
    /\ server = "up"
    /\ phase[c] = "new"
    /\ ~sending
    /\ current = NoSession
    /\ created < MaxSpawns
    /\ created' = created + 1
    /\ current' = created + 1
    /\ child' = [child EXCEPT ![created + 1] = "running"]
    /\ AddListener(c, created + 1, Nobody)

\* Reported, not retried: the response is the opening frames alone.
AttachFails(c) ==
    /\ server = "up"
    /\ phase[c] = "new"
    /\ ~sending
    /\ current = NoSession
    /\ phase' = [phase EXCEPT ![c] = "ended"]
    /\ UNCHANGED <<current, created, child, pump, pipe, listeners, nextId, id,
                   home, buffered, sending, server>>

-----------------------------------------------------------------------------
(* The child, and the pump task that reads its stdout. *)

ChildWrites(s) ==
    /\ child[s] = "running"
    /\ pump[s] = "reading"
    /\ pipe[s] < MaxPipe
    /\ pipe' = [pipe EXCEPT ![s] = @ + 1]
    /\ UNCHANGED <<current, created, child, pump, listeners, nextId, phase, id,
                   home, buffered, sending, server>>

McpChildExits(s) ==
    /\ child[s] = "running"
    /\ child' = [child EXCEPT ![s] = "exited"]
    /\ UNCHANGED <<current, created, pump, pipe, listeners, nextId, phase, id,
                   home, buffered, sending, server>>

\* try_send: a full channel misses the frame, a dropped one takes none.
Receivers(s) ==
    {c \in Range(listeners[s]) : phase[c] = "streaming" /\ buffered[c] < Buffer}

\* Mutant: `send` instead of `try_send` waits for room in every channel.
PumpFrameBlocking(s) ==
    /\ pump[s] = "reading"
    /\ pipe[s] > 0
    /\ \A c \in Range(listeners[s]) : phase[c] = "streaming" => buffered[c] < Buffer
    /\ pipe' = [pipe EXCEPT ![s] = @ - 1]
    /\ buffered' = [c \in Clients |->
            IF c \in Receivers(s) THEN buffered[c] + 1 ELSE buffered[c]]
    /\ UNCHANGED <<current, created, child, pump, listeners, nextId, phase, id,
                   home, sending, server>>

PumpFrame(s) ==
    /\ pump[s] = "reading"
    /\ pipe[s] > 0
    /\ pipe' = [pipe EXCEPT ![s] = @ - 1]
    /\ buffered' = [c \in Clients |->
            IF c \in Receivers(s) THEN buffered[c] + 1 ELSE buffered[c]]
    /\ UNCHANGED <<current, created, child, pump, listeners, nextId, phase, id,
                   home, sending, server>>

EndOfPump(s) ==
    /\ pump' = [pump EXCEPT ![s] = "ended"]
    /\ listeners' = [listeners EXCEPT ![s] = Nobody]
    /\ UNCHANGED <<current, created, child, nextId, phase, id, home,
                   buffered, sending, server>>

\* Ok(0): the child is gone and its output has been read.
PumpSeesEof(s) ==
    /\ pump[s] = "reading"
    /\ child[s] = "exited"
    /\ pipe[s] = 0
    /\ EndOfPump(s)
    /\ UNCHANGED pipe

\* Err(_): a line that is not UTF-8 ends the pump, not the child.
PumpReadFails(s) ==
    /\ pump[s] = "reading"
    /\ pipe[s] > 0
    /\ pipe' = [pipe EXCEPT ![s] = 0]
    /\ EndOfPump(s)

-----------------------------------------------------------------------------
(* The response body of mcp_sse. *)

NextFrame(c) ==
    /\ phase[c] = "streaming"
    /\ buffered[c] > 0
    /\ buffered' = [buffered EXCEPT ![c] = @ - 1]
    /\ UNCHANGED <<current, created, child, pump, pipe, listeners, nextId,
                   phase, id, home, sending, server>>

\* recv() returns None once the sender is gone and the buffer is drained.
SenderAlive(c) == home[c] # NoSession /\ c \in Range(listeners[home[c]])

\* Mutant: the end of the stream ends the response without a detach.
NextFrameEndsAtOnce(c) ==
    /\ phase[c] = "streaming"
    /\ buffered[c] = 0
    /\ ~SenderAlive(c)
    /\ phase' = [phase EXCEPT ![c] = "ended"]
    /\ UNCHANGED <<current, created, child, pump, pipe, listeners, nextId, id,
                   home, buffered, sending, server>>

NextFrameEnds(c) ==
    /\ phase[c] = "streaming"
    /\ buffered[c] = 0
    /\ ~SenderAlive(c)
    /\ phase' = [phase EXCEPT ![c] = "closing"]
    /\ UNCHANGED <<current, created, child, pump, pipe, listeners, nextId, id,
                   home, buffered, sending, server>>

\* The id is looked up in whatever session the plugin has now.
Remaining(c) == DOMAIN listeners[current] \ {id[c]}

\* Mutant: emptiness is tested before the listener is removed.
DetachTestsFirst(c) ==
    /\ phase[c] = "closing"
    /\ ~sending
    /\ phase' = [phase EXCEPT ![c] = "ended"]
    /\ IF current = NoSession
       THEN UNCHANGED <<current, child, listeners>>
       ELSE /\ listeners' = [listeners EXCEPT ![current] =
                                Restrict(@, Remaining(c))]
            /\ IF listeners[current] # Nobody
               THEN UNCHANGED <<current, child>>
               ELSE /\ current' = NoSession
                    /\ child' = [child EXCEPT ![current] = "exited"]
    /\ UNCHANGED <<created, pump, pipe, nextId, id, home, buffered, sending, server>>

Detach(c) ==
    /\ phase[c] = "closing"
    /\ ~sending
    /\ phase' = [phase EXCEPT ![c] = "ended"]
    /\ IF current = NoSession
       THEN UNCHANGED <<current, child, listeners>>
       ELSE /\ listeners' = [listeners EXCEPT ![current] =
                                Restrict(@, Remaining(c))]
            /\ IF Remaining(c) # {}
               THEN UNCHANGED <<current, child>>
               ELSE /\ current' = NoSession
                    /\ child' = [child EXCEPT ![current] = "exited"]
    /\ UNCHANGED <<created, pump, pipe, nextId, id, home, buffered, sending, server>>

\* A client disconnect drops the body and the Listener in it.  Listener has no
\* Drop, so the map keeps its sender.
Disconnect(c) ==
    /\ phase[c] \in {"streaming", "closing"}
    /\ phase' = [phase EXCEPT ![c] = "dropped"]
    /\ buffered' = [buffered EXCEPT ![c] = 0]
    /\ UNCHANGED <<current, created, child, pump, pipe, listeners, nextId, id,
                   home, sending, server>>

-----------------------------------------------------------------------------
(* Bridge::send, which awaits the child's stdin with the bridge lock held. *)

SendBegins ==
    /\ server = "up"
    /\ ~sending
    /\ current # NoSession
    /\ sending' = TRUE
    /\ UNCHANGED <<current, created, child, pump, pipe, listeners, nextId,
                   phase, id, home, buffered, server>>

\* The child read the line, or it exited and the write failed.
SendEnds ==
    /\ sending
    /\ sending' = FALSE
    /\ UNCHANGED <<current, created, child, pump, pipe, listeners, nextId,
                   phase, id, home, buffered, server>>

-----------------------------------------------------------------------------
(* main: the server stops and drops its requests, then kill_all. *)

StopServer ==
    /\ server = "up"
    /\ server' = "stopped"
    /\ phase' = [c \in Clients |->
            IF phase[c] \in {"streaming", "closing"} THEN "dropped" ELSE phase[c]]
    /\ buffered' = [c \in Clients |-> 0]
    /\ sending' = FALSE
    /\ UNCHANGED <<current, created, child, pump, pipe, listeners, nextId, id, home>>

\* Mutant: main returns without reaping.
KillAllForgotten ==
    /\ server = "stopped"
    /\ server' = "reaped"
    /\ UNCHANGED <<current, created, child, pump, pipe, listeners, nextId,
                   phase, id, home, buffered, sending>>

KillAll ==
    /\ server = "stopped"
    /\ server' = "reaped"
    /\ current' = NoSession
    /\ child' = IF current = NoSession THEN child
                ELSE [child EXCEPT ![current] = "exited"]
    /\ UNCHANGED <<created, pump, pipe, listeners, nextId, phase, id, home,
                   buffered, sending>>

-----------------------------------------------------------------------------
BridgeNext ==
    \/ \E c \in Clients :
        \/ AttachJoins(c)
        \/ AttachSpawns(c)
        \/ AttachFails(c)
        \/ NextFrame(c)
        \/ NextFrameEnds(c)
        \/ Detach(c)
        \/ Disconnect(c)
    \/ \E s \in Sessions :
        \/ ChildWrites(s)
        \/ McpChildExits(s)
        \/ PumpFrame(s)
        \/ PumpSeesEof(s)
        \/ PumpReadFails(s)
    \/ SendBegins
    \/ SendEnds
    \/ StopServer
    \/ KillAll

BridgeSpec == BridgeInit /\ [][BridgeNext]_bridgeVars

\* The pump is a task of its own; a reader polls its body; an MCP server reads
\* its stdin; main runs to its end once the server has stopped.
BridgeFairness ==
    /\ \A s \in Sessions : WF_bridgeVars(PumpFrame(s) \/ PumpSeesEof(s))
    /\ \A c \in Readers : WF_bridgeVars(NextFrame(c) \/ NextFrameEnds(c))
    \* a fair mutex: sends keep taking the lock, and a waiter gets its turn
    /\ \A c \in Readers : SF_bridgeVars(Detach(c))
    /\ WF_bridgeVars(SendEnds)
    /\ WF_bridgeVars(KillAll)

FairBridgeSpec == BridgeSpec /\ BridgeFairness

-----------------------------------------------------------------------------
(* Safety *)

\* One process per plugin: a running child is the one in the map, so it can be
\* found to be reaped, and no second one was started beside it.
NoOrphanChild == \A s \in Sessions : child[s] = "running" => s = current

\* A client of the session dropped its body, and nothing detaches it.
Abandoned(s) == \E c \in Clients : home[c] = s /\ phase[c] = "dropped"

\* "A child is reaped when its last listener leaves", as far as it goes: unless a
\* client dropped its body, which detaches nobody, a child runs only while a
\* client of its session reads or is about to detach, and as long as its output
\* is read, somebody in the map reads it.
NoUnheardChild ==
    \A s \in Sessions : ~Abandoned(s) =>
        /\ child[s] = "running" =>
            \E c \in Clients : home[c] = s /\ phase[c] \in {"streaming", "closing"}
        /\ s = current /\ pump[s] = "reading" =>
            \E c \in Range(listeners[s]) : phase[c] = "streaming"

\* "So no npx process outlives this service."
ShutdownLeavesNoChild ==
    server = "reaped" => \A s \in Sessions : child[s] # "running"

\* Every child is accounted for, whoever comes and goes: findable, heard while it
\* runs unless a client dropped its body, and ended with the service.
ChildrenAccountedFor == NoOrphanChild /\ NoUnheardChild /\ ShutdownLeavesNoChild

\* "One listener leaving must not kill a child the other is using": a detach
\* never ends the child of another client's live stream.
DetachSparesSiblings ==
    [][\A c, d \in Clients :
         c # d /\ phase[c] = "closing" /\ phase'[c] = "ended"
           /\ SenderAlive(d) /\ phase[d] = "streaming"
             => SenderAlive(d)' /\ child'[home[d]] = child[home[d]]]_bridgeVars

-----------------------------------------------------------------------------
(* Liveness *)

\* When the child's stdout closes, a client that is in the map and keeps
\* reading gets the end of its stream, whoever else has stopped reading.
ListenersSeeTheEnd ==
    \A c \in Readers :
        (\E s \in Sessions : child[s] = "exited" /\ pump[s] = "reading"
                               /\ c \in Range(listeners[s]))
          ~> phase[c] \notin {"streaming", "closing"}

\* "Without it a listener waits forever on a child that has already exited": no
\* reader stays on a stream that nothing can write to.
NoReaderWaitsOnTheDead ==
    \A c \in Readers :
        (phase[c] = "streaming" /\ pump[home[c]] = "ended")
          ~> phase[c] # "streaming"

\* "The child is reaped when the response body is dropped, which is what a
\* client disconnect does": once every client has come and gone, no child runs.
EveryClientGone == \A c \in Clients : phase[c] \in {"ended", "dropped"}

DisconnectReapsChild ==
    EveryClientGone ~> (\A s \in Sessions : child[s] # "running")
=============================================================================
