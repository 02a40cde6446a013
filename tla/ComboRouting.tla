---------------------------- MODULE ComboRouting ----------------------------
(***************************************************************************)
(* Which model a request on a combo starts with: the routing context the    *)
(* runtime caches (routing_context in services/runtime-actix/src/           *)
(* state_client.rs) and the rotation cursor it then takes (take_index in     *)
(* combo.rs).                                                              *)
(*                                                                         *)
(* The cache and the cursors are shared by the requests, which interleave    *)
(* at the fetch; the state service, where the combo is edited, is another    *)
(* process.  A context is told by the version of the combo it holds, or 0    *)
(* for the defaults, which have no combo.                                  *)
(***************************************************************************)
EXTENDS Integers, Sequences, FiniteSets

CONSTANTS Readers,      \* requests that read the routing context
          Versions,     \* the model list of each version of the combo
          ComboLimit,   \* the combo's sticky_limit
          TTL,          \* CONTEXT_TTL, in ticks
          Timeout,      \* STATE_TIMEOUT, in ticks
          MaxClock,     \* bound on time
          MaxStarts     \* bound on requests resolved

ASSUME RoutingAssumption ==
    /\ Len(Versions) \in Nat \ {0} /\ DOMAIN Versions = 1..Len(Versions)
    /\ \A v \in DOMAIN Versions :
          Len(Versions[v]) \in Nat \ {0} /\ DOMAIN Versions[v] = 1..Len(Versions[v])
    /\ {ComboLimit, TTL} \subseteq Nat \ {0}
    /\ {Timeout, MaxClock, MaxStarts} \subseteq Nat

VARIABLES
    version,    \* the combo's version in the state service
    held,       \* StateClient.context: {} or {[at, context]}
    reading,    \* where each request is
    since,      \* when its fetch began
    fetched,    \* the context it was answered
    cursor,     \* Rotation: [models, index, consecutive]
    clock,
    \* history, for the properties
    replaced,   \* when each earlier version was replaced
    failedAt,   \* when the last fetch failed, -1 for never
    used,       \* the context the last request used
    turns,      \* requests started at each place of the cursor's list
    starts      \* requests resolved

routingVars == <<version, held, reading, since, fetched, cursor, clock,
                 replaced, failedAt, used, turns, starts>>

Contexts == 0..Len(Versions)
Lists == {Versions[v] : v \in DOMAIN Versions}
Places == UNION {DOMAIN list : list \in Lists}
NoCursor == [models |-> <<>>, index |-> 0, consecutive |-> 0]

RoutingTypeOK ==
    /\ version \in DOMAIN Versions
    /\ held \subseteq [at : 0..MaxClock, context : Contexts] /\ Cardinality(held) <= 1
    /\ reading \in [Readers -> {"idle", "asking", "answered"}]
    /\ since \in [Readers -> 0..MaxClock]
    /\ fetched \in [Readers -> Contexts]
    /\ cursor.models \in Lists \cup {<<>>}
    /\ cursor.index \in 0..Len(cursor.models) /\ cursor.consecutive \in 0..ComboLimit
    /\ clock \in 0..MaxClock
    /\ replaced \in [DOMAIN Versions -> 0..MaxClock]
    /\ failedAt \in -1..MaxClock
    /\ used \in Contexts
    /\ turns \in [Places -> 0..MaxStarts]
    /\ starts \in 0..MaxStarts

RoutingInit ==
    /\ version = 1
    /\ held = {}
    /\ reading = [r \in Readers |-> "idle"]
    /\ since = [r \in Readers |-> 0]
    /\ fetched = [r \in Readers |-> 0]
    /\ cursor = NoCursor
    /\ clock = 0
    /\ replaced = [v \in DOMAIN Versions |-> 0]
    /\ failedAt = -1
    /\ used = 1
    /\ turns = [p \in Places |-> 0]
    /\ starts = 0

-----------------------------------------------------------------------------
\* Mutant: the sticky limit is passed by one.
TakeIndexLate(models) ==
    LET current == IF cursor.models = models THEN cursor ELSE NoCursor
        index == current.index % Len(models)
        next == current.consecutive + 1
        before == IF cursor.models = models THEN turns ELSE [p \in Places |-> 0]
    IN /\ cursor' = IF next > ComboLimit
                    THEN [models |-> models, index |-> (index + 1) % Len(models),
                          consecutive |-> 0]
                    ELSE [models |-> models, index |-> index, consecutive |-> next]
       /\ turns' = [before EXCEPT ![index + 1] = @ + 1]

\* take_index: a cursor advanced against another list is discarded.
TakeIndex(models) ==
    LET current == IF cursor.models = models THEN cursor ELSE NoCursor
        index == current.index % Len(models)
        next == current.consecutive + 1
        before == IF cursor.models = models THEN turns ELSE [p \in Places |-> 0]
    IN /\ cursor' = IF next >= ComboLimit
                    THEN [models |-> models, index |-> (index + 1) % Len(models),
                          consecutive |-> 0]
                    ELSE [models |-> models, index |-> index, consecutive |-> next]
       /\ turns' = [before EXCEPT ![index + 1] = @ + 1]

\* The context in hand is used to resolve the combo.  No turn is taken in a list of
\* one, nor by the request's other reads, for the key gate or the token saver.
Use(context) ==
    /\ used' = context
    /\ \/ /\ context # 0 /\ Len(Versions[context]) > 1
          /\ starts < MaxStarts
          /\ starts' = starts + 1
          /\ TakeIndex(Versions[context])
       \/ UNCHANGED <<cursor, turns, starts>>

\* Mutant: a context that has reached its TTL is used once more.
FreshAtLimit(c) == clock - c.at <= TTL

\* cached_context
Fresh(c) == clock - c.at < TTL

\* routing_context: what is cached and fresh, or a fetch.
Read(r) ==
    /\ reading[r] = "idle"
    /\ IF \E c \in held : Fresh(c)
          THEN (\E c \in held : Use(c.context)) /\ UNCHANGED <<reading, since>>
          ELSE /\ reading' = [reading EXCEPT ![r] = "asking"]
               /\ since' = [since EXCEPT ![r] = clock]
               /\ UNCHANGED <<cursor, used, turns, starts>>
    /\ UNCHANGED <<version, held, fetched, clock, replaced, failedAt>>

Answered(r, context) ==
    /\ reading[r] = "asking"
    /\ reading' = [reading EXCEPT ![r] = "answered"]
    /\ fetched' = [fetched EXCEPT ![r] = context]
    /\ UNCHANGED <<version, held, since, cursor, clock, replaced, used, turns, starts>>

\* The state service reads its snapshot; its answer is on the way.
Answer(r) == Answered(r, version) /\ UNCHANGED failedAt

\* Unreachable, late or unreadable: the defaults.
AnswerFails(r) == Answered(r, 0) /\ failedAt' = clock

\* Stored with the time of its arrival, whatever was stored meanwhile.
Store(r) ==
    /\ reading[r] = "answered"
    /\ reading' = [reading EXCEPT ![r] = "idle"]
    /\ held' = {[at |-> clock, context |-> fetched[r]]}
    /\ Use(fetched[r])
    /\ since' = [since EXCEPT ![r] = 0]
    /\ fetched' = [fetched EXCEPT ![r] = 0]
    /\ UNCHANGED <<version, clock, replaced, failedAt>>

\* The dashboard changes the combo.
EditCombo ==
    /\ version < Len(Versions)
    /\ version' = version + 1
    /\ replaced' = [replaced EXCEPT ![version] = clock]
    /\ UNCHANGED <<held, reading, since, fetched, cursor, clock, failedAt, used, turns, starts>>

\* A fetch ends by its timeout.
Tick ==
    /\ clock < MaxClock
    /\ \A r \in Readers : reading[r] # "idle" => clock < since[r] + Timeout
    /\ clock' = clock + 1
    /\ UNCHANGED <<version, held, reading, since, fetched, cursor, replaced,
                   failedAt, used, turns, starts>>

RoutingNext ==
    \/ \E r \in Readers : Read(r) \/ Answer(r) \/ AnswerFails(r) \/ Store(r)
    \/ EditCombo
    \/ Tick

-----------------------------------------------------------------------------
\* What a request routes by is younger than the TTL and the time a fetch may take
\* together, and the defaults, under which no combo exists, stand in only after
\* a fetch that failed as recently.
Recent(context, time) ==
    IF context = 0 THEN failedAt >= 0 /\ time < failedAt + TTL + Timeout
    ELSE context = version \/ time < replaced[context] + TTL + Timeout

\* As long as its list stands, the places of the list take turns: none is a start
\* more than sticky_limit times ahead of another, however the requests
\* interleave; an edited list begins anew.
TakeTurns ==
    \A i, j \in DOMAIN cursor.models :
        turns[i] <= turns[j] + ComboLimit

\* Routing is recent whenever a request resolves, and fair after it.
RoutingHolds ==
    [][(starts' # starts \/ used' # used => Recent(used', clock)) /\ TakeTurns']_routingVars

\* "250ms bounds how long a dashboard change takes to take effect."  The code
\* breaks it: a context is as old as its fetch was slow when its TTL begins.
ChangeTakesEffectWithinTTL ==
    [][used' # used /\ used' # 0 =>
          used' = version \/ clock <= replaced[used'] + TTL]_routingVars
=============================================================================
