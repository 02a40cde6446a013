# NullRouter in TLA+

NullRouter is an AI request router built as seven services that talk over loopback
HTTP. This directory holds TLA+ models of the parts of it that carry state and run
concurrently, TLC configurations that check them on small instances, and TLAPS
proofs about most of them. Paths below are relative to the repository.

To check a module: `tlc -config MCStateStore.cfg MCStateStore`; to check proofs:
`tlapm RestartProofs.tla`. `LogPath` and `Dashboard` need no MC module (`tlc -config
MCLogPath.cfg LogPath`). `PROJECT.json` maps every definition to the source lines it
models, and lists the runs, the mutants that show each property can fail, the hazards
and the findings.

## 1. Inventory

### The services and what each keeps

| Component | State | Operations | Talks to |
|---|---|---|---|
| state-actix `store.rs` | one in-memory snapshot, `dirty` flag, `persist` lock, the state file and its `.tmp` | `write_snapshot`, `write_snapshot_deferred`, `flush_if_dirty`, load, shutdown flush | every other service, over `/internal/v1` |
| state-actix accounts (`store.rs`, `internal.rs`) | provider connections: `is_active`, `model_locks`, `last_used_at`, `consecutive_use_count`, tokens | select, mark unavailable, clear error, update, delete, store refreshed tokens | runtime-actix |
| state-actix records | connections, provider nodes, combos, proxy pools, settings | create, update, delete, legacy import | api-actix, dashboard |
| state-actix users, auth-actix login | users, lockout table | create, change, delete, verify, sign in | browser |
| runtime-actix pipeline | caches only; per request a target list, excluded accounts, last error | `execute_chat`, `execute_for_target`, `attempt`, `refresh_if_due`, `collect_panel` | state-actix, providers |
| runtime-actix `combo.rs`, `state_client.rs` | rotation cursors; a 250 ms routing-context cache; usage slots | `take_index`, `routing_context`, `record_usage` | state-actix |
| execute | refresh cache, model-probe cache; per stream the state of a converter | one upstream call, one token exchange, conversion of a stream | providers |
| translate | none across requests | the conversion of a conversation, of an answer, of a stream | - |
| events-actix MCP bridge | one session per plugin: child, listener map, id counter | `attach`, `send`, `detach`, `kill_all`, the stdout pump | child processes, SSE clients |
| events-actix console stream | per stream: cursor, generation, live flag | poll and next frame | state-actix |
| state-actix `console_logs.rs` | ring of recent lines, `next_seq`, `generation` | push, clear, page | logship, events-actix |
| logship | bounded channel, dropped counter, drain thread | log event, drain, post | state-actix |
| procctl supervisor | one slot (Empty, Starting, Live, Backoff), command queue, shared snapshot | start, stop, snapshot, the engine's events | child processes |
| pxpipe bridge | one Node worker behind a mutex | transform, start, stop, restart | a child process |
| api-actix CLI tools | other programs' configuration files, backups | apply, revoke, status | files |
| api-actix credential import | nothing of its own | ten importers | providers, state-actix |
| gateway-pingora | token bucket per address | throttle check; proxy, policy and routing are per request | all services |
| auth-actix | 250 ms key cache; browser cookies of a single sign-on | key check, session and SSO routes | state-actix, identity providers |
| dashboard-leptos | the signals of a page: lists, drafts, dialogs, busy flags, the chat | load, save, open, close, send | the gateway |
| catalog-actix, dashboard-actix, providers, contracts | none that changes | static data and pages | - |
| apps/supervisor | list of children | spawn in order, wait | all services |

### How they interact, and what is hard about it

* **A request** enters the gateway, is routed to runtime-actix, which reads the routing
  context, and for each model of the combo selects an account in state-actix, perhaps
  renews its token, translates the conversation, calls the provider, translates the answer
  back frame by frame, and reports failure or success. Selection and report are two requests
  to another process with a provider call between them, so every decision is made on state
  that may have changed. Correct means: no account is called twice for one target, a reported
  cooldown keeps requests off the account, a target is given up only when nothing is left,
  the client always gets an answer that some target really produced, and it hears all of it.
* **A write** to the store is applied in memory and saved now or later. Correct means:
  what was acknowledged as durable survives any crash, what was deferred is always owned
  by a flag or by a flush, the file never goes back, and nobody waits for ever.
* **A token** may be spent once. Renewal and import spend or rotate it at a provider and then
  post the result. Correct means: the newest one is the one stored, and the user is told
  what really happened.
* **A child process** (an MCP server, a tunnel, the token saver's worker) must be the only one
  of its kind, must be found and reaped by whoever is last, and must not be handed on with
  somebody else's conversation in its pipe.
* **Log lines** cross a lossy channel, a ring and a polling stream. Correct means that a
  loss is always visible: counted, or shown as a new beginning of the pane.
* **Records and users** are edited through handlers that look under one lock and write under
  another. Correct means: names and ids stay distinct where the code promises it, an import
  adds and does not overwrite, an administrator is always left, sign-ins are counted.
* **Other programs' files** are read, changed and replaced while the user and those programs
  may do the same. Correct means: the user's own content is kept, and a revoke leaves no
  half of a configuration behind.
* **A page of the dashboard** has loads and writes under way that are never cancelled while
  it is redrawn. Correct means: it shows what was saved, keeps what was typed, and settles.

## 2. Plan

| Step | Modules | State |
|---|---|---|
| 1 | `DurableStore`, `StateStore` | checked, proved, refinement proved |
| 2 | `AccountPool`, `ChatFallback`, `RoundRobin`, `TokenRefresh` | checked, safety proved |
| 3 | `McpBridge`, `Supervisor`, composed in `ChildProcesses` | checked, safety proved |
| 4 | `LogShip`, `LogPane`, composed in `LogPath` | checked, safety proved |
| 5 | `Translate`, `Stream` | checked; that a client can read its stream proved |
| 6 | `FusionPanel`, `ComboRouting`, `PxpipeBridge`, `Conversation`, composed in `RuntimeService` | checked; all but `Conversation` proved |
| 7 | `Accounts`, `CredentialImport`, `Records`, composed in `StateService` | checked, safety proved |
| 8 | `ToolConfigs`, `CliTools` | checked, safety proved for ten of the thirteen tools |
| 9 | `DashboardPages`, `DashboardPage`, `ChatPage`, `SignOn`, `ApiKeys`, composed in `Dashboard` | checked, safety proved |

Every module takes its sizes as CONSTANTS, with a named assumption where a proof needs one, and
has one action per operation or handler step. No module declares a RECURSIVE operator, so
that each can be proved about.

## 3. Modules and the code

### StateStore, DurableStore - `services/state-actix/src/store.rs`, `main.rs`

A snapshot is the set of writes merged into it: a stale one misses some. `persistLock` and
`memLock` are the two locks; `pc` says where a handler or the flush task is. A durable
write takes `persist`, then the snapshot's guard, mutates, writes the temporary file, renames
it and clears `dirty` (`StartDurable` ... `SettleDurable`); a deferred one mutates memory and marks
`dirty` in a second step (`MutateDeferred`, `MarkDirty`); the flush takes `persist`, swaps the flag,
clones under a read guard, saves without it and puts the flag back if saving failed. `Crash`
can fall between any two steps and brings back what the file holds; `BeginShutdown` ends
the handlers, aborts the flush task where it is, and flushes once more.

`DurableStore` is what callers may rely on: a view, a stable file that only grows with the
view, acknowledgement of durable writes only when stable, restart from the file. `StateStore`
implements it with view <- mem, stable <- disk (`AbsSpec`, checked and proved).

### AccountPool, ChatFallback, RoundRobin - `store.rs`, `internal.rs`, `runtime-actix/src/pipeline.rs`

`AccountPool` has the accounts and their locks, key by key, with `IsLocked` as the code reads
them: the entry of the model decides if there is one, expired or not, and the account-wide
entry only otherwise. `ChatFallback` walks the targets of a request: `Select`, `Refresh`,
`Call`, then the report (`ReportLands`, `ReportLost`) or the clearing (`ClearLands`,
`ClearLost`), `NextAttempt`, and from one target to the next. Requests interleave at every
await; a client can go away (`Cancel`); accounts are disabled and deleted under a walk
(`EditAccounts`); locks expire (`TimePasses`). A lock that falls between a selection and its call does not
stop the call: `CooldownHonoured` is about selections. Which available account a strategy prefers is left
open there, and `RoundRobin` models the one strategy with memory, `pick_round_robin`, with
its timestamps in whole milliseconds and its ties. An expiry time is abstracted to live or
expired; status fields that only the dashboard shows are left out.

### TokenRefresh - `pipeline.rs` `refresh_if_due`, `execute/src/executor.rs`, `refresh.rs`

A refresh token is a number. A request looks in the cache, exchanges, puts the outcome and
settles (stores the new token, or locks the account when it was rejected), with other requests
between any two of these. The provider (external) rotates on use and refuses a spent token.
Replies and posts can be lost, up to `MaxFaults`. An access token becomes due only while
no request is under way: its lifetime is an hour against seconds of a request.

### ComboRouting - `runtime-actix/src/state_client.rs`, `combo.rs`

The routing context is told by the version of the combo that it holds. A read finds the cache
fresh, or fetches: the state service answers at one moment and the reply is stamped and stored
at a later one, or the fetch fails and the defaults are stored. With the context it got, the
reader takes its turn (`take_index`), which starts a new cursor when the list is another one.

### FusionPanel - `pipeline.rs` `execute_fusion`, `collect_panel`, `fusion.rs`

Every model of the panel is asked at once. The loop that collects takes an answer or one of the
two timers, in the order of the `biased` `select!`: the hard deadline, the grace, a report. What it
has then decides whether a judge is asked, the only answer is returned, or nothing was heard.

### PxpipeBridge - `crates/pxpipe/src/bridge.rs` and its worker script

One slot behind a lock that a transform holds for all of its exchange: it starts a worker if there
is none, writes a frame, waits for the reply, and settles. A caller can be dropped at any
await, which releases the lock with the worker left in the slot; a worker may compute, hang
or exit. Frames are told by the call that wrote them, so that a reply that is read by another
call shows.

### Conversation, Translate, Stream - `crates/translate`, `crates/execute/src/stream.rs`, `collect.rs`

`Conversation` has the requests and the answers that are not streamed: a conversation of turns,
each of blocks, taken from four client formats into OpenAI's and from it into the providers',
and the answer brought back. A text, a picture, a call or a result is a record that says what it
is and when it was said, so that a block that is lost, moved or given to another call shows. What
a client or a provider may send and accept is external, and `Habits` names the habits of clients
that are examined: those for which the code keeps its word.

`Translate` has the stateful converters of a streamed answer, one step function per pair of
formats; `Stream` runs them: the provider's events arrive, the reader converts each and
sends the frames through the bounded channel, the client reads or leaves, and the body ends
with or without the provider's own end marker. The body comes in reads that begin and end anywhere.
Of a stream of lines the reads do not matter, except that each is decoded by itself, so that a
character which two of them share is replaced (`AsRead`; in a Cursor stream this happens between
frames). Of a binary stream (Kiro, Cursor) a read may bring several frames: `Decode` takes one of
them, and `HandOver` gives all their chunks to the client's converter at the end of the read, or
`Decode` drops them when Cursor asks for a tool of an editor. A composer model's answer, which
Cursor carries in its thinking behind a mark, is found there (`ComposerThinking`), and a call of
Ollama's has the number it states or else its place in its chunk (`OllamaIndex`).

What the client hears (`HearsWhatWasSaid`) is all that was said, in order and once. Four faults of the code
are recorded in `marred` when they strike, and each excuses only what it damages: a torn character, the
dropped chunks of a read (the answer still is a beginning of what was said), two calls under one index, a mark
written again. None of them lets a piece come twice or out of order, except in the calls that share an index.

### CliTools, ToolConfigs - `api-actix/src/cli_tools`

`ToolConfigs` describes the files of the thirteen tools and what applying and revoking put in
and take out of each. `CliTools` does the file steps: read, merge, copy the original aside once,
write a temporary file, rename, one file after another. The process stops or a disk operation
fails between any two; the user edits between requests.

What a revoke leaves is measured against everything an apply of this release or of an older one may
write (`Marks`), and each exception is named: `StaysBehind` lists what is left for good, `LeftWith` what is
left because it goes with a choice the user has made since, and `Blind` the choices that are taken
without looking whose they are. None of them is wider than needed: the run finds the property
violated when any one entry is removed.

### Accounts - `state-actix/src/users`, `auth-actix/src/routes.rs`, `lockout.rs`

Administration is one critical section per request. A sign-in crosses two services in steps: the
lockout, whether any account exists, the account, the record of the failure or the clearing of the
peer. The lockout table has a capacity and forgets the entries that no longer matter.

### CredentialImport - `api-actix/src/oauth/import.rs`, `state-actix/src/routes.rs`

Ten importers as data (what they verify, spend or rotate, and what they post) and one walk
through them. The post may be refused, lost after it was applied, or late; meanwhile the user
renames, binds, unbinds and deletes connections and the pools they are bound to.

### Records - `state-actix/src/routes.rs`, `internal.rs`, `store.rs`, `migrate.rs`

Combos, provider nodes with the connections under them, pools and settings. A record is told by
its id, its name and when it was written. Creating looks a name up under one lock and takes it
under another. The legacy import reads the lists first and then writes row by row.

### StateService, RuntimeService, LogPath, ChildProcesses, Dashboard

These put parts of one process together. Parts that share no variable are added: a behaviour is of
one of them, from the common start, and its first step decides which. That is sound for every
property here, since each speaks of the variables of one part, and a part's own behaviours are
all there. Two compositions are true ones, because the parts exchange something: `LogPath`, where
the shipper's posts are what the ring takes in, and the chat page with its transcript.

### McpBridge - `events-actix/src/mcp/bridge.rs`, `routes.rs`

One plugin. `current` is the session the bridge's map holds; each session keeps its listener
map, also after it left the bridge's map, because the pump shares it. `Attach`, `Detach`, `send`
and `kill_all` run under the bridge's lock; a send blocked on a child's stdin holds it. The pump
forwards a line to every channel with room and clears the map when stdout ends. A client
reads (`NextFrame`), sees the end and then detaches, or disconnects, which drops the response
body without detaching: that is the one way for a child to outlive its readers, which
`NoChildIsLost` names (`Abandoned`). The process exits through `StopServer` and `KillAll`.

### Supervisor - `procctl/src/supervise/engine.rs`, `supervise.rs`

The engine's slot and what it waits for, with its replies and its readiness channel. A `select!`
takes any arm that is ready, since none in the engine is `biased`. A command that supersedes a
child goes through the teardown, during which the engine looks at nothing else. Callers queue,
wait, or go away. Timers elapse by actions.

### LogShip, LogPane - `logship/src/lib.rs`, `state-actix/src/console_logs.rs`, `events-actix/src/console_logs.rs`

In `LogShip` a thread finds room or not, and adds to the counter of drops in a step of its
own; the drain fills a batch until it is full or late, swaps the counter and posts. `LogPane`
numbers lines by the order in which they were logged, so that what the pane shows can be
compared with what there was: the ring evicts and is cleared (a new generation), a poll reads
a page or fails, `NextFrame` decides between a replacement and a continuation, and the state
service may restart with an empty ring while the stream keeps its cursor.

### DashboardPages, DashboardPage, ChatPage - `apps/dashboard-leptos/src`

`DashboardPages` lists, for each page, the lists it loads and the components that write: where their
signals live, what they need, which `Save` holds them down and what success clears, closes and
reloads. `DashboardPage` is what the browser does with such a component: `api.rs` and `ui/page.rs`, with
loads and writes under way that nobody cancels. `ChatPage` has the turn and the transcript.

### SignOn - `auth-actix/src/sso_routes.rs`, `oidc.rs`, `saml.rs`, `settings_client.rs`

Both legs of a sign-in through OIDC or SAML. The cookies that bind them are one jar for all tabs of
a browser; the settings are read anew at each leg and may have changed; a callback may be
sent again, come late, or come with a cookie of another tab.

### ApiKeys - `auth-actix/src/routes.rs`, `state_client.rs`, `runtime-actix/src/pipeline.rs`

A call with a managed key: the gateway's question to auth, answered from its cache or by
state, and the runtime's own question, which is never cached. A question is read in state at
one moment and heard at another. The key is switched and deleted, and the setting that says
whether keys are needed is changed, in between.

## 4. Runs

| Run | Properties | Shows |
|---|---|---|
| `state_store` | DurableWritesSurvive, NoAckedWriteForgotten, ShutdownKeepsAcked, EveryWriteSettles, AbsSpec | two handlers, the flush, two crashes and two failed disk writes in every order; no deadlock of the two locks; refinement of `DurableStore` |
| `chat_fallback` | NoAccountTwice, CooldownHonoured, GivesUpOnlyWhenNothingIsLeft, LastModelOwnsTheOutcome, EveryWalkIsBounded | two requests over two accounts and two targets each, with an edit of the accounts |
| `runtime_service` | LeftOutForAReason, WorkerSafe, ConversationCarried, RoutingHolds, RotationKept, EveryRequestEnds | token renewal, routing, the fusion panel, the worker and the conversation |
| `child_processes` | NoChildIsLost, SupervisionHolds, NobodyIsLeftWaiting | three clients of an MCP child, one of which may stop reading; two starts and a stop of a supervised child |
| `log_path` | LossesAreSeen, PaneFaithful, LinesArrive | lines from two threads to a pane |
| `stream` | HearsWhatWasSaid, ClientCanRead, EveryStreamEnds | every pair of a provider's and a client's format |
| `cli_tools` | AnswerTruthful, NothingDangles, UserContentKept | three applies and revokes of any tool |
| `state_service` | UsersDistinct, SessionsEarned, GuessesBounded, ImportsHold, TurnsAreFair, RecordsHold, AdminKept | users and sign-ins, imports, the round robin, records |
| `dashboard` | ShowsWhatIs, SignOnHolds, KeysHold, TypedIsKept, PageSettles | any page, the chat, a sign-in from two tabs, calls with a managed key |
| `kiro_import_recorded` | RefreshedIsRecorded (violated) | a spent token is not recorded although every party answered |
| `mcp_bridge_wait` | NoReaderWaitsOnTheDead (violated) | a client joins the session of an exited child and waits for ever |
| `pxpipe_own_reply` | ReplyIsOwn (violated) | a transform reads the reply of one that was dropped |

Deadlock is checked in `state_store`, `chat_fallback`, `stream` and `cli_tools`, whose processes go on
for ever or stutter at their end; the others set `CHECK_DEADLOCK FALSE` because their
instances really end, at their bound or with everybody gone. `TypeOK` invariants (`StateTypeOK`
and its like) are definitions of their modules that a configuration can add as INVARIANT; those of
`StateStore` and `Stream` are theorems (`TypeCorrect`, `StreamTyped`), and the other proofs carry the types
they need as a part of their own invariant.

### Deviations

Places where the code does not do what its own comments, docs or tests say, or where it does
what its author would hardly expect, found while modelling. Three are runs that expect the
violation and findings in `PROJECT.json`. Others are definitions of their modules, and the named
configuration with that property in place of its own makes TLC print the behaviour:

| Configuration | Property | What the code does |
|---|---|---|
| `MCRuntimeService` | NoTokenSpentTwice | two concurrent requests spend one refresh token twice, and the second answer locks the account |
| `MCRuntimeService` | ChangeTakesEffectWithinTTL | a routing context is stamped when its reply arrives, and an older reply is stored over a newer one |
| `MCRuntimeService` | OneAnswerIsReturned, EveryCallRecorded | what a panel does with an answer that arrives at its deadline |
| `MCRuntimeService`, a habit added to `MCHabits` | ConversationCarried | see "Conversations" below |
| `MCStream` | CharactersSurvive | each network read is decoded by itself, so a character split between two is replaced (`execute/src/stream.rs:138`, `:683`), against "the byte layer's problem, handled before this point" (`sse.rs:274`) and the splitter that "manages split UTF-8 multi-byte sequences" (`docs/Architecture-and-Performance.md:75`); in a Cursor frame (`cursor/protobuf.rs:116`) this is meant |
| `MCStream` | NothingIsDropped | the pump breaks on Cursor's request for a tool of an editor before it relays what the same read brought (`stream.rs:270`, from `:418`), also after content, against "the text already delivered stays" (`:271`) |
| `MCStream` | NoDeltaAfterDone, MessageStopsOnce, MessageStops, FailureIsHeard | frames after the end, a message that stops twice or never, a failure that looks like an end |
| `MCChildProcesses` | HealthyUptimeResets | the attempt counter never resets: `on_exit` clears the start time before it is read |
| `MCChildProcesses` | DetachSparesSiblings | a listener detaches the listener of the next session that has the same id (`bridge.rs:201`, against the test at `:468`) |
| `MCChildProcesses` | DisconnectReapsChild | a client that disconnects is never detached, so its child is not reaped (`routes.rs:221`, against `:219`) |
| `MCStateStore` | DirtyFlagAccurate | a durable write whose save fails stays in memory with `dirty` clear; nothing retries it (`store.rs:1755`, against the doc of the field at `:50`) |
| `MCChatFallback` | AccountLockHonoured | an expired model entry hides a live account-wide lock (`store.rs:221`, against `:219`) |
| `MCChatFallback` | AccountLockOutlivesSuccess | any success lifts an account-wide lock that is still live (`store.rs:1484`, against `:1466`) |
| `MCChatFallback`, a client in `Malformed` | MalformedNotReplayed | a request that every provider refuses is replayed against each account of each model (`errors.rs:183`, against `pipeline.rs:464`) |
| `MCStateService`, `Ticks = {0, 1}` | StickyLimitHonoured | picks within one millisecond tie, and an account gets more than `sticky_limit` turns (`store.rs:1381`, against `:1364`) |
| `MCStateService`, `SameMillis = TRUE` | UsersDistinct | two users created in one millisecond around a deletion share an id |
| `MCLogPath` | CountSurvivesFailedPost, LossesAreTold | the count of dropped lines is lost with a failed post (`logship/src/lib.rs:323`, against `:322`) |
| `MCLogPath` | PaneContinuousAlways | after a restart of the state service a gap is shown as continuous (`state-actix/src/console_logs.rs:172`, against the test at `events-actix/src/console_logs.rs:313`) |
| `MCLogPath` | RecoveryReported | a recovery that brings no line is not reported (`events-actix/src/console_logs.rs:173`, against `:112`) |
| `MCCliTools`, `MaxEdits = 1`, `UserMayRace = TRUE` | UserContentKept | an edit between the read and the rename is lost |
| `MCCliTools`, `UserHasOnlyKey = TRUE` | UserContentKept | a revoke removes a key that was the user's own (codex) |
| `MCDashboard` | TunnelAnswerIsShown | the reload redraws the card that holds the server's answer (`tunnel.rs:208`) |

Not stated as properties, but met on the way:

* **Conversations.** To Claude, messages of the role "developer" are dropped and the reason "cut" is
  told verbatim; to Gemini, only the last system message is kept, developer messages are dropped,
  tool names beginning with a digit are changed and not mapped back, and pictures are not taken
  from a blind model; to Ollama, linked pictures and blank results are dropped and two calls of one
  tool are matched by name only. Gemini clients that call one tool twice get one id for both. A
  route between equal formats returns before pictures are removed, and the removal, whose doc says
  "Call this BEFORE translation", runs after it. `ensure_tool_call_ids` and `dedupe_tools` are never
  called. The streamed answer strips a "proxy_" prefix that requests no longer add.
* **Streams.** Calls of an Ollama provider that state no index are numbered by their place in their chunk
  (`ollama_to_openai.rs:129`), so calls that come in chunks of their own all have index 0 and are merged by the
  client. After a composer model writes `</think>` again, the count of what was passed on is that of the
  answer before it (`cursor/response.rs:236`), so the beginning of the new answer is swallowed; its reasoning
  is not passed on at all.
* **Records.** The legacy import overwrites the settings although it calls itself additive; imported
  connections keep the old id of a proxy pool although imported pools get new ones; a combo or
  pool that stands in the file twice is created twice; two rows of one provider and name merge and
  lose both the key and the tokens. Ids of nodes and combos are used again, so that an update or a
  connection meant for a deleted one can land on its successor. An edited Deno pool becomes an
  http pool. Replacing `comboStrategies` as a whole undoes a concurrent edit (a documented choice).
* **Imports.** Every import without an `apiKey` (codex, cursor, kiro, grok-cli) is refused by
  `create_provider`; importing again drops the binding to a pool; two overlapping iFlow imports
  leave a dead key, and so does an import after its connection was renamed, since it adds a
  second one and ends the key of the first; a connection can be bound to a pool while it is deleted; "could not be
  recorded" is also said when only the answer was lost.
* **Sign-in.** A failure is recorded at the second its sign-in began; a late success removes a lock; a
  session outlives the disabling of its user. A second tab's start is lost when the first tab's
  callback fails and clears the cookies. `saml_acs` tells an outage of state as "not configured"
  (against `sso_routes.rs:134`). The comment that the cache is never the only check
  (`state_client.rs`) does not hold when the gateway always asks for keys and state does not. The
  refusal of an assertion told as JSON, to a caller that asked for it (`sso_routes.rs:678`), keeps the
  cookie and is not modelled. The lockout forgets the failures of an entry it evicts:
  `GuessesBounded` bounds what is counted, not what was judged.
* **CLI tools.** An interrupted backup leaves a partial one that is taken for whole; revoking takes the
  configuration before the key; grok applied again restores the selection of before the user's own.
  *Left behind* (`StaysBehind`, `LeftWith`): `kilo_auth_revoke` leaves the entry an older release wrote under
  "9router", against its own comment (`mutations.rs:426`); `is_qualified` knows the present name only, so
  older selections ("9router") dangle after a revoke of opencode and openclaw, and an agent's `models.json`
  keeps its older block; grok's older markers are not read, and a default "9router" that was there
  before an apply is put back; DeepSeek's section stays unless its address is a local one; cline's
  and codex's model stay once the user has selected another provider. Claude's
  `hasCompletedOnboarding` and the key in hermes' .env stay on purpose (`:247`, `:795`).
  *Taken without a look* (`Blind`): the revokes of claude (`:249`), codex's auth.json (`:339`) and subagent
  (`:323`), kilo's two files (`:427`, `:455`), hermes (`:772`), cowork (`:1641`) and grok's explore selection
  (`:1389`) remove or overwrite the path whatever it holds, so a selection the user has made there
  since is lost. cline and deepseek ask for the provider only, and take a user's own "openai".
* **Pages.** A dialog's success closes the dialog opened since for another row; a draft under a list is
  wiped by any reload, and what is typed in a place whose write is under way goes with its success
  (`users.rs:557`; the model takes it for one with what was sent); forms that send everything as drawn undo what others changed; two
  controls with a `Save` each can both be in flight; loads are shown in the order of arrival.
* **Token saver.** A large write waits without a timeout, with the lock held, behind a hung worker;
  after `stop` the next request starts a worker again, against "Requests then bypass".

### Bounds, and why they are enough

* `state_store`: two handlers, two writes of each kind, so that one may be older than another in any
  pair of snapshots; `MaxCrashes` 2 tests recovery from a recovered state with a left-over
  temporary file; `MaxFaults` 2 lets a retry fail as well.
* `chat_fallback`: two requests, two accounts, two models; `MaxAttempts` 2 (`MAX_ACCOUNT_ATTEMPTS`), as many
  as there are accounts, so that exhausted accounts and exhausted attempts both end a walk;
  one edit. The accounts are symmetric. Walks repeat without a bound.
* `runtime_service`: two renewals, two rotations and two faults; two readers, three versions of the
  combo (edited, and edited back), a limit of 2, TTL 2 and a clock to 4, so that an entry ages out
  while a fetch is late; a panel of three with a quorum of two; three callers, one with a large
  body, two workers, one caller dropped and one exit; conversations of five turns, enough for a
  call, its results, an interruption and words after it.
* `child_processes`: three children: a session, its successor, and one more after both; channels of
  one frame (`LISTENER_BUFFER_FRAMES`) and a pipe of two, so that a channel fills while the child
  still writes; two attempts, so that one restart is the last one and one is not; a queue of two
  that three callers overfill.
* `log_path`: channel 1, batch 2, five lines, a ring of two; one failed post, clear, outage and restart.
* `stream`: eight events from a Claude provider, five from OpenAI and commandcode, four from the others,
  two tool calls, a channel of two: every block kind opens, is interrupted by another, and closes; a binary
  read of up to four frames. One character of a stream is torn, in the first piece or (Claude, grok,
  perplexity, cursor: `TornBy`) a later one, and none of commandcode's, which passes its pieces on as OpenAI
  does: a second tear only repeats the first. A chunk of Ollama's has at most two calls. 1.95 million states.
* `cli_tools`: three requests (apply, revoke, apply), one fault, two edits.
* `state_service`: two names, passwords, peers and overlapping sign-ins; a threshold, a window and a lock of
  2, a clock to 2, one table entry; four requests; three accounts, a sticky limit of 2 and ten picks (a turn of
  the ring is six); two clients, three calls and one fault; two editors, two names, three edits, two
  nodes and a legacy file of five rows that has a combo twice. Sign-ins and peers are symmetric.
* `dashboard`: two rows, two controls used, three steps; three turns and one clear; two tabs, two
  registrations, two sign-ins, one edit of the settings, one fault; two calls, ages told apart up
  to the TTL of 1 and the timeout of 1 (no other bound: the state space is finite).

### Fairness

* StateStore: weak fairness of each handler (a thread runs to its answer), of the flush ticker
  and of the exit after shutdown. None of crashes, faults or new requests.
* ChatFallback: none. `EveryWalkIsBounded` says that every step decreases a variant instead.
* FusionPanel, PxpipeBridge: callers are polled and timers run. Nothing of providers or the worker.
* LogShip: the drain runs and posts end by `POST_TIMEOUT`. LogPane: the body is polled while the
  client is connected.
* McpBridge: the pump is a task of its own and a reading client reads. Detaching takes a tokio
  mutex, which is fair to waiters, so it is strongly fair; sends end because the server on the
  other side reads its stdin. That last is an assumption on the child, not on the code.
* Supervisor: the engine's thread runs and timers elapse. Nothing is assumed of the child.
* Stream: the reader and the sender run, the body ends, the client reads or leaves. A binary read has an
  end: `[]<>(pump \notin {"decoding", "decoded"})` is weak fairness of `HandOver`, which is enabled exactly
  within a read and ends it.
* Dashboard: a request ends, by an answer or an error. Nothing of the user, and none for sign-on and keys.

## 5. Proofs

Each proof module is for any value of the constants, under the module's named assumption and,
where it says so, a hypothesis of the theorem's own.

`RestartProofs` holds the proofs of `StateStore` and of `ChildProcesses`, which have nothing in common but
a process that stops; every other proof module has the name of the module it is about.

**StateStore** in `RestartProofs` (`StoreAssumption`: writers differ from the flusher and from "free"; durable and
deferred writes are disjoint; the bounds are numbers): `TypeCorrect`, `DurableWritesAreSafe`,
`DeferredWritesAreOwned`, `FileNeverGoesBack`, `CleanShutdownLosesNothing`, and
`ImplementsDurableStore`: every step of the store is a step of `DurableStore` or a stutter. None of
these is inductive. That a durable write is safe needs to know that nobody else
replaces the file while one actor is between its clone and its rename, hence `LockInv`: an
actor past `wantPersist` holds `persistLock`, and a durable writer also `memLock`. That a rename
does not lose anything needs `FileInv`: the file, and the temporary or clone about to
replace it, are related to `mem` and to each other. `OpInv` ties a handler's write to its place in
the code, `AckInv` says where an acknowledged durable write is, and `NoAckedWriteForgotten`
with `DrainInv` who owns a deferred one. There is one lemma per action, and `NextIInv` puts them
together.

**StateServiceProofs** (the compositions' parts share no variable: `StateParts` says that a step of the
service is a step of one part or leaves that part alone, and every theorem uses it).
*Users and sign-in*: `UsersAreDistinct` and `AdministratorRemains` from `UsersInv` (the millisecond
in every id is not ahead of the clock), both under `~SameMillis`, which is where the code relies
on the clock; `GuessesAreBounded` from `LockoutInv` and `EntryInv` (what a table entry counts, against
the sign-ins that have been checked and not yet recorded); `SessionsAreEarned` from `SessionsInv`.
*Turns*: `TurnsStayFair` from `RotationInv`: nobody's last use is ahead of the clock, the streak is
that of the account used last (`LatestInv`, `StreakInv`), and whoever waits has waited at most once
for every turn taken since (`WaitInv`). Its hypothesis `0 \notin Ticks` keeps picks out of one
millisecond, where the code does break its word (`StickyLimitHonoured` above).
*Imports*: `ImportsAreSafe` from `ImportInv`. `RequestsInv` says of each request where it is, what it
spent and what has landed; `IflowInv` follows the keys of the one importer that ends the key it
replaces: every key in a connection was issued (`KeysKnown`), and a dead one is accounted for by
an import at work or by one that landed over another (`AtWorkInv`, `LandedOver`).
*Records*: `RecordsAreKept` from `RecordsInv`: what a request found out when it looked still holds,
but for records written later (`LookedUp`), and as long as nobody else wrote, the keys an import
knows are those there are, and what it owes is what is missing (`Undisturbed`, `OwedInv`).

**RuntimeServiceProofs**: `WorkersAreSafe` from `LockInv` (one exchange at a time), `OwnerInv` (a living
worker is in the slot or with one call) and `FrameInv` (what lies in the pipes is the exchange's
own, unless a caller was dropped in mid-exchange); `NothingLeftOut` from `Followed` (what is
recorded is what was answered and taken), `GraceInv` (the grace clock runs from a quorum on) and
`RecordInv`; `RotationIsKept` from `OutcomesInv`, `InStep`, `Together`, `DueInv` and `Carried`: the
provider's newest token is stored, or carried by a request that has still to settle, or was lost
with a fault; `RoutingIsFair` from `RoutingInv`: a fetched or held context is no older than its
stamp and the timeout allow (`FetchInv`, `HeldInv`), and the turns since the last change of the
list go round it (`InRound`).

**ChatFallbackProofs**: `AccountsAreTriedOnce`, `CooldownsKeepOff`, `NothingIsLeftUntried`, `LastModelAnswers`
and `WalksAreBounded`, all from `FallbackInv`: `WalkInv` relates a walk's phase, target, excluded and
called accounts and count of attempts; `CoolingInv` says that a reported cooldown is a live lock of
the pool. They hold for any number of concurrent walks. `WalksAreBounded` is what stands for
termination here: each step decreases a variant.

**ChildProcesses** in `RestartProofs`: `NoChildGoesAstray` and `SupervisionIsTruthful`. `BridgeInv` has
that a running child is the one in the bridge's map, that a reaped server has no session (`ReapedInv`), that whoever
is in a listener map came to that session and is reading or has dropped its body (`MapInv`), and that the session
in the map is there for a client that came to it, with a listener left as long as its output is read
(`HeardInv`). With nobody who dropped a body, that is somebody who reads. `EngineInv` has one conjunct for
each thing the engine may owe somebody: what its slot holds, by phase (`SlotInv`), what the
snapshot says of it (`SnapshotInv`), who waits for readiness (`ReadyInv`), whose commands are in the
queue (`QueueInv`), whose start is being answered (`StartInv`), and that a stop leaves nothing
(`StopInv`).

**LogPathProofs**: `PaneIsALog` (the pane is a run of the log, continued or begun anew, with nothing
twice or out of order) from `PaneInv`: the ring is the end of what was taken in (`RingInv`), the
stream's cursor is not ahead of it within a generation (`CursorInv`), and a page that was read and
not yet shown `Continues` what the pane has, or begins it anew; `DropsAreCountedOnce`, the first half of `LossesAreSeen`; and
`LossesReachThePane`, all of it, from `AccountInv`: while no post fails, the lines delivered are those taken
in that report nothing, and what was told of losses is what the others add up to. That sum
is `MapThenSumSet`, whose order of adding is a `CHOOSE`: `SumsUnique` shows that any order gives
the sum (`TotalGrows`, `TotalOfMore`).

**DashboardProofs**: `SigningInIsEarned` from `SignOnInvariant`: flows are told apart by their numbers
(`FlowsApart`), and for each tab, by the leg it is in, what its answer (`CodeInv`), the settings it
read (`SettingsInv`) and the cookie jar (`JarInv`) may be, and which failure needs which happening
(`ReasonInv`); `ManagedKeysDecide` from `KeysInv`: a cached verdict is not older than its age says
(`VerdictInv`, `AgesInv`), and what each call has been told was so within its wait (`CallInv`).
`PageShowsWhatIs` is `ShowsWhatIs`, from `PageInv` and `ChatInv`: the newest load will show what the page was
last told of, and once it is in the page shows it (`CaughtUp`); writes and the dialog on screen
are of the page's controls (`Named`), as each page of `DashboardPages` must have them (`PageSound`);
a bubble of the chat belongs to the turn that fills it, and what a request sends is the
transcript without what was not said, by induction over the transcript. `TypedStaysTyped` is the action property
`TypedIsKept`: no load that lands changes what is being typed.

**StreamProofs** (`StreamAssumption`: the formats are those the code knows; the bounds are numbers, the channel has
room): `StreamIsReadable` is `ClientCanRead`, for every pair of formats, any number of events and calls and a body that
breaks off anywhere. `StreamInv` (`ClientIsTold`) is about everything delivered, from what the client has to what still
waits for room, so sending and receiving leave it alone; within a binary read it is about what the client will have been
told once the read is handed over (`Telling`). For a Claude client (`ClaudeInv`) the frames up to the
first end parse (`ClaudeSound`), and as long as there is no end its state knows exactly which blocks are open
(`InStep`); for a Responses client (`ResponseInv`) the state knows which items were added and are done, and its
buffers hold what each was sent (`Knowing`). Neither is enough: a response that has completed could be
given more, and a turn with calls could be told "stop". So `UpInv` and `Delivers` say what one event makes of
each of the nine providers' converters: a finish has the reason that the calls so far ask for, is there
when the provider said so, and is followed by nothing with content; `OffersAre` has this from the provider's protocol. Steps
that are folds over chunks, calls or items go through one lemma for each operator (`ToOneClientFolds`), an
induction over the fold; `FlattenAppend` does the same for the pieces of an item. `StreamTyped` is
`TypeOK`, which has to hold after a client has left too, when nothing is known of the frames: it needs
`TalkTyped` beside `StreamInv`.

**CliToolsProofs** first says what the operations of `ToolConfigs` do to one document: an apply and a
revoke keep `DocInv` (no selection without what it selects, no value of ours where the revoke does
not look: `MayHold`), change nothing `Foreign`, a second apply changes nothing (`ApplyTwice`), a revoke leaves
nothing but what `StaysBehind` and `LeftWith` name (`RevokedIsClean`) and keeps the choices it looks at
(`RevokeKeepsChoices`). `StepsAre` then reduces the actions to seven
kinds of step, over which the invariants are carried. `ConfigurationsHold` is `NothingDangles`, from
`DocsInv` (what is on disk, and what is about to replace it, is `DocInv`) and `KeyInv` (which of two
files is written first, and what a stopped revoke leaves). `OriginalsAreKept` is the first half of
`UserContentKept`, from `OriginalsInv`: until a file is first changed it is as the user had it, and
what is being written over it has been copied (`CopyInv`). `TheUsersIsKept` is the whole of it, with
`MergedInv`: what will be written differs from what it replaces in nothing of the user's.
`AnswersAreTrue` is `AnswerTruthful`, from `AnswerInv` (every file before the one a request is at is as
the request wants it, or was warned of) and `AgentInv` (OpenClaw's second file has something of ours only where
its first one names a directory). The hypotheses: grok, whose file is edited as text, is
left out of all but `OriginalsAreKept`, and copilot and droid of `TheUsersIsKept` and `AnswersAreTrue`,
where their arrays matter (`SelectSeq` cannot be expanded by the provers); the user does not
edit during a request in these two; and auth.json does not hold a key of the user's alone in
`TheUsersIsKept` and `OriginalsAreKept`. The last two are the deviations above. The three tools stay with TLC.

Only model-checked:

* liveness under fairness (`EveryWriteSettles`, `EveryRequestEnds`, `NobodyIsLeftWaiting`, `LinesArrive`,
  `EveryStreamEnds`, `PageSettles`), which TLAPS does not do;
* `ConversationCarried` and `HearsWhatWasSaid`: each says of everything that was said, piece by piece and through
  two translators, that it arrives once and in order. Both, and all of `Conversation`, are about sequences filtered
  by `SelectSeq`, which TLAPS has no definition of and no backend knows; `ConversationCarried` moreover holds only
  of the habits that the code keeps (`MCHabits`), not of any;
* `NothingDangles` for grok, `AnswerTruthful` and `SettingsKept` for copilot, droid and grok;
* the type invariants but those of `StateStore` and `Stream`, as definitions of their own.

## 6. What is not modelled, and why

* **Abstractions.** `sync_all` and `rename` are taken as durable and atomic: the models crash the
  process, not the disk. The saving of a migrated file at load, the sealing of secrets at rest and
  poisoned locks are left out. A state crash that loses account locks is StateStore's subject,
  not ChatFallback's. The ids of connections and pools are taken from milliseconds that differ.
* **Static data** (providers, catalog, contracts, the tools' specifications), rendering and layout,
  benchmarks, tools, wiki and i18n have no behaviour of the system.
* **Per-request functions** (gateway policy and routing, the numbers and texts of one request) and
  wire formats of single providers are data, with no control a model checker would explore
  better than their tests.
* **Programs driven from outside** (npm, the privileged helper, the operating system's stores) are I/O.
* `PROJECT.json` gives the reason for each component.
