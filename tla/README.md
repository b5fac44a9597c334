# A TLA+ model of MEWS

MEWS runs agents on behalf of a user. An *installation* is a set of *Hosts*, one
of which also is the *Hub*: it holds the database of Sessions, Turns and events,
talks to clients and providers, and dispatches tools to the Hosts. This directory
holds TLA+ modules translated from the Rust source, the TLC runs that check them
on small instances, and TLAPS proofs that hold for every instance.

Paths below are relative to `src/crates/`. `PROJECT.json` maps every definition to
the lines it models.

## Inventory

| Component | State it keeps | Operations | Talks to | Hard behaviour | What makes it correct | Module |
|---|---|---|---|---|---|---|
| Turn store (`mews-store`: `sessions.rs`, `turns.rs`, `scheduler.rs`) | tables `turns`, `effects`, `command_receipts`; tool calls and results | accept, record Harness, schedule/start/finish effects, append, finish, recover | Turn tasks, cancel requests, start-up recovery, all through one SQLite file | all callers interleave; crash between dispatch and outcome; retried StartTurn | one active Turn per Session, one Turn per key, nothing left open, every call answered truthfully, an ended Turn is final | TurnStore |
| Turn execution (`mews-agent/loop.rs`, `mews-runtime`, `mews/src/app/turns.rs`, `native.rs`, `server/active_turns.rs`) | the task of each Turn, cancellation token, `turn_tasks` registry | start, hooks, provider call with one replay, tool batch, cancel, abort, drop guards | Turn store, provider, Hosts | cancel racing accept, completion and persistence; abort at any await; uncertain outcomes | a task never leaves its Turn running; no provider sees an unanswered call or an uncertain outcome | TurnExecution |
| Hub move (`mews/src/server/dispatch.rs`, `app/handoff.rs`, `server/mod.rs`, `mews-host/lifecycle.rs`) | `mews.db`, secrets, `hub-move.phase`, recovery journal, manifest, staged files, activation marks, receipt | MoveHub, five transfer requests, activation, demotion, restart | source and target Host | a crash between any two files, lost replies, unlimited retries | never two Hubs, no acknowledged command lost, the fence is lifted in the end | HubMove |
| Session log (`mews-store/sessions.rs`) | entries, leaf, active branch, summaries | append, move leaf, compact, observe, page | Turn store, clients | leaf moves and compactions based on an earlier read | branches stay contextual, a compaction hides only the past, a page skips nothing | SessionLog |
| Client event delivery (`mews-store/delivery.rs`, `mews-client/events.rs`) | consumers, cursors, subscriptions, leases | subscribe, poll, acknowledge, prune | Hub, clients, Channels | redelivery, expiring leases, pruning behind a slow consumer, lost wakeups | an event stays until its consumers have it | Delivery |
| Command journal (`mews-store/events.rs`, `app/journal.rs`) | receipts, journal, positions | execute once, replay, conflict, query, watch | every mutating request, watchers | retries, pages cut by bytes, appends during a scan | a command is executed once; a watcher skips nothing | JournalFeed, AgentCommands |
| Agents (`mews-store/agents.rs`, `app/agents.rs`, `mews-host/lifecycle.rs`) | Agent table, revisions, two editable directories | create, rename, archive, synchronise | Hub, Hosts, users' editors | a crash between the table and the directories, edits in two places | an edit leaves a copy only as a revision or because another came first, no lost update, no copy goes back, copies follow the table | AgentSync, AgentCommands |
| Enrollment (`mews/src/enrollment/`, `mews-store/hosts.rs`) | invitations, Hosts, keys | invite, join, link, remove | new Host, relay | a lost answer, removal and moves of the Hub in between | an invitation admits one machine; who joined is a Host | Enrollment |
| Host connection (`mews-host/connection.rs`, `rpc.rs`, `mews/src/host/`) | pending requests, channels, tokens | request, stream, cancel, disconnect | Hub, Hosts | a reply racing a timeout, a drop or the end of the link | what is reported of a tool is true; each request ends | HostLink, RemoteTurn |
| Tool registry and extensions (`mews-host/tools/`) | catalog and generations, processes | watch, reload, execute | Host connection, MCP bridge | reload during a call, a process outliving its call | a call runs what it was validated against; its leader does not outlive it, nor does its group as long as the leader was not reaped | HostTools, ToolProcess |
| Channel runtime (`mews-channel/`) | mappings, cursor, lanes | open, receive, launch, poll, deliver | Hub, external platforms | crashes between Hub and mapping, repeated messages, retries | each message becomes one Turn, in order; answers cross once | ChannelRuntime, ChannelDelivery |
| Relay and transport (`mews-relay/`, `mews-transport/`) | routes and generations, handshakes, frames | register, forward, pair, send, receive | Hosts, Hub | a connection replaced while its queue drains, cancelled receives, full channels | ends agree on a channel; whole messages in order | RelayPairing, PeerBridge |
| ACP sessions (`mews-acp/session.rs`) | pool of processes, bindings | submit, bind, prompt, cancel, evict | Turn execution, Harness processes | a cancel racing the answer, eviction racing a submission, a crash before a binding is stored | context given once, continuity of what is resumed, limits kept | AcpPool, AcpSession |
| MCP bridge (`mews-acp/mcp.rs`) | the Turn's capability, its connections | list, call, revoke | Harness, tool registry | reload behind its back, a call dropped by the prompt loop | calls are gated and recorded | McpBridge |
| Router and provider adapters (`mews-router/`) | `auth.json`, `models.json`, streams | stream, refresh, log in, remove | providers, agent loop | concurrent refreshes, a client that goes, a cut stream | nothing is overwritten; a success is complete | ProviderAuth, ProviderStream |
| Client library (`mews-client/`) | connection | request, reconnect | Hub | repeating a request after a lost answer | the repetition carries the first id | in AgentCommands, Delivery, SessionLog |
| CLI, TUI, protocol types | none of their own | translate, present | | | | none |

## How the project is organised

Each component is a module with its own variables, actions, invariants and, where
the code justifies it, liveness. TurnExecution builds on another: it uses the actions
of TurnStore and is proved to implement it. Eight components have a module `<name>Proofs`
that extends them and proves theorems about them; four of these modules also hold the
proofs about related components, which they reach through an instance (see Proofs).

TurnStore, HubMove and TurnExecution have an MC module each. The other components
are gathered in five *suites*: `MCSessions`, `MCHarness`, `MCLinks`, `MCFleet` and
`MCEdges`. Each suite extends a component that is proved about (Delivery, McpBridge,
HostLink, Enrollment and ProviderAuth, in this order), so that the run checks, under
constants that its .cfg gives, the very definitions and assumptions the proofs use. It
instantiates its other components on variables of their own, with one or
more instances per component. Its variable `part` is chosen in `Init` and never
changes: only the component it names takes steps, and the others rest in an initial
state. A suite therefore explores the union of its instances' state spaces, not
their product, and a property of a suite is a conjunction of

    part = "x" => X!SomeInvariant

over the instances it is about; a property of the extended component that the run
names by itself holds of its resting states as well. The named invariants are defined, with what they
mean and the code they are about, in the component's module. Liveness needs a
different fairness for each component; it is written `part = "x" => (XRuns =>
X!Liveness)`, where `XRuns` is the fairness of that component guarded by its part,
so that the specification of a suite has no fairness of its own and no part is
assumed to move when it cannot.

## What is modelled

### Turns: TurnStore, TurnExecution

`TurnStore.tla` is the part of the store that decides whether a Turn ran, how it
ended and what the model is told of the tools it asked for. Every public operation
of the store is one SQLite transaction, hence one action; an operation that returns
an error rolls back and is a stuttering step. The actions of all callers interleave
freely, because connections, Turn tasks, cancel requests and recovery share the
store and nothing above it serialises them.

* `turn`, `receipt`, `effect` are the tables of the same names. `requested` and
  `results` are the `tool_started` and `tool_result` entries; their position in the
  Session log is left to SessionLog.
* `effect.raw` is the column `raw_result_json`: it is what tells a call that was
  executed and not recorded from one that never ran.
* `EndTurns` is `close_open_effects`, `close_orphan_tool_calls` and the status
  update, in the order of the transaction. `FinishTurn` and
  `RecoverInterruptedWork` both use it.
* `Crash` may happen between any two transactions; only `RecoverInterruptedWork` is
  possible afterwards, as `Mews::open` recovers before it serves.

`TurnExecution.tla` is what drives the store: the `StartTurn` and `CancelTurn`
handlers, the task spawned for each accepted Turn, the native Harness (lifecycle
hooks, provider calls with one replay after a rejected cursor, sequential and
parallel tool batches) and the ACP Harness, down to the guards that end a Turn when
its task stops early. It declares the store's variables and uses the actions of
TurnStore through `Store == INSTANCE TurnStore`.

* `task[t]` is the task of Turn `t`: `pc` is where it stands, `op` the effect in
  flight, `batch` the calls of the current response with their state, `error` the
  error the loop will return (cancelled errors are told from others because they
  decide the Turn's status).
* `registered`, `token` and `waiting` are the entry in `turn_tasks`, the
  cancellation token and the cancel request that waits for the task. Taking the
  entry out of the map is what makes a cancel request the waiting one, so there is
  at most one; every other request ends the Turn at once (`CancelUnregisteredTurn`).
* A hook is `StartHook` and then `HookReturns`, used by the six places of the loop
  that call one. The outcomes of hooks, providers, tools and external agents are
  free choices; `HookStatus`, `ProviderFails` and `AcpPrompt` say which of them are
  stored as uncertain.
* An abort never lets the task run again, and the request ends the Turn before the
  aborted task is dropped; `CancelTurnEnds` is therefore one step and the guards of
  the aborted task do nothing.
* `RequestsDrop` allows a request to vanish with its connection: the requests of a
  remote Host share a `JoinSet` that is dropped when a response cannot be sent.

Message contents, context budgets, the tool catalogue and the entry of the command
line into `execute_send` are left out. Store operations fail here only because the
Turn has ended; SQLite I/O errors are not modelled. Every await is taken as a place
where another task may run.

### Sessions: SessionLog, Delivery, AcpSession, AcpPool, HostTools

* `SessionLog` is one Session's timeline. An entry's id is its position; contextual
  entries form a tree of which the leaf selects a branch, side entries hang off the
  leaf. The two operations that read the timeline before their transaction
  (`append_message`, `append_context_compaction`) are a read action and a write
  action. Two clients follow the cursors of `session_entries_page` and
  `active_messages_page` page by page while others write.
* `Delivery` has the consumer rows, cursors, subscriptions and the retained events.
  `prune_client_events` is part of every action whose operation ends with it. The
  long poll (`poll_events`) enables its waiter before it looks, and a writer commits
  before it notifies: the two are separate steps, so that a wakeup can be lost if
  their order is wrong. Acknowledgements may be sent twice and arrive late.
* `AcpSession` is the succession of Turns of one MEWS Session through external
  Harnesses and the native one: which binding is stored, whether the next Turn
  resumes, replaces or begins a Harness session, when the instruction context is
  given, the hooks of the Turn and how its effect is settled. A Turn may end before
  its Harness is recorded (`EndsUnrecorded`), and then the next one fails, because
  `previous_turn_harness` cannot read the missing name (`StartFails`). `world` is the
  Harness's side, which the code cannot read.
* `AcpPool` is the pool of warm processes: callers choose a worker under the mutex
  of `groups`, send a job under the worker's `accepting` lock and wait; workers run
  jobs, leave when idle or evicted, and close their process; callers are cancelled or
  dropped at any await.
* `HostTools` is the watcher of extension files, the catalog with its generations,
  and calls that carry the generation they were validated against.

### Harness: McpBridge, ToolProcess

* `McpBridge` is the Turn-scoped MCP server with the prompt loop that serves it. The
  loop's `select!` is modelled branch by branch, and what the losing branches drop
  is dropped: `abandoned` are the calls that were dropped because the Harness wrote a
  line. `log` is the record of the call at hand, with its execution between its hooks,
  each entry with the tool and the catalog it belongs to. The Host's catalog is
  reloaded behind the bridge's back.
* `ToolProcess` is one call of `process::capture`: the leader, its descendants, the
  pipe, both readers, the writer, the timeout, the cancellation and the drop. A
  descendant holds the pipes with the leader, or has redirected its own and is
  `"detached"`: the call does not wait for one of these, and after a success it lives
  on. `descendants` are those that stay in the process group; one that leaves it with
  `setsid` is nobody's.

### Links: HostLink, RemoteTurn, PeerBridge, RelayPairing

* `HostLink` is the table of pending requests on the Hub, the bounded channels, the
  response task, and the Host's dispatch with a task and a token per tool. Callers
  time out or are dropped at any await; `Detached` tells `joined.rs`, whose dispatch
  task outlives the connection, from `serve_host`.
* `RemoteTurn` is a Turn whose Harness runs on another Host: events pass a hand-off,
  a forwarder, the Host's channel and the link; a binding and a context dispatch wait
  until the Hub has stored and acknowledged them; the reply may overtake the events
  in the Turn's `select!`.
* `PeerBridge` is the encrypted stream after the handshake: chunks, sequence numbers,
  one `select!` for both directions, a network task, sockets and the relay's queues.
* `RelayPairing` is how the two ends find each other: routes and generations at the
  relay, the handshake, identity binding, and the retry loops of both ends. A slot
  stands for a connection and for the ephemeral key of its attempt; Noise is modelled
  by what it guarantees.

### Fleet: AgentSync, AgentCommands, Enrollment, HubMove

* `AgentSync` is the definition of one Agent with its revisions in the database and
  two copies that users edit. Between two awaits a flow runs alone; a crash may fall
  between any two of its file operations. `dir` is what stands under the Agent's name,
  its conflict files included (`kept`), and `aside` what the directories named
  `.previous-*` hold: a publication moves the directory there with its conflict files,
  carries over skills and extensions, and retains the newest of them only.
* `AgentCommands` are the commands that create, rename and archive Agents, whose
  table, journal and receipt commit together while their directories do not, with
  clients that repeat a request under its id, and the proxy of a joined Host, which
  gives each attempt an id of its own. Of a definition it keeps whether it is still
  the one a creation writes, because a creation that finds a directory is answered with
  success only then.
* `Enrollment` covers invitations, listeners, joining, the answer, links and removal,
  while the Hub crashes, loses connections or moves.
* `HubMove` models `MoveHub` with the processes and files of the source and the
  target. A step is one file operation or one request: a crash (`Crash`), an I/O
  error (`Fault`) or a lost reply (`Replied`, `TransferFails`) can occur between any
  two of them. Restarting follows the order in which `serve`, `Mews::open` and
  `serve_joined_host` look at the files. Secrets and credentials always move together
  and are one file; `hub.json`, the relay's configuration and the retained
  `*.previous` files take no part in a decision and are left out.

### Edges: JournalFeed, ChannelRuntime, ChannelDelivery, ProviderStream, ProviderAuth

* `JournalFeed` is the journal and one watcher: each batch of a scan is a query of
  its own, pages are cut by number and by bytes, and a watch waits for a notification
  or its deadline.
* `ChannelRuntime` is a Channel process between its platform and the Hub: the mapping
  store survives it, messages are repeated by the platform until acknowledged, Turns
  are started under the message's key, and events move a cursor.
* `ChannelDelivery` is the dispatcher of outbound deliveries: a lane per destination,
  bounded workers and places, and repetitions the platform asks for.
* `ProviderStream` is one streamed model call from the provider's bytes to the agent's
  loop, with the limits on events, bounded channels, failures and a client that goes.
* `ProviderAuth` is `auth.json` and `models.json` with the requests that read and
  rewrite them, and the refresh of tokens of which each is good once.

## Runs

| Run | Properties | Shows |
|---|---|---|
| `turn_store` | TypeOK, EndedTurnHasNoOpenEffect, EveryAcceptedCallIsAnswered, StoreResultsAreHonest, CompletedTurnLostNoOutcome, OneActiveTurnPerSession, ReceiptNamesItsTurn, EndedTurnIsFinal | what a Turn leaves behind is closed, answered and truthful however it ends, and final; one active Turn per Session; a key names one Turn |
| `turn_execution` | TypeOK, ModelSeesSettledHistory, CompletedMeansCertain, OneResultPerCall | the model sees settled history; a completed Turn is certain; one result per call |
| `hub_move` | TypeOK, NoSplitBrain, ArmedTargetFencesTheHub, AcknowledgedCommandsSurvive | no split brain, no acknowledged command lost |
| `sessions` | TimelineIsSound, MessagesContinueTheBranch, EventsReachTheirConsumers, BindingsAreSound, PoolIsSound, ToolsRunAsOffered | what a Session and its clients rely on |
| `harness` | BridgedCallsAreGated, ProcessesEndWithTheirCall, TaskLeavesNoActiveTurn, AuthorityIsFixed, ImplementsTurnStore, HarnessProgress | what happens while a Turn runs; tasks and requests implement TurnStore; as long as no request is dropped, no task leaves its Turn active; what a Turn waits for comes |
| `links` | LinkIsHonest, RemoteTurnsAreHonest, RelayedLinksAreSound, LinksProgress | what crosses between Hub and Hosts is true, in order, and arrives |
| `fleet` | AgentsAreKept, EnrollmentIsExact, FleetProgress | copies of an Agent move forward, commands survive retries, enrollment is exact, and all of it and the move settle |
| `edges` | ChannelsAreExact, StreamsAreExact, CredentialsAreExact, UpdatesAreKept, EdgesProgress | nothing is skipped, repeated or overwritten, and everything is answered |
| `hub_move_rollback` | ServingHubIsAssigned | **violated**: the rollback of a failed move leaves the target assigned |
| `turn_execution_drop` | TaskLeavesNoActiveTurn | **violated**: a Turn is left running without a task |
| `provider_auth_login` | LoginReplaces | **violated**: a refresh writes the old login over a new one |
| `fleet_conflict` | EditsSurvive | **violated**: an edit that was preserved in conflict files is deleted |

### Bounds

TurnStore: two Sessions, keys, requests, Turns, effects and calls. Two effects and
two calls give every combination of an answered, an executed, a running and a never
dispatched call in one Turn; a second Turn shows that ending the first leaves it
alone, and a retried key meets a Turn that runs or has ended. The constraint
`Explored` keeps the run small: it explores the Turns of one Session with all their
calls and effects, and the Turns of several Sessions, with conflicting requests and
recorded Harnesses, but then without calls and with one effect. The proofs have no
such limit. `MaxResults` bounds only how often the Harness may answer one call.
Identifiers are symmetric: no action orders or names them.

HubMove: a third Host and a third move let the Hub return to a Host that holds the
remains of an earlier transfer, and two faults allow a crash during the recovery
from a crash.

TurnExecution: two calls and two steps give a batch in which one call is lost and the
other is not, a second response that repeats an id of the first, and a step limit
that is reached; `MaxOps` is computed from these bounds and never limits a Turn. The
instances with two Turns have no calls: what they are about is the lock, the
registry and the guards. Refinement and liveness are checked with one call.

The instances of the suites, by their part:

| Suite | Part | Instance, and why it is enough |
|---|---|---|
| sessions | `log` | four entries, two Turns, one key: a branch with a side entry, a leaf moved and a compaction between a check and an append |
| | `pages` | three entries read in pages of two: a page that ends inside, at and behind the branch |
| | `consumers` | a durable and an ephemeral consumer of one event: pruning and expiry behind the slower one |
| | `sessions` | one consumer of two Sessions, three events in pages of one: subscriptions that change between pages |
| | `acp` | four Turns of the native Harness and of one that gets its context in the first prompt: a Turn resumes what another left, and the replacement of a session that missed a native Turn may end early |
| | `channels` | two Turns, three Harness sessions, two Harnesses that get their context at creation, one change, permission offers |
| | `pool` | two fingerprints, one process: eviction races submission, cancellation and drop |
| | `queue` | three Turns share two processes: jobs queue behind each other |
| | `tools` | two Agents, two edits, one call: a reload between any two steps of a call |
| harness | `task`, `dropped`, `lock` | TurnExecution: one Turn with a call; both Harnesses with dropped requests; two Turns at the lock |
| | `bridge` | an allowed, a forbidden and a native tool and a skill, one reload, two requests, a Harness that may write while a request runs |
| | `extension`, `bash` | a limit of two chunks and four written; with input and refusal, and with descendants and truncation |
| | `pool`, `tools` | liveness of AcpPool and HostTools |
| links | `link`, `joined` | a tool and a control request with two permits; two tools with one permit and a detached dispatch; channels of one place |
| | `turn`, `again`, `stream` | two Sessions over channels of one place; two Turns of one Session with faults; one Turn with two events, faults and cancellation |
| | `small`, `large` | messages of one chunk with room for all of them on the way, and messages of two chunks that may be cut |
| | `paired`, `hasty` | three connections, enough for both ends and one that lingers; one restart; one or both ends give up too early |
| fleet | `sync`, `swap`, `converge` | two flows, two edits; a crash and a damaged file; without crashes; two crashes and no damage |
| | `in turn`, `race`, `rename` | three commands in sequence with two crashes; three rivals, one through the proxy; one rename with all six attempts, three crashes and a failing move |
| | `enroll` | two machines, two invitations, two names, one fault, one move: a reused name, a second invitation, a move between commit and answer |
| | `move` | two Hosts, three moves, no faults, any number of lost replies |
| edges | `feed`, `watch` | four entries of two sizes and pages cut by either limit; three entries and pages of one |
| | `channel`, `order` | two conversations, an invalid message and a foreign Turn; three messages of one conversation, one repeated; one crash |
| | `lanes` | three destinations share two workers and three places, with two repetitions |
| | `stream` | five bodies: whole, cut short, failed, with an event over the limit, and going on after its end; two faults |
| | `auth` | two requests over two providers, two logins of three tokens, one fault: two refreshes of one login, a login and a removal in between |

Every bound is a constant and cuts an action's guard, so that a run that reaches it
stops there and does not invent a step.

### Deadlock

The runs of TurnStore and TurnExecution and `provider_auth_login` are checked for
it. In the first two a crash and its recovery are always possible, so that only the
liveness properties rule out a task that is stuck. The
other runs set `CHECK_DEADLOCK FALSE`, because their behaviours end: moves, edits,
messages or events are used up. That nothing stops *before* its work is done is what
the liveness properties of the suites say.

### Fairness

Every fairness below is on steps of the program, never on a fault, a user, a client
or an external process, unless it is said.

* HubMove (`MoveRuns`): `Proceeds` is weakly fair: every request to a Host ends by
  its reply, a disconnect or the 3605-second timeout of
  `HostConnection::request_inner`, and the handler takes its next step.
  `ArmAcknowledged` is strongly fair: the handler and the recovery loop repeat the
  arming request every second without limit, so the assumption is that a target that
  can be reached again and again acknowledges one of them. The instance has no
  faults: after a crash between the target's activation and the demotion the source
  resumes arming a target that no longer has a manifest, and stays fenced (hazard at
  `server/mod.rs:205`). The strong fairness is an assumption about the target, not
  about the code: the loop has no limit (`dispatch.rs:470`), and with a target that
  never answers the Hub refuses every request for as long as it runs. FencedHubLetsGo
  says no more than that one answer is enough, whatever was lost before it.
* TurnExecution (`TaskRuns`, `LockRuns`): every step of a task, of a spawn and of a
  waiting cancel request, and the recovery of a Hub that stopped. Everything a task
  awaits has a time limit: 3605 seconds for a Host request, the process timeout of
  tools and hooks, ten seconds to connect to a provider and five minutes without data
  from it (`mews-router/src/http.rs`), the deadline of an ACP request
  (`mews-acp/src/rpc.rs`), five seconds for a cancel request. A provider that sends
  data for ever is excluded. The Session's lock is a FIFO mutex; weak fairness is
  enough because each task takes it once.
* AcpPool: callers and worker threads run; no Harness is assumed to cancel, emit or
  be idle. The execution of a job ends by the deadline of its prompt.
* HostTools: the watcher wakes every two seconds and the connection forwards what it
  publishes. McpBridge: the prompt ends (its deadline) and the Turn revokes.
  ToolProcess: the call's own future, with its timer; the processes may hang.
* HostLink: callers, both tasks of the Hub, the Host's loop, and a tool whose token
  fired; a tool that is not cancelled may never end. RemoteTurn: tasks and threads
  run and prompts end, and no timer is asked for help. PeerBridge: every task runs
  while it can.
* RelayPairing: tasks run and timers fire. Strong fairness is on what competes with
  a replacement or a retry (connecting, writing, sending a heartbeat), where the
  step is enabled again after each attempt; a timer fires only if no answer is on its
  way (`Quiet`).
* AgentSync: Turns of the Agent are started again and again and the Host answers:
  this is an assumption about users, since nothing else synchronises a copy.
  AgentCommands: the Hub runs its handlers and the client sends its attempts.
  Enrollment: tasks go on and a move that began ends one way or the other.
* JournalFeed: the scan and the deadline; the watcher asks again. ChannelRuntime: the
  process is started again and both branches of its `select!` are taken (strong, as
  it is polled in random order); Turns end. ChannelDelivery: the dispatcher, the
  platform's calls and the producers. ProviderStream and ProviderAuth: every task
  goes on, with the read timeout of `http.rs` for a silent provider.

## Findings

`hub_move_rollback` shows that a move whose transfer fails is not taken back. The
handler calls `rollback_hub_move` on the command context that `begin_hub_move` used;
`Store::move_hub` finds that command's receipt with another request hash and
returns a conflict. The Hub is unfenced and serves on with the target assigned, and
`validate_hub_assignment` refuses its next start. The unit test in
`mews/src/app/mod.rs` does not see it, because it rolls back on a fresh context.

`turn_execution_drop` shows a Turn that nobody executes and nothing ends. An error
before `execute_send` has created its `TurnTerminalGuard` is left to the task, which
fails the Turn only when its token has not fired, and otherwise counts on the cancel
request that fired it. That request may have been dropped with its connection in the
five seconds it waits. The Session then refuses every StartTurn until the Turn is
cancelled again or the Hub restarts. Dropping `StartTurn` itself between acceptance
and spawn has the same effect (a hazard, not a run).

`provider_auth_login` shows a login that is lost. `current_credential` awaits the
provider under the refresh lock and then stores what it got whatever `auth.json`
holds by then; `SetAuth` and `RemoveAuth` do not take that lock. A login or a removal
written meanwhile is overwritten with the old login.

`fleet_conflict` shows an edit that is destroyed after its author was told that it was
preserved. An edit of the Hub's copy that lost to a newer revision is written into
conflict files of the Agent's directory, and the same call moves that directory to
`.previous-*` and publishes the current revision. Nothing brings the conflict files
back, and the next publication, for the next revision or for a missing file, removes all
directories moved aside but the newest, which by then is another. No crash is
needed (the run allows none). The conflict files of a copy without a marker stay in the
directory and go the same way with it. What does hold of these edits is in
`CopiesMoveForward` (a part of AgentsAreKept), that the publication which replaces them leaves them in the
directory moved aside last, and in `EditsAreTakenUp`, that an edit is only taken out of
a directory because another edit of the same revision came first.

### Disagreements that have no run

Further disagreements with a comment, a test's name or an assertion are stated as
properties and can be seen by checking them with the constants given; the listed runs
use constants under which the rest of the component is checked.

| Module, property | Constants | What the code does |
|---|---|---|
| SessionLog, `CorrelationImposesNoUniqueness` | any | A second observation without a key in one Turn fails, because its correlation id becomes its unique key, although the comment at `mews-store/src/sessions.rs:2206` says correlation must not impose uniqueness (`sessions.rs:2208`). |
| AcpSession, `HistoryReachesTheHarness` | any, `MaxTurns` at least 2 | A new Harness session gets the prompt alone, not the history of the native Turns before it (`mews-acp/src/session.rs:1601`). And from four Turns on: `HistoryDiverged` (`mews-protocol/src/domain/sessions.rs:49`) is decided from the Harness of the previous Turn (`mews/src/app/acp.rs:94`), which is recorded before that Turn has replaced anything; when it ends before it binds, the next Turn resumes the session that missed the native Turn. |
| AcpSession, `ResumedSessionsHaveTheirContext` | a Harness with `"FirstPrompt"` | `ContextDispatched` is stored before the prompt that carries the context is written; a crash in between leaves a binding that is resumed without its instructions (`mews-acp/src/session.rs:1655`). |
| AcpSession, `CancelledIsUncertainOnlyAfterDispatch` | any | `prompt_dispatched` is constantly true, so a Turn cancelled before its process started is settled as uncertain (`mews/src/app/turns.rs:507`). |
| AcpSession, `CertainEffectsAreKnown` | `TelemetryMayFail = TRUE` | An error of persisting a hook's outcome replaces the Turn's result and with it the mark of uncertainty (`mews-acp/src/session.rs:1123`). |
| AcpSession, `PermissionsAreRefused` | `Offers` with an allowing option | The only permission handler allows what it is asked; the comment of `rpc.rs:243` says requests are answered conservatively (`permissions.rs:59`). |
| ToolProcess, `GroupDiesWithTheCall` | `MayFork = TRUE` | Once the leader has been reaped its id is gone, and a descendant that keeps the output open survives timeout, cancellation and drop (`mews-host/src/tools/process.rs:33`), although the comment at `:26` says that dropping a tool must also stop descendants. After a success, a descendant that redirected its output lives on as well. |
| McpBridge, `UncertaintyReachesTheTurn` with `unknown = {}` for `unknown \subseteq abandoned` | any | The prompt loop drops an extension call in flight when the Harness writes a line: its effect has no outcome and nothing is uncertain (`mews-acp/src/rpc.rs:182`). The property as it is checked and proved excepts these calls. |
| HostLink, `AbandonedToolsStop` | `Detached = TRUE` | The detached dispatch task starts tools that nothing can cancel any more (`mews/src/host/joined.rs:144`). |
| RemoteTurn, `EffectsTellTheTruth` | `Uncertain = TRUE` | The mark of an uncertain effect is lost on the link, and the effect is stored as failed (`mews-host/src/lifecycle.rs:522`). |
| PeerBridge, `LinkSurvives` | a script with a message of two chunks | A `select!` that another branch wins drops the assembled chunks, and the next chunk ends the link (`mews-transport/src/lib.rs:275`). |
| PeerBridge, `EverythingIsDelivered` | `Frames`, `Socket`, `Queue` smaller than the scripts | With both channels full the bridge and the network task wait for each other (`mews-relay/src/network.rs:165`). |
| RelayPairing, `StaysPaired` | a Hub that restarts | The Host does not notice that its Hub is gone while heartbeats are forwarded to the new connection (`mews-transport/src/lib.rs:262`). |
| AgentSync, `ResourcesCarried` | `MaxCrashes = 1` | A crash between the two renames leaves no directory, and the next synchronisation publishes one without skills and extensions (`mews-host/src/lifecycle.rs:997`). |
| AgentCommands, `CopiesFollowTheTable` | `MaxFaults = 1` | The rollback of a rename keeps the receipt; the retry replays it and moves the directory alone (`mews/src/app/agents.rs:47`). |
| AgentCommands, `NoPhantomRefusal` | a renaming client in `Proxied` | The proxy gives each attempt a new id, so the retry of what succeeded is refused (`mews/src/host/client_proxy.rs:99`). |
| AgentCommands, `phantom = {}` for `NoPhantomRefusal` | any | A creation that is retried after its answer was lost is refused when the Agent was edited in between: the directory is looked at before the receipt (`mews/src/app/agents.rs:95`). The property as it is checked excepts these creations. |
| Enrollment, `RemovedIsUnlisted` | any | A connection made while its Host is removed is listed afterwards and stays (`mews/src/host/hub_link.rs:57`). |
| ProviderStream, `OnlyLargeEventsAreRefused` | a body with an event of exactly `MaxEvent` | An event of the limit is refused or accepted depending on where its delimiter was cut (`mews-router/src/providers/openai.rs:340`). |

## Proofs

Eight modules hold theorems about nineteen components, for every value of their
constants. Each component has an inductive invariant, `IInv` (in TurnStoreProofs
`IndInv`), whose conjuncts are named for what they say: `Init` implies it, every step
keeps it, one lemma or step per action, and the properties follow from it. The
strengthened invariants were checked by TLC on the instances of the runs before they
were proved.

Five of the modules go on, after the component they extend, to components that they
reach through an instance with the same constants and variables: `Pool`, `Process`,
`Registry`, `Remote`, `Bridge`, `Relay`, `Sync`, `Log`, `Lanes`, `Chat` and `Acp`. The definitions
and lemmas about one of them begin with the name of its instance, as in `PoolIInv`, and its theorem has
the component's assumption as a premise.

| Module | Proves | Because |
|---|---|---|
| TurnStoreProofs | every property of `turn_store`, EndedTurnIsFinal included | `IndInv` adds which effects may be open in a running Turn |
| TurnExecutionProofs | TypeOK, OneResultPerCall, CompletedMeansCertain, ModelSeesSettledHistory, TaskLeavesNoActiveTurn (if `~RequestsDrop`), ImplementsTurnStore | each Turn has an invariant of its own, and each step does one disciplined thing to the store |
| HubMoveProofs | TypeOK, NoSplitBrain, ArmedTargetFencesTheHub, AcknowledgedCommandsSurvive | exactly one Host has a claim to be the Hub, and its database is complete |
| EnrollmentProofs | EnrollmentIsExact, and that no Host is forgotten | the rows only grow, and the copy of a moving Hub is its table |
| HostLinkProofs | LinkIsHonest | a request is in one queue, or has begun, or was never sent |
| ProviderAuthProofs | CredentialsAreExact, UpdatesAreKept | it is known where the newest token of each login is |
| DeliveryProofs | EventsReachTheirConsumers, and that cursors never go back | what is owed is kept because cursors come from checkpoints, which cover what was given |
| McpBridgeProofs | BridgedCallsAreGated, AuthorityIsFixed | the log of a call has one of six forms |
| DeliveryProofs, `Pool` | PoolIsSound of AcpPool | a Turn is in one place, and a worker counts the jobs it has |
| DeliveryProofs, `Acp` | TypeOK, ContextGivenOnce, PromptsGoToTheBinding, ResumedHistoryIsContinuous and HooksArePaired of AcpSession, and CertainEffectsAreKnown and ResumedSessionsHaveTheirContext where they hold | the bound session has seen what was completed since it was bound, and a Turn that bound nothing continues the one before it |
| McpBridgeProofs, `Process` | ProcessesEndWithTheirCall of ToolProcess | what was written is in the pipe, in the result or dropped past the limit, and the call kills a group whose leader it has not reaped |
| McpBridgeProofs, `Registry` | ToolsRunAsOffered of HostTools | a generation is of one catalog |
| McpBridgeProofs, `Remote` | RemoteTurnsAreHonest of RemoteTurn | it is counted what of a Turn is on its way and what is stored |
| HostLinkProofs, `Bridge` | TypeOK and DeliveredIsAPrefix of PeerBridge | the frames under way continue each other |
| HostLinkProofs, `Relay` | TypeOK, OpenEndsAgree and OnlyItsOwnRoute of RelayPairing | a frame names the two attempts it is bound to |
| EnrollmentProofs, `Sync` | TypeOK, NoLostUpdate and CopiesMoveForward of AgentSync, and ResourcesCarried and EditsAreTakenUp until the first crash | a directory's marker names the revision its edits began from |
| EnrollmentProofs, `Log` | TypeOK, BranchesAreContextual, CompactionHidesOnlyThePast, RepeatedObservationsAccepted, EntryPagesAreComplete, HistoryPagesAreComplete and MessagesContinueTheBranch of SessionLog | an entry is appended to the leaf, which is contextual, and a compaction keeps an entry before it |
| ProviderAuthProofs, `Lanes` | TypeOK, OneAtATime, SettledInOrder and NoLaneForgotten of ChannelDelivery | the deliveries of a destination stand in one order, from settled to submitted |
| ProviderAuthProofs, `Chat` | TypeOK, WaitsForWhatComes, PendingHasAReason, AnswersCrossOnce and TurnsInOrder of ChannelRuntime | the events divide at a mark into those that were handled and those to come |

**TurnStore.** `IndInv` is the conjunction of the run's invariants with two facts.
`EffectsFollowTheirTurn`: an effect belongs to a Turn that exists, and a tool
execution of a *running* Turn that is no longer open has reported; without it
`close_orphan_tool_calls` could answer `did_not_start` for a call that was
dispatched. `RunningTurnHoldsReportsOnly`: the store writes results on its own behalf
only as a Turn ends; without it a step could complete a Turn that already holds an
`outcome_unknown`. `EndTurnsInv` is stated for a set of Turns, so that `FinishTurn`
(one Turn) and `RecoverInterruptedWork` (all active ones) both follow.

**TurnExecution.** `TurnInv(t)` says what the task of a Turn, its rows and its batch
of calls have to do with each other: where an error may have occurred, which effect
is in flight (`OpenInv`), that the calls of a batch are accepted, distinct and, from
the current one on, unanswered (`BatchInv`), and that without an error every call is
answered or still in the batch (`CertainInv`). A step of one Turn's task or request
changes nothing of another Turn (`StepSound`), and does to the store one of the
operations that `Disciplined` lists, with the condition under which the loop calls
it. That is the step of the refinement: `HubImplementsTurnStore` follows with the
instance of TurnStoreProofs, whose invariant is part of `IInv`, and so all theorems
about the store hold of the running Hub. `NoTurnIsAbandoned` needs `RequestInv`: a
Turn that its task has left to a cancel request is waited for by that request. Its
premise `~RequestsDrop` is about a constant of the model and is the difference between
the runs `harness` and `turn_execution_drop`: where requests may be
dropped, the property is false, as the second shows.

**HubMove.** That two Hosts never serve at once follows from what the files of all
Hosts say together. `StepsInv` relates a process's step to its role, fence and
journal; `NoncesInv` says that a nonce names one move of one Host to one target;
`TransferInv` and `StageInv` say what a transfer has left on the target. A Host has a
*claim* if its own files make it the Hub at a restart (`Held`), or if a database
prepared on it will be served (`Sent`: it holds the token, or its source has
journalled the move). `ClaimInv`, the heart of the argument, says that exactly one
Host has a claim and that what it holds has every acknowledged command. `HandoffInv`
keeps it over the step that passes the claim on: until the target is armed, the source
still has what it sent.

**Enrollment.** `Rows`: no two Hosts have the same invitation, and it is used.
`Asked` and `Told`: what a listener and a machine have learned names a row of that
machine. `CopyIsExact`: nothing changes in the table of a fenced Hub, so a machine
that joined before a move is a Host after it. `Grows`, an action property, says that
each step leaves every row where it is and a removed Host removed.

**HostLink.** `Queues`: a request is put into the channel once and is in one place of
it. `Begins` and `RepliesAreReal`: it has not begun before it was taken out, and a
reply is under way only from a request that has ended. `Learns`: a definite end is
learned only from such a reply. The lemmas about queues (append, tail, membership) are
stated once and used for both directions.

**ProviderAuth.** A refresh token is good once, so the invariant follows the newest
token of every login. A login belongs to one provider (`Sorted`, `AtHome`); a request
that holds one of its tokens holds it alone (`Alone`) and, unless an answer was lost,
knows the newest (`Knows`); otherwise the file has it (`Stored`). The provider's
refresh lock is held by the request that refreshes (`Keeper`). `Locked` says that what
a request has read under the lock of `auth.json` or `models.json` is still what the
file holds, from which `UpdatesAreKept` follows.

**Delivery.** `Owing` says who is owed an event, `Sequenced` that the sequences of
retained events differ and are at most the watermark, `Acknowledged` and `Handed` that
a checkpoint, whether acknowledged or still to be, covers only what the client was
given. RetainedUntilAcknowledged, NothingIsSkipped and NoLostWakeup support each other
and are proved together: pruning keeps what is owed because cursors come from
checkpoints, and a page covers its checkpoint because what is owed was kept. That a
page is the beginning of what is unread uses the least and greatest elements of sets
of sequences, which exist by well-founded induction over the naturals.

**McpBridge.** `Recorded` gives the log of a call at each of its steps, `Identified`
that it has the id it drew and a tool it was granted, `Fixed` that the snapshot is the
one the Turn began with. `Ended` and `Marked` say where an effect of unknown outcome
has left a trace: it is running, it was abandoned by the Harness, the bridge is
uncertain, or the prompt failed as a whole.

**AcpPool.** `PoolOnePlace`: a Turn is in one position of one queue or is the current
job of one worker. `PoolJobsOK` relates that place to the state of the job and to where
its caller stands, and `PoolEndsOK` says when its hooks have run, from which they run
once. `PoolWorkersOK`: a worker that is not up has an empty queue, `Shutdown` is the last
of what it accepted, and `pending` counts the Turns it holds, so that the idle timeout and
an eviction, which look at that number, never leave a job behind.

**AcpSession.** `AcpHistory` is the argument: counted from the last binding, the bound
session has seen every completed Turn of an ACP Harness, and a Turn that completed
without a binding of its own comes directly after a Turn of its Harness. So, if a resumed
session missed a Turn of another Harness, the first Turn of the session's Harness behind
that one cannot have completed, which is what the property says of it; that there is a
first one is well-founded induction over the naturals. `AcpBindings` and `AcpEffects`
carry what was decided at the start of the Turn (`AcpContinues`) to its end, and
`AcpSequenced` says that Turns are accepted one behind the other. `AcpCertain` and
`AcpGiven` are kept besides it under the premise of the property they are for: events of
hooks that persist, and Harnesses that are given their context when a session is created.

**ToolProcess.** `ProcessCounted` is the balance: while the call reads, what was written
is in the pipe, in the output or dropped, and is dropped only past a full limit. A
successful result was given when nothing was left in the pipe and no process held its
end. `ProcessDead` says what the end of a call does: the leader is dead, only the end of
a call has killed it, and a call that ends before the leader was reaped has killed its
whole group. Once it was reaped nothing can be promised of the group
(`GroupDiesWithTheCall` in the table above).

**HostTools.** `RegistryCopyOf`: the watcher's catalog and the Hub's have the registry's
generation only if they are the registry's. `RegistryCarries`: a call that was not
executed yet, and whose generation is still the current one, holds a tool of the current
catalog and the hooks of that catalog for its Agent. A reload makes the generation
differ, and `execute` refuses what is left of the earlier one.

**RemoteTurn.** Its queues are shared by Turns and its events overtake the reply, so the
invariant counts: `RemoteN(q, x)` is how often a queue holds `x`, and three lemmas say
what an append, a tail and a prefix do to that number. `RemoteStreamOK` balances the
events of a Turn, those stored and those in each of four queues, against those
emitted; nothing is missing while the link holds, or once a result is on it, because
behind a result there is no event of its Turn (`RemoteOrdered`). `RemoteTokensOK` and
`RemoteStoredOK` say that what the Hub acknowledges comes from a Turn that made its
session and that the binding names the session the Host works in, for which it is needed
that one Turn of a Session is under way (`RemoteExclusive`). `RemoteReplyOK` and
`RemoteCancelOK` say that an answer under way is how the Turn ended, and that while the
link holds a Turn is cancelled only for the Hub. `RemoteSound`: each session that a
binding, a request or a Turn refers to was made by a Turn, with the context noted beside
it. A step leaves the other Turns alone (`RemoteHubKeeps`, `RemoteHostStays`,
`RemoteQuietKeeps`).

**PeerBridge.** The frames to one end are those in eight places, from the channel of the
sender to the receiver's channel (`BridgeUnder`). `BridgeSequenced`: each continues the
frame before it, and the sender continues the last. `BridgeExpects`: the frame with the
sequence number that is expected next is one the assembly can take, or one it must refuse.
A chunk that was dropped with its assembly therefore ends the link; it never becomes a
part of another message. The theorem does not need channels that are large enough, nor
messages of one chunk.

**RelayPairing.** An attempt is named by the slots of both ends. `RelayOfTheHost` and
`RelayOfTheHub`: a frame of the later part of the handshake that names an end's attempt
names the peer that this end has accepted, and so does the other end's state.
`RelayNoneAfter` is what makes two open ends agree: once the Host has been confirmed by a
Hub's attempt, an attempt of the Hub that differs from it has not finished, and no frame
could let it. `RelayFresh`: a new attempt takes a slot that nothing names any more.

**AgentSync.** Numbers of definitions grow with the edits, so `SyncRevsOK` can say that
revisions are increasing and that each was made of the one before it. `SyncDirOK`: the
marker in a directory names a revision, and if it is the current one, what stands there
is that revision or an edit that began from it; `SyncFlowOK` says the same of what a task
has read and not yet used, and that what it sends replaces nothing newer: there the
refusal of `Newer` is needed, for a task that waited while another one published.
CopiesMoveForward follows from these for each publication. EditsAreTakenUp needs two more:
`SyncApart`, an edit of the Hub's copy that is not yet a revision is in no other copy, and
`SyncMarked`, what the Hub's copy holds is the revision of its marker or an edit of it.
A crash between the commit of an edit and its marker breaks the second, and one between
two renames loses skills and extensions (a disagreement listed above), so EditsAreTakenUp
and ResourcesCarried are proved up to the first crash (`crashes = 0`), which is the state
the code is in for as long as it runs. EditsSurvive is false, and no theorem states it.

**SessionLog.** The invariant has two layers. `LogIInv` adds little to the properties:
where the client that reads the entries stands (`LogPaged`). `LogUpsExist` shows that the
branch of an entry, a recursive function, exists, by the least entry that has none, and
needs that parents come before their children; `LogBranchIs` then says what it is.
`LogGrows`: one more entry under a contextual one keeps the timeline a tree of contextual
branches. Each step continues the branch it leaves (`LogContinues`), which gives
MessagesContinueTheBranch. `LogAInv` is about the active context: a boundary that was
looked up outside the transaction is still an entry when the compaction is recorded, so a
compaction keeps an entry before it (`LogKeptBefore`), on its branch or not. `LogInOrder`
says what ORDER BY sequence gives, by counting; `LogApplied` that a compacted branch then
has each entry from the boundary on, once, position by position (`LogAt`). For the pages of
messages, `LogMessagesGrow`: an entry that is not a compaction brings its messages behind
those of the branch it continues, because its parents' branch, their order, the boundary
and the blocks before it stay what they were. What the client has read is then still a
prefix (`LogFollowed`), and a page reads on from it.

**ChannelDelivery.** The deliveries of a destination are numbered as they are submitted.
`LanesInLane` and `LanesInChannel` say where each number is: first those that have
settled, then the one that is under way or set aside, then the lane, then what is still in
the channel. `LanesBusy`: a destination is active exactly as long as a delivery of it is
under way or set aside, so that a retry keeps the deliveries behind it waiting.
`LanesPermitted` balances the permits: what was submitted and has not settled holds one.
`LanesRemembered` and `LanesWaits`: a lane that holds something is active or ready, and
the dispatcher waits only when nothing is ready or every worker is busy.

**ChannelRuntime.** `ChatMark` divides the Hub's events: those up to it were handled, or
were lost to a crash between the acknowledgement of a batch and its handling, and the
batch in hand (`ChatBatched`) is what follows it. `ChatOnce`: the events of a Turn exist
once, and after it has ended; with `ChatCrossed`, what has crossed was handled, an answer
cannot cross twice. `ChatFollowed`: the end of a Turn that is active, or about to become
active, is behind the mark, or the recovery has still to look at the Turn; it rests on
`ChatReached`, the process is subscribed to every mapped Session, without which the event
would never come. `ChatWaited`: a pending message has an active Turn before it, or the
process is on its way to launch it. The order of the Turns follows from `ChatStored` and
`ChatQueued`: a stored message without a Turn is pending, in the order of storing, and
the oldest of its conversation is launched.

**Assumptions.** The theorems rest on the named assumptions of the modules that
declare the constants, which TLC evaluates in the runs: bounds are natural numbers
(positive where the code divides a capacity or a page), special values such as `None`
are not identifiers, `Invitations`, `Calls`, `Providers` and a Host's native tools are
finite, tools are requests, skill tools are not the Host's. A link of PeerBridge has two
ends and messages of at most six chunks, each Turn of RemoteTurn is of one Session, and
each message of ChannelRuntime of one conversation.
The bounds on steps, faults and moves appear in guards only and are not assumed to be of
any size.

**Only model-checked.** Liveness under fairness (`HarnessProgress`, `LinksProgress`,
`FleetProgress`, `EdgesProgress`) and ENABLED are beyond the prover. So are the induction theorems of the
library, whose parameter is an operator: what a recursive definition computes can be
proved only by an argument made for it, as for the branches and histories of SessionLog.
None was made for the scans of JournalFeed (StreamsAreExact) and ProviderStream, which are
written with folds, and are checked on bounded inputs. Some properties
hold only of the instance they are checked on, and the disagreements above say why:
`LinkSurvives` of PeerBridge (messages of one chunk), `NoPhantomRefusal` and
`CopiesFollowTheTable` of AgentCommands (the clients and crashes of its parts).

The suites state PoolIsSound, ProcessesEndWithTheirCall, ToolsRunAsOffered,
RemoteTurnsAreHonest, BindingsAreSound, MessagesContinueTheBranch and the parts of
TimelineIsSound, RelayedLinksAreSound, AgentsAreKept and ChannelsAreExact for the instances
of their parts; the theorems about `Pool`, `Process`, `Registry`, `Remote`, `Bridge`,
`Relay`, `Sync`, `Log`, `Lanes`, `Chat` and `Acp` state them for every instance.

Five models were corrected by an attempt to prove them. `StartHook` of TurnExecution
could start the hook of a tool when the batch had no call left; the bridge's uncertainty was stated only
for a Harness that is silent, which no program ensures, and is now stated for every
Harness up to `abandoned`; the gate of the bridge compared ids alone, where the
code compares the tool and the catalog as well; and `LaunchTurn` of RemoteTurn compared
the Host's context with the one the Hub had stored at that moment, where the code
compares it with the one that came with the request (`stored`), read when the Turn began.
ResumedHistoryIsContinuous of AcpSession said that a resumed session has seen every Turn
completed since its binding, which holds of three Turns and fails of four: the Harness of
a Turn is recorded before the Turn replaces the session, so a Turn that ends early makes
the next one resume a session that missed a Turn of another Harness. The property now
names that case, and the model has the Turns that end before their Harness is recorded.

Three were restated so that they could be reasoned about, and mean what they meant:
`Waiting` and TurnsInOrder of ChannelRuntime speak of positions in a queue where they
selected subsequences, and the account of permits in the TypeOK of ChannelDelivery
counts the deliveries there are, without a bound of the run; and `BySequence` of SessionLog
says by counting what it said with a sorting operator of which the prover knows nothing.

## Plan

1. The scan of JournalFeed: an invariant that says what a page of the scan holds, from
   which StreamsAreExact would follow.
2. An abstract link that delivers each message once and in order, which PeerBridge
   implements, with HostLink over it instead of its own channels.

## Not modelled

* Wire formats, the translation of histories and responses to each provider's JSON,
  the normalisation of Harness updates, the CLI, the TUI and the protocol's types:
  they translate or present and keep no state a property could be about.
* Cryptography is taken as given: Noise, signatures and keys are modelled by what
  they guarantee.
* File permissions, discovery of skills, file semantics of the read, write and edit
  tools, device and browser logins, the creation of Sessions and their model
  override, settings of providers.
* The relay's limit on connections and lists of several relay candidates; signed
  admissions.
* A Channel's attach, its choice of a Host and its negotiation of capabilities, and
  the abort of queued deliveries by a shutdown.
* SQLite I/O errors and a full disk: a transaction commits or the process stops.

`PROJECT.json` says for each component what its modules cover.
