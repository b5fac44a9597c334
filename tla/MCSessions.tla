----------------------------- MODULE MCSessions -----------------------------
(***************************************************************************)
(* Delivery, with instances of SessionLog, AcpSession, AcpPool and         *)
(* HostTools, for TLC: what a Session records, what its clients are given  *)
(* of it, and the Harness sessions, processes and tools its Turns use. The *)
(* components share no state, so a behaviour is about one of them, the one *)
(* "part" names, and the others rest in their initial states.              *)
(***************************************************************************)
EXTENDS Delivery, TLC

CONSTANTS
  k1,   \* an idempotency key
  NoOne   \* no Turn, no worker

VARIABLES
  part,   \* the component this behaviour is about
  log_entries, log_leaf, log_turn, log_running, log_intent, log_refused, log_page,
  log_history, pair_events, pair_watermark, pair_active, pair_consumer, pair_subs,
  pair_quiet, pair_poll, pair_batch, pair_acks, pair_owed, pair_received, acp_config,
  acp_changes, acp_binding, acp_bound, acp_turns, acp_current, acp_run, acp_world,
  pool_nextGeneration, pool_workers, pool_bindings, pool_lock, pool_callers,
  pool_jobState, pool_cancelled, pool_turnEnds, tools_disk, tools_edits,
  tools_registry, tools_fingerprint, tools_watcher, tools_catalog, tools_hub,
  tools_calls

logVars ==
  <<log_entries, log_leaf, log_turn, log_running, log_intent, log_refused, log_page,
    log_history>>
dlvVars == vars
pairVars ==
  <<pair_events, pair_watermark, pair_active, pair_consumer, pair_subs, pair_quiet,
    pair_poll, pair_batch, pair_acks, pair_owed, pair_received>>
acpVars ==
  <<acp_config, acp_changes, acp_binding, acp_bound, acp_turns, acp_current, acp_run,
    acp_world>>
poolVars ==
  <<pool_nextGeneration, pool_workers, pool_bindings, pool_lock, pool_callers,
    pool_jobState, pool_cancelled, pool_turnEnds>>
toolsVars ==
  <<tools_disk, tools_edits, tools_registry, tools_fingerprint, tools_watcher,
    tools_catalog, tools_hub, tools_calls>>

\* The launch fingerprints of the pool's Turns.
Fingerprint == ("t1" :> "f1") @@ ("t2" :> "f1") @@ ("t3" :> "f2")

\* Four entries of two Turns, and nobody who pages.
Log == INSTANCE SessionLog WITH
  MaxEntries <- 4, MaxTurns <- 2, Keys <- {k1}, Limit <- 2, Readers <- {},
  entries <- log_entries, leaf <- log_leaf, turn <- log_turn, running <- log_running,
  intent <- log_intent, refused <- log_refused, page <- log_page,
  history <- log_history

\* A Session with three entries that two clients read page by page.
Paging == INSTANCE SessionLog WITH
  MaxEntries <- 3, MaxTurns <- 1, Keys <- {}, Limit <- 2,
  Readers <- {"entries", "messages"},
  entries <- log_entries, leaf <- log_leaf, turn <- log_turn, running <- log_running,
  intent <- log_intent, refused <- log_refused, page <- log_page,
  history <- log_history

\* A durable and an ephemeral consumer of one event.
Events == INSTANCE Delivery WITH
  Sessions <- {"s1"}, Consumers <- {"c1", "c2"}, Durable <- {"c1"}, MaxSeq <- 1,
  Limit <- 1,
  events <- pair_events, watermark <- pair_watermark, active <- pair_active,
  consumer <- pair_consumer, subs <- pair_subs, quiet <- pair_quiet,
  poll <- pair_poll, batch <- pair_batch, acks <- pair_acks, owed <- pair_owed,
  received <- pair_received

\* Four Turns, the native Harness's among them, and a Harness that gets its context with
\* the first prompt.
Acp == INSTANCE AcpSession WITH
  Harnesses <- {"h1"}, Channel <- ("h1" :> "FirstPrompt"), NativeHarness <- "mews",
  NoHarness <- None, MaxTurns <- 4, MaxSessions <- 2, MaxChanges <- 0, Offers <- {},
  TelemetryMayFail <- FALSE,
  config <- acp_config, changes <- acp_changes, binding <- acp_binding,
  bound <- acp_bound, turns <- acp_turns, current <- acp_current, run <- acp_run,
  world <- acp_world

\* Two Harnesses that get their context when a session is created.
Channels == INSTANCE AcpSession WITH
  Harnesses <- {"h1", "h2"},
  Channel <- ("h1" :> "CodexDeveloper") @@ ("h2" :> "ClaudeSystemAppend"),
  NativeHarness <- "mews", NoHarness <- None, MaxTurns <- 2, MaxSessions <- 3,
  MaxChanges <- 1, Offers <- {{"AllowOnce", "RejectOnce"}, {"RejectOnce"}},
  TelemetryMayFail <- FALSE,
  config <- acp_config, changes <- acp_changes, binding <- acp_binding,
  bound <- acp_bound, turns <- acp_turns, current <- acp_current, run <- acp_run,
  world <- acp_world

\* Two Turns of different fingerprints compete for one process.
Pool == INSTANCE AcpPool WITH
  Turns <- {"t1", "t3"}, Fingerprints <- {"f1", "f2"}, Fingerprint <- Fingerprint,
  SessionKey <- [t \in {"t1", "t3"} |-> "s1"], MaxPerFingerprint <- 1, MaxTotal <- 1,
  MaxGenerations <- 3, Cancellable <- {"t1"}, Droppable <- {"t3"},
  nextGeneration <- pool_nextGeneration, workers <- pool_workers,
  bindings <- pool_bindings, lock <- pool_lock, callers <- pool_callers,
  jobState <- pool_jobState, cancelled <- pool_cancelled, turnEnds <- pool_turnEnds

\* Two of three Turns share a fingerprint, and so a process.
Queue == INSTANCE AcpPool WITH
  Turns <- {"t1", "t2", "t3"}, Fingerprints <- {"f1", "f2"},
  Fingerprint <- Fingerprint,
  SessionKey <- ("t1" :> "s1") @@ ("t2" :> "s2") @@ ("t3" :> "s1"),
  MaxPerFingerprint <- 1, MaxTotal <- 2, MaxGenerations <- 2, Cancellable <- {},
  Droppable <- {},
  nextGeneration <- pool_nextGeneration, workers <- pool_workers,
  bindings <- pool_bindings, lock <- pool_lock, callers <- pool_callers,
  jobState <- pool_jobState, cancelled <- pool_cancelled, turnEnds <- pool_turnEnds

\* Two Agents with extensions, one native tool, one call and two edits.
Tools == INSTANCE HostTools WITH
  Agents <- {"a1", "a2"}, Names <- {"grep"}, Native <- {"read"}, Calls <- {"c1"},
  Nothing <- None, MaxEdits <- 2,
  disk <- tools_disk, edits <- tools_edits, registry <- tools_registry,
  fingerprint <- tools_fingerprint, watcher <- tools_watcher,
  catalog <- tools_catalog, hub <- tools_hub, calls <- tools_calls

ASSUME Log!BoundsAssumption /\ Log!ReadersAssumption
ASSUME Paging!BoundsAssumption /\ Paging!ReadersAssumption
ASSUME Events!BoundsAssumption /\ Events!ConsumersAssumption /\ Events!NoneAssumption
ASSUME Acp!ChannelsAssumption /\ Channels!ChannelsAssumption
ASSUME Pool!LimitsAssumption /\ Queue!LimitsAssumption
ASSUME Tools!ToolsAssumption

SessionsInit ==
  /\ part \in {"log", "pages", "consumers", "sessions", "acp", "channels", "pool", "queue",
              "tools"}
  /\ Log!Init /\ Tools!Init
  /\ Init /\ Events!Init
  /\ IF part = "channels" THEN Channels!Init ELSE Acp!Init
  /\ part \notin {"acp", "channels"} => acp_config.harness = "h1"
  /\ IF part = "queue" THEN Queue!Init ELSE Pool!Init

\* Only the component the behaviour is about takes steps.
SessionsNext ==
  /\ UNCHANGED part
  /\ \/ part = "log" /\ Log!Next /\ UNCHANGED <<dlvVars, pairVars, acpVars, poolVars, toolsVars>>
     \/ part = "pages" /\ Paging!Next /\ UNCHANGED <<dlvVars, pairVars, acpVars, poolVars, toolsVars>>
     \/ part = "sessions" /\ Next /\ UNCHANGED <<logVars, pairVars, acpVars, poolVars, toolsVars>>
     \/ part = "consumers" /\ Events!Next /\ UNCHANGED <<logVars, dlvVars, acpVars, poolVars, toolsVars>>
     \/ part = "acp" /\ Acp!Next /\ UNCHANGED <<logVars, dlvVars, pairVars, poolVars, toolsVars>>
     \/ part = "channels" /\ Channels!Next /\ UNCHANGED <<logVars, dlvVars, pairVars, poolVars, toolsVars>>
     \/ part = "pool" /\ Pool!Next /\ UNCHANGED <<logVars, dlvVars, pairVars, acpVars, toolsVars>>
     \/ part = "queue" /\ Queue!Next /\ UNCHANGED <<logVars, dlvVars, pairVars, acpVars, toolsVars>>
     \/ part = "tools" /\ Tools!Next /\ UNCHANGED <<logVars, dlvVars, pairVars, acpVars, poolVars>>

SessionsSpec == SessionsInit /\ [][SessionsNext]_<<part, logVars, dlvVars, pairVars, acpVars, poolVars, toolsVars>>

--------------------
(* Properties.                                                             *)

\* The timeline of a Session stays sound (mews-store/src/sessions.rs): no branch runs
\* through a side entry, a compaction hides only what lies before its boundary also
\* when the branch was changed between its check and its append, and an observation
\* that was recorded before is accepted as done. A client that follows the cursors of
\* session_entries_page or of active_messages_page reads every item once and in order,
\* however writers and page limits cut the pages, as long as its branch only grows. And
\* what a Session emits reaches a durable and an ephemeral consumer of its events, each
\* at its own pace (mews-store/src/delivery.rs).
TimelineIsSound ==
  /\ part = "log" =>
       /\ Log!TypeOK
       /\ Log!BranchesAreContextual
       /\ Log!CompactionHidesOnlyThePast
       /\ Log!RepeatedObservationsAccepted
  /\ part = "pages" => Paging!EntryPagesAreComplete /\ Paging!HistoryPagesAreComplete
  /\ part = "consumers" => Events!EventsReachTheirConsumers

\* A message appended by a caller that read the leaf before its transaction
\* (append_message) continues the branch that is active when it commits.
MessagesContinueTheBranch == Log!MessagesContinueTheBranch

\* The binding of a Session to its Harness session survives Turns, changes of Harness,
\* lost sessions and crashes (mews-acp/src/session.rs): a Harness session is given the
\* instruction context once, is prompted only while it is the one the Hub has stored,
\* and is resumed only if it has seen every Turn completed since it was bound, but for
\* those of another Harness whose replacement ended early; an effect that counts as
\* settled is, and the hooks of a Turn are paired.
BindingsAreSound ==
  /\ part = "acp" =>
       /\ Acp!TypeOK
       /\ Acp!ContextGivenOnce /\ Acp!PromptsGoToTheBinding
       /\ Acp!ResumedHistoryIsContinuous
       /\ Acp!CertainEffectsAreKnown /\ Acp!HooksArePaired
  /\ part = "channels" =>
       /\ Channels!ContextGivenOnce /\ Channels!PromptsGoToTheBinding
       /\ Channels!ResumedHistoryIsContinuous
       /\ Channels!CertainEffectsAreKnown /\ Channels!HooksArePaired
       /\ Channels!ResumedSessionsHaveTheirContext

\* However callers, evictions and idle timeouts interleave (mews-acp/src/session.rs), the
\* pool keeps its limits, a job that a worker accepted is not left behind by a thread
\* that has gone, and a Turn's turn_end hooks run once.
PoolIsSound ==
  /\ part = "pool" => Pool!PoolIsSound
  /\ part = "queue" => Queue!PoolIsSound

\* A call runs the definition its arguments were validated against, and passes the
\* hooks of the very catalog that definition came from, however the extension files are
\* edited and reloaded between the offer and the execution (mews-host/src/tools).
ToolsRunAsOffered ==
  part = "tools" => Tools!ToolsRunAsOffered
=============================================================================
