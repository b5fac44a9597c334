----------------------------- MODULE MCHarness -----------------------------
(***************************************************************************)
(* McpBridge, with instances of TurnExecution, ToolProcess, AcpPool and    *)
(* HostTools, for TLC: the task that runs a Turn, which keeps the rules of *)
(* TurnStore, the bridge through which a Harness uses the Host's tools,    *)
(* the processes those tools run in, and what the pool and the watcher of  *)
(* the extension files owe a Turn. The components share no state, so a     *)
(* behaviour is about one of them, the one "part" names, and the others    *)
(* rest in their initial states. Fairness is that of the component, and    *)
(* stands in the properties.                                               *)
(***************************************************************************)
EXTENDS McpBridge, Integers, TLC

CONSTANTS
  NoOne,   \* no Turn, no worker
  None   \* no tool, no catalog

VARIABLES
  part,   \* the component this behaviour is about
  task_hub, task_turn, task_receipt, task_effect, task_requested, task_results,
  task_task, task_registered, task_token, task_waiting, lock_hub, lock_turn,
  lock_receipt, lock_effect, lock_requested, lock_results, lock_task,
  lock_registered, lock_token, lock_waiting, proc_leader, proc_waited,
  proc_descendants, proc_pipe, proc_written, proc_output, proc_discarded, proc_input,
  proc_call, proc_result, proc_cancelled, pool_nextGeneration, pool_workers,
  pool_bindings, pool_lock, pool_callers, pool_jobState, pool_cancelled,
  pool_turnEnds, tools_disk, tools_edits, tools_registry, tools_fingerprint,
  tools_watcher, tools_catalog, tools_hub, tools_calls

taskVars ==
  <<task_hub, task_turn, task_receipt, task_effect, task_requested, task_results,
    task_task, task_registered, task_token, task_waiting>>
lockVars ==
  <<lock_hub, lock_turn, lock_receipt, lock_effect, lock_requested, lock_results,
    lock_task, lock_registered, lock_token, lock_waiting>>
mcpVars == vars
procVars ==
  <<proc_leader, proc_waited, proc_descendants, proc_pipe, proc_written, proc_output,
    proc_discarded, proc_input, proc_call, proc_result, proc_cancelled>>
poolVars ==
  <<pool_nextGeneration, pool_workers, pool_bindings, pool_lock, pool_callers,
    pool_jobState, pool_cancelled, pool_turnEnds>>
toolsVars ==
  <<tools_disk, tools_edits, tools_registry, tools_fingerprint, tools_watcher,
    tools_catalog, tools_hub, tools_calls>>

\* One Turn with a tool, whose requests are answered.
Task == INSTANCE TurnExecution WITH
  Sessions <- {"s1"}, Keys <- {"k1"}, Requests <- {"q1"}, Turns <- {"t1"},
  Calls <- {"c1"}, Harnesses <- {"mews"}, Modes <- {"sequential", "parallel"},
  MaxSteps <- 2, RequestsDrop <- FALSE, None <- None,
  hub <- task_hub, turn <- task_turn, receipt <- task_receipt, effect <- task_effect,
  requested <- task_requested, results <- task_results, task <- task_task,
  registered <- task_registered, token <- task_token, waiting <- task_waiting

\* The same for both kinds of Harness, with requests that are dropped.
Dropped == INSTANCE TurnExecution WITH
  Sessions <- {"s1"}, Keys <- {"k1"}, Requests <- {"q1"}, Turns <- {"t1"},
  Calls <- {"c1"}, Harnesses <- {"mews", "acp"}, Modes <- {"sequential", "parallel"},
  MaxSteps <- 2, RequestsDrop <- TRUE, None <- None,
  hub <- task_hub, turn <- task_turn, receipt <- task_receipt, effect <- task_effect,
  requested <- task_requested, results <- task_results, task <- task_task,
  registered <- task_registered, token <- task_token, waiting <- task_waiting

\* Two Turns that compete for the lock of their Session.
Lock == INSTANCE TurnExecution WITH
  Sessions <- {"s1"}, Keys <- {"k1", "k2"}, Requests <- {"q1"},
  Turns <- {"t1", "t2"}, Calls <- {}, Harnesses <- {"acp"}, Modes <- {"sequential"},
  MaxSteps <- 1, RequestsDrop <- FALSE, None <- None,
  hub <- lock_hub, turn <- lock_turn, receipt <- lock_receipt, effect <- lock_effect,
  requested <- lock_requested, results <- lock_results, task <- lock_task,
  registered <- lock_registered, token <- lock_token, waiting <- lock_waiting

\* An extension: it reads input, its output is refused past the limit, and it has no
\* descendants.
Extension == INSTANCE ToolProcess WITH
  MaxOutput <- 2, MaxWritten <- 4, MaxInput <- 2, Reject <- TRUE, MayFork <- FALSE,
  leader <- proc_leader, waited <- proc_waited, descendants <- proc_descendants,
  pipe <- proc_pipe, written <- proc_written, output <- proc_output,
  discarded <- proc_discarded, input <- proc_input, call <- proc_call,
  result <- proc_result, cancelled <- proc_cancelled

\* The bash tool: no input, truncated output, descendants.
Bash == INSTANCE ToolProcess WITH
  MaxOutput <- 2, MaxWritten <- 4, MaxInput <- 0, Reject <- FALSE, MayFork <- TRUE,
  leader <- proc_leader, waited <- proc_waited, descendants <- proc_descendants,
  pipe <- proc_pipe, written <- proc_written, output <- proc_output,
  discarded <- proc_discarded, input <- proc_input, call <- proc_call,
  result <- proc_result, cancelled <- proc_cancelled

\* Two Turns of different fingerprints compete for one process.
Pool == INSTANCE AcpPool WITH
  Turns <- {"t1", "t3"}, Fingerprints <- {"f1", "f2"},
  Fingerprint <- ("t1" :> "f1") @@ ("t3" :> "f2"),
  SessionKey <- [t \in {"t1", "t3"} |-> "s1"], MaxPerFingerprint <- 1, MaxTotal <- 1,
  MaxGenerations <- 3, Cancellable <- {"t1"}, Droppable <- {},
  nextGeneration <- pool_nextGeneration, workers <- pool_workers,
  bindings <- pool_bindings, lock <- pool_lock, callers <- pool_callers,
  jobState <- pool_jobState, cancelled <- pool_cancelled, turnEnds <- pool_turnEnds

\* Two Agents whose extensions are edited twice.
Registry == INSTANCE HostTools WITH
  Agents <- {"a1", "a2"}, Names <- {"grep"}, Native <- {"read"}, Calls <- {},
  Nothing <- None, MaxEdits <- 2,
  disk <- tools_disk, edits <- tools_edits, registry <- tools_registry,
  fingerprint <- tools_fingerprint, watcher <- tools_watcher,
  catalog <- tools_catalog, hub <- tools_hub, calls <- tools_calls

ASSUME Extension!ProcessAssumption /\ Bash!ProcessAssumption
ASSUME Pool!LimitsAssumption /\ Registry!ToolsAssumption

HarnessInit ==
  /\ part \in {"task", "dropped", "lock", "bridge", "extension", "bash", "pool", "tools"}
  /\ Task!Init /\ Lock!Init
  /\ Init
  /\ part # "bridge" => host.tools = {}
  /\ IF part = "bash" THEN Bash!Init ELSE Extension!Init
  /\ Pool!Init /\ Registry!Init

\* Only the component the behaviour is about takes steps.
HarnessNext ==
  /\ UNCHANGED part
  /\ \/ part = "task" /\ Task!Next /\ UNCHANGED <<lockVars, mcpVars, procVars, poolVars, toolsVars>>
     \/ part = "dropped" /\ Dropped!Next /\ UNCHANGED <<lockVars, mcpVars, procVars, poolVars, toolsVars>>
     \/ part = "lock" /\ Lock!Next /\ UNCHANGED <<taskVars, mcpVars, procVars, poolVars, toolsVars>>
     \/ part = "bridge" /\ Next /\ UNCHANGED <<taskVars, lockVars, procVars, poolVars, toolsVars>>
     \/ part = "extension" /\ Extension!Next /\ UNCHANGED <<taskVars, lockVars, mcpVars, poolVars, toolsVars>>
     \/ part = "bash" /\ Bash!Next /\ UNCHANGED <<taskVars, lockVars, mcpVars, poolVars, toolsVars>>
     \/ part = "pool" /\ Pool!Next /\ UNCHANGED <<taskVars, lockVars, mcpVars, procVars, toolsVars>>
     \/ part = "tools" /\ Registry!Next /\ UNCHANGED <<taskVars, lockVars, mcpVars, procVars, poolVars>>

HarnessSpec == HarnessInit /\ [][HarnessNext]_<<part, taskVars, lockVars, mcpVars, procVars, poolVars, toolsVars>>

\* The fairness of each component, for the behaviours that are about it.
TaskRuns ==
  /\ WF_taskVars(part = "task" /\ Task!SpawnTask("t1")) /\ WF_taskVars(part = "task" /\ Task!TaskStep("t1"))
  /\ WF_taskVars(part = "task" /\ Task!CancelTurnEnds("t1"))
  /\ WF_taskVars(part = "task" /\ Task!Recover)

LockRuns ==
  /\ \A t \in {"t1", "t2"} :
       /\ WF_lockVars(part = "lock" /\ Lock!SpawnTask(t)) /\ WF_lockVars(part = "lock" /\ Lock!TaskStep(t))
       /\ WF_lockVars(part = "lock" /\ Lock!CancelTurnEnds(t))
  /\ WF_lockVars(part = "lock" /\ Lock!Recover)

PoolRuns ==
  /\ \A t \in {"t1", "t3"} : WF_poolVars(part = "pool" /\ Pool!CallerStep(t))
  /\ \A g \in 1..3 : WF_poolVars(part = "pool" /\ Pool!WorkerStep(g))

BridgeRuns ==
  WF_vars(part = "bridge" /\ PromptEnds) /\ WF_vars(part = "bridge" /\ Revoke)

ExtensionRuns == WF_procVars(part = "extension" /\ Extension!Operation)

BashRuns == WF_procVars(part = "bash" /\ Bash!Operation)

ToolsRun ==
  WF_toolsVars(part = "tools" /\ Registry!Watch) /\ WF_toolsVars(part = "tools" /\ Registry!CatalogChanged)

--------------------
(* Properties.                                                             *)

\* A tool's process and its call (mews-host/src/tools/process.rs): a successful result is
\* of a leader that exited and holds everything its group wrote into the pipes, but for
\* what bash drops past the limit; nothing is kept past the limit; and when the call is
\* over, however it ended, the leader is dead, and with it the whole group if its exit
\* had not been collected yet.
ProcessesEndWithTheirCall ==
  /\ part = "extension" => Extension!ProcessesEndWithTheirCall
  /\ part = "bash" => Bash!ProcessesEndWithTheirCall

\* No Turn is left without a task that would end it, whichever of its two owners the
\* cancellation, the lock of the Session or an error of the setup leaves it to
\* (mews/src/server/active_turns.rs), as long as no request is dropped.
TaskLeavesNoActiveTurn ==
  /\ part = "task" => Task!TaskLeavesNoActiveTurn
  /\ part = "lock" => Lock!TaskLeavesNoActiveTurn

\* What the task of a Turn does with the database is what TurnStore allows.
ImplementsTurnStore == Dropped!ImplementsTurnStore

\* What a Turn waits for comes: a spawned Turn ends (mews/src/app/turns.rs), the pool
\* answers every Turn, the bridge's capability is revoked (mews-acp/src), a tool's call
\* ends although its process may not, and edits of extension files reach the Hub's
\* catalog (mews-host/src/tools).
HarnessProgress ==
  /\ part = "task" => (TaskRuns => Task!SpawnedTurnEnds)
  /\ part = "lock" => (LockRuns => Lock!SpawnedTurnEnds)
  /\ part = "pool" => (PoolRuns => Pool!EveryTurnIsAnswered)
  /\ part = "bridge" => (BridgeRuns => CapabilityIsRevoked)
  /\ part = "extension" => (ExtensionRuns => Extension!EveryCallEnds)
  /\ part = "bash" => (BashRuns => Bash!EveryCallEnds)
  /\ part = "tools" => (ToolsRun => Registry!EditsAreServed)
=============================================================================
