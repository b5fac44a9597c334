--------------------------- MODULE TurnExecution ---------------------------
(***************************************************************************)
(* What runs a Turn: the StartTurn and CancelTurn handlers of the Hub, the *)
(* task spawned for each accepted Turn, the native harness with its hooks, *)
(* model/tool loop and tool batches, the ACP harness, and the guards that  *)
(* end a Turn when its task stops early. Everything durable happens in     *)
(* TurnStore, whose actions are used here as they are.                     *)
(*                                                                         *)
(* The Hub runs all tasks on one thread, so a task is interrupted only     *)
(* where it awaits; a crash may separate any two transactions. A step of a *)
(* task is at most one transaction. What a hook, a provider, a tool or an  *)
(* external agent answers is a free choice. A store operation fails only   *)
(* because the Turn has ended.                                             *)
(***************************************************************************)
EXTENDS Naturals, Sequences, SequencesExt, FiniteSets

CONSTANTS
    Sessions, Keys, Requests, Turns, Calls,
    Harnesses,     \* "mews" is the native harness, any other is an ACP harness
    Modes,         \* tool_execution settings in use: "sequential", "parallel"
    MaxSteps,      \* AgentLoopConfig.max_steps
    RequestsDrop,  \* may a request be dropped when its connection is lost
    None

ASSUME CallsAssumption == IsFiniteSet(Calls)
ASSUME ModesAssumption == Modes # {}
ASSUME MaxStepsAssumption == MaxSteps \in Nat \ {0}

VARIABLES
    hub, turn, receipt, effect, requested, results,  \* see TurnStore
    task,        \* the task of each Turn, and the loop it runs
    registered,  \* HubControl.turn_tasks has an entry for the Turn
    token,       \* the Turn's CancellationToken has fired
    waiting      \* a CancelTurn request waits for the task to finish

store == <<hub, turn, receipt, effect, requested, results>>
requests == <<registered, token, waiting>>
vars == <<store, task, requests>>

\* Effects a Turn can have: two hooks around it, one replay, three per step and
\* three per call.
MaxOps == 3 + 3 * MaxSteps + 3 * Cardinality(Calls)
Ops == Turns \X (1 .. MaxOps)

\* The assumptions of TurnStore.
ASSUME NoneAssumption ==
    None \notin Sessions \cup Keys \cup Requests \cup Turns \cup Ops
                 \cup Calls \cup Harnesses
                 \cup {"success", "error", "uncertain", "did_not_start",
                       "outcome_unknown", "processing_interrupted"}
ASSUME NoReceiptAssumption == None \notin [request : Requests, turn : Turns]

Store == INSTANCE TurnStore WITH MaxResults <- 2

--------------------

Hooks == {"turn_start", "before_model", "before_tool", "after_tool",
          "after_step", "turn_end"}
NativeSteps == {"context", "step", "provider", "respond", "execute", "record",
                "finish"} \cup Hooks
AcpSteps == {"acp_schedule", "acp_mark", "acp_prompt", "acp_finish"}
\* The task holds the Session's lock.
Locked == {"setup", "leave"} \cup NativeSteps \cup AcpSteps

Outcomes == {"ok", "failed", "uncertain", "cancelled"}
Errors == {"none", "failed", "cancelled"}

\* A tool call of the current response: to be prepared or executed, executing,
\* completed with a result, or given up with an error.
Item == [call : Calls,
         state : {"new", "allowed", "running", "done", "failed", "cancelled"},
         result : Store!Reported \cup {None}]

Task == [pc : {"absent", "accepted", "dropped", "waiting", "gone"} \cup Locked,
         op : Ops \cup {None},       \* the effect in flight
         step : 1 .. MaxSteps,       \* of the model/tool loop
         mode : Modes,
         cursor : BOOLEAN,           \* the request continues a stored response
         batch : Seq(Item),          \* the calls of the current response
         item : Nat \ {0},           \* the call being prepared or recorded
         error : Errors]             \* the error the loop will return

NoTask(pc) == [pc |-> pc, op |-> None, step |-> 1, mode |-> CHOOSE m \in Modes : TRUE,
               cursor |-> FALSE, batch |-> <<>>, item |-> 1, error |-> "none"]

Init ==
    /\ Store!Init
    /\ task = [t \in Turns |-> NoTask("absent")]
    /\ registered = [t \in Turns |-> FALSE]
    /\ token = [t \in Turns |-> FALSE]
    /\ waiting = [t \in Turns |-> FALSE]

Active(t) == Store!Active(t)

At(t, pc) == hub = "up" /\ task[t].pc = pc

Goto(t, pc) == task' = [task EXCEPT ![t].pc = pc]

\* The loop stops with an error of kind e, unless it already has one, and goes on
\* at pc.
Fail(t, e, pc) ==
    task' = [task EXCEPT ![t].pc = pc, ![t].op = None,
                         ![t].error = IF @ = "none" THEN e ELSE @]

\* A fresh operation id, within the bound MaxOps.
NextOp(t) == <<t, 1 + Cardinality({o \in Ops : effect[o].turn = t})>>

\* finish_turn as its callers on the way out use it: a Turn that has ended is
\* left alone.
EndTurn(t, st) ==
    IF Active(t) THEN Store!FinishTurn(t, st) ELSE UNCHANGED store

\* The item of the batch the loop is at.
Current(t) == task[t].batch[task[t].item]
AtItem(t) == task[t].item <= Len(task[t].batch)

CancelledIf(b) == IF b THEN "cancelled" ELSE "failed"

--------------------
(***************************************************************************)
(* The requests of clients.                                                *)
(***************************************************************************)

\* start_turn, up to the commit that accepts the Turn.
StartTurn(s, k, r, t) ==
    /\ Store!AcceptTurn(s, k, r, t)
    /\ Goto(t, "accepted")
    /\ UNCHANGED requests

\* start_turn spawns the task and registers it under the lock of turn_tasks.
SpawnTask(t) ==
    /\ At(t, "accepted")
    /\ registered' = [registered EXCEPT ![t] = TRUE]
    /\ Goto(t, "waiting")
    /\ UNCHANGED <<store, token, waiting>>

\* The request is dropped while it waits for that lock, with its connection.
StartTurnDropped(t) ==
    /\ RequestsDrop
    /\ At(t, "accepted")
    /\ Goto(t, "dropped")
    /\ UNCHANGED <<store, requests>>

\* cancel_turn takes the task out of turn_tasks, fires the token and waits.
CancelTurn(t) ==
    /\ hub = "up"
    /\ registered[t]
    /\ registered' = [registered EXCEPT ![t] = FALSE]
    /\ token' = [token EXCEPT ![t] = TRUE]
    /\ waiting' = [waiting EXCEPT ![t] = TRUE]
    /\ UNCHANGED <<store, task>>

\* There is no task to take out: not yet, not any more, or another request has it.
CancelUnregisteredTurn(t) ==
    /\ hub = "up"
    /\ ~ registered[t]
    /\ Store!FinishTurn(t, "cancelled")
    /\ UNCHANGED <<task, requests>>

\* The task has finished or five seconds have passed: the task is aborted, never to
\* run again, and the Turn ended before anything else runs. What the guards of
\* the aborted task do later finds the Turn ended.
CancelTurnEnds(t) ==
    /\ hub = "up"
    /\ waiting[t]
    /\ waiting' = [waiting EXCEPT ![t] = FALSE]
    /\ EndTurn(t, "cancelled")
    /\ task' = [task EXCEPT ![t] = NoTask("gone")]
    /\ UNCHANGED <<registered, token>>

CancelTurnDropped(t) ==
    /\ RequestsDrop
    /\ hub = "up"
    /\ waiting[t]
    /\ waiting' = [waiting EXCEPT ![t] = FALSE]
    /\ UNCHANGED <<store, task, registered, token>>

--------------------
(***************************************************************************)
(* The task around the harness.                                            *)
(***************************************************************************)

\* Mutant of AcquireSessionLock: an aborted task keeps the lock.
AcquireUnabortedLock(t) ==
    /\ At(t, "waiting")
    /\ ~ \E u \in Turns : /\ task[u].pc \in Locked \cup {"gone"}
                          /\ turn[u].session = turn[t].session
    /\ Goto(t, "setup")
    /\ UNCHANGED <<store, requests>>

AcquireSessionLock(t) ==
    /\ At(t, "waiting")
    /\ ~ \E u \in Turns : /\ task[u].pc \in Locked
                          /\ turn[u].session = turn[t].session
    /\ Goto(t, "setup")
    /\ UNCHANGED <<store, requests>>

\* Mutant of SetupFailsEarly: the task forgets to fail the Turn.
SetupFailsSilently(t) ==
    /\ At(t, "setup")
    /\ Goto(t, "leave")
    /\ UNCHANGED <<store, requests>>

\* An error before the terminal guard exists: the store cannot be opened, or the
\* Session's Host has gone. The task fails the Turn unless it is cancelled, which
\* it leaves to the cancel request.
SetupFailsEarly(t) ==
    /\ At(t, "setup")
    /\ IF token[t] THEN UNCHANGED store ELSE EndTurn(t, "failed")
    /\ Goto(t, "leave")
    /\ UNCHANGED requests

\* execute_send gives up (no model, harness not published or not ready, Agent
\* gone): TurnTerminalGuard ends the Turn.
SetupFails(t) ==
    /\ At(t, "setup")
    /\ EndTurn(t, CancelledIf(token[t]))
    /\ Goto(t, "leave")
    /\ UNCHANGED requests

\* The harness is recorded, and takes over.
BeginTurn(t, h) ==
    /\ At(t, "setup")
    /\ Store!RecordTurnHarness(t, h)
    /\ \E m \in Modes :
         task' = [task EXCEPT ![t].pc = IF h = "mews" THEN "context" ELSE "acp_schedule",
                              ![t].mode = m]
    /\ UNCHANGED requests

\* The task leaves turn_tasks, wakes whoever waits for it and releases the lock.
LeaveTask(t) ==
    /\ At(t, "leave")
    /\ registered' = [registered EXCEPT ![t] = FALSE]
    /\ task' = [task EXCEPT ![t] = NoTask("gone")]
    /\ UNCHANGED <<store, token, waiting>>

--------------------
(***************************************************************************)
(* Lifecycle hooks. A hook is an effect: start_effect, the call to the     *)
(* Host, finish_effect.                                                    *)
(***************************************************************************)

\* The loop stands before a call that it will not hand to the before_tool hook.
Skips(t) ==
    /\ task[t].pc = "before_tool"
    /\ task[t].error # "none" \/ token[t]

\* start_effect of a hook or a provider call
StartsEffect(t) ==
    /\ task[t].op = None
    /\ NextOp(t) \in Ops
    /\ Store!StartEffect(t, NextOp(t))
    /\ task' = [task EXCEPT ![t].op = NextOp(t)]
    /\ UNCHANGED requests

StartHook(t) ==
    /\ hub = "up"
    /\ task[t].pc \in Hooks
    /\ task[t].pc \in {"before_tool", "after_tool"} => AtItem(t)
    /\ ~ Skips(t)
    /\ StartsEffect(t)

HookStatus(out) ==
    CASE out = "ok" -> "succeeded"
      [] out = "failed" -> "failed"
      [] OTHER -> "uncertain"

\* execute_hook_with_cancellation returns out to the loop. It fails if the Turn
\* has ended before the hook starts or before its success is recorded. turn_end
\* runs under a token of its own.
HookReturns(t, hook, out) ==
    /\ At(t, hook)
    /\ out = "cancelled" => token[t] /\ hook # "turn_end"
    /\ \/ /\ task[t].op = None
          /\ ~ Active(t)
          /\ ~ Skips(t)
          /\ out = "failed"
          /\ UNCHANGED store
       \/ /\ task[t].op # None
          /\ IF Active(t) THEN Store!FinishEffect(task[t].op, HookStatus(out))
                          ELSE out # "ok" /\ UNCHANGED store
    /\ UNCHANGED requests

--------------------
(***************************************************************************)
(* The native harness: execute_mews_turn and the model/tool loop.          *)
(***************************************************************************)

\* The Host's context snapshot. Without it the loop is not entered.
FetchContext(t) ==
    /\ At(t, "context")
    /\ Goto(t, "turn_start") \/ Fail(t, "failed", "finish")
    /\ UNCHANGED <<store, requests>>

TurnStarted(t) ==
    \E out \in Outcomes :
        /\ HookReturns(t, "turn_start", out)
        /\ IF out = "ok"
           THEN \E c \in BOOLEAN :
                  task' = [task EXCEPT ![t].pc = "step", ![t].op = None,
                                       ![t].cursor = c]
           ELSE Fail(t, CancelledIf(out = "cancelled"), "turn_end")

\* The head of the loop: cancellation, tool catalogue, steering messages.
BeginStep(t) ==
    /\ At(t, "step")
    /\ \/ token[t] /\ Fail(t, "cancelled", "turn_end")
       \/ ~ token[t] /\ Goto(t, "before_model")
       \/ Fail(t, "failed", "turn_end")
    /\ UNCHANGED <<store, requests>>

\* The hook's request may exceed the context budget or name an unknown tool.
BeforeModel(t) ==
    \E out \in Outcomes :
        /\ HookReturns(t, "before_model", out)
        /\ \/ /\ out = "ok"
              /\ task' = [task EXCEPT ![t].pc = "provider", ![t].op = None]
           \/ Fail(t, CancelledIf(out = "cancelled"), "turn_end")

\* start_provider_stream
StartProviderCall(t) ==
    /\ At(t, "provider")
    /\ task[t].op = None
    /\ \/ ~ token[t] /\ StartsEffect(t)
       \/ /\ token[t] \/ ~ Active(t)
          /\ Fail(t, CancelledIf(token[t]), "turn_end")
          /\ UNCHANGED <<store, requests>>

\* The provider call ends. It fails if the Turn has ended meanwhile.
ProviderEffectEnds(t, status) ==
    /\ At(t, "provider")
    /\ task[t].op # None
    /\ Active(t)
    /\ Store!FinishEffect(task[t].op, status)
    /\ UNCHANGED requests

\* provider_error_outcome: an error after which the model may or may not have
\* answered leaves the effect uncertain. The Turn's token or the provider cancels.
ProviderFails(t) ==
    \/ ProviderEffectEnds(t, "failed") /\ Fail(t, "failed", "turn_end")
    \/ ProviderEffectEnds(t, "uncertain")
       /\ \E e \in {"failed", "cancelled"} : Fail(t, e, "turn_end")
    \/ /\ At(t, "provider")
       /\ task[t].op # None
       /\ ~ Active(t)
       /\ Fail(t, "failed", "turn_end")
       /\ UNCHANGED <<store, requests>>

\* The provider rejects the cursor before it starts: one full replay.
CursorRejected(t) ==
    /\ task[t].cursor
    /\ ProviderEffectEnds(t, "failed")
    /\ task' = [task EXCEPT ![t].cursor = FALSE, ![t].op = None]

ProviderCompletes(t) ==
    /\ ProviderEffectEnds(t, "succeeded")
    /\ task' = [task EXCEPT ![t].pc = "respond", ![t].op = None,
                            ![t].cursor = FALSE]

NewBatch(cs) ==
    [i \in 1 .. Cardinality(cs) |->
        [call |-> SetToSeq(cs)[i], state |-> "new", result |-> None]]

\* Mutant of AcceptsResponse: call ids of earlier responses are not remembered.
AcceptsAnyResponse(t, cs) == TRUE

\* validate_tool_call_ids: no id of an earlier response of the Turn.
AcceptsResponse(t, cs) == cs \cap requested[t] = {}

\* Mutant of AppendResponse: the calls are executed without being recorded.
AppendResponseOnly(t) ==
    /\ At(t, "respond")
    /\ \/ \E cs \in SUBSET Calls :
            /\ AcceptsResponse(t, cs)
            /\ Active(t)
            /\ task' = [task EXCEPT ![t].pc = "before_tool", ![t].batch = NewBatch(cs),
                                    ![t].item = 1]
       \/ Fail(t, "failed", "turn_end")
    /\ UNCHANGED <<store, requests>>

\* The response and its calls become durable together. A response that is empty or
\* not acceptable ends the loop.
AppendResponse(t) ==
    /\ At(t, "respond")
    /\ \/ \E cs \in SUBSET Calls :
            /\ AcceptsResponse(t, cs)
            /\ Active(t)
            /\ requested' = [requested EXCEPT ![t] = @ \cup cs]
            /\ UNCHANGED <<hub, turn, receipt, effect, results>>
            /\ task' = [task EXCEPT ![t].pc = "before_tool", ![t].batch = NewBatch(cs),
                                    ![t].item = 1]
       \/ Fail(t, "failed", "turn_end") /\ UNCHANGED store
    /\ UNCHANGED requests

\* The item is settled: allowed to execute, or completed with result r.
Prepared(t, state, r, e) ==
    task' = [task EXCEPT ![t].op = None,
                         ![t].item = @ + 1,
                         ![t].batch[task[t].item] =
                             [call |-> Current(t).call, state |-> state, result |-> r],
                         ![t].error = IF @ = "none" THEN e ELSE @]

\* A call after a cancellation or a terminal error does not start; nor does one
\* whose arguments its schema refuses.
RefuseCall(t) ==
    /\ At(t, "before_tool")
    /\ AtItem(t)
    /\ task[t].op = None
    /\ Prepared(t, "done", "error",
                IF token[t] /\ task[t].error = "none" THEN "cancelled" ELSE "none")
    /\ UNCHANGED <<store, requests>>

\* before_tool: the hook allows or blocks the call. Its failure refuses this call,
\* a cancelled or uncertain one all of them.
BeforeTool(t) ==
    \E out \in Outcomes :
        /\ AtItem(t)
        /\ HookReturns(t, "before_tool", out)
        /\ \/ out = "ok" /\ Prepared(t, "allowed", None, "none")
           \/ out \in {"ok", "failed"} /\ Prepared(t, "done", "error", "none")
           \/ out = "cancelled" /\ Prepared(t, "done", "error", "cancelled")
           \/ out = "uncertain" /\ Prepared(t, "done", "uncertain", "failed")

\* After a terminal error nothing is executed.
EndPreparation(t) ==
    /\ At(t, "before_tool")
    /\ ~ AtItem(t)
    /\ task' = [task EXCEPT ![t].pc = "execute", ![t].item = 1,
                  ![t].batch = [i \in DOMAIN @ |->
                     IF task[t].error # "none" /\ @[i].state = "allowed"
                     THEN [call |-> @[i].call, state |-> "done", result |-> "error"]
                     ELSE @[i]]]
    /\ UNCHANGED <<store, requests>>

GivenUp == {"failed", "cancelled"}

\* Sequential execution goes item by item and stops at the first error.
MayExecute(t, i) ==
    task[t].mode = "sequential" =>
        \A j \in 1 .. i - 1 : task[t].batch[j].state = "done"

Executed(t, i, state, r) ==
    task' = [task EXCEPT ![t].batch[i] = [call |-> @.call, state |-> state, result |-> r]]

\* ToolExecutionStarted, refused when the Turn has ended.
StartTool(t, i) ==
    /\ At(t, "execute")
    /\ task[t].batch[i].state = "allowed"
    /\ MayExecute(t, i)
    /\ IF Active(t)
       THEN /\ NextOp(t) \in Ops
            /\ Store!StartToolEffect(t, NextOp(t), task[t].batch[i].call)
            /\ Executed(t, i, "running", None)
       ELSE UNCHANGED store /\ Executed(t, i, "failed", None)
    /\ UNCHANGED requests

\* The execution reports and its raw outcome becomes durable, or cancellation
\* gives it up with its effect open.
ToolReturns(t, i) ==
    /\ At(t, "execute")
    /\ task[t].batch[i].state = "running"
    /\ \/ \E r \in Store!Reported :
            IF Active(t)
            THEN /\ Store!CompleteToolExecution(t, task[t].batch[i].call, r)
                 /\ Executed(t, i, "done", r)
            ELSE UNCHANGED store /\ Executed(t, i, "failed", None)
       \/ token[t] /\ UNCHANGED store /\ Executed(t, i, "cancelled", None)
    /\ UNCHANGED requests

\* Calls that have reported. What follows the first error of a sequential batch is
\* dropped with it.
Reporting(t, first) ==
    {i \in DOMAIN task[t].batch :
        /\ task[t].batch[i].state = "done"
        /\ task[t].mode = "sequential" => i < first}

\* The batch is over: the calls that have reported stay, in their order, and the
\* first error in order is the loop's.
EndBatch(t) ==
    LET batch == task[t].batch
        lost == {i \in DOMAIN batch : batch[i].state \in GivenUp}
    IN
    /\ At(t, "execute")
    /\ \/ /\ \A i \in DOMAIN batch : batch[i].state = "done"
          /\ Goto(t, "after_tool")
       \/ \E first \in lost :
            /\ \A i \in lost : first <= i
            /\ \/ task[t].mode = "sequential"
               \/ \A i \in DOMAIN batch : batch[i].state \in {"done"} \cup GivenUp
            /\ \E kept \in [1 .. Cardinality(Reporting(t, first)) -> Reporting(t, first)] :
                 /\ \A i, j \in DOMAIN kept : i < j => kept[i] < kept[j]
                 /\ task' = [task EXCEPT ![t].pc = "after_tool",
                               ![t].batch = [i \in DOMAIN kept |-> batch[kept[i]]],
                               ![t].error = IF @ = "none" THEN batch[first].state ELSE @]
    /\ UNCHANGED <<store, requests>>

\* The result the loop records after the after_tool hook, which may rewrite it and
\* its error flag but not that it is uncertain.
HookedResults(r, out) ==
    CASE out = "ok" /\ r # "uncertain" -> {"success", "error"}
      [] out = "ok" /\ r = "uncertain" -> {"uncertain"}
      [] out = "uncertain" -> {"uncertain"}
      [] OTHER -> {"error"}

AfterTool(t) ==
    \E out \in Outcomes :
        /\ AtItem(t)
        /\ HookReturns(t, "after_tool", out)
        /\ \E r \in HookedResults(Current(t).result, out) :
             task' = [task EXCEPT ![t].pc = "record", ![t].op = None,
                        ![t].batch[task[t].item].result = r,
                        ![t].error = IF @ = "none" /\ out # "ok"
                                     THEN CancelledIf(out = "cancelled") ELSE @]

\* ToolResultRecorded
RecordResult(t) ==
    /\ At(t, "record")
    /\ IF Active(t)
       THEN /\ Store!AppendToolResult(t, Current(t).call, Current(t).result)
            /\ task' = [task EXCEPT ![t].pc = "after_tool", ![t].item = @ + 1]
       ELSE UNCHANGED store /\ Fail(t, "failed", "turn_end")
    /\ UNCHANGED requests

ResultsRecorded(t) ==
    /\ At(t, "after_tool")
    /\ ~ AtItem(t)
    /\ Goto(t, IF task[t].error = "none" THEN "after_step" ELSE "turn_end")
    /\ UNCHANGED <<store, requests>>

LostOutcome(t) ==
    \E i \in DOMAIN task[t].batch : task[t].batch[i].result = "uncertain"

\* Mutant of AfterStep: the model is asked to go on after an uncertain tool.
AfterStepIgnoresUncertainty(t) ==
    \E out \in Outcomes :
        /\ HookReturns(t, "after_step", out)
        /\ \/ /\ out # "ok"
              /\ Fail(t, CancelledIf(out = "cancelled"), "turn_end")
           \/ /\ out = "ok"
              /\ task' = [task EXCEPT ![t].pc = "turn_end", ![t].op = None]
           \/ /\ out = "ok"
              /\ task[t].batch # <<>>
              /\ IF task[t].step < MaxSteps
                 THEN task' = [task EXCEPT ![t].pc = "step", ![t].op = None,
                                 ![t].step = @ + 1, ![t].batch = <<>>]
                 ELSE Fail(t, "failed", "turn_end")

\* The end of a step. The loop stops with an error if a tool's outcome is unknown,
\* with the answer if there was no call or one asks to terminate, and otherwise
\* goes on as long as steps remain.
AfterStep(t) ==
    \E out \in Outcomes :
        /\ HookReturns(t, "after_step", out)
        /\ \/ /\ out # "ok" \/ LostOutcome(t)
              /\ Fail(t, CancelledIf(out = "cancelled" /\ ~ LostOutcome(t)), "turn_end")
           \/ /\ out = "ok"
              /\ ~ LostOutcome(t)
              /\ task' = [task EXCEPT ![t].pc = "turn_end", ![t].op = None]
           \/ /\ out = "ok"
              /\ ~ LostOutcome(t)
              /\ task[t].batch # <<>>
              /\ IF task[t].step < MaxSteps
                 THEN task' = [task EXCEPT ![t].pc = "step", ![t].op = None,
                                 ![t].step = @ + 1, ![t].batch = <<>>]
                 ELSE Fail(t, "failed", "turn_end")

\* Mutant of TurnFinished: a turn_end hook that fails is ignored.
TurnFinishedRegardless(t) ==
    \E out \in Outcomes :
        /\ HookReturns(t, "turn_end", out)
        /\ task' = [task EXCEPT ![t].pc = "finish", ![t].op = None]

\* turn_end runs whatever happened, and its failure fails the Turn.
TurnFinished(t) ==
    \E out \in Outcomes :
        /\ HookReturns(t, "turn_end", out)
        /\ IF out = "ok" THEN task' = [task EXCEPT ![t].pc = "finish", ![t].op = None]
                         ELSE Fail(t, "failed", "finish")

Termination(t) ==
    IF task[t].error = "none" THEN "completed" ELSE task[t].error

\* The termination is persisted. If the store refuses to complete the Turn, the
\* harness's handle on it is dropped unfinished and cancels it.
FinishNative(t) ==
    /\ At(t, "finish")
    /\ IF Termination(t) = "completed" /\ Store!OpenEffectsOf(t) # {}
       THEN EndTurn(t, "cancelled")
       ELSE EndTurn(t, Termination(t))
    /\ Goto(t, "leave")
    /\ UNCHANGED requests

--------------------
(***************************************************************************)
(* An ACP harness: one prompt, which is one effect.                        *)
(***************************************************************************)

\* The harness gives up; execute_send ends the Turn.
AcpGivesUp(t) ==
    /\ EndTurn(t, CancelledIf(token[t]))
    /\ Goto(t, "leave")

AcpSchedule(t) ==
    /\ At(t, "acp_schedule")
    /\ \/ /\ NextOp(t) \in Ops
          /\ Store!ScheduleEffect(t, NextOp(t))
          /\ task' = [task EXCEPT ![t].pc = "acp_mark", ![t].op = NextOp(t)]
       \/ AcpGivesUp(t)
    /\ UNCHANGED requests

\* From this commit on the prompt may have been sent.
AcpMark(t) ==
    /\ At(t, "acp_mark")
    /\ IF Active(t) THEN Store!MarkEffectStarted(task[t].op) /\ Goto(t, "acp_prompt")
                    ELSE AcpGivesUp(t)
    /\ UNCHANGED requests

AcpEffectEnds(t, status, e) ==
    /\ Active(t)
    /\ Store!FinishEffect(task[t].op, status)
    /\ task' = [task EXCEPT ![t].pc = "acp_finish", ![t].op = None, ![t].error = e]

\* acp_effect_outcome, and the error left for the Turn. The remote variant counts
\* any error of a cancelled Turn as its cancellation, the local one does not. An
\* event that cannot be recorded ends the harness with its effect open.
AcpPrompt(t) ==
    /\ At(t, "acp_prompt")
    /\ \/ \E e \in {"none", "cancelled"} : AcpEffectEnds(t, "succeeded", e)
       \/ \E e \in IF token[t] THEN {"failed", "cancelled"} ELSE {"failed"} :
            AcpEffectEnds(t, "uncertain", e)
       \/ ~ token[t] /\ AcpEffectEnds(t, "failed", "failed")
       \/ AcpGivesUp(t)
    /\ UNCHANGED requests

\* finish_acp_turn. An answer without the Session binding it belongs to is an error.
AcpFinish(t) ==
    /\ At(t, "acp_finish")
    /\ \/ EndTurn(t, Termination(t)) /\ Goto(t, "leave")
       \/ task[t].error = "none" /\ AcpGivesUp(t)
    /\ UNCHANGED requests

--------------------

\* The Hub stops: every task and request is gone.
Crash ==
    /\ Store!Crash
    /\ task' = [t \in Turns |->
                   IF task[t].pc = "absent" THEN task[t] ELSE NoTask("gone")]
    /\ registered' = [t \in Turns |-> FALSE]
    /\ token' = [t \in Turns |-> FALSE]
    /\ waiting' = [t \in Turns |-> FALSE]

Recover ==
    /\ Store!RecoverInterruptedWork
    /\ UNCHANGED <<task, requests>>

LoopStep(t) ==
    \/ FetchContext(t)
    \/ TurnStarted(t)
    \/ BeginStep(t)
    \/ BeforeModel(t)
    \/ StartProviderCall(t)
    \/ ProviderFails(t)
    \/ CursorRejected(t)
    \/ ProviderCompletes(t)
    \/ AppendResponse(t)
    \/ AfterStep(t)
    \/ TurnFinished(t)
    \/ FinishNative(t)

BatchStep(t) ==
    \/ RefuseCall(t)
    \/ BeforeTool(t)
    \/ EndPreparation(t)
    \/ \E i \in DOMAIN task[t].batch : StartTool(t, i) \/ ToolReturns(t, i)
    \/ EndBatch(t)
    \/ AfterTool(t)
    \/ RecordResult(t)
    \/ ResultsRecorded(t)

AcpStep(t) ==
    \/ AcpSchedule(t)
    \/ AcpMark(t)
    \/ AcpPrompt(t)
    \/ AcpFinish(t)

TaskStep(t) ==
    \/ AcquireSessionLock(t)
    \/ SetupFailsEarly(t)
    \/ SetupFails(t)
    \/ \E h \in Harnesses : BeginTurn(t, h)
    \/ StartHook(t)
    \/ LoopStep(t)
    \/ BatchStep(t)
    \/ AcpStep(t)
    \/ LeaveTask(t)

RequestStep(t) ==
    \/ SpawnTask(t)
    \/ StartTurnDropped(t)
    \/ CancelTurn(t)
    \/ CancelUnregisteredTurn(t)
    \/ CancelTurnEnds(t)
    \/ CancelTurnDropped(t)

Next ==
    \/ \E s \in Sessions, k \in Keys, r \in Requests, t \in Turns :
         StartTurn(s, k, r, t)
    \/ \E t \in Turns : RequestStep(t) \/ TaskStep(t)
    \/ Crash
    \/ Recover

Spec == Init /\ [][Next]_vars

\* Every call a task waits for ends: a Host request by its reply, a disconnect or
\* its timeout, a hook and a tool by the timeout of its process, a provider stream
\* by the idle timeout of its connection, an ACP prompt by its deadline.
FairSpec ==
    /\ Spec
    /\ \A t \in Turns : WF_vars(SpawnTask(t)) /\ WF_vars(TaskStep(t))
                        /\ WF_vars(CancelTurnEnds(t))
    /\ WF_vars(Recover)

--------------------
(***************************************************************************)
(* Properties.                                                             *)
(***************************************************************************)

\* The store's tables keep their shape, and so does the state of the tasks.
TypeOK ==
    /\ Store!TypeOK
    /\ task \in [Turns -> Task]
    /\ registered \in [Turns -> BOOLEAN]
    /\ token \in [Turns -> BOOLEAN]
    /\ waiting \in [Turns -> BOOLEAN]

\* Whenever a provider works on a request for a running Turn, every call the Turn
\* has accepted has exactly one result, no effect but this call is open and no
\* effect is uncertain: the model never builds on an outcome nobody knows, and no
\* provider refuses the history for a call without its result. Both the full
\* replay after a rejected cursor and later steps of the loop come here.
ModelSeesSettledHistory ==
    \A t \in Turns :
        task[t].pc = "provider" /\ task[t].op # None /\ Active(t) =>
            /\ \A c \in requested[t] : Len(results[t][c]) = 1
            /\ Store!OpenEffectsOf(t) = {task[t].op}
            /\ \A o \in Ops : effect[o].turn = t => effect[o].status # "uncertain"

\* A Turn reported completed has no effect of unknown outcome - hook, provider
\* call, tool or prompt - and no call without its one result.
CompletedMeansCertain ==
    \A t \in Turns : turn[t].status = "completed" =>
        /\ \A o \in Ops : effect[o].turn = t => effect[o].status \in {"succeeded", "failed"}
        /\ \A c \in requested[t] : results[t][c] \in {<<"success">>, <<"error">>}

\* No call is answered twice: not by the loop and again as the Turn is closed by a
\* cancellation, an abort or the recovery, whichever point of the batch they meet.
OneResultPerCall ==
    \A t \in Turns, c \in Calls : Len(results[t][c]) <= 1

\* A task that is gone has left its Turn ended, or to the cancel request that took
\* it over (TurnTerminalGuard: "Closes setup-error gaps after atomic turn
\* acceptance").
TaskLeavesNoActiveTurn ==
    \A t \in Turns :
        hub = "up" /\ task[t].pc = "gone" /\ ~ waiting[t] => ~ Active(t)

\* Whatever the tasks, requests and guards do to the store is what TurnStore says,
\* so that all that is proved of it holds of the running Hub: a tool is executed
\* only for a call whose response is durable, an id is accepted once, an outcome is
\* reported only for an effect that is still open.
ImplementsTurnStore == Store!Spec

\* A Turn whose task was spawned ends, whatever its hooks, provider, tools and
\* cancel requests do.
SpawnedTurnEnds ==
    \A t \in Turns : task[t].pc = "waiting" ~> ~ Active(t)
=============================================================================
