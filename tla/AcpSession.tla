----------------------------- MODULE AcpSession -----------------------------
(***************************************************************************)
(* The Turns one MEWS Session runs through ACP Harnesses: the durable      *)
(* binding of the Session to a Harness session and the decision to resume  *)
(* or replace it (mews/src/app/acp.rs, mews-store/src/sessions.rs), the    *)
(* attempt that a worker runs (mews-acp/src/session.rs, rpc.rs), and the   *)
(* settlement of the prompt's effect (mews/src/app/turns.rs).              *)
(*                                                                         *)
(* `world` is the Harnesses' side, which the code cannot read: the Harness *)
(* sessions that exist, how often the instruction context was given to     *)
(* each, and which Turns of the MEWS Session it has seen.                  *)
(***************************************************************************)
EXTENDS Naturals, FiniteSets

CONSTANTS
    Harnesses,          \* ACP Harnesses
    Channel,            \* Harness -> AcpInstructionChannel
    NativeHarness,      \* the Harness that runs in MEWS itself
    NoHarness,          \* a Turn whose Harness was not recorded
    MaxTurns,           \* bound: Turns of the Session
    MaxSessions,        \* bound: Harness sessions ever created
    MaxChanges,         \* bound: changes of Harness, definition or context
    Offers,             \* the sets of permission options a Harness may offer
    TelemetryMayFail    \* whether the events of turn hooks may fail to persist

\* What the constants must satisfy; every instance assumes it.
ChannelsAssumption ==
    /\ Channel \in [Harnesses -> {"CodexDeveloper", "ClaudeSystemAppend", "FirstPrompt"}]
    /\ {NativeHarness, NoHarness} \cap Harnesses = {} /\ NativeHarness # NoHarness
    /\ {MaxTurns, MaxSessions} \subseteq Nat /\ TelemetryMayFail \in BOOLEAN

Turns == 1..MaxTurns
AcpSessions == 1..MaxSessions
NoSession == 0
NoBinding == [acp |-> NoSession, harness |-> NoHarness, definition |-> 0,
              context |-> 0, dispatched |-> FALSE]

VARIABLES
    config,     \* what the next Turn runs: Harness, definition, context
    changes,    \* how often config was changed
    binding,    \* the row of acp_session_bindings
    bound,      \* Turns that have a binding:{turn} observation
    turns,      \* Turn -> its row
    current,    \* the running Turn, or 0
    run,        \* the execution of the current Turn, its effect and hooks
    world       \* Harness session -> what the Harness has of it

vars == <<config, changes, binding, bound, turns, current, run, world>>

NoTurn == [status |-> "none", harness |-> NoHarness]
NoRun == [at |-> "idle", transition |-> "none", acp |-> NoSession,
          binds |-> FALSE, recovers |-> FALSE, resumed |-> FALSE,
          cancelled |-> FALSE, dispatched |-> FALSE, answered |-> FALSE,
          uncertain |-> FALSE, approved |-> FALSE, starts |-> 0, ends |-> 0,
          result |-> "none", effect |-> "none"]
NoWorld == [created |-> FALSE, alive |-> FALSE, context |-> 0, contexts |-> 0, seen |-> {}]

Init ==
    /\ config \in [harness : Harnesses, definition : {1}, context : {1}]
    /\ changes = 0
    /\ binding = NoBinding
    /\ bound = {}
    /\ turns = [k \in Turns |-> NoTurn]
    /\ current = 0
    /\ run = NoRun
    /\ world = [s \in AcpSessions |-> NoWorld]

Existing == {s \in AcpSessions : world[s].created}
Accepted == {k \in Turns : turns[k].status # "none"}
Goes(at) == run' = [run EXCEPT !.at = at]
Ends(result) == run' = [run EXCEPT !.at = "ended", !.result = result]

--------------------
(* Around a Turn *)

\* A running Turn keeps the configuration it was started with, so a change
\* during it is a change after it.
ChangeConfig ==
    /\ current = 0 /\ changes < MaxChanges
    /\ changes' = changes + 1
    /\ \/ \E h \in Harnesses : config' = [config EXCEPT !.harness = h]
       \/ config' = [config EXCEPT !.definition = @ + 1]
       \/ config' = [config EXCEPT !.context = @ + 1]
    /\ config' # config
    /\ UNCHANGED <<binding, bound, turns, current, run, world>>

\* The Harness lost a session, with its process or its storage.
Forget(s) ==
    /\ world[s].alive
    /\ world' = [world EXCEPT ![s].alive = FALSE]
    /\ UNCHANGED <<config, changes, binding, bound, turns, current, run>>

\* previous_turn_harness, of a Turn that has one before it.
Previous(k) == IF k = 1 THEN NoHarness ELSE turns[k - 1].harness

\* Mutant: a Session that ran under another Harness in between is resumed.
ResumesDiverged(k) ==
    IF binding = NoBinding THEN "new"
    ELSE IF \/ binding.harness # config.harness
            \/ ~binding.dispatched
            \/ binding.definition # config.definition
            \/ binding.context # config.context
         THEN "replace"
         ELSE "resume"

\* checked_acp_binding, for the Turn k.
CheckedAcpBinding(k) ==
    IF binding = NoBinding THEN "new"
    ELSE IF \/ binding.harness # config.harness
            \/ ~binding.dispatched
            \/ binding.definition # config.definition
            \/ binding.context # config.context
            \/ Previous(k) # config.harness
         THEN "replace"
         ELSE "resume"

IsNext(k) == current = 0 /\ Accepted = 1..(k - 1)

\* The Turn is accepted, its Harness recorded, its effect scheduled and
\* started, and the job handed to a worker.
StartTurn ==
    /\ \E k \in Turns :
          /\ IsNext(k)
          /\ k > 1 => Previous(k) # NoHarness
          /\ current' = k
          /\ turns' = [turns EXCEPT ![k] = [status |-> "accepted", harness |-> config.harness]]
          /\ run' = [NoRun EXCEPT !.at = "start", !.effect = "started",
                                  !.transition = CheckedAcpBinding(k)]
    /\ UNCHANGED <<config, changes, binding, bound, world>>

\* previous_turn_harness reads a string, and fails when the Turn before has none.
StartFails ==
    /\ \E k \in Turns :
          /\ IsNext(k) /\ k > 1 /\ Previous(k) = NoHarness
          /\ turns' = [turns EXCEPT ![k] = [status |-> "failed", harness |-> config.harness]]
    /\ UNCHANGED <<config, changes, binding, bound, current, run, world>>

\* An accepted Turn ends before its Harness is recorded: the Harness is not published or
\* not ready, no model is configured, or the Hub stops.
EndsUnrecorded ==
    /\ \E k \in Turns :
          IsNext(k) /\ turns' = [turns EXCEPT ![k].status = "failed"]
    /\ UNCHANGED <<config, changes, binding, bound, current, run, world>>

\* A Turn of the native Harness comes between two ACP Turns.
NativeTurn ==
    /\ \E k \in Turns, status \in {"completed", "failed"} :
          /\ IsNext(k)
          /\ turns' = [turns EXCEPT ![k] = [status |-> status, harness |-> NativeHarness]]
    /\ UNCHANGED <<config, changes, binding, bound, current, run, world>>

Cancel ==
    /\ current # 0 /\ ~run.cancelled
    /\ run' = [run EXCEPT !.cancelled = TRUE]
    /\ UNCHANGED <<config, changes, binding, bound, turns, current, world>>

\* Mutant: the Turn that was running is not interrupted.
CrashKeepsTheTurn ==
    /\ current # 0
    /\ run' = NoRun
    /\ UNCHANGED <<config, changes, binding, bound, turns, current, world>>

\* The Hub stops; recovery interrupts the Turn and closes its started effect
\* as uncertain (module TurnStore).
Crash ==
    /\ current # 0
    /\ turns' = [turns EXCEPT ![current].status = "interrupted"]
    /\ current' = 0
    /\ run' = NoRun
    /\ UNCHANGED <<config, changes, binding, bound, world>>

--------------------
(* The attempt *)

\* invoke_turn_start, which a Turn cancelled before its start skips.
TurnStart ==
    /\ run.at = "start"
    /\ IF run.cancelled THEN Ends("cancelled")
       ELSE \/ run' = [run EXCEPT !.at = "process", !.starts = @ + 1]
            \/ run' = [run EXCEPT !.at = "ended", !.starts = @ + 1, !.result = "failed"]
    /\ UNCHANGED <<config, changes, binding, bound, turns, current, world>>

\* Before the prompt every error is definite: no process, no capability, an
\* RPC error or timeout, a refused event, a failed option, a blocking hook.
FailsBeforePrompt ==
    /\ run.at \in {"process", "continue", "bind", "options", "model", "context"}
    /\ Ends(IF run.cancelled THEN "cancelled" ELSE "failed")
    /\ UNCHANGED <<config, changes, binding, bound, turns, current, world>>

\* LiveAcpProcess::start, or the warm process of the worker.
StartProcess ==
    /\ run.at = "process"
    /\ Goes("continue")
    /\ UNCHANGED <<config, changes, binding, bound, turns, current, world>>

ResumeSession ==
    /\ run.at = "continue" /\ run.transition = "resume"
    /\ world[binding.acp].alive
    /\ run' = [run EXCEPT !.at = "options", !.acp = binding.acp, !.resumed = TRUE]
    /\ UNCHANGED <<config, changes, binding, bound, turns, current, world>>

\* Mutant: a session that replaces another is created without the context.
NewSessionBare(transition) ==
    \E s \in AcpSessions \ Existing :
        /\ \A r \in AcpSessions \ Existing : s <= r
        /\ world' = [world EXCEPT ![s] =
              [created |-> TRUE, alive |-> TRUE, seen |-> {}, context |-> config.context,
               contexts |-> IF transition = "replace" THEN 0 ELSE 1]]
        /\ run' = [run EXCEPT !.at = "bind", !.acp = s, !.binds = TRUE,
                              !.transition = transition, !.recovers = transition = "replace"]
        /\ UNCHANGED <<config, changes, binding, bound, turns, current>>

\* session/new: a fresh Harness session; all channels but the first prompt
\* give it the context here or at the start of its process.
NewSession(transition) ==
    \E s \in AcpSessions \ Existing :
        /\ \A r \in AcpSessions \ Existing : s <= r
        /\ world' = [world EXCEPT ![s] =
              [created |-> TRUE, alive |-> TRUE, seen |-> {}, context |-> config.context,
               contexts |-> IF Channel[config.harness] = "FirstPrompt" THEN 0 ELSE 1]]
        /\ run' = [run EXCEPT !.at = "bind", !.acp = s, !.binds = TRUE,
                              !.transition = transition, !.recovers = transition = "replace"]
        /\ UNCHANGED <<config, changes, binding, bound, turns, current>>

CreateSession ==
    /\ run.at = "continue" /\ run.transition # "resume"
    /\ NewSession(run.transition)

\* Mutant: the recovery of a Codex Session starts the Turn again.
RestartsTheTurn ==
    /\ run.at = "continue" /\ run.transition = "resume"
    /\ ~world[binding.acp].alive
    /\ IF Channel[config.harness] = "CodexDeveloper"
       THEN /\ run' = [run EXCEPT !.at = "start", !.transition = "replace"]
            /\ UNCHANGED <<config, changes, binding, bound, turns, current, world>>
       ELSE NewSession("replace")

\* ResourceNotFound: a new session takes the place of the lost one, except
\* that Codex is restarted for its developer instructions and tried again.
ResumeFindsNothing ==
    /\ run.at = "continue" /\ run.transition = "resume"
    /\ ~world[binding.acp].alive
    /\ IF Channel[config.harness] = "CodexDeveloper"
       THEN /\ run' = [run EXCEPT !.at = "process", !.transition = "replace"]
            /\ UNCHANGED <<config, changes, binding, bound, turns, current, world>>
       ELSE NewSession("replace")

\* decide_acp_binding
Decided ==
    [acp |-> run.acp, harness |-> config.harness, definition |-> config.definition,
     context |-> config.context, dispatched |-> Channel[config.harness] # "FirstPrompt"]

\* Mutant: the binding's observation is keyed by the Session, not the Turn.
BindsOnce ==
    /\ run.at = "bind"
    /\ IF bound # {} THEN UNCHANGED <<binding, bound>>
       ELSE /\ binding' = Decided
            /\ bound' = {current}
    /\ Goes("options")
    /\ UNCHANGED <<config, changes, turns, current, world>>

\* Mutant: the Turn goes on without the acknowledgement of its binding.
BindsLater ==
    /\ run.at = "bind"
    /\ \/ UNCHANGED <<binding, bound>>
       \/ binding' = Decided /\ bound' = bound \cup {current}
    /\ Goes("options")
    /\ UNCHANGED <<config, changes, turns, current, world>>

\* SessionBound is persisted and acknowledged before anything follows it.
BindSession ==
    /\ run.at = "bind"
    /\ IF current \in bound THEN UNCHANGED <<binding, bound>>
       ELSE /\ binding' = Decided
            /\ bound' = bound \cup {current}
    /\ Goes("options")
    /\ UNCHANGED <<config, changes, turns, current, world>>

\* apply_harness_options
ApplyOptions ==
    /\ run.at = "options"
    /\ Goes("model")
    /\ UNCHANGED <<config, changes, binding, bound, turns, current, world>>

\* The before_model hook, which may change or block the prompt.
BeforeModel ==
    /\ run.at = "model"
    /\ Goes(IF run.binds /\ Channel[config.harness] = "FirstPrompt"
            THEN "context" ELSE "prompt")
    /\ UNCHANGED <<config, changes, binding, bound, turns, current, world>>

\* ContextDispatched is persisted before the prompt that carries the context.
MarkContextDispatched ==
    /\ run.at = "context"
    /\ binding.acp = run.acp
    /\ binding' = [binding EXCEPT !.dispatched = TRUE]
    /\ Goes("prompt")
    /\ UNCHANGED <<config, changes, bound, turns, current, world>>

\* Mutant: every prompt of a FirstPrompt Harness carries the context.
AlwaysCarriesContext == Channel[config.harness] = "FirstPrompt"

CarriesContext == Channel[config.harness] = "FirstPrompt" /\ run.binds

\* The prompt is flushed; a recovery prompt holds the Session's history.
WritePrompt ==
    /\ run.at = "prompt"
    /\ world' = [world EXCEPT
          ![run.acp].seen = IF run.recovers THEN 1..current ELSE @ \cup {current},
          ![run.acp].contexts = IF CarriesContext THEN @ + 1 ELSE @]
    /\ run' = [run EXCEPT !.at = "await", !.dispatched = TRUE]
    /\ UNCHANGED <<config, changes, binding, bound, turns, current>>

\* A write to a process that has gone; whatever was written, the outcome of
\* request_with_dispatch is treated as one after the dispatch.
PromptIsNotWritten ==
    /\ run.at = "prompt"
    /\ Ends("uncertain")
    /\ UNCHANGED <<config, changes, binding, bound, turns, current, world>>

--------------------
(* The answer *)

\* AllowPermissions
Allowed(offered) == offered \cap {"AllowAlways", "AllowOnce"} # {}

\* handle_client_request: a cancelled Turn answers with its cancellation.
RequestPermission(offered) ==
    /\ run.at = "await" /\ ~run.approved
    /\ run' = [run EXCEPT !.approved = ~run.cancelled /\ Allowed(offered)]
    /\ UNCHANGED <<config, changes, binding, bound, turns, current, world>>

\* An MCP call of this Turn has an outcome nobody knows.
McpEffectUncertain ==
    /\ run.at = "await" /\ ~run.uncertain
    /\ run' = [run EXCEPT !.uncertain = TRUE]
    /\ UNCHANGED <<config, changes, binding, bound, turns, current, world>>

\* The Harness answers: a stop reason or an RPC error.
PromptAnswered ==
    /\ run.at = "await"
    /\ \E result \in {"ok", "cancelled", "failed"} :
          run' = [run EXCEPT !.at = "ended", !.answered = TRUE,
                             !.result = IF run.uncertain THEN "uncertain" ELSE result]
    /\ UNCHANGED <<config, changes, binding, bound, turns, current, world>>

\* Mutant: an answer that never came is a failure like any other.
SilenceIsFailure ==
    /\ run.at = "await"
    /\ Ends(IF run.cancelled THEN "cancelled" ELSE "failed")
    /\ UNCHANGED <<config, changes, binding, bound, turns, current, world>>

\* Timeout, end of file, an invalid line, or the Turn's cancellation.
PromptNotAnswered ==
    /\ run.at = "await"
    /\ \/ run.cancelled /\ Ends(IF run.uncertain THEN "uncertain" ELSE "cancelled")
       \/ Ends("uncertain")
    /\ UNCHANGED <<config, changes, binding, bound, turns, current, world>>

\* finalize_turn_hooks: turn_end has a token of its own.  When its outcome
\* cannot be persisted, that error takes the place of the Turn's result.
FinalizeTurnHooks ==
    /\ run.at = "ended"
    /\ \/ run' = [run EXCEPT !.at = "settle", !.ends = @ + 1]
       \/ /\ TelemetryMayFail
          /\ run' = [run EXCEPT !.at = "settle", !.ends = @ + 1, !.result = "failed"]
    /\ UNCHANGED <<config, changes, binding, bound, turns, current, world>>

--------------------
(* Settlement *)

\* acp_effect_outcome; prompt_dispatched is the constant true.
AcpEffectOutcome(result, cancelled) ==
    CASE result = "ok" -> "succeeded"
      [] result = "uncertain" -> "uncertain"
      [] result \in {"failed", "cancelled"} ->
            IF cancelled \/ result = "cancelled" THEN "uncertain" ELSE "failed"

FinishEffect ==
    /\ run.at = "settle"
    /\ run' = [run EXCEPT !.at = "finish",
                          !.effect = AcpEffectOutcome(run.result, run.cancelled)]
    /\ UNCHANGED <<config, changes, binding, bound, turns, current, world>>

\* finish_acp_turn
FinishAcpTurn ==
    /\ run.at = "finish"
    /\ turns' = [turns EXCEPT ![current].status =
          CASE run.result = "ok" /\ binding.acp = run.acp -> "completed"
            [] run.result = "ok" /\ binding.acp # run.acp -> "failed"
            [] run.result = "cancelled" -> "cancelled"
            [] OTHER -> "failed"]
    /\ current' = 0
    /\ run' = NoRun
    /\ UNCHANGED <<config, changes, binding, bound, world>>

--------------------

Next ==
    \/ ChangeConfig \/ StartTurn \/ StartFails \/ EndsUnrecorded \/ NativeTurn
    \/ Cancel \/ Crash
    \/ \E s \in AcpSessions : Forget(s)
    \/ TurnStart \/ FailsBeforePrompt \/ StartProcess \/ ResumeSession \/ CreateSession
    \/ ResumeFindsNothing \/ BindSession \/ ApplyOptions \/ BeforeModel \/ MarkContextDispatched
    \/ WritePrompt \/ PromptIsNotWritten
    \/ \E offered \in Offers : RequestPermission(offered)
    \/ McpEffectUncertain \/ PromptAnswered \/ PromptNotAnswered
    \/ FinalizeTurnHooks \/ FinishEffect \/ FinishAcpTurn

Spec == Init /\ [][Next]_vars

--------------------
(* Properties *)

\* The type of the binding, the Turns and the execution.
TypeOK ==
    /\ binding.acp \in AcpSessions \cup {NoSession}
    /\ binding # NoBinding => binding.harness \in Harnesses
    /\ bound \subseteq Accepted
    /\ current \in {0} \cup Accepted
    /\ run.at = "idle" <=> current = 0
    /\ run.effect \in {"none", "started", "succeeded", "failed", "uncertain"}
    /\ \A k \in Turns : turns[k].status \in {"none", "accepted", "completed", "failed",
                                              "cancelled", "interrupted"}

\* However Sessions are resumed and replaced, a Harness session is given the
\* instruction context at most once.
ContextGivenOnce ==
    \A s \in AcpSessions : world[s].contexts <= 1

\* A prompt goes only to the Harness session the durable binding names, so a
\* crash at any later point leaves the Hub able to find that session again.
PromptsGoToTheBinding ==
    run.at \in {"prompt", "await"} => binding.acp = run.acp

Completed == {k \in Turns : turns[k].status = "completed"}

\* A prompt into a resumed session reaches a Harness that has seen every Turn completed
\* since that session was bound, replaced and lost sessions included. A Turn of another
\* Harness may be missing only if the Turn that was to replace the session because of it
\* ended early.
ResumedHistoryIsContinuous ==
    run.at = "prompt" /\ run.resumed =>
        \A k \in Completed : (\A b \in bound : b <= k) =>
            \/ k \in world[run.acp].seen
            \/ /\ turns[k].harness # config.harness
               /\ \E j \in (k + 1)..(current - 1) :
                     /\ turns[j - 1].harness # config.harness
                     /\ turns[j].harness = config.harness /\ j \notin Completed

\* mews-protocol/src/domain/sessions.rs:49 "HistoryDiverged": a Harness whose history is
\* not the Session's is replaced, by one that is given the history.
HistoryReachesTheHarness ==
    run.at = "await" => Completed \subseteq world[run.acp].seen

Settled == run.at = "finish" /\ run.effect \in {"succeeded", "failed"}

\* An effect that is settled as succeeded or failed really is settled: its
\* prompt was never dispatched, or the Harness answered it, and no MCP call
\* of the Turn is of unknown outcome.
CertainEffectsAreKnown ==
    Settled => /\ run.dispatched => run.answered
               /\ ~run.uncertain

\* A finished Turn has run its turn_end hooks exactly once and its turn_start
\* hooks at most once, through every recovery of its Harness session.
HooksArePaired ==
    /\ run.starts <= 1
    /\ run.at = "finish" => run.ends = 1

\* mews-protocol/src/domain/sessions.rs:26 "A FirstPrompt binding exists
\* before its context-bearing prompt is dispatched, but is never eligible for
\* resume until this is true."
ResumedSessionsHaveTheirContext ==
    run.at = "prompt" /\ run.resumed => world[run.acp].contexts > 0

\* mews/src/app/turns.rs:1131 "cancelled_acp_prompt_is_uncertain_only_after_dispatch"
CancelledIsUncertainOnlyAfterDispatch ==
    run.at = "finish" /\ run.result = "cancelled" /\ run.effect = "uncertain"
        => run.dispatched

\* mews-acp/src/rpc.rs:243 "permission requests are answered conservatively:
\* choose an adapter-provided reject option, or report cancellation"
PermissionsAreRefused == ~run.approved

============================================================================
