----------------------------- MODULE TurnStore -----------------------------
(***************************************************************************)
(* The durable Turn state kept by the Hub's SQLite store (mews-store):     *)
(* Turns and their command receipts, effects (provider calls, lifecycle    *)
(* hooks, ACP prompts and tool executions), the tool calls a model         *)
(* response requested and the tool results recorded for them.              *)
(*                                                                         *)
(* Every public operation of the store is one SQLite transaction, so it is *)
(* one action here; an operation that returns an error rolls back and is a *)
(* stuttering step. The store is shared by every connection of the Hub     *)
(* (turn tasks, cancel requests, recovery), hence actions of all callers   *)
(* interleave freely. The order in which session entries are appended is   *)
(* the subject of SessionLog, not of this module.                          *)
(***************************************************************************)
EXTENDS Naturals, Sequences, FiniteSets

CONSTANTS
    Sessions,    \* Sessions of the installation
    Keys,        \* idempotency keys a client may send with StartTurn
    Requests,    \* request hashes: what a client asks under a key
    Turns,       \* Turn ids; a fresh one is drawn for each accepted Turn
    Ops,         \* operation ids; a fresh one is drawn for each effect
    Calls,       \* tool-call ids a provider may return
    Harnesses,   \* Harness provenances (name, definition hash, version)
    MaxResults,  \* bound: results recorded for one call by the harness
    None         \* SQL NULL

ASSUME NoneAssumption ==
    None \notin Sessions \cup Keys \cup Requests \cup Turns \cup Ops
                 \cup Calls \cup Harnesses
                 \cup {"success", "error", "uncertain", "did_not_start",
                       "outcome_unknown", "processing_interrupted"}
ASSUME NoReceiptAssumption == None \notin [request : Requests, turn : Turns]
ASSUME MaxResultsAssumption == MaxResults \in Nat

VARIABLES
    hub,         \* is the Hub process serving, or stopped
    turn,        \* table turns
    receipt,     \* table command_receipts, for the turn:<session>:<key> ids
    effect,      \* table effects
    requested,   \* tool_started entries: the calls accepted per Turn
    results      \* tool_result entries: the results recorded per Turn, call

vars == <<hub, turn, receipt, effect, requested, results>>

--------------------

Terminal == {"completed", "failed", "cancelled"}
Open == {"scheduled", "started"}
Closed == {"succeeded", "failed", "uncertain"}

\* What a harness reports of an execution, and what the store itself writes
\* when a Turn ends with the call unanswered.
Reported == {"success", "error", "uncertain"}
DidNotStart == "did_not_start"
OutcomeUnknown == "outcome_unknown"
ProcessingInterrupted == "processing_interrupted"
Results == Reported \cup {DidNotStart, OutcomeUnknown, ProcessingInterrupted}

TurnRow == [status : {"absent", "running"} \cup Terminal,
            session : Sessions \cup {None},
            harness : Harnesses \cup {None}]

\* raw: raw_result_json, present once a tool execution has reported.
EffectRow == [status : {"absent"} \cup Open \cup Closed,
              turn : Turns \cup {None},
              call : Calls \cup {None},
              raw : Reported \cup {None}]

Receipt == [request : Requests, turn : Turns]

NoTurn == [status |-> "absent", session |-> None, harness |-> None]
NoEffect == [status |-> "absent", turn |-> None, call |-> None, raw |-> None]

Init ==
    /\ hub = "up"
    /\ turn = [t \in Turns |-> NoTurn]
    /\ receipt = [s \in Sessions |-> [k \in Keys |-> None]]
    /\ effect = [o \in Ops |-> NoEffect]
    /\ requested = [t \in Turns |-> {}]
    /\ results = [t \in Turns |-> [c \in Calls |-> <<>>]]

--------------------

\* completed_at IS NULL
Active(t) == turn[t].status = "running"

IsOpen(o) == effect[o].status \in Open

OpenEffectsOf(t) == {o \in Ops : effect[o].turn = t /\ IsOpen(o)}

ToolEffects(t, c) == {o \in Ops : effect[o].turn = t /\ effect[o].call = c}

\* Mutant of AcceptTurn: the running Turn of the Session is not looked for.
AcceptTurnBesideAnother(s, k, r, t) ==
    /\ hub = "up"
    /\ receipt[s][k] = None
    /\ turn[t].status = "absent"
    /\ turn' = [turn EXCEPT ![t] = [status |-> "running", session |-> s,
                                    harness |-> None]]
    /\ receipt' = [receipt EXCEPT ![s][k] = [request |-> r, turn |-> t]]
    /\ UNCHANGED <<hub, effect, requested, results>>

\* Mutant of AcceptTurn: the receipt is written but never read.
AcceptTurnAgain(s, k, r, t) ==
    /\ hub = "up"
    /\ \A u \in Turns : ~ (Active(u) /\ turn[u].session = s)
    /\ turn[t].status = "absent"
    /\ turn' = [turn EXCEPT ![t] = [status |-> "running", session |-> s,
                                    harness |-> None]]
    /\ receipt' = [receipt EXCEPT ![s][k] = [request |-> r, turn |-> t]]
    /\ UNCHANGED <<hub, effect, requested, results>>

\* accept_turn_idempotent. A stored receipt either replays the first answer or
\* is a CommandConflict; both leave the store as it is, and so does a Session
\* whose previous Turn has not ended (ActiveTurnConflict).
AcceptTurn(s, k, r, t) ==
    /\ hub = "up"
    /\ receipt[s][k] = None
    /\ \A u \in Turns : ~ (Active(u) /\ turn[u].session = s)
    /\ turn[t].status = "absent"
    /\ turn' = [turn EXCEPT ![t] = [status |-> "running", session |-> s,
                                    harness |-> None]]
    /\ receipt' = [receipt EXCEPT ![s][k] = [request |-> r, turn |-> t]]
    /\ UNCHANGED <<hub, effect, requested, results>>

\* record_turn_harness. Provenance already recorded is a no-op when equal and
\* an error when not.
RecordTurnHarness(t, h) ==
    /\ hub = "up"
    /\ Active(t)
    /\ turn[t].harness = None
    /\ turn' = [turn EXCEPT ![t].harness = h]
    /\ UNCHANGED <<hub, receipt, effect, requested, results>>

\* An effect row with a fresh operation id.
NewEffect(o, t, c, st) ==
    /\ effect[o].status = "absent"
    /\ effect' = [effect EXCEPT ![o] = [status |-> st, turn |-> t,
                                        call |-> c, raw |-> None]]

\* schedule_effect, used for an ACP prompt, which is started separately.
ScheduleEffect(t, o) ==
    /\ hub = "up"
    /\ Active(t)
    /\ NewEffect(o, t, None, "scheduled")
    /\ UNCHANGED <<hub, turn, receipt, requested, results>>

\* mark_effect_started
MarkEffectStarted(o) ==
    /\ hub = "up"
    /\ effect[o].status = "scheduled"
    /\ Active(effect[o].turn)
    /\ effect' = [effect EXCEPT ![o].status = "started"]
    /\ UNCHANGED <<hub, turn, receipt, requested, results>>

\* start_effect, used for provider calls and lifecycle hooks: scheduled and
\* started in one transaction.
StartEffect(t, o) ==
    /\ hub = "up"
    /\ Active(t)
    /\ NewEffect(o, t, None, "started")
    /\ UNCHANGED <<hub, turn, receipt, requested, results>>

\* start_tool_effect. UNIQUE(turn_id, call_id) refuses a second execution.
StartToolEffect(t, o, c) ==
    /\ hub = "up"
    /\ Active(t)
    /\ ToolEffects(t, c) = {}
    /\ NewEffect(o, t, c, "started")
    /\ UNCHANGED <<hub, turn, receipt, requested, results>>

\* finish_effect. Its callers name the operation id that ScheduleEffect or
\* StartEffect returned to them; tool executions end in CompleteToolExecution.
FinishEffect(o, outcome) ==
    /\ hub = "up"
    /\ effect[o].status = "started"
    /\ effect[o].call = None
    /\ Active(effect[o].turn)
    /\ effect' = [effect EXCEPT ![o].status = outcome]
    /\ UNCHANGED <<hub, turn, receipt, requested, results>>

\* append_assistant_response_with_tool_calls: the response and all its calls in
\* one transaction. The loop refuses a call id the Turn has already accepted.
AppendAssistantResponse(t, cs) ==
    /\ hub = "up"
    /\ Active(t)
    /\ cs \cap requested[t] = {}
    /\ requested' = [requested EXCEPT ![t] = @ \cup cs]
    /\ UNCHANGED <<hub, turn, receipt, effect, results>>

\* Mutant of StatusOf: the outcome is stored as it was reported.
StatusAsReported(outcome) == outcome

StatusOf(outcome) ==
    CASE outcome = "uncertain" -> "uncertain"
      [] outcome = "error" -> "failed"
      [] OTHER -> "succeeded"

\* complete_tool_execution: the raw outcome becomes durable before any hook
\* transforms it and before it enters the model's context.
CompleteToolExecution(t, c, outcome) ==
    /\ hub = "up"
    /\ Active(t)
    /\ \E o \in ToolEffects(t, c) :
         /\ effect[o].status = "started"
         /\ effect' = [effect EXCEPT ![o] =
                          [status |-> StatusOf(outcome), turn |-> t,
                           call |-> c, raw |-> outcome]]
    /\ UNCHANGED <<hub, turn, receipt, requested, results>>

\* append_tool_result, for an accepted call whose execution is not open.
AppendToolResult(t, c, r) ==
    /\ hub = "up"
    /\ Active(t)
    /\ c \in requested[t]
    /\ ~ \E o \in ToolEffects(t, c) : IsOpen(o)
    /\ Len(results[t][c]) < MaxResults
    /\ results' = [results EXCEPT ![t][c] = Append(@, r)]
    /\ UNCHANGED <<hub, turn, receipt, effect, requested>>

--------------------
(***************************************************************************)
(* Ending a Turn. Whoever ends it closes what it left open.                *)
(***************************************************************************)

\* Mutant of CloseOpenEffects: an effect that never started is overlooked.
CloseStartedEffects(T) ==
    [o \in Ops |->
        IF effect[o].turn \in T /\ effect[o].status = "started"
        THEN [status |-> "uncertain", turn |-> effect[o].turn,
              call |-> effect[o].call, raw |-> None]
        ELSE effect[o]]

\* close_open_effects on the effects table
CloseOpenEffects(T) ==
    [o \in Ops |->
        IF effect[o].turn \in T /\ IsOpen(o)
        THEN [status |-> IF effect[o].status = "started" THEN "uncertain"
                                                         ELSE "failed",
              turn |-> effect[o].turn, call |-> effect[o].call, raw |-> None]
        ELSE effect[o]]

\* Mutant of InterruptedResult: every interrupted call is said not to have started.
InterruptedBeforeStart(t, c) ==
    IF \E o \in ToolEffects(t, c) : IsOpen(o) THEN DidNotStart ELSE None

\* The result close_open_effects records for a tool call it interrupts.
InterruptedResult(t, c) ==
    IF \E o \in ToolEffects(t, c) : effect[o].status = "started" THEN OutcomeUnknown
    ELSE IF \E o \in ToolEffects(t, c) : effect[o].status = "scheduled" THEN DidNotStart
    ELSE None

\* Mutant of OrphanResult: calls that were never dispatched are forgotten.
OrphanResultOfDispatched(t, c) ==
    IF results[t][c] = <<>> /\ \E o \in ToolEffects(t, c) : effect[o].raw # None
    THEN ProcessingInterrupted
    ELSE None

\* The result close_orphan_tool_calls records for an accepted call that has none.
OrphanResult(t, c) ==
    IF c \notin requested[t] \/ results[t][c] # <<>> THEN None
    ELSE IF \E o \in ToolEffects(t, c) : effect[o].raw # None THEN ProcessingInterrupted
    ELSE DidNotStart

\* An interrupted execution is answered first, and so is no orphan.
ClosingResult(t, c) ==
    IF InterruptedResult(t, c) # None THEN InterruptedResult(t, c)
                                      ELSE OrphanResult(t, c)

CloseToolCalls(T) ==
    [t \in Turns |-> [c \in Calls |->
        IF t \in T /\ ClosingResult(t, c) # None
        THEN Append(results[t][c], ClosingResult(t, c))
        ELSE results[t][c]]]

EndTurns(T, st) ==
    /\ effect' = CloseOpenEffects(T)
    /\ results' = CloseToolCalls(T)
    /\ turn' = [t \in Turns |->
                   IF t \in T THEN [status |-> st, session |-> turn[t].session,
                                    harness |-> turn[t].harness]
                              ELSE turn[t]]
    /\ UNCHANGED <<receipt, requested>>

\* Mutant of FinishTurn: a Turn may complete with effects still open.
FinishTurnRegardless(t, st) ==
    /\ hub = "up"
    /\ Active(t)
    /\ EndTurns({t}, st)
    /\ UNCHANGED hub

\* Mutant of FinishTurn: a late failure overwrites a Turn that has ended.
FinishTurnAgain(t, st) ==
    /\ hub = "up"
    /\ turn[t].status \notin {"absent", st}
    /\ st = "completed" => OpenEffectsOf(t) = {}
    /\ EndTurns({t}, st)
    /\ UNCHANGED hub

\* finish_turn. A Turn that already ended is left alone: the same status again
\* is a no-op and another one an error.
FinishTurn(t, st) ==
    /\ hub = "up"
    /\ Active(t)
    /\ st = "completed" => OpenEffectsOf(t) = {}
    /\ EndTurns({t}, st)
    /\ UNCHANGED hub

\* The Hub process stops at any instant; only committed state survives.
Crash ==
    /\ hub = "up"
    /\ hub' = "down"
    /\ UNCHANGED <<turn, receipt, effect, requested, results>>

\* Opening the Hub ends, in one transaction and before any request is served,
\* every Turn the previous process left active.
RecoverInterruptedWork ==
    /\ hub = "down"
    /\ EndTurns({t \in Turns : Active(t)}, "failed")
    /\ hub' = "up"

--------------------

EffectStep(t) ==
    \E o \in Ops :
        \/ ScheduleEffect(t, o)
        \/ StartEffect(t, o)
        \/ \E c \in requested[t] : StartToolEffect(t, o, c)

ToolStep(t) ==
    \/ \E cs \in SUBSET Calls : AppendAssistantResponse(t, cs)
    \/ \E c \in Calls, r \in Reported :
        \/ CompleteToolExecution(t, c, r)
        \/ AppendToolResult(t, c, r)

Next ==
    \/ \E s \in Sessions, k \in Keys, r \in Requests, t \in Turns :
         AcceptTurn(s, k, r, t)
    \/ \E t \in Turns :
        \/ \E h \in Harnesses : RecordTurnHarness(t, h)
        \/ EffectStep(t)
        \/ ToolStep(t)
        \/ \E st \in Terminal : FinishTurn(t, st)
    \/ \E o \in Ops :
        \/ MarkEffectStarted(o)
        \/ \E outcome \in Closed : FinishEffect(o, outcome)
    \/ Crash
    \/ RecoverInterruptedWork

Spec == Init /\ [][Next]_vars

--------------------
(***************************************************************************)
(* Properties.                                                             *)
(***************************************************************************)

\* The tables hold rows of the shape their columns declare.
TypeOK ==
    /\ hub \in {"up", "down"}
    /\ turn \in [Turns -> TurnRow]
    /\ receipt \in [Sessions -> [Keys -> Receipt \cup {None}]]
    /\ effect \in [Ops -> EffectRow]
    /\ requested \in [Turns -> SUBSET Calls]
    /\ results \in [Turns -> [Calls -> Seq(Results)]]

\* A Session never has two Turns running, although two clients may start Turns
\* under different keys at the same time and a Turn may end by cancellation,
\* failure or recovery while its task still runs (ActiveTurnConflict).
OneActiveTurnPerSession ==
    \A t, u \in Turns :
        Active(t) /\ Active(u) /\ turn[t].session = turn[u].session => t = u

\* Idempotency of StartTurn: every Turn was created under exactly one key of its
\* Session, so a client that retries a key finds that one Turn and never makes
\* another.
ReceiptNamesItsTurn ==
    /\ \A s \in Sessions, k \in Keys :
         receipt[s][k] # None =>
            /\ turn[receipt[s][k].turn].status # "absent"
            /\ turn[receipt[s][k].turn].session = s
    /\ \A t \in Turns : turn[t].status # "absent" =>
         \E k \in Keys : /\ receipt[turn[t].session][k] # None
                         /\ receipt[turn[t].session][k].turn = t
    /\ \A s \in Sessions, k, l \in Keys :
         /\ receipt[s][k] # None
         /\ receipt[s][l] # None
         /\ receipt[s][k].turn = receipt[s][l].turn
         => k = l

\* However a Turn ends - by its task, a cancellation racing it or the recovery
\* after a crash - no effect of it stays open for ever.
EndedTurnHasNoOpenEffect ==
    \A o \in Ops : IsOpen(o) => Active(effect[o].turn)

\* Every tool call the model was told it had made has a result once the Turn has
\* ended. A call without one makes the stored history unusable as model context.
EveryAcceptedCallIsAnswered ==
    \A t \in Turns : turn[t].status \in Terminal =>
        \A c \in requested[t] : results[t][c] # <<>>

RecordedFor(t, c, r) == \E i \in 1 .. Len(results[t][c]) : results[t][c][i] = r

\* The store tells the model that a tool did not start only when its execution
\* was never dispatched, that its outcome is unknown only when it was dispatched
\* and did not report, and that its processing was interrupted only when it did.
StoreResultsAreHonest ==
    \A t \in Turns, c \in Calls :
        /\ RecordedFor(t, c, DidNotStart) => ToolEffects(t, c) = {}
        /\ RecordedFor(t, c, OutcomeUnknown) =>
             \E o \in ToolEffects(t, c) :
                effect[o].status = "uncertain" /\ effect[o].raw = None
        /\ RecordedFor(t, c, ProcessingInterrupted) =>
             \E o \in ToolEffects(t, c) : effect[o].raw # None

\* A Turn is reported completed only if every effect it dispatched reported: none
\* was closed on its behalf with an unknown outcome.
CompletedTurnLostNoOutcome ==
    \A t \in Turns : turn[t].status = "completed" =>
        \A c \in Calls : ~ RecordedFor(t, c, OutcomeUnknown)

\* Rows and entries refer to Turns that exist; a tool execution is never left
\* scheduled, carries its raw outcome exactly when it has reported, and while the
\* Turn runs an execution that is no longer open has reported.
EffectsFollowTheirTurn ==
    \A o \in Ops :
        /\ effect[o].status = "absent" => effect[o] = NoEffect
        /\ effect[o].status # "absent" =>
             /\ effect[o].turn \in Turns
             /\ turn[effect[o].turn].status # "absent"
        /\ IsOpen(o) => effect[o].raw = None
        /\ effect[o].call # None =>
             /\ effect[o].status # "scheduled"
             /\ /\ effect[o].status \in Closed
                /\ Active(effect[o].turn)
                => effect[o].raw # None

\* The store writes results on its own behalf only as a Turn ends.
RunningTurnHoldsReportsOnly ==
    /\ \A t \in Turns : turn[t].status = "absent" =>
         /\ requested[t] = {}
         /\ \A c \in Calls : results[t][c] = <<>>
    /\ \A t \in Turns : Active(t) =>
         \A c \in Calls, r \in Results : RecordedFor(t, c, r) => r \in Reported

\* The inductive strengthening of the invariants above.
IndInv ==
    /\ TypeOK
    /\ OneActiveTurnPerSession
    /\ ReceiptNamesItsTurn
    /\ EndedTurnHasNoOpenEffect
    /\ EffectsFollowTheirTurn
    /\ RunningTurnHoldsReportsOnly
    /\ EveryAcceptedCallIsAnswered
    /\ StoreResultsAreHonest
    /\ CompletedTurnLostNoOutcome

\* A Turn ends once. No later call of a task that outlived it, no late failure
\* and no recovery changes its status, its effects or its results.
EndedTurnIsFinal ==
    [][\A t \in Turns : turn[t].status \in Terminal =>
          /\ turn'[t] = turn[t]
          /\ requested'[t] = requested[t]
          /\ results'[t] = results[t]
          /\ \A o \in Ops : effect'[o] # effect[o] =>
                /\ effect[o].turn # t
                /\ effect'[o].turn # t]_vars
=============================================================================
