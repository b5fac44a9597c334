-------------------------- MODULE TurnStoreProofs --------------------------
(***************************************************************************)
(* Proofs about TurnStore: type correctness and the safety of the Turn     *)
(* state for every number of Sessions, Turns, effects and tool calls.      *)
(***************************************************************************)
EXTENDS TurnStore, TLAPS

--------------------

\* What ending a Turn may record for a call: nothing or one of the three
\* results the store writes on its own behalf.
LEMMA ClosingResultType ==
  ASSUME NEW t \in Turns, NEW c \in Calls
  PROVE  ClosingResult(t, c) \in
            {None, DidNotStart, OutcomeUnknown, ProcessingInterrupted}
<1>1. InterruptedResult(t, c) \in {None, DidNotStart, OutcomeUnknown}
  BY DEF InterruptedResult
<1>2. OrphanResult(t, c) \in {None, DidNotStart, ProcessingInterrupted}
  BY DEF OrphanResult
<1>. QED BY <1>1, <1>2 DEF ClosingResult

\* EndTurns keeps the tables well-typed, whichever Turns it ends.
LEMMA EndTurnsType ==
  ASSUME TypeOK, NEW T \in SUBSET Turns, NEW st \in Terminal, EndTurns(T, st)
  PROVE  /\ turn' \in [Turns -> TurnRow]
         /\ effect' \in [Ops -> EffectRow]
         /\ results' \in [Turns -> [Calls -> Seq(Results)]]
         /\ UNCHANGED <<receipt, requested>>
<1>1. turn' \in [Turns -> TurnRow]
  BY DEF TypeOK, EndTurns, TurnRow, Terminal
<1>2. effect' \in [Ops -> EffectRow]
  BY DEF TypeOK, EndTurns, CloseOpenEffects, EffectRow, Open, Closed, IsOpen
<1>3. results' \in [Turns -> [Calls -> Seq(Results)]]
  <2> SUFFICES ASSUME NEW t \in Turns, NEW c \in Calls
               PROVE  results'[t][c] \in Seq(Results)
    BY DEF EndTurns, CloseToolCalls
  <2>1. results[t][c] \in Seq(Results)
    BY DEF TypeOK
  <2>2. ClosingResult(t, c) # None => ClosingResult(t, c) \in Results
    BY ClosingResultType DEF Results
  <2>3. CASE t \in T /\ ClosingResult(t, c) # None
    <3>1. results'[t][c] = Append(results[t][c], ClosingResult(t, c))
      BY <2>3 DEF EndTurns, CloseToolCalls
    <3>. QED BY <2>1, <2>2, <2>3, <3>1
  <2>4. CASE ~ (t \in T /\ ClosingResult(t, c) # None)
    BY <2>1, <2>4 DEF EndTurns, CloseToolCalls
  <2>. QED BY <2>3, <2>4
<1>. QED BY <1>1, <1>2, <1>3 DEF EndTurns

LEMMA TypeStep ==
  ASSUME TypeOK, [Next]_vars
  PROVE  TypeOK'
<1>1. ASSUME NEW s \in Sessions, NEW k \in Keys, NEW r \in Requests,
             NEW t \in Turns, AcceptTurn(s, k, r, t)
      PROVE  TypeOK'
  BY <1>1 DEF TypeOK, AcceptTurn, TurnRow, Receipt
<1>2. ASSUME NEW t \in Turns, NEW h \in Harnesses, RecordTurnHarness(t, h)
      PROVE  TypeOK'
  <2>1. turn[t] \in TurnRow
    BY DEF TypeOK
  <2>2. [turn[t] EXCEPT !.harness = h] \in TurnRow
    BY <2>1 DEF TurnRow
  <2>3. turn' = [turn EXCEPT ![t] = [turn[t] EXCEPT !.harness = h]]
    BY <1>2 DEF RecordTurnHarness
  <2>4. turn' \in [Turns -> TurnRow]
    BY <2>2, <2>3 DEF TypeOK
  <2>. QED BY <1>2, <2>4 DEF TypeOK, RecordTurnHarness
<1>3. ASSUME NEW t \in Turns, NEW o \in Ops, ScheduleEffect(t, o)
      PROVE  TypeOK'
  BY <1>3 DEF TypeOK, ScheduleEffect, NewEffect, EffectRow, Open
<1>4. ASSUME NEW t \in Turns, NEW o \in Ops, StartEffect(t, o)
      PROVE  TypeOK'
  BY <1>4 DEF TypeOK, StartEffect, NewEffect, EffectRow, Open
<1>5. ASSUME NEW t \in Turns, NEW o \in Ops, NEW c \in requested[t],
             StartToolEffect(t, o, c)
      PROVE  TypeOK'
  <2>1. c \in Calls
    BY DEF TypeOK
  <2>. QED
    BY <1>5, <2>1 DEF TypeOK, StartToolEffect, NewEffect, EffectRow, Open
<1>6. ASSUME NEW t \in Turns, NEW cs \in SUBSET Calls,
             AppendAssistantResponse(t, cs)
      PROVE  TypeOK'
  BY <1>6 DEF TypeOK, AppendAssistantResponse
<1>7. ASSUME NEW t \in Turns, NEW c \in Calls, NEW r \in Reported,
             CompleteToolExecution(t, c, r)
      PROVE  TypeOK'
  <2>1. StatusOf(r) \in Closed
    BY DEF StatusOf, Closed
  <2>. QED
    BY <1>7, <2>1 DEF TypeOK, CompleteToolExecution, ToolEffects, EffectRow
<1>8. ASSUME NEW t \in Turns, NEW c \in Calls, NEW r \in Reported,
             AppendToolResult(t, c, r)
      PROVE  TypeOK'
  <2>1. results'[t][c] = Append(results[t][c], r)
    BY <1>8 DEF TypeOK, AppendToolResult
  <2>2. Append(results[t][c], r) \in Seq(Results)
    BY DEF TypeOK, Results
  <2>3. results' \in [Turns -> [Calls -> Seq(Results)]]
    BY <1>8, <2>1, <2>2 DEF TypeOK, AppendToolResult
  <2>. QED BY <1>8, <2>3 DEF TypeOK, AppendToolResult
<1>9. ASSUME NEW t \in Turns, NEW st \in Terminal, FinishTurn(t, st)
      PROVE  TypeOK'
  BY <1>9, EndTurnsType DEF TypeOK, FinishTurn
<1>10. ASSUME NEW o \in Ops, MarkEffectStarted(o)
       PROVE  TypeOK'
  BY <1>10 DEF TypeOK, MarkEffectStarted, EffectRow, Open
<1>11. ASSUME NEW o \in Ops, NEW outcome \in Closed, FinishEffect(o, outcome)
       PROVE  TypeOK'
  BY <1>11 DEF TypeOK, FinishEffect, EffectRow
<1>12. CASE Crash
  BY <1>12 DEF TypeOK, Crash
<1>13. CASE RecoverInterruptedWork
  BY <1>13, EndTurnsType DEF TypeOK, RecoverInterruptedWork, Terminal
<1>14. CASE UNCHANGED vars
  BY <1>14 DEF TypeOK, vars
<1>. QED
  BY <1>1, <1>2, <1>3, <1>4, <1>5, <1>6, <1>7, <1>8, <1>9, <1>10, <1>11,
     <1>12, <1>13, <1>14 DEF Next, EffectStep, ToolStep

\* The tables stay well-typed through every operation, crash and recovery.
THEOREM TypeCorrectness == Spec => []TypeOK
<1>1. Init => TypeOK
  BY DEF Init, TypeOK, NoTurn, NoEffect, TurnRow, EffectRow
<1>2. TypeOK /\ [Next]_vars => TypeOK'
  BY TypeStep
<1>. QED BY <1>1, <1>2, PTL DEF Spec

--------------------
(***************************************************************************)
(* The inductive invariant, one lemma per group of actions.                *)
(***************************************************************************)

\* A step that changes neither Turns, receipts, calls nor results and gives one
\* effect of a running Turn a new row: nothing that was recorded is disturbed.
LEMMA EffectStepInv ==
  ASSUME IndInv, TypeOK',
         NEW o \in Ops, NEW t \in Turns, NEW row \in EffectRow,
         Active(t), row.turn = t,
         row.status # "absent",
         effect[o].status = "absent" \/ (effect[o].turn = t /\ effect[o].call = row.call),
         row.status \in Open => row.raw = None,
         row.call # None => row.status # "scheduled"
                            /\ (row.status \in Closed => row.raw # None),
         effect' = [effect EXCEPT ![o] = row],
         UNCHANGED <<turn, receipt, requested, results>>
  PROVE  IndInv'
<1>. USE DEF IndInv
<1>1. OneActiveTurnPerSession'
  BY DEF OneActiveTurnPerSession, Active
<1>2. ReceiptNamesItsTurn'
  BY DEF ReceiptNamesItsTurn
<1>3. EndedTurnHasNoOpenEffect'
  BY DEF EndedTurnHasNoOpenEffect, IsOpen, Active, TypeOK
<1>4. EffectsFollowTheirTurn'
  <2> SUFFICES ASSUME NEW p \in Ops
               PROVE  /\ effect'[p].status = "absent" => effect'[p] = NoEffect
                      /\ effect'[p].status # "absent" =>
                           /\ effect'[p].turn \in Turns
                           /\ turn[effect'[p].turn].status # "absent"
                      /\ effect'[p].status \in Open => effect'[p].raw = None
                      /\ effect'[p].call # None =>
                           /\ effect'[p].status # "scheduled"
                           /\ /\ effect'[p].status \in Closed
                              /\ turn[effect'[p].turn].status = "running"
                              => effect'[p].raw # None
    BY DEF EffectsFollowTheirTurn, IsOpen, Active
  <2>1. CASE p = o
    <3>1. effect'[p] = row
      BY <2>1 DEF TypeOK
    <3>. QED BY <3>1 DEF Active, EffectRow
  <2>2. CASE p # o
    <3>1. effect'[p] = effect[p]
      BY <2>2 DEF TypeOK
    <3>. QED BY <3>1 DEF EffectsFollowTheirTurn, IsOpen, Active
  <2>. QED BY <2>1, <2>2
<1>5. RunningTurnHoldsReportsOnly'
  BY DEF RunningTurnHoldsReportsOnly, RecordedFor, Active
<1>6. EveryAcceptedCallIsAnswered'
  BY DEF EveryAcceptedCallIsAnswered
<1>7. StoreResultsAreHonest'
  <2> SUFFICES ASSUME NEW u \in Turns, NEW c \in Calls
               PROVE  /\ RecordedFor(u, c, DidNotStart) => ToolEffects(u, c)' = {}
                      /\ RecordedFor(u, c, OutcomeUnknown) =>
                           \E p \in ToolEffects(u, c)' :
                              effect'[p].status = "uncertain" /\ effect'[p].raw = None
                      /\ RecordedFor(u, c, ProcessingInterrupted) =>
                           \E p \in ToolEffects(u, c)' : effect'[p].raw # None
    BY DEF StoreResultsAreHonest, RecordedFor
  <2>1. CASE u = t
    <3>1. /\ ~ RecordedFor(u, c, DidNotStart)
          /\ ~ RecordedFor(u, c, OutcomeUnknown)
          /\ ~ RecordedFor(u, c, ProcessingInterrupted)
      BY <2>1 DEF RunningTurnHoldsReportsOnly, Results, Reported, DidNotStart,
                  OutcomeUnknown, ProcessingInterrupted
    <3>. QED BY <3>1
  <2>2. CASE u # t
    <3>1. \A p \in Ops : p # o => effect'[p] = effect[p]
      BY DEF TypeOK
    <3>2. effect'[o] = row /\ effect[o].turn # u
      <4>1. effect'[o] = row
        BY DEF TypeOK
      <4>2. CASE effect[o].status = "absent"
        <5>1. effect[o] = NoEffect
          BY <4>2 DEF EffectsFollowTheirTurn
        <5>2. u # None
          BY NoneAssumption
        <5>. QED BY <4>1, <5>1, <5>2 DEF NoEffect
      <4>3. CASE effect[o].turn = t
        BY <2>2, <4>1, <4>3
      <4>. QED BY <4>2, <4>3
    <3>3. ToolEffects(u, c)' = ToolEffects(u, c)
      BY <2>2, <3>1, <3>2 DEF ToolEffects
    <3>4. o \notin ToolEffects(u, c)
      BY <3>2 DEF ToolEffects
    <3>5. \A p \in ToolEffects(u, c) : effect'[p] = effect[p]
      BY <3>1, <3>4 DEF ToolEffects
    <3>. QED BY <3>3, <3>5 DEF StoreResultsAreHonest
  <2>. QED BY <2>1, <2>2
<1>8. CompletedTurnLostNoOutcome'
  BY DEF CompletedTurnLostNoOutcome, RecordedFor
<1>. QED BY <1>1, <1>2, <1>3, <1>4, <1>5, <1>6, <1>7, <1>8

\* The six operations that write one effect row.
LEMMA EffectActionsInv ==
  ASSUME IndInv, TypeOK',
         \/ \E t \in Turns, o \in Ops : ScheduleEffect(t, o) \/ StartEffect(t, o)
         \/ \E t \in Turns, o \in Ops, c \in Calls : StartToolEffect(t, o, c)
         \/ \E o \in Ops : MarkEffectStarted(o)
         \/ \E o \in Ops, outcome \in Closed : FinishEffect(o, outcome)
         \/ \E t \in Turns, c \in Calls, r \in Reported :
               CompleteToolExecution(t, c, r)
  PROVE  IndInv'
<1>1. ASSUME NEW t \in Turns, NEW o \in Ops, NEW c \in Calls \cup {None},
             NEW st \in Open, Active(t), NewEffect(o, t, c, st),
             c # None => st = "started",
             UNCHANGED <<turn, receipt, requested, results>>
      PROVE  IndInv'
  <2> DEFINE row == [status |-> st, turn |-> t, call |-> c, raw |-> None]
  <2>1. row \in EffectRow
    BY DEF EffectRow
  <2>2. effect[o].status = "absent" /\ effect' = [effect EXCEPT ![o] = row]
    BY <1>1 DEF NewEffect
  <2>3. row.status # "absent" /\ row.status \notin Closed
    BY DEF Open, Closed
  <2>4. row.turn = t /\ row.call = c /\ row.raw = None /\ row.status = st
    OBVIOUS
  <2>. HIDE DEF row
  <2>. QED BY <1>1, <2>1, <2>2, <2>3, <2>4, EffectStepInv
<1>2. ASSUME NEW t \in Turns, NEW o \in Ops, ScheduleEffect(t, o)
      PROVE  IndInv'
  BY <1>1, <1>2 DEF ScheduleEffect, Open
<1>3. ASSUME NEW t \in Turns, NEW o \in Ops, StartEffect(t, o)
      PROVE  IndInv'
  BY <1>1, <1>3 DEF StartEffect, Open
<1>4. ASSUME NEW t \in Turns, NEW o \in Ops, NEW c \in Calls,
             StartToolEffect(t, o, c)
      PROVE  IndInv'
  BY <1>1, <1>4 DEF StartToolEffect, Open
<1>5. ASSUME NEW o \in Ops, NEW st \in {"started"} \cup Closed,
             IsOpen(o), effect[o].call = None, Active(effect[o].turn),
             effect' = [effect EXCEPT ![o].status = st],
             UNCHANGED <<turn, receipt, requested, results>>
      PROVE  IndInv'
  <2> DEFINE row == [status |-> st, turn |-> effect[o].turn,
                     call |-> None, raw |-> None]
  <2>1. effect[o].turn \in Turns /\ effect[o].raw = None
    BY <1>5 DEF IndInv, EffectsFollowTheirTurn, IsOpen, Open
  <2>2. row \in EffectRow
    BY <2>1 DEF EffectRow, Open
  <2>3. effect[o] \in EffectRow
    BY DEF IndInv, TypeOK
  <2>4. effect' = [effect EXCEPT ![o] = row]
    <3>1. effect'[o] \in EffectRow /\ effect' \in [Ops -> EffectRow]
      BY DEF TypeOK
    <3>2. /\ effect'[o].status = st /\ effect'[o].turn = effect[o].turn
          /\ effect'[o].call = None /\ effect'[o].raw = None
      BY <1>5, <2>1, <2>3 DEF EffectRow, IndInv, TypeOK
    <3>3. effect'[o] = row
      BY <3>1, <3>2 DEF EffectRow
    <3>4. effect \in [Ops -> EffectRow] /\ \A p \in Ops : p # o => effect'[p] = effect[p]
      BY <1>5 DEF IndInv, TypeOK
    <3>. HIDE DEF row
    <3>. QED BY <3>1, <3>3, <3>4
  <2>5. /\ row.status # "absent" /\ row.turn = effect[o].turn
        /\ row.call = None /\ row.raw = None
    BY DEF Closed
  <2>. HIDE DEF row
  <2>. QED BY <1>5, <2>1, <2>2, <2>4, <2>5, EffectStepInv
<1>6. ASSUME NEW o \in Ops, MarkEffectStarted(o)
      PROVE  IndInv'
  <2>1. IsOpen(o) /\ effect[o].call = None
    BY <1>6 DEF MarkEffectStarted, IndInv, EffectsFollowTheirTurn, IsOpen, Open
  <2>. QED BY <1>5, <1>6, <2>1 DEF MarkEffectStarted
<1>7. ASSUME NEW o \in Ops, NEW outcome \in Closed, FinishEffect(o, outcome)
      PROVE  IndInv'
  BY <1>5, <1>7 DEF FinishEffect, IsOpen, Open
<1>8. ASSUME NEW t \in Turns, NEW c \in Calls, NEW r \in Reported,
             CompleteToolExecution(t, c, r)
      PROVE  IndInv'
  <2> DEFINE row == [status |-> StatusOf(r), turn |-> t, call |-> c, raw |-> r]
  <2>1. PICK o \in ToolEffects(t, c) :
           effect[o].status = "started" /\ effect' = [effect EXCEPT ![o] = row]
    BY <1>8 DEF CompleteToolExecution
  <2>2. StatusOf(r) \in Closed
    BY DEF StatusOf, Closed
  <2>3. r # None
    BY NoneAssumption DEF Reported
  <2>4. row \in EffectRow
    BY <2>2 DEF EffectRow
  <2>5. /\ row.status \in Closed /\ row.turn = t /\ row.call = c /\ row.raw = r
        /\ row.status # "absent" /\ row.status \notin Open
        /\ row.status # "scheduled"
    BY <2>2 DEF Closed, Open
  <2>6. o \in Ops /\ effect[o].turn = t /\ effect[o].call = c
    BY <2>1 DEF ToolEffects
  <2>7. Active(t) /\ UNCHANGED <<turn, receipt, requested, results>>
    BY <1>8 DEF CompleteToolExecution
  <2>. HIDE DEF row
  <2>. QED BY <2>1, <2>3, <2>4, <2>5, <2>6, <2>7, EffectStepInv
<1>. QED BY <1>2, <1>3, <1>4, <1>6, <1>7, <1>8

--------------------

\* What the store's own result for a call of a running Turn says is true of the
\* call's execution, and an accepted call gets one unless it has a result.
LEMMA ClosingResultMeaning ==
  ASSUME IndInv, NEW t \in Turns, NEW c \in Calls, Active(t)
  PROVE  /\ ClosingResult(t, c) = None /\ c \in requested[t] => results[t][c] # <<>>
         /\ ClosingResult(t, c) = DidNotStart => ToolEffects(t, c) = {}
         /\ ClosingResult(t, c) = OutcomeUnknown =>
              \E o \in ToolEffects(t, c) : effect[o].status = "started"
         /\ ClosingResult(t, c) = ProcessingInterrupted =>
              \E o \in ToolEffects(t, c) : effect[o].raw # None
<1>1. /\ None # DidNotStart /\ None # OutcomeUnknown /\ None # ProcessingInterrupted
      /\ DidNotStart # OutcomeUnknown /\ DidNotStart # ProcessingInterrupted
      /\ OutcomeUnknown # ProcessingInterrupted
  BY NoneAssumption DEF DidNotStart, OutcomeUnknown, ProcessingInterrupted
<1>2. c # None
  BY NoneAssumption
<1>3. \A o \in ToolEffects(t, c) : effect[o].status \in {"started"} \cup Closed
  <2> SUFFICES ASSUME NEW o \in ToolEffects(t, c)
               PROVE  effect[o].status \in {"started"} \cup Closed
    OBVIOUS
  <2>1. o \in Ops /\ effect[o].call = c
    BY DEF ToolEffects
  <2>2. effect[o].status # "absent"
    BY <1>2, <2>1 DEF IndInv, EffectsFollowTheirTurn, NoEffect
  <2>3. effect[o].status # "scheduled"
    BY <1>2, <2>1 DEF IndInv, EffectsFollowTheirTurn
  <2>4. effect[o].status \in {"absent"} \cup Open \cup Closed
    BY <2>1 DEF IndInv, TypeOK, EffectRow
  <2>. QED BY <2>2, <2>3, <2>4 DEF Open
<1>4. CASE \E o \in ToolEffects(t, c) : effect[o].status = "started"
  <2>1. InterruptedResult(t, c) = OutcomeUnknown
    BY <1>4 DEF InterruptedResult
  <2>. QED BY <1>1, <1>4, <2>1 DEF ClosingResult
<1>5. CASE ~ \E o \in ToolEffects(t, c) : effect[o].status = "started"
  <2>1. ~ \E o \in ToolEffects(t, c) : effect[o].status = "scheduled"
    BY <1>3 DEF Closed
  <2>2. InterruptedResult(t, c) = None
    BY <1>5, <2>1 DEF InterruptedResult
  <2>3. ClosingResult(t, c) = OrphanResult(t, c)
    BY <2>2 DEF ClosingResult
  <2>4. CASE c \notin requested[t] \/ results[t][c] # <<>>
    <3>1. OrphanResult(t, c) = None
      BY <2>4 DEF OrphanResult
    <3>. QED BY <1>1, <2>3, <2>4, <3>1
  <2>5. CASE ~ (c \notin requested[t] \/ results[t][c] # <<>>)
    <3>1. CASE \E o \in ToolEffects(t, c) : effect[o].raw # None
      <4>1. OrphanResult(t, c) = ProcessingInterrupted
        BY <2>5, <3>1 DEF OrphanResult
      <4>. QED BY <1>1, <2>3, <3>1, <4>1
    <3>2. CASE ~ \E o \in ToolEffects(t, c) : effect[o].raw # None
      <4>1. OrphanResult(t, c) = DidNotStart
        BY <2>5, <3>2 DEF OrphanResult
      <4>2. ASSUME NEW o \in ToolEffects(t, c)
            PROVE  FALSE
        <5>1. effect[o].status \in Closed
          BY <1>3, <1>5
        <5>2. o \in Ops /\ effect[o].turn = t /\ effect[o].call = c
          BY DEF ToolEffects
        <5>. QED BY <1>2, <3>2, <5>1, <5>2 DEF IndInv, EffectsFollowTheirTurn
      <4>. QED BY <1>1, <2>3, <4>1, <4>2
    <3>. QED BY <3>1, <3>2
  <2>. QED BY <2>4, <2>5
<1>. QED BY <1>4, <1>5

\* Ending running Turns leaves every Turn accounted for. The completed status is
\* given only to Turns without an open effect (finish_turn_with_stop_reason).
LEMMA EndTurnsInv ==
  ASSUME IndInv, TypeOK', NEW T \in SUBSET Turns, NEW st \in Terminal,
         \A t \in T : Active(t),
         st = "completed" => \A t \in T : OpenEffectsOf(t) = {},
         EndTurns(T, st)
  PROVE  IndInv'
<1>. USE DEF IndInv
<1>1. /\ \A t \in T : /\ turn'[t].status = st /\ turn'[t].session = turn[t].session
                      /\ turn[t].status = "running"
      /\ \A t \in Turns : t \notin T => turn'[t] = turn[t]
  BY DEF EndTurns, Active
<1>2. st # "running" /\ st # "absent"
  BY DEF Terminal
<1>3. UNCHANGED <<receipt, requested>>
  BY DEF EndTurns
<1>4. \A o \in Ops : /\ effect'[o].turn = effect[o].turn
                     /\ effect'[o].call = effect[o].call
  BY DEF EndTurns, CloseOpenEffects
<1>5. \A o \in Ops : ~ (effect[o].turn \in T /\ IsOpen(o)) => effect'[o] = effect[o]
  BY DEF EndTurns, CloseOpenEffects
<1>6. \A o \in Ops : effect[o].turn \in T /\ IsOpen(o) =>
         /\ effect'[o].status = IF effect[o].status = "started" THEN "uncertain"
                                                               ELSE "failed"
         /\ effect'[o].raw = None
  BY DEF EndTurns, CloseOpenEffects
<1>7. \A t \in Turns, c \in Calls : t \notin T => results'[t][c] = results[t][c]
  BY DEF EndTurns, CloseToolCalls
<1>8. \A t \in T, c \in Calls :
         results'[t][c] = IF ClosingResult(t, c) # None
                          THEN Append(results[t][c], ClosingResult(t, c))
                          ELSE results[t][c]
  BY DEF EndTurns, CloseToolCalls
<1>9. \A t \in Turns, c \in Calls : results[t][c] \in Seq(Results)
  BY DEF TypeOK
<1>10. \A t \in Turns, c \in Calls : ToolEffects(t, c)' = ToolEffects(t, c)
  BY <1>4 DEF ToolEffects
\* A result the store did not yet hold for a call of a running Turn is the one
\* that ending the Turn appends.
<1>11. ASSUME NEW t \in T, NEW c \in Calls,
              NEW r \in {DidNotStart, OutcomeUnknown, ProcessingInterrupted},
              RecordedFor(t, c, r)'
       PROVE  r = ClosingResult(t, c)
  <2>1. PICK i \in 1 .. Len(results'[t][c]) : results'[t][c][i] = r
    BY <1>11 DEF RecordedFor
  <2>2. r \in Results /\ r \notin Reported
    BY DEF Results, Reported, DidNotStart, OutcomeUnknown, ProcessingInterrupted
  <2>3. ~ RecordedFor(t, c, r)
    BY <1>1, <2>2 DEF RunningTurnHoldsReportsOnly, Active
  <2>4. \A j \in 1 .. Len(results[t][c]) : results[t][c][j] # r
    BY <2>3 DEF RecordedFor
  <2>5. CASE ClosingResult(t, c) # None
    <3>1. results'[t][c] = Append(results[t][c], ClosingResult(t, c))
      BY <1>8, <2>5
    <3>2. ClosingResult(t, c) \in Results
      BY <2>5, ClosingResultType DEF Results
    <3>. QED BY <1>9, <2>1, <2>4, <3>1, <3>2
  <2>6. CASE ClosingResult(t, c) = None
    <3>1. results'[t][c] = results[t][c]
      BY <1>8, <2>6
    <3>. QED BY <2>1, <2>4, <3>1
  <2>. QED BY <2>5, <2>6
<1>12. OneActiveTurnPerSession'
  BY <1>1, <1>2 DEF OneActiveTurnPerSession, Active
<1>13. ReceiptNamesItsTurn'
  <2>1. \A t \in Turns : /\ turn'[t].session = turn[t].session
                         /\ turn[t].status # "absent" => turn'[t].status # "absent"
                         /\ turn'[t].status # "absent" => turn[t].status # "absent"
    BY <1>1, <1>2
  <2>2. \A s \in Sessions, k \in Keys :
           receipt[s][k] # None => receipt[s][k].turn \in Turns
    BY DEF TypeOK, Receipt
  <2>3. \A s \in Sessions, k \in Keys : receipt'[s][k] = receipt[s][k]
    BY <1>3
  <2>4. ASSUME NEW s \in Sessions, NEW k \in Keys, receipt'[s][k] # None
        PROVE  /\ turn'[receipt'[s][k].turn].status # "absent"
               /\ turn'[receipt'[s][k].turn].session = s
    <3>1. receipt[s][k] # None /\ receipt[s][k].turn \in Turns
      BY <2>2, <2>3, <2>4
    <3>2. /\ turn[receipt[s][k].turn].status # "absent"
          /\ turn[receipt[s][k].turn].session = s
      BY <3>1 DEF ReceiptNamesItsTurn
    <3>. QED BY <2>1, <2>3, <3>1, <3>2
  <2>5. ASSUME NEW t \in Turns, turn'[t].status # "absent"
        PROVE  \E k \in Keys : /\ receipt'[turn'[t].session][k] # None
                               /\ receipt'[turn'[t].session][k].turn = t
    <3>1. turn[t].status # "absent" /\ turn'[t].session = turn[t].session
      BY <2>1, <2>5
    <3>2. \E k \in Keys : /\ receipt[turn[t].session][k] # None
                          /\ receipt[turn[t].session][k].turn = t
      BY <3>1 DEF ReceiptNamesItsTurn
    <3>. QED BY <1>3, <3>1, <3>2
  <2>6. \A s \in Sessions, k, l \in Keys :
           /\ receipt'[s][k] # None
           /\ receipt'[s][l] # None
           /\ receipt'[s][k].turn = receipt'[s][l].turn
           => k = l
    BY <2>3 DEF ReceiptNamesItsTurn
  <2>. QED BY <2>4, <2>5, <2>6 DEF ReceiptNamesItsTurn
<1>14. EndedTurnHasNoOpenEffect'
  <2> SUFFICES ASSUME NEW o \in Ops, effect'[o].status \in Open
               PROVE  turn'[effect'[o].turn].status = "running"
    BY DEF EndedTurnHasNoOpenEffect, IsOpen, Active
  <2>1. ~ (effect[o].turn \in T /\ IsOpen(o))
    BY <1>6 DEF Open
  <2>2. effect'[o] = effect[o] /\ IsOpen(o)
    BY <1>5, <2>1 DEF IsOpen
  <2>3. effect[o].turn \in Turns /\ turn[effect[o].turn].status = "running"
    BY <2>2 DEF EndedTurnHasNoOpenEffect, EffectsFollowTheirTurn, IsOpen, Open, Active
  <2>. QED BY <1>1, <2>1, <2>2, <2>3
<1>15. EffectsFollowTheirTurn'
  <2> SUFFICES ASSUME NEW o \in Ops
               PROVE  /\ effect'[o].status = "absent" => effect'[o] = NoEffect
                      /\ effect'[o].status # "absent" =>
                           /\ effect'[o].turn \in Turns
                           /\ turn'[effect'[o].turn].status # "absent"
                      /\ effect'[o].status \in Open => effect'[o].raw = None
                      /\ effect'[o].call # None =>
                           /\ effect'[o].status # "scheduled"
                           /\ /\ effect'[o].status \in Closed
                              /\ turn'[effect'[o].turn].status = "running"
                              => effect'[o].raw # None
    BY DEF EffectsFollowTheirTurn, IsOpen, Active
  <2>1. CASE effect[o].turn \in T /\ IsOpen(o)
    <3>1. effect'[o].status \in {"uncertain", "failed"}
      BY <1>6, <2>1
    <3>2. turn'[effect'[o].turn].status = st
      BY <1>1, <1>4, <2>1
    <3>. QED BY <1>2, <1>4, <2>1, <3>1, <3>2 DEF Open
  <2>2. CASE ~ (effect[o].turn \in T /\ IsOpen(o))
    <3>1. effect'[o] = effect[o]
      BY <1>5, <2>2
    <3>2. effect[o].turn \in Turns =>
             /\ turn'[effect[o].turn].status = "running" => Active(effect[o].turn)
             /\ turn[effect[o].turn].status # "absent"
                  => turn'[effect[o].turn].status # "absent"
      BY <1>1, <1>2 DEF Active
    <3>3. effect[o].status \in Closed => effect[o].status # "absent"
      BY DEF Closed
    <3>. QED BY <3>1, <3>2, <3>3 DEF EffectsFollowTheirTurn, IsOpen
  <2>. QED BY <2>1, <2>2
<1>16. RunningTurnHoldsReportsOnly'
  BY <1>1, <1>2, <1>3, <1>7 DEF RunningTurnHoldsReportsOnly, RecordedFor, Active
<1>17. EveryAcceptedCallIsAnswered'
  <2> SUFFICES ASSUME NEW t \in Turns, turn'[t].status \in Terminal, NEW c \in requested[t]
               PROVE  results'[t][c] # <<>>
    BY <1>3 DEF EveryAcceptedCallIsAnswered
  <2>1. c \in Calls
    BY DEF TypeOK
  <2>2. CASE t \in T
    <3>1. CASE ClosingResult(t, c) = None
      BY <1>8, <2>1, <2>2, <3>1, ClosingResultMeaning
    <3>2. CASE ClosingResult(t, c) # None
      <4>1. ClosingResult(t, c) \in Results
        BY <2>1, <3>2, ClosingResultType DEF Results
      <4>2. results'[t][c] = Append(results[t][c], ClosingResult(t, c))
        BY <1>8, <2>1, <2>2, <3>2
      <4>. QED BY <1>9, <2>1, <4>1, <4>2
    <3>. QED BY <3>1, <3>2
  <2>3. CASE t \notin T
    BY <1>1, <1>7, <2>1, <2>3 DEF EveryAcceptedCallIsAnswered
  <2>. QED BY <2>2, <2>3
<1>18. StoreResultsAreHonest'
  <2> SUFFICES ASSUME NEW t \in Turns, NEW c \in Calls
               PROVE  /\ RecordedFor(t, c, DidNotStart)' => ToolEffects(t, c) = {}
                      /\ RecordedFor(t, c, OutcomeUnknown)' =>
                           \E o \in ToolEffects(t, c) :
                              effect'[o].status = "uncertain" /\ effect'[o].raw = None
                      /\ RecordedFor(t, c, ProcessingInterrupted)' =>
                           \E o \in ToolEffects(t, c) : effect'[o].raw # None
    BY <1>10 DEF StoreResultsAreHonest
  <2>0. \A o \in ToolEffects(t, c) : o \in Ops /\ effect[o].turn = t
    BY DEF ToolEffects
  <2>1. CASE t \in T
    <3>1. RecordedFor(t, c, DidNotStart)' => ToolEffects(t, c) = {}
      BY <1>11, <2>1, ClosingResultMeaning
    <3>2. ASSUME RecordedFor(t, c, OutcomeUnknown)'
          PROVE  \E o \in ToolEffects(t, c) :
                    effect'[o].status = "uncertain" /\ effect'[o].raw = None
      <4>1. PICK o \in ToolEffects(t, c) : effect[o].status = "started"
        BY <1>11, <2>1, <3>2, ClosingResultMeaning
      <4>2. IsOpen(o)
        BY <4>1 DEF IsOpen, Open
      <4>. QED BY <1>6, <2>0, <2>1, <4>1, <4>2
    <3>3. ASSUME RecordedFor(t, c, ProcessingInterrupted)'
          PROVE  \E o \in ToolEffects(t, c) : effect'[o].raw # None
      <4>1. PICK o \in ToolEffects(t, c) : effect[o].raw # None
        BY <1>11, <2>1, <3>3, ClosingResultMeaning
      <4>2. ~ IsOpen(o)
        BY <2>0, <4>1 DEF EffectsFollowTheirTurn
      <4>. QED BY <1>5, <2>0, <4>1, <4>2
    <3>. QED BY <3>1, <3>2, <3>3
  <2>2. CASE t \notin T
    <3>1. \A o \in ToolEffects(t, c) : effect'[o] = effect[o]
      BY <1>5, <2>0, <2>2
    <3>2. \A r : RecordedFor(t, c, r)' => RecordedFor(t, c, r)
      BY <1>7, <2>2 DEF RecordedFor
    <3>. QED BY <3>1, <3>2 DEF StoreResultsAreHonest
  <2>. QED BY <2>1, <2>2
<1>19. CompletedTurnLostNoOutcome'
  <2> SUFFICES ASSUME NEW t \in Turns, turn'[t].status = "completed", NEW c \in Calls,
                      RecordedFor(t, c, OutcomeUnknown)'
               PROVE  FALSE
    BY DEF CompletedTurnLostNoOutcome
  <2>1. CASE t \in T
    <3>1. OpenEffectsOf(t) = {}
      BY <1>1, <2>1
    <3>2. PICK o \in ToolEffects(t, c) : effect[o].status = "started"
      BY <1>11, <2>1, ClosingResultMeaning
    <3>. QED BY <3>1, <3>2 DEF OpenEffectsOf, ToolEffects, IsOpen, Open
  <2>2. CASE t \notin T
    BY <1>1, <1>7, <2>2 DEF CompletedTurnLostNoOutcome, RecordedFor
  <2>. QED BY <2>1, <2>2
<1>. QED BY <1>12, <1>13, <1>14, <1>15, <1>16, <1>17, <1>18, <1>19

--------------------

\* Accepting a Turn: the new Turn has no effects, calls or results yet, and no
\* older receipt names it.
LEMMA AcceptTurnInv ==
  ASSUME IndInv, TypeOK', NEW s \in Sessions, NEW k \in Keys,
         NEW q \in Requests, NEW t \in Turns, AcceptTurn(s, k, q, t)
  PROVE  IndInv'
<1>. USE DEF IndInv
<1>1. /\ turn'[t].status = "running" /\ turn'[t].session = s
      /\ turn[t].status = "absent" /\ receipt[s][k] = None
      /\ \A u \in Turns : u # t => turn'[u] = turn[u]
      /\ \A u \in Turns : turn[u].status = "running" => turn[u].session # s
      /\ UNCHANGED <<effect, requested, results>>
  BY DEF AcceptTurn, TypeOK, Active
<1>2. /\ receipt'[s][k] = [request |-> q, turn |-> t]
      /\ \A v \in Sessions, l \in Keys :
            (v # s \/ l # k) => receipt'[v][l] = receipt[v][l]
  BY DEF AcceptTurn, TypeOK
<1>3. receipt'[s][k] # None /\ receipt'[s][k].turn = t
  <2>1. receipt'[s][k].turn = t
    BY <1>2
  <2>2. [request |-> q, turn |-> t] # None
    BY NoReceiptAssumption
  <2>. QED BY <1>2, <2>1, <2>2
<1>4. \A o \in Ops : effect[o].turn # t
  <2> SUFFICES ASSUME NEW o \in Ops PROVE effect[o].turn # t
    OBVIOUS
  <2>1. t # None
    BY NoneAssumption
  <2>2. CASE effect[o].status = "absent"
    BY <2>1, <2>2 DEF EffectsFollowTheirTurn, NoEffect
  <2>3. CASE effect[o].status # "absent"
    BY <1>1, <2>3 DEF EffectsFollowTheirTurn
  <2>. QED BY <2>2, <2>3
<1>5. OneActiveTurnPerSession'
  BY <1>1 DEF OneActiveTurnPerSession, Active
<1>6. ReceiptNamesItsTurn'
  <2>1. \A v \in Sessions, l \in Keys :
           receipt[v][l] # None => receipt[v][l].turn \in Turns /\ receipt[v][l].turn # t
    BY <1>1 DEF ReceiptNamesItsTurn, TypeOK, Receipt
  <2>2. ASSUME NEW v \in Sessions, NEW l \in Keys, receipt'[v][l] # None
        PROVE  /\ turn'[receipt'[v][l].turn].status # "absent"
               /\ turn'[receipt'[v][l].turn].session = v
    <3>1. CASE v = s /\ l = k
      BY <1>1, <1>3, <3>1
    <3>2. CASE v # s \/ l # k
      BY <1>1, <1>2, <2>1, <2>2, <3>2 DEF ReceiptNamesItsTurn
    <3>. QED BY <3>1, <3>2
  <2>3. ASSUME NEW u \in Turns, turn'[u].status # "absent"
        PROVE  \E l \in Keys : /\ receipt'[turn'[u].session][l] # None
                               /\ receipt'[turn'[u].session][l].turn = u
    <3>1. CASE u = t
      BY <1>1, <1>3, <3>1
    <3>2. CASE u # t
      <4>1. turn'[u] = turn[u] /\ turn[u].status # "absent"
        BY <1>1, <2>3, <3>2
      <4>2. PICK l \in Keys : /\ receipt[turn[u].session][l] # None
                              /\ receipt[turn[u].session][l].turn = u
        BY <4>1 DEF ReceiptNamesItsTurn
      <4>3. ~ (turn[u].session = s /\ l = k)
        BY <1>1, <4>2
      <4>4. receipt'[turn[u].session][l] = receipt[turn[u].session][l]
        BY <4>3 DEF AcceptTurn, TypeOK, TurnRow
      <4>. QED BY <4>1, <4>2, <4>4
    <3>. QED BY <3>1, <3>2
  <2>4. ASSUME NEW v \in Sessions, NEW l \in Keys, NEW m \in Keys,
               receipt'[v][l] # None, receipt'[v][m] # None,
               receipt'[v][l].turn = receipt'[v][m].turn
        PROVE  l = m
    BY <1>2, <1>3, <2>1, <2>4 DEF ReceiptNamesItsTurn
  <2>. QED BY <2>2, <2>3, <2>4 DEF ReceiptNamesItsTurn
<1>7. EndedTurnHasNoOpenEffect'
  <2>1. \A o \in Ops : IsOpen(o) => effect[o].turn \in Turns
    BY DEF EffectsFollowTheirTurn, IsOpen, Open
  <2>. QED BY <1>1, <1>4, <2>1 DEF EndedTurnHasNoOpenEffect, IsOpen, Active
<1>8. EffectsFollowTheirTurn'
  <2>1. \A o \in Ops : effect[o].turn \in Turns => turn'[effect[o].turn] = turn[effect[o].turn]
    BY <1>1, <1>4
  <2>2. \A o \in Ops : effect[o].status \in Closed => effect[o].status # "absent"
    BY DEF Closed
  <2>. QED BY <1>1, <2>1, <2>2 DEF EffectsFollowTheirTurn, IsOpen, Active
<1>9. RunningTurnHoldsReportsOnly'
  <2>1. \A c \in Calls, r \in Results : ~ RecordedFor(t, c, r)
    BY <1>1 DEF RunningTurnHoldsReportsOnly, RecordedFor
  <2>2. \A u \in Turns, c \in Calls, r \in Results :
           RecordedFor(u, c, r)' <=> RecordedFor(u, c, r)
    BY <1>1 DEF RecordedFor
  <2>. QED BY <1>1, <2>1, <2>2 DEF RunningTurnHoldsReportsOnly, Active
<1>10. EveryAcceptedCallIsAnswered'
  BY <1>1 DEF EveryAcceptedCallIsAnswered, Terminal
<1>11. StoreResultsAreHonest'
  BY <1>1 DEF StoreResultsAreHonest, RecordedFor, ToolEffects
<1>12. CompletedTurnLostNoOutcome'
  BY <1>1 DEF CompletedTurnLostNoOutcome, RecordedFor
<1>. QED BY <1>5, <1>6, <1>7, <1>8, <1>9, <1>10, <1>11, <1>12

\* Recording provenance changes neither the status nor the Session of a Turn.
LEMMA RecordTurnHarnessInv ==
  ASSUME IndInv, TypeOK', NEW t \in Turns, NEW h \in Harnesses,
         RecordTurnHarness(t, h)
  PROVE  IndInv'
<1>. USE DEF IndInv
<1>1. /\ \A u \in Turns : /\ turn'[u].status = turn[u].status
                         /\ turn'[u].session = turn[u].session
      /\ UNCHANGED <<receipt, effect, requested, results>>
  BY DEF RecordTurnHarness, TypeOK, TurnRow
<1>2. OneActiveTurnPerSession'
  BY <1>1 DEF OneActiveTurnPerSession, Active
<1>3. ReceiptNamesItsTurn'
  <2>1. \A s \in Sessions, k \in Keys :
           receipt[s][k] # None => receipt[s][k].turn \in Turns
    BY DEF TypeOK, Receipt
  <2>. QED BY <1>1, <2>1 DEF ReceiptNamesItsTurn
<1>4. \A o \in Ops : effect[o].status # "absent" => effect[o].turn \in Turns
  BY DEF EffectsFollowTheirTurn
<1>5. EndedTurnHasNoOpenEffect'
  BY <1>1, <1>4 DEF EndedTurnHasNoOpenEffect, IsOpen, Open, Active
<1>6. EffectsFollowTheirTurn'
  BY <1>1, <1>4 DEF EffectsFollowTheirTurn, IsOpen, Active, Closed
<1>7. RunningTurnHoldsReportsOnly'
  BY <1>1 DEF RunningTurnHoldsReportsOnly, RecordedFor, Active
<1>8. EveryAcceptedCallIsAnswered'
  BY <1>1 DEF EveryAcceptedCallIsAnswered
<1>9. StoreResultsAreHonest'
  BY <1>1 DEF StoreResultsAreHonest, RecordedFor, ToolEffects
<1>10. CompletedTurnLostNoOutcome'
  BY <1>1 DEF CompletedTurnLostNoOutcome, RecordedFor
<1>. QED BY <1>2, <1>3, <1>5, <1>6, <1>7, <1>8, <1>9, <1>10

\* A response adds calls to a running Turn only.
LEMMA AppendAssistantResponseInv ==
  ASSUME IndInv, TypeOK', NEW t \in Turns, NEW cs \in SUBSET Calls,
         AppendAssistantResponse(t, cs)
  PROVE  IndInv'
<1>. USE DEF IndInv
<1>1. /\ Active(t)
      /\ \A u \in Turns : u # t => requested'[u] = requested[u]
      /\ UNCHANGED <<turn, receipt, effect, results>>
  BY DEF AppendAssistantResponse, TypeOK
<1>2. OneActiveTurnPerSession' /\ ReceiptNamesItsTurn' /\ EndedTurnHasNoOpenEffect'
  BY <1>1 DEF OneActiveTurnPerSession, ReceiptNamesItsTurn,
              EndedTurnHasNoOpenEffect, IsOpen, Active
<1>3. EffectsFollowTheirTurn'
  BY <1>1 DEF EffectsFollowTheirTurn, IsOpen, Active
<1>4. RunningTurnHoldsReportsOnly'
  BY <1>1 DEF RunningTurnHoldsReportsOnly, RecordedFor, Active
<1>5. EveryAcceptedCallIsAnswered'
  BY <1>1 DEF EveryAcceptedCallIsAnswered, Active, Terminal
<1>6. StoreResultsAreHonest' /\ CompletedTurnLostNoOutcome'
  BY <1>1 DEF StoreResultsAreHonest, CompletedTurnLostNoOutcome, RecordedFor,
              ToolEffects
<1>. QED BY <1>2, <1>3, <1>4, <1>5, <1>6

\* A reported result is added to a running Turn only.
LEMMA AppendToolResultInv ==
  ASSUME IndInv, TypeOK', NEW t \in Turns, NEW c \in Calls, NEW r \in Reported,
         AppendToolResult(t, c, r)
  PROVE  IndInv'
<1>. USE DEF IndInv
<1>1. /\ Active(t)
      /\ results'[t][c] = Append(results[t][c], r)
      /\ \A u \in Turns, d \in Calls :
            (u # t \/ d # c) => results'[u][d] = results[u][d]
      /\ UNCHANGED <<turn, receipt, effect, requested>>
  BY DEF AppendToolResult, TypeOK
<1>2. \A d \in Calls, x \in Results : RecordedFor(t, d, x)' => x \in Reported
  <2> SUFFICES ASSUME NEW d \in Calls, NEW x \in Results, RecordedFor(t, d, x)'
               PROVE  x \in Reported
    OBVIOUS
  <2>1. PICK i \in 1 .. Len(results'[t][d]) : results'[t][d][i] = x
    BY DEF RecordedFor
  <2>2. \A j \in 1 .. Len(results[t][d]) : results[t][d][j] = x => x \in Reported
    BY <1>1 DEF RunningTurnHoldsReportsOnly, RecordedFor
  <2>3. results[t][d] \in Seq(Results) /\ r \in Results
    BY DEF TypeOK, Results
  <2>4. CASE d = c
    <3>1. results'[t][d] = Append(results[t][d], r)
      BY <1>1, <2>4
    <3>2. x = r \/ \E j \in 1 .. Len(results[t][d]) : results[t][d][j] = x
      BY <2>1, <2>3, <3>1
    <3>. QED BY <2>2, <3>2
  <2>5. CASE d # c
    BY <1>1, <2>1, <2>2, <2>5
  <2>. QED BY <2>4, <2>5
<1>3. \A u \in Turns, d \in Calls, x \in Results :
         u # t /\ RecordedFor(u, d, x)' => RecordedFor(u, d, x)
  BY <1>1 DEF RecordedFor
<1>4. \A x \in {DidNotStart, OutcomeUnknown, ProcessingInterrupted} :
         x \in Results /\ x \notin Reported
  BY DEF Results, Reported, DidNotStart, OutcomeUnknown, ProcessingInterrupted
<1>5. OneActiveTurnPerSession' /\ ReceiptNamesItsTurn' /\ EndedTurnHasNoOpenEffect'
  BY <1>1 DEF OneActiveTurnPerSession, ReceiptNamesItsTurn,
              EndedTurnHasNoOpenEffect, IsOpen, Active
<1>6. EffectsFollowTheirTurn'
  BY <1>1 DEF EffectsFollowTheirTurn, IsOpen, Active
<1>7. RunningTurnHoldsReportsOnly'
  BY <1>1, <1>2, <1>3 DEF RunningTurnHoldsReportsOnly, Active
<1>8. EveryAcceptedCallIsAnswered'
  <2>1. \A u \in Turns : requested[u] \subseteq Calls
    BY DEF TypeOK
  <2>. QED BY <1>1, <2>1 DEF EveryAcceptedCallIsAnswered, Active, Terminal
<1>9. StoreResultsAreHonest'
  <2>1. ASSUME NEW u \in Turns, NEW d \in Calls,
               NEW x \in {DidNotStart, OutcomeUnknown, ProcessingInterrupted},
               RecordedFor(u, d, x)'
        PROVE  RecordedFor(u, d, x)
    <3>1. x \in Results /\ x \notin Reported
      BY <1>4
    <3>2. u # t
      BY <1>2, <2>1, <3>1
    <3>. QED BY <1>3, <2>1, <3>1, <3>2
  <2>. QED BY <1>1, <2>1 DEF StoreResultsAreHonest, ToolEffects
<1>10. CompletedTurnLostNoOutcome'
  BY <1>1, <1>2, <1>3, <1>4 DEF CompletedTurnLostNoOutcome
<1>. QED BY <1>5, <1>6, <1>7, <1>8, <1>9, <1>10

\* No invariant but the type mentions whether the Hub is serving.
LEMMA HubOnlyInv ==
  ASSUME IndInv, TypeOK', UNCHANGED <<turn, receipt, effect, requested, results>>
  PROVE  IndInv'
  BY DEF IndInv, OneActiveTurnPerSession, ReceiptNamesItsTurn,
         EndedTurnHasNoOpenEffect, EffectsFollowTheirTurn,
         RunningTurnHoldsReportsOnly, EveryAcceptedCallIsAnswered,
         StoreResultsAreHonest, CompletedTurnLostNoOutcome,
         RecordedFor, ToolEffects, IsOpen, Active

LEMMA IndInvStep ==
  ASSUME IndInv, [Next]_vars
  PROVE  IndInv'
<1>0. TypeOK'
  BY TypeStep DEF IndInv
<1>1. ASSUME NEW s \in Sessions, NEW k \in Keys, NEW r \in Requests,
             NEW t \in Turns, AcceptTurn(s, k, r, t)
      PROVE  IndInv'
  BY <1>0, <1>1, AcceptTurnInv
<1>2. ASSUME NEW t \in Turns, NEW h \in Harnesses, RecordTurnHarness(t, h)
      PROVE  IndInv'
  BY <1>0, <1>2, RecordTurnHarnessInv
<1>3. ASSUME NEW t \in Turns, EffectStep(t)
      PROVE  IndInv'
  <2>1. requested[t] \subseteq Calls
    BY DEF IndInv, TypeOK
  <2>. QED BY <1>0, <1>3, <2>1, EffectActionsInv DEF EffectStep
<1>4. ASSUME NEW t \in Turns, ToolStep(t)
      PROVE  IndInv'
  BY <1>0, <1>4, EffectActionsInv, AppendAssistantResponseInv,
     AppendToolResultInv DEF ToolStep
<1>5. ASSUME NEW t \in Turns, NEW st \in Terminal, FinishTurn(t, st)
      PROVE  IndInv'
  BY <1>0, <1>5, EndTurnsInv DEF FinishTurn
<1>6. ASSUME NEW o \in Ops,
             \/ MarkEffectStarted(o)
             \/ \E outcome \in Closed : FinishEffect(o, outcome)
      PROVE  IndInv'
  BY <1>0, <1>6, EffectActionsInv
<1>7. CASE Crash
  BY <1>0, <1>7, HubOnlyInv DEF Crash
<1>8. CASE RecoverInterruptedWork
  <2> DEFINE T == {t \in Turns : Active(t)}
  <2>1. T \in SUBSET Turns /\ \A t \in T : Active(t)
    OBVIOUS
  <2>2. EndTurns(T, "failed")
    BY <1>8 DEF RecoverInterruptedWork
  <2>3. "failed" \in Terminal /\ "failed" # "completed"
    BY DEF Terminal
  <2>. HIDE DEF T
  <2>. QED BY <1>0, <2>1, <2>2, <2>3, EndTurnsInv
<1>9. CASE UNCHANGED vars
  BY <1>0, <1>9, HubOnlyInv DEF vars
<1>. QED
  BY <1>1, <1>2, <1>3, <1>4, <1>5, <1>6, <1>7, <1>8, <1>9 DEF Next

--------------------
(***************************************************************************)
(* The theorems.                                                           *)
(***************************************************************************)

\* An empty store satisfies it.
LEMMA InitIndInv ==
  ASSUME Init
  PROVE  IndInv
<1>1. TypeOK
  BY DEF Init, TypeOK, NoTurn, NoEffect, TurnRow, EffectRow
<1>2. OneActiveTurnPerSession /\ ReceiptNamesItsTurn
  BY DEF Init, OneActiveTurnPerSession, ReceiptNamesItsTurn, Active, NoTurn
<1>3. EndedTurnHasNoOpenEffect /\ EffectsFollowTheirTurn
  BY DEF Init, EndedTurnHasNoOpenEffect, EffectsFollowTheirTurn, IsOpen, Open,
         NoEffect
<1>4. RunningTurnHoldsReportsOnly /\ EveryAcceptedCallIsAnswered
  BY DEF Init, RunningTurnHoldsReportsOnly, EveryAcceptedCallIsAnswered,
         Active, NoTurn, Terminal
<1>5. StoreResultsAreHonest /\ CompletedTurnLostNoOutcome
  BY DEF Init, StoreResultsAreHonest, CompletedTurnLostNoOutcome, RecordedFor
<1>. QED BY <1>1, <1>2, <1>3, <1>4, <1>5 DEF IndInv

\* The inductive invariant holds of the store whatever its callers do and
\* whenever the Hub stops.
THEOREM Inductive == Spec => []IndInv
<1>1. Init => IndInv
  BY InitIndInv
<1>2. IndInv /\ [Next]_vars => IndInv'
  BY IndInvStep
<1>. QED BY <1>1, <1>2, PTL DEF Spec

\* No Session ever has two running Turns, for any number of clients, Sessions
\* and Turns (accept_turn_idempotent against finish_turn and recovery).
THEOREM SingleActiveTurn == Spec => []OneActiveTurnPerSession
<1>1. IndInv => OneActiveTurnPerSession
  BY DEF IndInv
<1>. QED BY <1>1, Inductive, PTL

\* StartTurn is idempotent: Turns and receipts are in bijection (command_receipts).
THEOREM IdempotentStart == Spec => []ReceiptNamesItsTurn
<1>1. IndInv => ReceiptNamesItsTurn
  BY DEF IndInv
<1>. QED BY <1>1, Inductive, PTL

\* Whoever ends a Turn closes its effects (close_open_effects).
THEOREM NoEffectOutlivesItsTurn == Spec => []EndedTurnHasNoOpenEffect
<1>1. IndInv => EndedTurnHasNoOpenEffect
  BY DEF IndInv
<1>. QED BY <1>1, Inductive, PTL

\* Every accepted tool call of an ended Turn has a result (close_orphan_tool_calls).
THEOREM NoCallIsOrphaned == Spec => []EveryAcceptedCallIsAnswered
<1>1. IndInv => EveryAcceptedCallIsAnswered
  BY DEF IndInv
<1>. QED BY <1>1, Inductive, PTL

\* What the store writes about a tool call in the harness's stead is true.
THEOREM HonestResults == Spec => []StoreResultsAreHonest
<1>1. IndInv => StoreResultsAreHonest
  BY DEF IndInv
<1>. QED BY <1>1, Inductive, PTL

\* A completed Turn has no tool call of unknown outcome (OpenEffectConflict of
\* finish_turn_with_stop_reason).
THEOREM CompletedIsCertain == Spec => []CompletedTurnLostNoOutcome
<1>1. IndInv => CompletedTurnLostNoOutcome
  BY DEF IndInv
<1>. QED BY <1>1, Inductive, PTL

\* Nothing a step does changes a Turn that has ended.
LEMMA EndedTurnStep ==
  ASSUME IndInv, [Next]_vars, NEW t \in Turns, turn[t].status \in Terminal
  PROVE  /\ turn'[t] = turn[t]
         /\ requested'[t] = requested[t]
         /\ results'[t] = results[t]
         /\ \A o \in Ops : effect'[o] # effect[o] =>
               effect[o].turn # t /\ effect'[o].turn # t
<1>. USE DEF IndInv
<1>0. ~ Active(t) /\ turn[t].status # "absent" /\ t # None
  BY NoneAssumption DEF Active, Terminal
<1>1. ASSUME NEW s \in Sessions, NEW k \in Keys, NEW r \in Requests,
             NEW u \in Turns, AcceptTurn(s, k, r, u)
      PROVE  /\ turn'[t] = turn[t]
             /\ UNCHANGED <<effect, requested, results>>
  BY <1>0, <1>1 DEF AcceptTurn, TypeOK
<1>2. ASSUME NEW u \in Turns, NEW h \in Harnesses, RecordTurnHarness(u, h)
      PROVE  /\ turn'[t] = turn[t]
             /\ UNCHANGED <<effect, requested, results>>
  BY <1>0, <1>2 DEF RecordTurnHarness, TypeOK
<1>3. ASSUME NEW u \in Turns, EffectStep(u)
      PROVE  /\ UNCHANGED <<turn, requested, results>>
             /\ \A o \in Ops : effect'[o] # effect[o] =>
                   effect[o].turn # t /\ effect'[o].turn # t
  <2>1. ASSUME NEW o \in Ops, NEW c, NEW st, Active(u), NewEffect(o, u, c, st)
        PROVE  \A p \in Ops : effect'[p] # effect[p] =>
                   effect[p].turn # t /\ effect'[p].turn # t
    <3>1. effect[o] = NoEffect /\ u # t
      BY <1>0, <2>1 DEF NewEffect, EffectsFollowTheirTurn
    <3>2. effect'[o].turn = u /\ \A p \in Ops : p # o => effect'[p] = effect[p]
      BY <2>1 DEF NewEffect, TypeOK
    <3>. QED BY <1>0, <3>1, <3>2 DEF NoEffect
  <2>. QED
    BY <1>3, <2>1 DEF EffectStep, ScheduleEffect, StartEffect, StartToolEffect
<1>4. ASSUME NEW u \in Turns, ToolStep(u)
      PROVE  /\ turn' = turn
             /\ requested'[t] = requested[t]
             /\ results'[t] = results[t]
             /\ \A o \in Ops : effect'[o] # effect[o] =>
                   effect[o].turn # t /\ effect'[o].turn # t
  <2>1. ASSUME NEW cs \in SUBSET Calls, AppendAssistantResponse(u, cs)
        PROVE  requested'[t] = requested[t] /\ UNCHANGED <<turn, effect, results>>
    BY <1>0, <2>1 DEF AppendAssistantResponse, TypeOK
  <2>2. ASSUME NEW c \in Calls, NEW r \in Reported, AppendToolResult(u, c, r)
        PROVE  results'[t] = results[t] /\ UNCHANGED <<turn, effect, requested>>
    BY <1>0, <2>2 DEF AppendToolResult, TypeOK
  <2>3. ASSUME NEW c \in Calls, NEW r \in Reported, CompleteToolExecution(u, c, r)
        PROVE  /\ UNCHANGED <<turn, requested, results>>
               /\ \A o \in Ops : effect'[o] # effect[o] =>
                     effect[o].turn # t /\ effect'[o].turn # t
    <3>1. u # t /\ UNCHANGED <<turn, requested, results>>
      BY <1>0, <2>3 DEF CompleteToolExecution
    <3>2. PICK o \in ToolEffects(u, c) :
             effect' = [effect EXCEPT ![o] = [status |-> StatusOf(r), turn |-> u,
                                              call |-> c, raw |-> r]]
      BY <2>3 DEF CompleteToolExecution
    <3>3. /\ o \in Ops /\ effect[o].turn = u /\ effect'[o].turn = u
          /\ \A p \in Ops : p # o => effect'[p] = effect[p]
      BY <3>2 DEF ToolEffects, TypeOK
    <3>. QED BY <3>1, <3>3
  <2>. QED BY <1>4, <2>1, <2>2, <2>3 DEF ToolStep
<1>5. ASSUME NEW T \in SUBSET Turns, NEW st, \A u \in T : Active(u), EndTurns(T, st)
      PROVE  /\ turn'[t] = turn[t]
             /\ requested' = requested
             /\ results'[t] = results[t]
             /\ \A o \in Ops : effect'[o] # effect[o] =>
                   effect[o].turn # t /\ effect'[o].turn # t
  <2>1. t \notin T
    BY <1>0, <1>5
  <2>2. turn'[t] = turn[t] /\ requested' = requested
    BY <1>5, <2>1 DEF EndTurns
  <2>3. results'[t] = results[t]
    <3>1. results'[t] = [c \in Calls |-> results[t][c]]
      BY <1>5, <2>1 DEF EndTurns, CloseToolCalls
    <3>. QED BY <3>1 DEF TypeOK
  <2>4. \A o \in Ops : effect'[o] # effect[o] =>
           effect[o].turn \in T /\ effect'[o].turn = effect[o].turn
    BY <1>5 DEF EndTurns, CloseOpenEffects
  <2>. QED BY <2>1, <2>2, <2>3, <2>4
<1>6. ASSUME NEW u \in Turns, NEW st \in Terminal, FinishTurn(u, st)
      PROVE  /\ turn'[t] = turn[t]
             /\ requested' = requested
             /\ results'[t] = results[t]
             /\ \A o \in Ops : effect'[o] # effect[o] =>
                   effect[o].turn # t /\ effect'[o].turn # t
  BY <1>5, <1>6 DEF FinishTurn
<1>7. ASSUME NEW o \in Ops,
             \/ MarkEffectStarted(o)
             \/ \E outcome \in Closed : FinishEffect(o, outcome)
      PROVE  /\ UNCHANGED <<turn, requested, results>>
             /\ \A p \in Ops : effect'[p] # effect[p] =>
                   effect[p].turn # t /\ effect'[p].turn # t
  <2>1. /\ effect[o].turn # t /\ UNCHANGED <<turn, requested, results>>
        /\ \E st : effect' = [effect EXCEPT ![o].status = st]
    BY <1>0, <1>7 DEF MarkEffectStarted, FinishEffect
  <2>2. /\ effect'[o].turn = effect[o].turn
        /\ \A p \in Ops : p # o => effect'[p] = effect[p]
    BY <2>1 DEF TypeOK, EffectRow
  <2>. QED BY <2>1, <2>2
<1>8. CASE Crash
  BY <1>8 DEF Crash
<1>9. CASE RecoverInterruptedWork
  <2> DEFINE T == {u \in Turns : Active(u)}
  <2>1. T \in SUBSET Turns /\ (\A u \in T : Active(u)) /\ EndTurns(T, "failed")
    BY <1>9 DEF RecoverInterruptedWork
  <2>. HIDE DEF T
  <2>. QED BY <1>5, <2>1
<1>10. CASE UNCHANGED vars
  BY <1>10 DEF vars
<1>. QED
  BY <1>1, <1>2, <1>3, <1>4, <1>6, <1>7, <1>8, <1>9, <1>10 DEF Next

\* A Turn ends once: its status, calls, results and effects are final, whatever
\* a task that outlived it, a cancellation or a recovery does later.
THEOREM TurnEndsOnce == Spec => EndedTurnIsFinal
<1>1. IndInv /\ [Next]_vars =>
        [\A t \in Turns : turn[t].status \in Terminal =>
          /\ turn'[t] = turn[t]
          /\ requested'[t] = requested[t]
          /\ results'[t] = results[t]
          /\ \A o \in Ops : effect'[o] # effect[o] =>
                /\ effect[o].turn # t
                /\ effect'[o].turn # t]_vars
  BY EndedTurnStep
<1>. QED BY <1>1, Inductive, PTL DEF Spec, EndedTurnIsFinal
=============================================================================
