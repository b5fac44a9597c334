------------------------ MODULE TurnExecutionProofs ------------------------
(***************************************************************************)
(* Proofs about TurnExecution, for every number of Turns, keys, calls and  *)
(* steps and for tasks, requests and crashes interleaved in any way.       *)
(*                                                                         *)
(* Each Turn has its own invariant, TurnInv, about its task and its rows   *)
(* in the store. A step of one Turn's task or request changes nothing of   *)
(* another Turn, and what it does to the store is one of the operations    *)
(* that Disciplined lists, each with the condition under which the loop    *)
(* calls it. So a step implements TurnStore, whose invariant is proved in  *)
(* TurnStoreProofs and used here; Disciplined keeps what TurnInv says of   *)
(* the rows, and what it says of the task is proved action by action.      *)
(***************************************************************************)
EXTENDS TurnExecution, FiniteSetTheorems, SequenceTheorems, TLAPS

P == INSTANCE TurnStoreProofs WITH MaxResults <- 2

--------------------

\* The task has not taken the Turn up yet.
Before == {"accepted", "dropped", "waiting", "setup"}
\* An error would have led elsewhere.
Clean == {"context", "turn_start", "step", "before_model", "provider", "respond",
          "after_step", "acp_schedule", "acp_mark", "acp_prompt"}
InBatch == {"before_tool", "execute", "after_tool", "record"}
Running == NativeSteps \cup AcpSteps

\* The rows of a Turn: a call has one result at most and none unless it was
\* accepted; a tool execution belongs to an accepted call, to no other execution's
\* call, and while it is open its call is unanswered; a Turn that is completed
\* hides no unknown outcome.
AnswersOnce(t) ==
    \A c \in Calls : /\ Len(results[t][c]) <= 1
                     /\ c \notin requested[t] => results[t][c] = <<>>

ToolsAnswerCalls(t) ==
    \A o \in Ops : effect[o].turn = t /\ effect[o].call # None =>
        /\ effect[o].call \in requested[t]
        /\ Store!IsOpen(o) => results[t][effect[o].call] = <<>>
        /\ \A p \in Ops : effect[p].turn = t /\ effect[p].call = effect[o].call => p = o

AllCertain(t) ==
    /\ \A o \in Ops : effect[o].turn = t => effect[o].status \in {"succeeded", "failed"}
    /\ \A c \in requested[t] : results[t][c] \in {<<"success">>, <<"error">>}

RowsInv(t) ==
    /\ AnswersOnce(t)
    /\ ToolsAnswerCalls(t)
    /\ turn[t].status = "completed" => AllCertain(t)

\* The task of a Turn that is not accepted, or not taken up.
FreshInv(t) ==
    /\ turn[t].status = "absent" =>
         task[t] = NoTask("absent") /\ ~ registered[t] /\ ~ waiting[t]
    /\ task[t].pc \in Before =>
         /\ task[t] = NoTask(task[t].pc)
         /\ requested[t] = {}
         /\ \A o \in Ops : effect[o].turn # t

\* Where the loop stands without an error, the ACP harness without calls, and the
\* task with an effect in flight.
PlaceInv(t) ==
    /\ task[t].pc \in Clean => task[t].error = "none"
    /\ task[t].pc \in AcpSteps => requested[t] = {}
    /\ task[t].op # None =>
         /\ task[t].pc \in Hooks \cup {"provider", "acp_mark", "acp_prompt", "leave"}
         /\ task[t].pc \in {"before_tool", "after_tool"} => AtItem(t)
    /\ task[t].pc \in {"acp_mark", "acp_prompt"} => task[t].op # None
    /\ task[t].pc = "record" => AtItem(t)

\* A call of the batch that has no result yet.
Pending(t, i) == task[t].pc \in {"before_tool", "execute"} \/ i >= task[t].item

\* The batch holds accepted calls, each once, and those to come are unanswered.
BatchInv(t) ==
    Active(t) /\ task[t].pc \in InBatch =>
        /\ task[t].pc = "execute" => task[t].item = 1
        /\ \A i \in DOMAIN task[t].batch :
             /\ task[t].batch[i].call \in requested[t]
             /\ Pending(t, i) => results[t][task[t].batch[i].call] = <<>>
             /\ task[t].batch[i].result # None <=> task[t].batch[i].state = "done"
             /\ task[t].pc = "before_tool" /\ i >= task[t].item =>
                    task[t].batch[i].state = "new"
             /\ task[t].pc \in {"after_tool", "record"} => task[t].batch[i].state = "done"
             /\ \A j \in DOMAIN task[t].batch :
                  task[t].batch[i].call = task[t].batch[j].call => i = j

\* The tool effect o is executed by the batch, or was given up with an error.
Executing(t, o) ==
    \/ task[t].error # "none"
    \/ /\ task[t].pc = "execute"
       /\ \E i \in DOMAIN task[t].batch :
            /\ task[t].batch[i].call = effect[o].call
            /\ task[t].batch[i].state \in {"running", "cancelled"}

\* The effects that are open are the one in flight and the tools executing.
OpenInv(t) ==
    Active(t) /\ task[t].pc \in Running =>
        /\ task[t].op # None => /\ effect[task[t].op].turn = t
                                /\ effect[task[t].op].call = None
                                /\ Store!IsOpen(task[t].op)
        /\ \A o \in Ops : effect[o].turn = t /\ Store!IsOpen(o) =>
             o = task[t].op \/ (effect[o].call # None /\ Executing(t, o))

\* Without an error every accepted call has its result or is still in the batch,
\* and the only unknown outcomes are those the batch shows.
CertainInv(t) ==
    Active(t) /\ task[t].pc \in Running /\ task[t].error = "none" =>
        /\ \A c \in requested[t] :
             \/ results[t][c] # <<>>
             \/ /\ task[t].pc \in InBatch
                /\ \E i \in DOMAIN task[t].batch :
                     Pending(t, i) /\ task[t].batch[i].call = c
        /\ task[t].pc \notin InBatch \cup {"after_step"} \/ ~ LostOutcome(t) =>
             /\ \A o \in Ops : effect[o].turn = t => effect[o].status # "uncertain"
             /\ \A c \in Calls : results[t][c] # <<"uncertain">>

TaskInv(t) ==
    /\ FreshInv(t)
    /\ PlaceInv(t)
    /\ BatchInv(t)
    /\ OpenInv(t)
    /\ CertainInv(t)

TurnInv(t) == RowsInv(t) /\ TaskInv(t)

\* Without dropped requests, a Turn that its task has left to a cancel request, or
\* is about to leave to it, is waited for by that request.
RequestInv(t) ==
    /\ task[t].pc \in {"absent", "accepted"} => ~ registered[t] /\ ~ token[t]
    /\ hub = "up" /\ Active(t) /\ (token[t] \/ task[t].pc \in {"leave", "gone"}) =>
         waiting[t]

IInv ==
    /\ TypeOK
    /\ Store!IndInv
    /\ \A t \in Turns : TurnInv(t)

--------------------
(***************************************************************************)
(* What the steps of a Turn do to the store.                               *)
(***************************************************************************)

\* An operation of the store for Turn t, called as the loop may call it: a tool is
\* executed and its result recorded while the call is unanswered, and a Turn
\* completes only when nothing about it is uncertain.
Disciplined(t) ==
    \/ UNCHANGED store
    \/ \E s \in Sessions, k \in Keys, r \in Requests : Store!AcceptTurn(s, k, r, t)
    \/ \E h \in Harnesses : Store!RecordTurnHarness(t, h)
    \/ \E o \in Ops : Store!ScheduleEffect(t, o) \/ Store!StartEffect(t, o)
    \/ \E o \in Ops, c \in requested[t] :
         results[t][c] = <<>> /\ Store!StartToolEffect(t, o, c)
    \/ \E o \in Ops : /\ effect[o].turn = t
                      /\ \/ Store!MarkEffectStarted(o)
                         \/ \E st \in Store!Closed : Store!FinishEffect(o, st)
    \/ \E cs \in SUBSET Calls : Store!AppendAssistantResponse(t, cs)
    \/ \E c \in Calls, r \in Store!Reported :
         \/ Store!CompleteToolExecution(t, c, r)
         \/ results[t][c] = <<>> /\ Store!AppendToolResult(t, c, r)
    \/ \E st \in Store!Terminal : /\ st = "completed" => AllCertain(t)
                                  /\ Store!FinishTurn(t, st)

\* Both instances of TurnStore say the same.
LEMMA SameStore ==
  /\ P!Init <=> Store!Init
  /\ P!Next <=> Store!Next
  /\ P!vars = Store!vars
  /\ P!IndInv <=> Store!IndInv
<1>1. P!Init <=> Store!Init
  BY DEF P!Init, Store!Init, P!NoTurn, Store!NoTurn, P!NoEffect, Store!NoEffect
<1>2. P!vars = Store!vars
  BY DEF P!vars, Store!vars
<1>3. P!Next <=> Store!Next
  BY DEF P!Next, Store!Next, P!AcceptTurn, Store!AcceptTurn, P!Active, Store!Active,
         P!RecordTurnHarness, Store!RecordTurnHarness, P!EffectStep, Store!EffectStep,
         P!ScheduleEffect, Store!ScheduleEffect, P!NewEffect, Store!NewEffect,
         P!StartEffect, Store!StartEffect, P!StartToolEffect, Store!StartToolEffect,
         P!ToolEffects, Store!ToolEffects, P!ToolStep, Store!ToolStep,
         P!AppendAssistantResponse, Store!AppendAssistantResponse,
         P!CompleteToolExecution, Store!CompleteToolExecution, P!StatusOf, Store!StatusOf,
         P!AppendToolResult, Store!AppendToolResult, P!IsOpen, Store!IsOpen,
         P!Open, Store!Open, P!Reported, Store!Reported, P!Terminal, Store!Terminal,
         P!FinishTurn, Store!FinishTurn, P!OpenEffectsOf, Store!OpenEffectsOf,
         P!EndTurns, Store!EndTurns, P!CloseOpenEffects, Store!CloseOpenEffects,
         P!CloseToolCalls, Store!CloseToolCalls, P!ClosingResult, Store!ClosingResult,
         P!InterruptedResult, Store!InterruptedResult, P!OrphanResult, Store!OrphanResult,
         P!DidNotStart, Store!DidNotStart, P!OutcomeUnknown, Store!OutcomeUnknown,
         P!ProcessingInterrupted, Store!ProcessingInterrupted, P!Closed, Store!Closed,
         P!MarkEffectStarted, Store!MarkEffectStarted, P!FinishEffect, Store!FinishEffect,
         P!Crash, Store!Crash, P!RecoverInterruptedWork, Store!RecoverInterruptedWork
<1>4. P!TypeOK <=> Store!TypeOK
  BY DEF P!TypeOK, Store!TypeOK, P!TurnRow, Store!TurnRow, P!EffectRow, Store!EffectRow,
         P!Receipt, Store!Receipt, P!Results, Store!Results, P!Reported, Store!Reported,
         P!Terminal, Store!Terminal, P!Open, Store!Open, P!Closed, Store!Closed,
         P!DidNotStart, Store!DidNotStart, P!OutcomeUnknown, Store!OutcomeUnknown,
         P!ProcessingInterrupted, Store!ProcessingInterrupted
<1>5. P!IndInv <=> Store!IndInv
  BY <1>4
     DEF P!IndInv, Store!IndInv, P!OneActiveTurnPerSession, Store!OneActiveTurnPerSession,
         P!ReceiptNamesItsTurn, Store!ReceiptNamesItsTurn, P!Active, Store!Active,
         P!EndedTurnHasNoOpenEffect, Store!EndedTurnHasNoOpenEffect, P!IsOpen, Store!IsOpen,
         P!EffectsFollowTheirTurn, Store!EffectsFollowTheirTurn, P!NoEffect, Store!NoEffect,
         P!RunningTurnHoldsReportsOnly, Store!RunningTurnHoldsReportsOnly,
         P!RecordedFor, Store!RecordedFor, P!Results, Store!Results,
         P!EveryAcceptedCallIsAnswered, Store!EveryAcceptedCallIsAnswered,
         P!StoreResultsAreHonest, Store!StoreResultsAreHonest, P!ToolEffects, Store!ToolEffects,
         P!CompletedTurnLostNoOutcome, Store!CompletedTurnLostNoOutcome,
         P!Reported, Store!Reported, P!Terminal, Store!Terminal, P!Open, Store!Open,
         P!Closed, Store!Closed, P!DidNotStart, Store!DidNotStart,
         P!OutcomeUnknown, Store!OutcomeUnknown,
         P!ProcessingInterrupted, Store!ProcessingInterrupted
<1>. QED BY <1>1, <1>2, <1>3, <1>5

\* A step of the store keeps the store's inductive invariant.
LEMMA StoreInvStep ==
  ASSUME Store!IndInv, [Store!Next]_(Store!vars)
  PROVE  Store!IndInv'
<1>1. 2 \in Nat
  OBVIOUS
<1>2. P!IndInv /\ [P!Next]_(P!vars)
  <2>1. UNCHANGED Store!vars => UNCHANGED P!vars
    BY DEF Store!vars, P!vars
  <2>. QED BY <2>1, SameStore
<1>3. P!IndInv'
  BY <1>1, <1>2, P!IndInvStep, NoneAssumption, NoReceiptAssumption
<1>4. P!IndInv' <=> Store!IndInv'
  BY SameStore, PTL
<1>. QED BY <1>3, <1>4

\* A disciplined step of a task is a step of TurnStore.
LEMMA DisciplinedImplements ==
  ASSUME NEW t \in Turns, Disciplined(t)
  PROVE  [Store!Next]_(Store!vars)
  BY DEF Disciplined, store, Store!Next, Store!vars, Store!EffectStep, Store!ToolStep

--------------------
(***************************************************************************)
(* Batches.                                                                *)
(***************************************************************************)

\* A nonempty sequence of at most one element has one.
LEMMA OneElement ==
  ASSUME NEW S, NEW q \in Seq(S), q # <<>>, Len(q) <= 1
  PROVE  Len(q) = 1
<1>1. Len(q) \in Nat /\ Len(q) # 0
  BY EmptySeq
<1>. QED BY <1>1

\* An injection from the first n numbers to a set of n elements reaches them all,
\* so SetToSeq lists every element once.
LEMMA SetToSeqLists ==
  ASSUME NEW S, IsFiniteSet(S)
  PROVE  /\ SetToSeq(S) \in [1 .. Cardinality(S) -> S]
         /\ \A i, j \in 1 .. Cardinality(S) : SetToSeq(S)[i] = SetToSeq(S)[j] => i = j
         /\ \A x \in S : \E i \in 1 .. Cardinality(S) : SetToSeq(S)[i] = x
<1>. DEFINE n == Cardinality(S)
<1>1. n \in Nat /\ ExistsBijection(1 .. n, S)
  BY FS_CardinalityType
<1>2. PICK f \in [1 .. n -> S] : IsInjective(f)
  BY <1>1 DEF ExistsBijection, Bijection, Injection, IsInjective
<1>3. SetToSeq(S) \in [1 .. n -> S] /\ IsInjective(SetToSeq(S))
  BY <1>2 DEF SetToSeq
<1>4. SetToSeq(S) \in Injection(1 .. n, S)
  BY <1>3 DEF Injection
<1>5. Cardinality(1 .. n) = n
  BY <1>1, FS_Interval
<1>6. SetToSeq(S) \in Surjection(1 .. n, S)
  BY <1>4, <1>5, FS_Injection
<1>. QED BY <1>3, <1>6 DEF IsInjective, Surjection

\* A new batch has one item for each call, and none of them has a result.
LEMMA NewBatchHolds ==
  ASSUME NEW cs \in SUBSET Calls
  PROVE  /\ NewBatch(cs) \in Seq(Item)
         /\ DOMAIN NewBatch(cs) = 1 .. Cardinality(cs)
         /\ \A i \in DOMAIN NewBatch(cs) :
              /\ NewBatch(cs)[i].call \in cs
              /\ NewBatch(cs)[i].state = "new"
              /\ NewBatch(cs)[i].result = None
              /\ \A j \in DOMAIN NewBatch(cs) :
                   NewBatch(cs)[i].call = NewBatch(cs)[j].call => i = j
         /\ \A c \in cs : \E i \in DOMAIN NewBatch(cs) : NewBatch(cs)[i].call = c
<1>1. IsFiniteSet(cs)
  BY CallsAssumption, FS_Subset
<1>2. Cardinality(cs) \in Nat
  BY <1>1, FS_CardinalityType
<1>3. DOMAIN NewBatch(cs) = 1 .. Cardinality(cs)
  BY DEF NewBatch
<1>4. \A i \in 1 .. Cardinality(cs) :
         NewBatch(cs)[i] = [call |-> SetToSeq(cs)[i], state |-> "new", result |-> None]
  BY DEF NewBatch
<1>5. \A i \in 1 .. Cardinality(cs) : SetToSeq(cs)[i] \in cs
  BY <1>1, SetToSeqLists
<1>6. \A i \in 1 .. Cardinality(cs) : NewBatch(cs)[i] \in Item
  <2> SUFFICES ASSUME NEW i \in 1 .. Cardinality(cs)
               PROVE  NewBatch(cs)[i] \in Item
    OBVIOUS
  <2>1. SetToSeq(cs)[i] \in Calls
    BY <1>5
  <2>2. [call |-> SetToSeq(cs)[i], state |-> "new", result |-> None] \in Item
    BY <2>1 DEF Item
  <2>. QED BY <1>4, <2>2
<1>7. NewBatch(cs) \in [1 .. Cardinality(cs) -> Item]
  BY <1>6 DEF NewBatch
<1>8. NewBatch(cs) \in Seq(Item)
  BY <1>2, <1>7
<1>9. \A i \in 1 .. Cardinality(cs) : NewBatch(cs)[i].call = SetToSeq(cs)[i]
  <2> SUFFICES ASSUME NEW i \in 1 .. Cardinality(cs)
               PROVE  NewBatch(cs)[i].call = SetToSeq(cs)[i]
    OBVIOUS
  <2>1. NewBatch(cs)[i] = [call |-> SetToSeq(cs)[i], state |-> "new", result |-> None]
    BY <1>4
  <2>. QED BY <2>1
<1>10. \A i, j \in 1 .. Cardinality(cs) :
         NewBatch(cs)[i].call = NewBatch(cs)[j].call => i = j
  BY <1>1, <1>9, SetToSeqLists
<1>11. \A c \in cs : \E i \in 1 .. Cardinality(cs) : NewBatch(cs)[i].call = c
  BY <1>1, <1>9, SetToSeqLists
<1>. QED BY <1>3, <1>4, <1>5, <1>8, <1>10, <1>11

\* The part of a batch that is kept is a batch, and shows each kept call once.
LEMMA KeptBatchHolds ==
  ASSUME NEW b \in Seq(Item), NEW D \in SUBSET DOMAIN b,
         NEW kept \in [1 .. Cardinality(D) -> D],
         \A i, j \in DOMAIN kept : i < j => kept[i] < kept[j]
  PROVE  /\ [i \in DOMAIN kept |-> b[kept[i]]] \in Seq(Item)
         /\ \A i, j \in DOMAIN kept : kept[i] = kept[j] => i = j
<1>1. IsFiniteSet(D)
  <2>1. DOMAIN b = 1 .. Len(b) /\ Len(b) \in Nat
    OBVIOUS
  <2>2. IsFiniteSet(DOMAIN b)
    BY <2>1, FS_Interval
  <2>. QED BY <2>2, FS_Subset
<1>2. Cardinality(D) \in Nat
  BY <1>1, FS_CardinalityType
<1>3. [i \in DOMAIN kept |-> b[kept[i]]] \in [1 .. Cardinality(D) -> Item]
  OBVIOUS
<1>4. [i \in DOMAIN kept |-> b[kept[i]]] \in Seq(Item)
  BY <1>2, <1>3
<1>5. \A i, j \in DOMAIN kept : kept[i] = kept[j] => i = j
  <2> SUFFICES ASSUME NEW i \in DOMAIN kept, NEW j \in DOMAIN kept, kept[i] = kept[j]
               PROVE  i = j
    OBVIOUS
  <2>1. i \in Nat /\ j \in Nat /\ kept[i] \in Nat
    BY <1>2
  <2>. QED BY <2>1
<1>. QED BY <1>4, <1>5

--------------------
(***************************************************************************)
(* What an action does to the fields of the task.                          *)
(***************************************************************************)

\* The task of t alone changes, to these values of the fields the invariant is
\* about.
Becomes(t, pc, op, batch, item, error) ==
    /\ task' \in [Turns -> Task]
    /\ \A u \in Turns : u # t => task'[u] = task[u]
    /\ task'[t].pc = pc
    /\ task'[t].op = op
    /\ task'[t].batch = batch
    /\ task'[t].item = item
    /\ task'[t].error = error

Places == {"absent", "accepted", "dropped", "waiting", "gone"} \cup Locked

\* The fields of a task have their types.
LEMMA TaskFields ==
  ASSUME TypeOK, NEW t \in Turns
  PROVE  /\ task[t] \in Task
         /\ task[t].pc \in Places
         /\ task[t].op \in Ops \cup {None}
         /\ task[t].step \in 1 .. MaxSteps
         /\ task[t].mode \in Modes
         /\ task[t].cursor \in BOOLEAN
         /\ task[t].batch \in Seq(Item)
         /\ task[t].item \in Nat \ {0}
         /\ task[t].error \in Errors
  BY DEF TypeOK, Task, Places

\* The record of a task that does not run is well typed.
LEMMA NoTaskType ==
  ASSUME NEW pc \in Places
  PROVE  NoTask(pc) \in Task
<1>1. 1 \in 1 .. MaxSteps
  BY MaxStepsAssumption
<1>2. (CHOOSE m \in Modes : TRUE) \in Modes
  BY ModesAssumption
<1>3. <<>> \in Seq(Item)
  OBVIOUS
<1>. QED BY <1>1, <1>2, <1>3 DEF NoTask, Task, Errors, Places

\* A record that gets new values of the right types stays a task.
LEMMA GotoDoes ==
  ASSUME TypeOK, NEW t \in Turns, NEW pc \in Places, Goto(t, pc)
  PROVE  Becomes(t, pc, task[t].op, task[t].batch, task[t].item, task[t].error)
<1>1. task[t] \in Task
  BY TaskFields
<1>2. [task[t] EXCEPT !.pc = pc] \in Task
  BY <1>1 DEF Task, Places
<1>3. task' = [task EXCEPT ![t] = [task[t] EXCEPT !.pc = pc]]
  BY DEF Goto
<1>4. task'[t] = [task[t] EXCEPT !.pc = pc]
  BY <1>3 DEF TypeOK
<1>5. task' \in [Turns -> Task] /\ \A u \in Turns : u # t => task'[u] = task[u]
  BY <1>2, <1>3 DEF TypeOK
<1>. QED BY <1>1, <1>4, <1>5 DEF Becomes, Task

\* Fail keeps the first error and forgets the effect.
LEMMA FailDoes ==
  ASSUME TypeOK, NEW t \in Turns, NEW pc \in Places, NEW e \in Errors, Fail(t, e, pc)
  PROVE  Becomes(t, pc, None, task[t].batch, task[t].item,
                 IF task[t].error = "none" THEN e ELSE task[t].error)
<1>. DEFINE k == [task[t] EXCEPT !.pc = pc, !.op = None,
                                 !.error = IF task[t].error = "none" THEN e ELSE task[t].error]
<1>1. task[t] \in Task
  BY TaskFields
<1>2. k \in Task
  BY <1>1 DEF Task, Places
<1>3. task' = [task EXCEPT ![t] = k]
  BY DEF Fail
<1>4. task'[t] = k
  BY <1>3 DEF TypeOK
<1>5. task' \in [Turns -> Task] /\ \A u \in Turns : u # t => task'[u] = task[u]
  BY <1>2, <1>3 DEF TypeOK
<1>. QED BY <1>1, <1>4, <1>5 DEF Becomes, Task

\* A task that is given new values of pc, op, error and any of the rest.
LEMMA UpdateDoes ==
  ASSUME TypeOK, NEW t \in Turns, NEW k \in Task, task' = [task EXCEPT ![t] = k]
  PROVE  Becomes(t, k.pc, k.op, k.batch, k.item, k.error)
<1>1. task'[t] = k
  BY DEF TypeOK
<1>2. task' \in [Turns -> Task] /\ \A u \in Turns : u # t => task'[u] = task[u]
  BY DEF TypeOK
<1>. QED BY <1>1, <1>2 DEF Becomes

\* Prepared settles the item that is being prepared, and no other.
LEMMA PreparedDoes ==
  ASSUME TypeOK, NEW t \in Turns, AtItem(t),
         NEW state \in {"allowed", "done"}, NEW r \in Store!Reported \cup {None},
         NEW e \in Errors, Prepared(t, state, r, e)
  PROVE  Becomes(t, task[t].pc, None,
                 [task[t].batch EXCEPT ![task[t].item] =
                     [call |-> Current(t).call, state |-> state, result |-> r]],
                 task[t].item + 1,
                 IF task[t].error = "none" THEN e ELSE task[t].error)
<1>. DEFINE b == [task[t].batch EXCEPT ![task[t].item] =
                     [call |-> Current(t).call, state |-> state, result |-> r]]
            k == [task[t] EXCEPT !.op = None, !.item = task[t].item + 1, !.batch = b,
                                 !.error = IF task[t].error = "none" THEN e ELSE task[t].error]
<1>1. task[t] \in Task /\ task[t].batch \in Seq(Item) /\ task[t].item \in Nat \ {0}
  BY TaskFields
<1>2. task[t].item \in DOMAIN task[t].batch
  BY <1>1 DEF AtItem
<1>3. Current(t) \in Item
  BY <1>1, <1>2 DEF Current
<1>4. [call |-> Current(t).call, state |-> state, result |-> r] \in Item
  BY <1>3 DEF Item
<1>5. b \in Seq(Item)
  BY <1>1, <1>2, <1>4
<1>6. k \in Task
  <2>. DEFINE n == task[t].item + 1
              err == IF task[t].error = "none" THEN e ELSE task[t].error
  <2>1. n \in Nat \ {0} /\ err \in Errors
    BY <1>1, TaskFields
  <2>. HIDE DEF b, n, err
  <2>2. [task[t] EXCEPT !.op = None, !.item = n, !.batch = b, !.error = err] \in Task
    BY <1>1, <1>5, <2>1 DEF Task
  <2>. QED BY <2>2 DEF n, err
<1>7. task' = [task EXCEPT ![t] = k]
  BY DEF Prepared
<1>8. Becomes(t, k.pc, k.op, k.batch, k.item, k.error)
  <2>. HIDE DEF k
  <2>. QED BY <1>6, <1>7, UpdateDoes
<1>9. k.pc = task[t].pc /\ k.op = None /\ k.batch = b /\ k.item = task[t].item + 1
      /\ k.error = IF task[t].error = "none" THEN e ELSE task[t].error
  <2>. HIDE DEF b
  <2>. QED BY <1>1 DEF Task
<1>. QED BY <1>8, <1>9

\* Executed changes one item of the batch.
LEMMA ExecutedDoes ==
  ASSUME TypeOK, NEW t \in Turns, NEW i \in DOMAIN task[t].batch,
         NEW state \in {"running", "done", "failed", "cancelled"},
         NEW r \in Store!Reported \cup {None}, Executed(t, i, state, r)
  PROVE  Becomes(t, task[t].pc, task[t].op,
                 [task[t].batch EXCEPT ![i] =
                     [call |-> task[t].batch[i].call, state |-> state, result |-> r]],
                 task[t].item, task[t].error)
<1>. DEFINE b == [task[t].batch EXCEPT ![i] =
                     [call |-> task[t].batch[i].call, state |-> state, result |-> r]]
            k == [task[t] EXCEPT !.batch = b]
<1>1. task[t] \in Task /\ task[t].batch \in Seq(Item)
  BY TaskFields
<1>2. task[t].batch[i] \in Item
  BY <1>1
<1>3. [call |-> task[t].batch[i].call, state |-> state, result |-> r] \in Item
  BY <1>2 DEF Item
<1>4. b \in Seq(Item)
  BY <1>1, <1>3
<1>5. k \in Task
  <2>. HIDE DEF b
  <2>. QED BY <1>1, <1>4 DEF Task
<1>6. task' = [task EXCEPT ![t] = k]
  BY DEF Executed
<1>7. Becomes(t, k.pc, k.op, k.batch, k.item, k.error)
  <2>. HIDE DEF k
  <2>. QED BY <1>5, <1>6, UpdateDoes
<1>8. k.pc = task[t].pc /\ k.op = task[t].op /\ k.batch = b /\ k.item = task[t].item
      /\ k.error = task[t].error
  <2>. HIDE DEF b
  <2>. QED BY <1>1 DEF Task
<1>. QED BY <1>7, <1>8

--------------------
(***************************************************************************)
(* The rows of a Turn.                                                     *)
(***************************************************************************)

\* The rows of Turn u stay as they are.
SameRows(u) ==
    /\ turn'[u] = turn[u]
    /\ requested'[u] = requested[u]
    /\ results'[u] = results[u]
    /\ \A o \in Ops : effect[o].turn = u \/ effect'[o].turn = u => effect'[o] = effect[o]

\* What the store's invariant says of the types of the tables.
LEMMA StoreTypes ==
  ASSUME Store!IndInv
  PROVE  /\ hub \in {"up", "down"}
         /\ turn \in [Turns -> Store!TurnRow]
         /\ effect \in [Ops -> Store!EffectRow]
         /\ requested \in [Turns -> SUBSET Calls]
         /\ results \in [Turns -> [Calls -> Seq(Store!Results)]]
         /\ None \notin Turns /\ None \notin Ops /\ None \notin Calls
         /\ None \notin Store!Reported
  BY NoneAssumption DEF Store!IndInv, Store!TypeOK, Store!Reported

\* Rows that are left alone keep what is said of them.
LEMMA SameRowsKeep ==
  ASSUME Store!IndInv, NEW u \in Turns, RowsInv(u), SameRows(u)
  PROVE  RowsInv(u)'
  BY DEF RowsInv, SameRows, AnswersOnce, ToolsAnswerCalls, AllCertain, Store!IsOpen

\* A call that is closed as its Turn ends was accepted and is unanswered.
LEMMA ClosesUnanswered ==
  ASSUME Store!IndInv, NEW u \in Turns, RowsInv(u), NEW c \in Calls,
         Store!ClosingResult(u, c) # None
  PROVE  c \in requested[u] /\ results[u][c] = <<>>
<1>1. CASE Store!InterruptedResult(u, c) # None
  <2>1. PICK o \in Store!ToolEffects(u, c) : effect[o].status \in {"started", "scheduled"}
    BY <1>1 DEF Store!InterruptedResult
  <2>2. o \in Ops /\ effect[o].turn = u /\ effect[o].call = c /\ Store!IsOpen(o)
    BY <2>1 DEF Store!ToolEffects, Store!IsOpen, Store!Open
  <2>. QED BY <2>2, StoreTypes DEF RowsInv, ToolsAnswerCalls
<1>2. CASE Store!InterruptedResult(u, c) = None
  BY <1>2 DEF Store!ClosingResult, Store!OrphanResult
<1>. QED BY <1>1, <1>2

\* Ending Turns answers their open calls once; a completed one had none uncertain.
LEMMA EndTurnsRows ==
  ASSUME Store!IndInv, NEW T \in SUBSET Turns, NEW st \in Store!Terminal,
         Store!EndTurns(T, st), NEW u \in Turns, RowsInv(u),
         u \in T /\ st = "completed" => AllCertain(u)
  PROVE  RowsInv(u)'
<1>. DEFINE Closing(c) == u \in T /\ Store!ClosingResult(u, c) # None
<1>1. \A c \in Calls : results'[u][c] = IF Closing(c)
                                        THEN Append(results[u][c], Store!ClosingResult(u, c))
                                        ELSE results[u][c]
  BY DEF Store!EndTurns, Store!CloseToolCalls
<1>2. requested' = requested
  BY DEF Store!EndTurns
<1>3. \A o \in Ops :
         /\ effect'[o].turn = effect[o].turn
         /\ effect'[o].call = effect[o].call
         /\ ~ (effect[o].turn \in T /\ Store!IsOpen(o)) => effect'[o] = effect[o]
         /\ effect[o].turn \in T => effect'[o].status \notin Store!Open
  BY DEF Store!EndTurns, Store!CloseOpenEffects, Store!IsOpen, Store!Open
<1>4. \A c \in Calls : Closing(c) => c \in requested[u] /\ results[u][c] = <<>>
  BY ClosesUnanswered
<1>5. AnswersOnce(u)'
  <2> SUFFICES ASSUME NEW c \in Calls
               PROVE  /\ Len(results'[u][c]) <= 1
                      /\ c \notin requested[u] => results'[u][c] = <<>>
    BY <1>2 DEF AnswersOnce
  <2>1. CASE Closing(c)
    <3>1. results'[u][c] = Append(<<>>, Store!ClosingResult(u, c))
      BY <1>1, <1>4, <2>1
    <3>2. Len(results'[u][c]) = 1
      BY <3>1
    <3>. QED BY <1>4, <2>1, <3>2
  <2>2. CASE ~ Closing(c)
    BY <1>1, <2>2 DEF RowsInv, AnswersOnce
  <2>. QED BY <2>1, <2>2
<1>6. ToolsAnswerCalls(u)'
  <2> SUFFICES ASSUME NEW o \in Ops, effect'[o].turn = u, effect'[o].call # None
               PROVE  /\ effect'[o].call \in requested[u]
                      /\ effect'[o].status \in Store!Open => results'[u][effect'[o].call] = <<>>
                      /\ \A p \in Ops : effect'[p].turn = u /\ effect'[p].call = effect'[o].call
                            => p = o
    BY <1>2 DEF ToolsAnswerCalls, Store!IsOpen
  <2>1. effect[o].turn = u /\ effect[o].call # None /\ effect[o].call = effect'[o].call
    BY <1>3
  <2>2. effect[o].call \in requested[u] /\ effect[o].call \in Calls
    BY <2>1, StoreTypes DEF RowsInv, ToolsAnswerCalls
  <2>3. ASSUME effect'[o].status \in Store!Open
        PROVE  results'[u][effect'[o].call] = <<>>
    <3>1. u \notin T /\ effect'[o] = effect[o]
      BY <1>3, <2>1, <2>3
    <3>2. Store!IsOpen(o)
      BY <2>3, <3>1 DEF Store!IsOpen
    <3>. QED BY <1>1, <2>1, <2>2, <3>1, <3>2 DEF RowsInv, ToolsAnswerCalls
  <2>4. \A p \in Ops : effect'[p].turn = u /\ effect'[p].call = effect'[o].call => p = o
    BY <1>3, <2>1 DEF RowsInv, ToolsAnswerCalls
  <2>. QED BY <2>1, <2>2, <2>3, <2>4
<1>7. turn'[u].status = "completed" => AllCertain(u)'
  <2> SUFFICES ASSUME turn'[u].status = "completed" PROVE AllCertain(u)'
    OBVIOUS
  <2>1. AllCertain(u)
    <3>1. CASE u \in T
      BY <3>1 DEF Store!EndTurns
    <3>2. CASE u \notin T
      BY <3>2 DEF Store!EndTurns, RowsInv
    <3>. QED BY <3>1, <3>2
  <2>2. \A o \in Ops : effect'[o].turn = u => effect'[o].status \in {"succeeded", "failed"}
    BY <1>3, <2>1 DEF AllCertain, Store!IsOpen, Store!Open
  <2>3. \A c \in requested[u] : results'[u][c] = results[u][c]
    <3> SUFFICES ASSUME NEW c \in requested[u] PROVE results'[u][c] = results[u][c]
      OBVIOUS
    <3>1. c \in Calls
      BY StoreTypes
    <3>2. results[u][c] # <<>>
      BY <2>1 DEF AllCertain
    <3>. QED BY <1>1, <1>4, <3>1, <3>2
  <2>. QED BY <1>2, <2>1, <2>2, <2>3 DEF AllCertain
<1>. QED BY <1>5, <1>6, <1>7 DEF RowsInv

\* An effect that closes, or starts, or is no tool's, disturbs no row.
LEMMA EffectChangeRows ==
  ASSUME NEW t \in Turns, RowsInv(t), UNCHANGED <<turn, requested, results>>,
         turn[t].status # "completed",
         \A p \in Ops : effect'[p].turn = t /\ effect'[p].call # None =>
            /\ effect[p].turn = t
            /\ effect[p].call = effect'[p].call
            /\ effect'[p].status \in Store!Open => effect[p].status \in Store!Open
  PROVE  RowsInv(t)'
<1>1. AnswersOnce(t)'
  BY DEF RowsInv, AnswersOnce
<1>2. ToolsAnswerCalls(t)'
  <2> SUFFICES ASSUME NEW o \in Ops, effect'[o].turn = t, effect'[o].call # None
               PROVE  /\ effect'[o].call \in requested[t]
                      /\ effect'[o].status \in Store!Open => results[t][effect'[o].call] = <<>>
                      /\ \A p \in Ops : effect'[p].turn = t /\ effect'[p].call = effect'[o].call
                            => p = o
    BY DEF ToolsAnswerCalls, Store!IsOpen
  <2>1. /\ effect[o].turn = t
        /\ effect[o].call = effect'[o].call
        /\ effect'[o].status \in Store!Open => effect[o].status \in Store!Open
    OBVIOUS
  <2>2. ToolsAnswerCalls(t)
    BY DEF RowsInv
  <2>3. \A p \in Ops : effect'[p].turn = t /\ effect'[p].call = effect'[o].call =>
           effect[p].turn = t /\ effect[p].call = effect[o].call
    BY <2>1
  <2>. QED BY <2>1, <2>2, <2>3 DEF ToolsAnswerCalls, Store!IsOpen
<1>. QED BY <1>1, <1>2 DEF RowsInv

\* Results that are recorded alone are told apart by what they are.
LEMMA Singletons ==
  ASSUME NEW x, NEW y, <<x>> = <<y>>
  PROVE  x = y
<1>1. <<x>>[1] = x /\ <<y>>[1] = y
  OBVIOUS
<1>. QED BY <1>1

\* A disciplined step keeps what is said of the rows of its Turn.
LEMMA DisciplinedRows ==
  ASSUME Store!IndInv, NEW t \in Turns, Disciplined(t), RowsInv(t)
  PROVE  RowsInv(t)'
<1>. USE StoreTypes
<1>1. CASE UNCHANGED store
  BY <1>1, SameRowsKeep DEF store, SameRows
<1>2. ASSUME NEW s \in Sessions, NEW k \in Keys, NEW r \in Requests,
             Store!AcceptTurn(s, k, r, t)
      PROVE  RowsInv(t)'
  BY <1>2 DEF Store!AcceptTurn, RowsInv, AnswersOnce, ToolsAnswerCalls, Store!IsOpen
<1>3. ASSUME NEW h \in Harnesses, Store!RecordTurnHarness(t, h)
      PROVE  RowsInv(t)'
  BY <1>3 DEF Store!RecordTurnHarness, Store!Active, RowsInv, AnswersOnce,
              ToolsAnswerCalls, Store!IsOpen
<1>4. ASSUME NEW o \in Ops, Store!ScheduleEffect(t, o) \/ Store!StartEffect(t, o)
      PROVE  RowsInv(t)'
  <2>1. /\ effect'[o].call = None
        /\ \A p \in Ops : p # o => effect'[p] = effect[p]
        /\ UNCHANGED <<turn, requested, results>>
        /\ turn[t].status # "completed"
    BY <1>4 DEF Store!ScheduleEffect, Store!StartEffect, Store!NewEffect, Store!Active
  <2>. QED BY <2>1, EffectChangeRows
<1>5. ASSUME NEW o \in Ops, NEW c \in requested[t], results[t][c] = <<>>,
             Store!StartToolEffect(t, o, c)
      PROVE  RowsInv(t)'
  <2>1. /\ effect'[o].call = c
        /\ \A p \in Ops : p # o => effect'[p] = effect[p] /\ ~ (effect[p].turn = t /\ effect[p].call = c)
        /\ UNCHANGED <<turn, requested, results>>
        /\ turn[t].status # "completed"
    BY <1>5 DEF Store!StartToolEffect, Store!NewEffect, Store!Active, Store!ToolEffects
  <2>2. AnswersOnce(t)'
    BY <2>1 DEF RowsInv, AnswersOnce
  <2>3. ToolsAnswerCalls(t)'
    <3> SUFFICES ASSUME NEW p \in Ops, effect'[p].turn = t, effect'[p].call # None
                 PROVE  /\ effect'[p].call \in requested[t]
                        /\ effect'[p].status \in Store!Open => results[t][effect'[p].call] = <<>>
                        /\ \A q \in Ops : effect'[q].turn = t /\ effect'[q].call = effect'[p].call
                              => q = p
      BY <2>1 DEF ToolsAnswerCalls, Store!IsOpen
    <3>1. ToolsAnswerCalls(t)
      BY DEF RowsInv
    <3>2. CASE p = o
      BY <1>5, <2>1, <3>2
    <3>3. CASE p # o
      <4>1. effect'[p] = effect[p] /\ effect[p].call # c
        BY <2>1, <3>3
      <4>2. \A q \in Ops : effect'[q].turn = t /\ effect'[q].call = effect[p].call =>
               effect'[q] = effect[q]
        BY <2>1, <4>1
      <4>. QED BY <3>1, <4>1, <4>2 DEF ToolsAnswerCalls, Store!IsOpen
    <3>. QED BY <3>2, <3>3
  <2>. QED BY <2>1, <2>2, <2>3 DEF RowsInv
<1>6. ASSUME NEW o \in Ops, effect[o].turn = t,
             \/ Store!MarkEffectStarted(o)
             \/ \E st \in Store!Closed : Store!FinishEffect(o, st)
      PROVE  RowsInv(t)'
  <2>1. /\ effect'[o].call = effect[o].call
        /\ effect'[o].turn = effect[o].turn
        /\ Store!IsOpen(o)
        /\ \A p \in Ops : p # o => effect'[p] = effect[p]
        /\ UNCHANGED <<turn, requested, results>>
        /\ turn[t].status # "completed"
    BY <1>6 DEF Store!MarkEffectStarted, Store!FinishEffect, Store!Active, Store!IsOpen,
                Store!Open, Store!EffectRow
  <2>. QED BY <2>1, EffectChangeRows DEF Store!IsOpen
<1>7. ASSUME NEW cs \in SUBSET Calls, Store!AppendAssistantResponse(t, cs)
      PROVE  RowsInv(t)'
  BY <1>7 DEF Store!AppendAssistantResponse, Store!Active, RowsInv, AnswersOnce,
              ToolsAnswerCalls, Store!IsOpen
<1>8. ASSUME NEW c \in Calls, NEW r \in Store!Reported, Store!CompleteToolExecution(t, c, r)
      PROVE  RowsInv(t)'
  <2>1. PICK o \in Ops :
          /\ effect[o].turn = t /\ effect[o].call = c /\ Store!IsOpen(o)
          /\ effect'[o].turn = t /\ effect'[o].call = c
          /\ \A p \in Ops : p # o => effect'[p] = effect[p]
    BY <1>8 DEF Store!CompleteToolExecution, Store!ToolEffects, Store!IsOpen, Store!Open
  <2>2. UNCHANGED <<turn, requested, results>> /\ turn[t].status # "completed"
    BY <1>8 DEF Store!CompleteToolExecution, Store!Active
  <2>. QED BY <2>1, <2>2, EffectChangeRows DEF Store!IsOpen
<1>9. ASSUME NEW c \in Calls, NEW r \in Store!Reported, results[t][c] = <<>>,
             Store!AppendToolResult(t, c, r)
      PROVE  RowsInv(t)'
  <2>1. /\ c \in requested[t]
        /\ \A o \in Ops : effect[o].turn = t /\ effect[o].call = c => ~ Store!IsOpen(o)
        /\ UNCHANGED <<turn, requested, effect>>
        /\ turn[t].status # "completed"
    BY <1>9 DEF Store!AppendToolResult, Store!Active, Store!ToolEffects
  <2>2. /\ results'[t][c] = Append(<<>>, r)
        /\ \A d \in Calls : d # c => results'[t][d] = results[t][d]
    BY <1>9 DEF Store!AppendToolResult
  <2>3. Len(results'[t][c]) <= 1
    <3>1. Len(results'[t][c]) = 1
      BY <2>2
    <3>. QED BY <3>1
  <2>4. AnswersOnce(t)'
    <3> SUFFICES ASSUME NEW d \in Calls
                 PROVE  /\ Len(results'[t][d]) <= 1
                        /\ d \notin requested[t] => results'[t][d] = <<>>
      BY <2>1 DEF AnswersOnce
    <3>1. CASE d = c
      BY <2>1, <2>3, <3>1
    <3>2. CASE d # c
      <4>1. results'[t][d] = results[t][d]
        BY <2>2, <3>2
      <4>2. AnswersOnce(t)
        BY DEF RowsInv
      <4>. QED BY <4>1, <4>2 DEF AnswersOnce
    <3>. QED BY <3>1, <3>2
  <2>5. ToolsAnswerCalls(t)'
    <3> SUFFICES ASSUME NEW o \in Ops, effect[o].turn = t, effect[o].call # None
                 PROVE  /\ effect[o].call \in requested[t]
                        /\ Store!IsOpen(o) => results'[t][effect[o].call] = <<>>
                        /\ \A p \in Ops : effect[p].turn = t /\ effect[p].call = effect[o].call
                              => p = o
      BY <2>1 DEF ToolsAnswerCalls, Store!IsOpen
    <3>1. ToolsAnswerCalls(t) /\ effect[o].call \in Calls
      BY DEF RowsInv, ToolsAnswerCalls
    <3>. QED BY <2>1, <2>2, <3>1 DEF ToolsAnswerCalls
  <2>. QED BY <2>1, <2>4, <2>5 DEF RowsInv
<1>10. ASSUME NEW st \in Store!Terminal, st = "completed" => AllCertain(t),
              Store!FinishTurn(t, st)
       PROVE  RowsInv(t)'
  BY <1>10, EndTurnsRows DEF Store!FinishTurn
<1>. QED
  BY <1>1, <1>2, <1>3, <1>4, <1>5, <1>6, <1>7, <1>8, <1>9, <1>10 DEF Disciplined

\* A disciplined step of t leaves every other Turn alone.
LEMMA DisciplinedFrame ==
  ASSUME Store!IndInv, NEW t \in Turns, Disciplined(t), NEW u \in Turns, u # t
  PROVE  SameRows(u)
<1>. USE StoreTypes
<1>1. CASE UNCHANGED store
  BY <1>1 DEF store, SameRows
<1>2. ASSUME NEW s \in Sessions, NEW k \in Keys, NEW r \in Requests,
             Store!AcceptTurn(s, k, r, t)
      PROVE  SameRows(u)
  BY <1>2 DEF Store!AcceptTurn, SameRows
<1>3. ASSUME NEW h \in Harnesses, Store!RecordTurnHarness(t, h)
      PROVE  SameRows(u)
  BY <1>3 DEF Store!RecordTurnHarness, SameRows
<1>4. ASSUME NEW o \in Ops, NEW c \in Calls \cup {None}, NEW st \in Store!Open,
             Store!NewEffect(o, t, c, st), UNCHANGED <<turn, requested, results>>
      PROVE  SameRows(u)
  <2>1. effect[o].turn = None
    <3>1. effect[o] = Store!NoEffect
      BY <1>4 DEF Store!NewEffect, Store!IndInv, Store!EffectsFollowTheirTurn
    <3>. QED BY <3>1 DEF Store!NoEffect
  <2>. QED BY <1>4, <2>1 DEF Store!NewEffect, SameRows
<1>5. ASSUME NEW o \in Ops, effect[o].turn = t,
             \/ Store!MarkEffectStarted(o)
             \/ \E st \in Store!Closed : Store!FinishEffect(o, st)
      PROVE  SameRows(u)
  <2>1. /\ effect'[o].turn = t
        /\ \A p \in Ops : p # o => effect'[p] = effect[p]
        /\ UNCHANGED <<turn, requested, results>>
    BY <1>5 DEF Store!MarkEffectStarted, Store!FinishEffect, Store!EffectRow
  <2>. QED BY <1>5, <2>1 DEF SameRows
<1>6. ASSUME NEW cs \in SUBSET Calls, Store!AppendAssistantResponse(t, cs)
      PROVE  SameRows(u)
  BY <1>6 DEF Store!AppendAssistantResponse, SameRows
<1>7. ASSUME NEW c \in Calls, NEW r \in Store!Reported,
             Store!CompleteToolExecution(t, c, r)
      PROVE  SameRows(u)
  BY <1>7 DEF Store!CompleteToolExecution, Store!ToolEffects, SameRows
<1>8. ASSUME NEW c \in Calls, NEW r \in Store!Reported, Store!AppendToolResult(t, c, r)
      PROVE  SameRows(u)
  BY <1>8 DEF Store!AppendToolResult, SameRows
<1>9. ASSUME NEW st \in Store!Terminal, Store!FinishTurn(t, st)
      PROVE  SameRows(u)
  <2>1. /\ turn'[u] = turn[u]
        /\ requested'[u] = requested[u]
    BY <1>9 DEF Store!FinishTurn, Store!EndTurns
  <2>2. \A o \in Ops : effect'[o].turn = effect[o].turn
                       /\ (effect[o].turn # t => effect'[o] = effect[o])
    BY <1>9 DEF Store!FinishTurn, Store!EndTurns, Store!CloseOpenEffects
  <2>3. results'[u] = [c \in Calls |-> results[u][c]]
    BY <1>9 DEF Store!FinishTurn, Store!EndTurns, Store!CloseToolCalls
  <2>4. results'[u] = results[u]
    BY <2>3
  <2>. QED BY <2>1, <2>2, <2>4 DEF SameRows
<1>. QED
  BY <1>1, <1>2, <1>3, <1>4, <1>5, <1>6, <1>7, <1>8, <1>9
     DEF Disciplined, Store!ScheduleEffect, Store!StartEffect, Store!StartToolEffect, Store!Open

\* What else the invariants of the task need to know of a disciplined step.
LEMMA DisciplinedStatus ==
  ASSUME Store!IndInv, NEW t \in Turns, Disciplined(t)
  PROVE  /\ turn'[t].status = "absent" => turn[t].status = "absent"
         /\ turn[t].status # "absent" /\ Active(t)' => Active(t)
  BY StoreTypes
     DEF Disciplined, store, Active, Store!Active, Store!AcceptTurn,
         Store!RecordTurnHarness, Store!ScheduleEffect, Store!StartEffect,
         Store!StartToolEffect, Store!MarkEffectStarted, Store!FinishEffect,
         Store!AppendAssistantResponse, Store!CompleteToolExecution,
         Store!AppendToolResult, Store!FinishTurn, Store!EndTurns, Store!TurnRow,
         Store!Terminal

--------------------
(***************************************************************************)
(* Every step of a task or a request is disciplined.                       *)
(***************************************************************************)

\* The parts of IInv that speak of one Turn.
LEMMA TurnFacts ==
  ASSUME IInv, NEW t \in Turns
  PROVE  /\ TypeOK /\ Store!IndInv /\ RowsInv(t) /\ FreshInv(t) /\ PlaceInv(t)
         /\ BatchInv(t) /\ OpenInv(t) /\ CertainInv(t)
         /\ task[t] \in Task
  BY TaskFields DEF IInv, TurnInv, TaskInv

\* Where a Turn may be completed, nothing about it is uncertain.
LEMMA FinishedIsCertain ==
  ASSUME IInv, NEW t \in Turns, Active(t), task[t].pc \in {"finish", "acp_finish"},
         task[t].error = "none", Store!OpenEffectsOf(t) = {}
  PROVE  AllCertain(t)
<1>1. task[t].pc \in Running /\ task[t].pc \notin InBatch \cup {"after_step"}
  BY DEF Running, NativeSteps, AcpSteps, InBatch
<1>2. /\ \A c \in requested[t] : results[t][c] # <<>>
      /\ \A o \in Ops : effect[o].turn = t => effect[o].status # "uncertain"
      /\ \A c \in Calls : results[t][c] # <<"uncertain">>
  BY <1>1, TurnFacts DEF CertainInv
<1>3. \A o \in Ops : effect[o].turn = t => effect[o].status \in {"succeeded", "failed"}
  <2> SUFFICES ASSUME NEW o \in Ops, effect[o].turn = t
               PROVE  effect[o].status \in {"succeeded", "failed"}
    OBVIOUS
  <2>1. effect[o] \in Store!EffectRow /\ t # None
    BY TurnFacts, StoreTypes
  <2>2. effect[o].status # "absent"
    <3>1. effect[o].status = "absent" => effect[o] = Store!NoEffect
      BY TurnFacts DEF Store!IndInv, Store!EffectsFollowTheirTurn
    <3>. QED BY <2>1, <3>1 DEF Store!NoEffect
  <2>3. effect[o].status \notin Store!Open
    BY DEF Store!OpenEffectsOf, Store!IsOpen
  <2>. QED BY <1>2, <2>1, <2>2, <2>3 DEF Store!EffectRow, Store!Open, Store!Closed
<1>4. \A c \in requested[t] : results[t][c] \in {<<"success">>, <<"error">>}
  <2> SUFFICES ASSUME NEW c \in requested[t]
               PROVE  results[t][c] \in {<<"success">>, <<"error">>}
    OBVIOUS
  <2>1. c \in Calls
    BY TurnFacts, StoreTypes
  <2>2. results[t][c] \in Seq(Store!Results)
    BY <2>1, TurnFacts, StoreTypes
  <2>3. Len(results[t][c]) <= 1
    BY <2>1, TurnFacts DEF RowsInv, AnswersOnce
  <2>4. results[t][c] # <<>> /\ results[t][c] # <<"uncertain">>
    BY <1>2, <2>1
  <2>5. results[t][c] = <<results[t][c][1]>> /\ results[t][c][1] \in Store!Results
        /\ Len(results[t][c]) = 1
    <3>. DEFINE q == results[t][c]
    <3>1. q \in Seq(Store!Results) /\ q # <<>> /\ Len(q) <= 1
      BY <2>2, <2>3, <2>4
    <3>. HIDE DEF q
    <3>2. Len(q) = 1
      <4>1. Len(q) \in Nat /\ Len(q) # 0
        BY <3>1, EmptySeq
      <4>. QED BY <3>1, <4>1
    <3>3. q[1] \in Store!Results
      BY <3>1, <3>2
    <3>4. q = <<q[1]>>
      <4>1. <<q[1]>> \in Seq(Store!Results) /\ Len(<<q[1]>>) = 1
        BY <3>3
      <4>2. \A i \in 1 .. Len(q) : q[i] = <<q[1]>>[i]
        BY <3>2
      <4>. QED BY <3>1, <3>2, <4>1, <4>2, SeqEqual
    <3>. QED BY <3>2, <3>3, <3>4 DEF q
  <2>6. Store!RecordedFor(t, c, results[t][c][1])
    BY <2>5 DEF Store!RecordedFor
  <2>7. results[t][c][1] \in Store!Reported
    BY <2>1, <2>5, <2>6, TurnFacts
       DEF Store!IndInv, Store!RunningTurnHoldsReportsOnly, Active
  <2>8. results[t][c][1] # "uncertain"
    BY <2>4, <2>5
  <2>. QED BY <2>5, <2>7, <2>8 DEF Store!Reported
<1>. QED BY <1>3, <1>4 DEF AllCertain

\* A Turn that is ended on the way out: it has ended, in a disciplined way.
LEMMA EndTurnEnds ==
  ASSUME IInv, NEW t \in Turns, NEW st \in Store!Terminal, EndTurn(t, st),
         Active(t) /\ st = "completed" /\ Store!OpenEffectsOf(t) = {} => AllCertain(t)
  PROVE  Disciplined(t) /\ ~ Active(t)'
<1>1. CASE Active(t)
  <2>1. Store!FinishTurn(t, st)
    BY <1>1 DEF EndTurn
  <2>2. Disciplined(t)
    BY <1>1, <2>1 DEF Disciplined, Store!FinishTurn
  <2>3. turn'[t].status = st
    BY <2>1 DEF Store!FinishTurn, Store!EndTurns
  <2>. QED BY <2>2, <2>3 DEF Active, Store!Active, Store!Terminal
<1>2. CASE ~ Active(t)
  BY <1>2 DEF EndTurn, Disciplined, store, Active, Store!Active
<1>. QED BY <1>1, <1>2

\* An effect in flight is the Turn's own.
LEMMA OpInFlight ==
  ASSUME IInv, NEW t \in Turns, Active(t), task[t].pc \in Running, task[t].op # None
  PROVE  /\ task[t].op \in Ops
         /\ effect[task[t].op].turn = t
         /\ effect[task[t].op].call = None
         /\ Store!IsOpen(task[t].op)
  BY TurnFacts DEF OpenInv, Task

\* A hook closes only the effect of its own Turn.
LEMMA HookDisciplined ==
  ASSUME IInv, NEW t \in Turns, NEW hook \in Hooks, NEW out \in Outcomes,
         HookReturns(t, hook, out)
  PROVE  Disciplined(t)
<1>1. task[t].pc \in Running
  BY DEF HookReturns, At, Running, NativeSteps
<1>2. HookStatus(out) \in Store!Closed
  BY DEF HookStatus, Store!Closed
<1>. QED BY <1>1, <1>2, OpInFlight DEF HookReturns, Disciplined

\* A request touches only the Turn it is for.
LEMMA RequestDisciplined ==
  ASSUME IInv, NEW t \in Turns,
         \/ RequestStep(t)
         \/ \E s \in Sessions, k \in Keys, r \in Requests : StartTurn(s, k, r, t)
  PROVE  Disciplined(t)
<1>1. CASE SpawnTask(t) \/ StartTurnDropped(t) \/ CancelTurn(t) \/ CancelTurnDropped(t)
  BY <1>1 DEF SpawnTask, StartTurnDropped, CancelTurn, CancelTurnDropped, Disciplined
<1>2. CASE CancelUnregisteredTurn(t)
  BY <1>2 DEF CancelUnregisteredTurn, Disciplined, Store!Terminal
<1>3. CASE CancelTurnEnds(t)
  BY <1>3, EndTurnEnds DEF CancelTurnEnds, Store!Terminal
<1>4. CASE \E s \in Sessions, k \in Keys, r \in Requests : StartTurn(s, k, r, t)
  BY <1>4 DEF StartTurn, Disciplined
<1>. QED BY <1>1, <1>2, <1>3, <1>4 DEF RequestStep

\* So do the steps of the task around its harness,
LEMMA AroundDisciplined ==
  ASSUME IInv, NEW t \in Turns,
         \/ AcquireSessionLock(t) \/ SetupFailsEarly(t) \/ SetupFails(t)
         \/ (\E h \in Harnesses : BeginTurn(t, h)) \/ StartHook(t) \/ LeaveTask(t)
  PROVE  Disciplined(t)
<1>1. CASE AcquireSessionLock(t) \/ LeaveTask(t)
  BY <1>1 DEF AcquireSessionLock, LeaveTask, Disciplined
<1>2. CASE SetupFailsEarly(t)
  BY <1>2, EndTurnEnds DEF SetupFailsEarly, Store!Terminal, Disciplined
<1>3. CASE SetupFails(t)
  BY <1>3, EndTurnEnds DEF SetupFails, CancelledIf, Store!Terminal
<1>4. CASE \E h \in Harnesses : BeginTurn(t, h)
  BY <1>4 DEF BeginTurn, Disciplined
<1>5. CASE StartHook(t)
  BY <1>5 DEF StartHook, StartsEffect, Disciplined
<1>. QED BY <1>1, <1>2, <1>3, <1>4, <1>5

\* those of the model loop,
LEMMA LoopDisciplined ==
  ASSUME IInv, NEW t \in Turns, LoopStep(t)
  PROVE  Disciplined(t)
<1>1. CASE FetchContext(t) \/ BeginStep(t)
  BY <1>1 DEF FetchContext, BeginStep, Disciplined
<1>2. CASE TurnStarted(t) \/ BeforeModel(t) \/ AfterStep(t) \/ TurnFinished(t)
  BY <1>2, HookDisciplined DEF TurnStarted, BeforeModel, AfterStep, TurnFinished, Hooks
<1>3. CASE StartProviderCall(t)
  BY <1>3 DEF StartProviderCall, StartsEffect, Disciplined
<1>4. CASE ProviderFails(t) \/ CursorRejected(t) \/ ProviderCompletes(t)
  <2>1. ASSUME NEW status \in Store!Closed, ProviderEffectEnds(t, status)
        PROVE  Disciplined(t)
    <3>1. task[t].pc \in Running
      BY <2>1 DEF ProviderEffectEnds, At, Running, NativeSteps
    <3>. QED BY <2>1, <3>1, OpInFlight DEF ProviderEffectEnds, Disciplined
  <2>2. {"failed", "uncertain", "succeeded"} \subseteq Store!Closed
    BY DEF Store!Closed
  <2>. QED
    BY <1>4, <2>1, <2>2 DEF ProviderFails, CursorRejected, ProviderCompletes, Disciplined
<1>5. CASE AppendResponse(t)
  <2>1. CASE UNCHANGED store
    BY <2>1 DEF Disciplined
  <2>2. ASSUME NEW cs \in SUBSET Calls, AcceptsResponse(t, cs), Active(t), hub = "up",
               requested' = [requested EXCEPT ![t] = @ \cup cs],
               UNCHANGED <<hub, turn, receipt, effect, results>>
        PROVE  Disciplined(t)
    BY <2>2 DEF AcceptsResponse, Active, Store!AppendAssistantResponse, Disciplined
  <2>. QED BY <1>5, <2>1, <2>2 DEF AppendResponse, At
<1>6. CASE FinishNative(t)
  <2>1. task[t].pc = "finish" /\ task[t].error \in Errors
    BY <1>6, TurnFacts DEF FinishNative, At, Task
  <2>2. Termination(t) \in Store!Terminal
    BY <2>1 DEF Termination, Errors, Store!Terminal
  <2>3. CASE EndTurn(t, "cancelled")
    BY <2>3, EndTurnEnds DEF Store!Terminal
  <2>4. CASE EndTurn(t, Termination(t))
    <3>1. Active(t) /\ Termination(t) = "completed" /\ Store!OpenEffectsOf(t) = {}
            => AllCertain(t)
      BY <2>1, FinishedIsCertain DEF Termination, Errors
    <3>. QED BY <2>2, <2>4, <3>1, EndTurnEnds
  <2>. QED BY <1>6, <2>3, <2>4 DEF FinishNative
<1>. QED BY <1>1, <1>2, <1>3, <1>4, <1>5, <1>6 DEF LoopStep

\* those of the batch pipeline,
LEMMA BatchDisciplined ==
  ASSUME IInv, NEW t \in Turns, BatchStep(t)
  PROVE  Disciplined(t)
<1>1. CASE RefuseCall(t) \/ EndPreparation(t) \/ EndBatch(t) \/ ResultsRecorded(t)
  BY <1>1 DEF RefuseCall, EndPreparation, EndBatch, ResultsRecorded, Disciplined
<1>2. CASE BeforeTool(t) \/ AfterTool(t)
  BY <1>2, HookDisciplined DEF BeforeTool, AfterTool, Hooks
<1>3. ASSUME NEW i \in DOMAIN task[t].batch, StartTool(t, i)
      PROVE  Disciplined(t)
  <2>1. CASE Active(t)
    <3>1. /\ task[t].batch[i].call \in requested[t]
          /\ results[t][task[t].batch[i].call] = <<>>
      BY <1>3, <2>1, TurnFacts DEF StartTool, At, BatchInv, InBatch, Pending
    <3>. QED BY <1>3, <2>1, <3>1 DEF StartTool, Disciplined
  <2>2. CASE ~ Active(t)
    BY <1>3, <2>2 DEF StartTool, Disciplined
  <2>. QED BY <2>1, <2>2
<1>4. ASSUME NEW i \in DOMAIN task[t].batch, ToolReturns(t, i)
      PROVE  Disciplined(t)
  <2>1. task[t].batch[i] \in Item
    BY TurnFacts DEF Task
  <2>. QED BY <1>4, <2>1 DEF ToolReturns, Disciplined, Item
<1>5. CASE RecordResult(t)
  <2>1. CASE Active(t)
    <3>1. task[t].pc = "record" /\ Store!AppendToolResult(t, Current(t).call, Current(t).result)
      BY <1>5, <2>1 DEF RecordResult, At
    <3>2. task[t].item \in DOMAIN task[t].batch /\ Current(t) \in Item
      BY TurnFacts, <2>1, <3>1 DEF AtItem, Current, Task, BatchInv, InBatch, PlaceInv
    <3>3. /\ Current(t).result # None
          /\ results[t][Current(t).call] = <<>>
      <4>1. Pending(t, task[t].item)
        BY TurnFacts DEF Pending, Task
      <4>. QED BY TurnFacts, <2>1, <3>1, <3>2, <4>1 DEF Current, BatchInv, InBatch
    <3>4. Current(t).call \in Calls /\ Current(t).result \in Store!Reported
      BY <3>2, <3>3 DEF Item
    <3>. QED BY <3>1, <3>3, <3>4 DEF Disciplined
  <2>2. CASE ~ Active(t)
    BY <1>5, <2>2 DEF RecordResult, Disciplined
  <2>. QED BY <2>1, <2>2
<1>. QED BY <1>1, <1>2, <1>3, <1>4, <1>5 DEF BatchStep

\* and those of an ACP Turn.
LEMMA AcpDisciplined ==
  ASSUME IInv, NEW t \in Turns, AcpStep(t)
  PROVE  Disciplined(t)
<1>1. ASSUME AcpGivesUp(t) PROVE Disciplined(t)
  BY <1>1, EndTurnEnds DEF AcpGivesUp, CancelledIf, Store!Terminal
<1>2. ASSUME task[t].pc \in {"acp_mark", "acp_prompt"}, Active(t)
      PROVE  task[t].op \in Ops /\ effect[task[t].op].turn = t
  BY <1>2, TurnFacts, OpInFlight DEF PlaceInv, Running, AcpSteps
<1>3. ASSUME NEW status \in Store!Closed, NEW e \in Errors, AcpEffectEnds(t, status, e),
             At(t, "acp_prompt")
      PROVE  Disciplined(t)
  BY <1>2, <1>3 DEF AcpEffectEnds, Disciplined, At
<1>4. CASE AcpSchedule(t)
  BY <1>1, <1>4 DEF AcpSchedule, Disciplined
<1>5. CASE AcpMark(t)
  BY <1>1, <1>2, <1>5 DEF AcpMark, At, Disciplined
<1>6. CASE AcpPrompt(t)
  BY <1>1, <1>3, <1>6 DEF AcpPrompt, Errors, Store!Closed
<1>7. CASE AcpFinish(t)
  <2>1. task[t].pc = "acp_finish" /\ task[t].error \in Errors
    BY <1>7, TurnFacts DEF AcpFinish, At, Task
  <2>2. Termination(t) \in Store!Terminal
    BY <2>1 DEF Termination, Errors, Store!Terminal
  <2>3. Active(t) /\ Termination(t) = "completed" /\ Store!OpenEffectsOf(t) = {}
          => AllCertain(t)
    BY <2>1, FinishedIsCertain DEF Termination, Errors
  <2>. QED BY <1>1, <1>7, <2>2, <2>3, EndTurnEnds DEF AcpFinish
<1>. QED BY <1>4, <1>5, <1>6, <1>7 DEF AcpStep

--------------------
(***************************************************************************)
(* What is said of a task: the steps outside the batch.                    *)
(***************************************************************************)

TaskOnly(t) ==
    /\ task' \in [Turns -> Task]
    /\ \A u \in Turns : u # t => task'[u] = task[u]

\* No effect of t opens, and none in flight stays open.
Settled(t) ==
    \A o \in Ops : effect'[o].turn = t =>
        /\ effect[o].turn = t
        /\ effect'[o].call = effect[o].call
        /\ effect'[o].status \in Store!Open =>
             effect[o].status \in Store!Open /\ o # task[t].op

\* No effect of t becomes uncertain.
NoNewDoubt(t) ==
    \A o \in Ops : effect'[o].turn = t /\ effect'[o].status = "uncertain" =>
        effect[o].turn = t /\ effect[o].status = "uncertain"

SameAnswers(t) == requested'[t] = requested[t] /\ results'[t] = results[t]

\* A step that leaves the store alone settles and answers nothing.
LEMMA QuietStore ==
  ASSUME IInv, NEW t \in Turns, task[t].op = None, UNCHANGED store
  PROVE  Settled(t) /\ NoNewDoubt(t) /\ SameAnswers(t)
  BY TurnFacts, StoreTypes DEF store, Settled, NoNewDoubt, SameAnswers

\* Closing the effect in flight leaves the Turn without an open one.
LEMMA OpEnds ==
  ASSUME IInv, NEW t \in Turns, Active(t), task[t].pc \in Running, task[t].op # None,
         NEW st \in Store!Closed, Store!FinishEffect(task[t].op, st)
  PROVE  Settled(t) /\ SameAnswers(t) /\ (st # "uncertain" => NoNewDoubt(t))
<1>1. /\ task[t].op \in Ops
      /\ \A o \in Ops : o # task[t].op => effect'[o] = effect[o]
      /\ effect'[task[t].op].status = st
      /\ effect'[task[t].op].turn = effect[task[t].op].turn
      /\ effect'[task[t].op].call = effect[task[t].op].call
      /\ UNCHANGED <<requested, results>>
  BY OpInFlight, TurnFacts, StoreTypes DEF Store!FinishEffect, Store!EffectRow
<1>2. effect[task[t].op].turn = t
  BY OpInFlight
<1>. QED
  BY <1>1, <1>2 DEF Settled, NoNewDoubt, SameAnswers, Store!Open, Store!Closed

\* A hook that returns leaves nothing open, and no doubt unless it timed out.
LEMMA HookEnds ==
  ASSUME IInv, NEW t \in Turns, NEW hook \in Hooks, NEW out \in Outcomes,
         HookReturns(t, hook, out)
  PROVE  /\ task[t].pc = hook
         /\ Disciplined(t)
         /\ Active(t) => /\ Settled(t)
                         /\ SameAnswers(t)
                         /\ out \in {"ok", "failed"} => NoNewDoubt(t)
<1>1. task[t].pc = hook /\ task[t].pc \in Running
  BY DEF HookReturns, At, Running, NativeSteps
<1>2. HookStatus(out) \in Store!Closed
      /\ (out \in {"ok", "failed"} => HookStatus(out) # "uncertain")
  BY DEF HookStatus, Store!Closed
<1>3. Active(t) => task[t].op # None /\ Store!FinishEffect(task[t].op, HookStatus(out))
  BY DEF HookReturns
<1>. QED BY <1>1, <1>2, <1>3, OpEnds, HookDisciplined

\* A disciplined step brings no ended Turn back.
LEMMA FreshKept ==
  ASSUME IInv, NEW t \in Turns, Disciplined(t), task[t].pc # "absent",
         task'[t].pc \notin Before
  PROVE  FreshInv(t)' /\ (Active(t)' => Active(t))
<1>1. turn[t].status # "absent"
  <2>1. NoTask("absent").pc = "absent"
    BY DEF NoTask
  <2>2. turn[t].status = "absent" => task[t] = NoTask("absent")
    BY TurnFacts DEF FreshInv
  <2>. QED BY <2>1, <2>2
<1>2. turn'[t].status # "absent" /\ (Active(t)' => Active(t))
  BY <1>1, DisciplinedStatus, TurnFacts
<1>. QED BY <1>2 DEF FreshInv

\* Outside execution a task without an effect in flight has none open.
LEMMA OpenNone ==
  ASSUME IInv, NEW t \in Turns, Active(t), task[t].pc \in Running \ {"execute"},
         task'[t].op = None, task[t].error # "none" => task'[t].error # "none", Settled(t)
  PROVE  OpenInv(t)'
<1> SUFFICES ASSUME NEW o \in Ops, effect'[o].turn = t, effect'[o].status \in Store!Open
             PROVE  effect'[o].call # None /\ task'[t].error # "none"
  BY DEF OpenInv, Store!IsOpen, Executing
<1>1. /\ effect[o].turn = t
      /\ effect'[o].call = effect[o].call
      /\ Store!IsOpen(o)
      /\ o # task[t].op
  BY DEF Settled, Store!IsOpen
<1>2. effect[o].call # None /\ Executing(t, o)
  BY <1>1, TurnFacts DEF OpenInv
<1>. QED BY <1>1, <1>2 DEF Executing

\* Certainty outside the batch pipeline is kept by a step that adds no doubt.
LEMMA CertainOutside ==
  ASSUME IInv, NEW t \in Turns, Active(t), task[t].pc \in Running \ InBatch,
         task'[t].pc \notin InBatch, task'[t].error = "none" => task[t].error = "none",
         task[t].pc = "after_step" => ~ LostOutcome(t), NoNewDoubt(t), SameAnswers(t)
  PROVE  CertainInv(t)'
<1> SUFFICES ASSUME task'[t].error = "none"
             PROVE  /\ \A c \in requested'[t] : results'[t][c] # <<>>
                    /\ \A o \in Ops : effect'[o].turn = t => effect'[o].status # "uncertain"
                    /\ \A c \in Calls : results'[t][c] # <<"uncertain">>
  BY DEF CertainInv
<1>1. /\ \A c \in requested[t] : results[t][c] # <<>>
      /\ \A o \in Ops : effect[o].turn = t => effect[o].status # "uncertain"
      /\ \A c \in Calls : results[t][c] # <<"uncertain">>
  BY TurnFacts DEF CertainInv
<1>. QED BY <1>1 DEF NoNewDoubt, SameAnswers

\* A step of the loop that ends no effect but the one in flight, and stops with an
\* error or learns nothing uncertain.
LEMMA StepOn ==
  ASSUME IInv, NEW t \in Turns, Disciplined(t), task[t].pc \in Running \ {"execute"},
         NEW pc \in Running \ InBatch, NEW b, NEW i, NEW e \in Errors,
         Becomes(t, pc, None, b, i, e),
         pc \in Clean => e = "none",
         pc \notin {"acp_mark", "acp_prompt"},
         pc \in AcpSteps => requested'[t] = {},
         e = "none" => task[t].error = "none",
         Active(t) => Settled(t),
         Active(t) /\ e = "none" => /\ NoNewDoubt(t)
                                    /\ SameAnswers(t)
                                    /\ task[t].pc \notin InBatch
                                    /\ task[t].pc = "after_step" => ~ LostOutcome(t)
  PROVE  TaskOnly(t) /\ TaskInv(t)'
<1>1. task'[t].pc = pc /\ task'[t].op = None /\ task'[t].error = e
  BY DEF Becomes
<1>2. task[t].pc # "absent" /\ pc \notin Before
  BY DEF Running, NativeSteps, AcpSteps, Hooks, Before
<1>3. FreshInv(t)' /\ (Active(t)' => Active(t))
  BY <1>1, <1>2, FreshKept
<1>4. PlaceInv(t)'
  BY <1>1 DEF PlaceInv, InBatch
<1>5. BatchInv(t)'
  BY <1>1 DEF BatchInv
<1>6. ASSUME Active(t)' PROVE OpenInv(t)' /\ CertainInv(t)'
  <2>1. Active(t)
    BY <1>3, <1>6
  <2>2. OpenInv(t)'
    <3>1. Settled(t) /\ task'[t].op = None
          /\ (task[t].error # "none" => task'[t].error # "none")
      BY <1>1, <2>1
    <3>. QED BY <2>1, <3>1, OpenNone
  <2>3. CASE e = "none"
    <3>1. /\ NoNewDoubt(t) /\ SameAnswers(t)
          /\ task[t].pc \in Running \ InBatch
          /\ task'[t].pc \notin InBatch
          /\ task[t].error = "none"
          /\ task[t].pc = "after_step" => ~ LostOutcome(t)
      BY <1>1, <2>1, <2>3
    <3>. QED BY <2>1, <2>2, <3>1, CertainOutside
  <2>4. CASE e # "none"
    BY <1>1, <2>2, <2>4 DEF CertainInv
  <2>. QED BY <2>3, <2>4
<1>7. OpenInv(t)' /\ CertainInv(t)'
  BY <1>6 DEF OpenInv, CertainInv, Active
<1>8. TaskOnly(t)
  BY DEF TaskOnly, Becomes
<1>. QED BY <1>3, <1>4, <1>5, <1>7, <1>8 DEF TaskInv

\* A step that puts an effect in flight.
LEMMA StepIn ==
  ASSUME IInv, NEW t \in Turns, Disciplined(t), task[t].pc \in Running \ {"execute"},
         task[t].op = None, NEW o \in Ops, NEW st \in Store!Open, NEW pc,
         Store!NewEffect(o, t, None, st), UNCHANGED <<turn, requested, results>>,
         Becomes(t, pc, o, task[t].batch, task[t].item, task[t].error),
         \/ pc = task[t].pc /\ pc \in Hooks \cup {"provider"}
         \/ pc = "acp_mark" /\ task[t].pc = "acp_schedule",
         pc \in {"before_tool", "after_tool"} => AtItem(t)
  PROVE  TaskOnly(t) /\ TaskInv(t)'
<1>1. /\ task'[t].pc = pc
      /\ task'[t].op = o
      /\ task'[t].error = task[t].error
      /\ task'[t].batch = task[t].batch
      /\ task'[t].item = task[t].item
  BY DEF Becomes
<1>2. task[t].pc # "absent" /\ pc \notin Before /\ pc \in Running /\ pc # "execute"
  BY DEF Running, NativeSteps, AcpSteps, Hooks, Before
<1>3. FreshInv(t)' /\ (Active(t)' => Active(t))
  BY <1>1, <1>2, FreshKept
<1>4. PlaceInv(t)'
  <2>1. o # None /\ PlaceInv(t)
    BY TurnFacts, StoreTypes
  <2>2. /\ pc \in Clean => task[t].error = "none"
        /\ pc \in AcpSteps => requested[t] = {}
        /\ pc \in Hooks \cup {"provider", "acp_mark"}
        /\ pc # "record"
    BY <2>1 DEF PlaceInv, AcpSteps, Clean, Hooks
  <2>3. pc \in {"before_tool", "after_tool"} => AtItem(t)'
    BY <1>1 DEF AtItem
  <2>. QED BY <1>1, <2>1, <2>2, <2>3 DEF PlaceInv
<1>5. /\ effect'[o] = [status |-> st, turn |-> t, call |-> None, raw |-> None]
      /\ effect[o].status = "absent"
      /\ \A p \in Ops : p # o => effect'[p] = effect[p]
  BY TurnFacts, StoreTypes DEF Store!NewEffect
<1>6. BatchInv(t)'
  BY <1>1, TurnFacts DEF BatchInv, Active, Store!Active, Pending, AtItem, InBatch, Hooks
<1>7. ASSUME Active(t)' PROVE OpenInv(t)' /\ CertainInv(t)'
  <2>1. Active(t)
    BY <1>3, <1>7
  <2>2. OpenInv(t)'
    <3> SUFFICES ASSUME NEW p \in Ops, p # o, effect'[p].turn = t,
                        effect'[p].status \in Store!Open
                 PROVE  effect'[p].call # None /\ task[t].error # "none"
      BY <1>1, <1>5 DEF OpenInv, Store!IsOpen, Executing
    <3>1. effect'[p] = effect[p] /\ p # None
      BY <1>5, TurnFacts, StoreTypes
    <3>2. effect[p].call # None /\ Executing(t, p)
      BY <2>1, <3>1, TurnFacts DEF OpenInv, Store!IsOpen
    <3>. QED BY <3>1, <3>2 DEF Executing
  <2>3. CertainInv(t)'
    <3>1. \A p \in Ops : effect'[p].turn = t /\ effect'[p].status = "uncertain" =>
             effect[p].turn = t /\ effect[p].status = "uncertain"
      BY <1>5 DEF Store!Open
    <3>2. LostOutcome(t)' <=> LostOutcome(t)
      BY <1>1 DEF LostOutcome
    <3>3. CASE pc = task[t].pc
      <4>1. \A i \in DOMAIN task[t].batch : Pending(t, i)' <=> Pending(t, i)
        BY <1>1, <3>3 DEF Pending
      <4>2. CertainInv(t)
        BY TurnFacts
      <4> SUFFICES ASSUME task[t].error = "none"
                   PROVE  CertainInv(t)'
        BY <1>1 DEF CertainInv
      <4>3. \A c \in requested'[t] :
              \/ results'[t][c] # <<>>
              \/ /\ task'[t].pc \in InBatch
                 /\ \E i \in DOMAIN task'[t].batch :
                      Pending(t, i)' /\ task'[t].batch[i].call = c
        BY <1>1, <2>1, <3>3, <4>1, <4>2 DEF CertainInv
      <4>4. task'[t].pc \notin InBatch \cup {"after_step"} \/ ~ LostOutcome(t)' =>
              /\ \A p \in Ops : effect'[p].turn = t => effect'[p].status # "uncertain"
              /\ \A c \in Calls : results'[t][c] # <<"uncertain">>
        BY <1>1, <2>1, <3>1, <3>2, <3>3, <4>2 DEF CertainInv
      <4>. QED BY <4>3, <4>4 DEF CertainInv
    <3>4. CASE pc = "acp_mark" /\ task[t].pc = "acp_schedule"
      BY <1>1, <2>1, <3>1, <3>4, TurnFacts DEF CertainInv, InBatch
    <3>. QED BY <3>3, <3>4
  <2>. QED BY <2>2, <2>3
<1>8. OpenInv(t)' /\ CertainInv(t)'
  BY <1>7 DEF OpenInv, CertainInv, Active
<1>9. TaskOnly(t)
  BY DEF TaskOnly, Becomes
<1>. QED BY <1>3, <1>4, <1>6, <1>8, <1>9 DEF TaskInv

\* A step that the task of t takes, or a request for t: it gives this task, keeps
\* what is said of it, and touches the request of no other Turn.
StepSound(t) ==
    /\ TaskOnly(t)
    /\ TaskInv(t)'
    /\ registered' \in [Turns -> BOOLEAN]
    /\ token' \in [Turns -> BOOLEAN]
    /\ waiting' \in [Turns -> BOOLEAN]
    /\ \A u \in Turns : u # t => /\ registered'[u] = registered[u]
                                 /\ token'[u] = token[u]
                                 /\ waiting'[u] = waiting[u]

\* A step of the task that leaves the requests alone only owes TaskInv.
LEMMA SameRequests ==
  ASSUME IInv, NEW t \in Turns, UNCHANGED requests, TaskOnly(t), TaskInv(t)'
  PROVE  StepSound(t)
  BY TurnFacts DEF TypeOK, requests, StepSound

\* A Turn with a task or a request has a row.
LEMMA TurnPresent ==
  ASSUME IInv, NEW t \in Turns, task[t].pc # "absent" \/ registered[t] \/ waiting[t]
  PROVE  turn[t].status # "absent"
<1>1. NoTask("absent").pc = "absent"
  BY DEF NoTask
<1>. QED BY <1>1, TurnFacts DEF FreshInv

\* A task that does not run: only FreshInv speaks of it.
LEMMA NotRunning ==
  ASSUME NEW t \in Turns, task'[t].pc \in Before, task'[t].op = None, FreshInv(t)'
  PROVE  TaskInv(t)'
<1>1. task'[t].pc \notin Running /\ task'[t].pc \notin InBatch /\ task'[t].pc \notin Clean
      /\ task'[t].pc \notin AcpSteps /\ task'[t].pc # "record"
      /\ task'[t].pc \notin {"acp_mark", "acp_prompt"}
  BY DEF Before, Running, InBatch, Clean, NativeSteps, AcpSteps, Hooks
<1>. QED
  BY <1>1 DEF TaskInv, PlaceInv, BatchInv, OpenInv, CertainInv

\* Steps of a task that has not been taken up.
LEMMA BeforeSteps ==
  ASSUME IInv, NEW t \in Turns,
         SpawnTask(t) \/ StartTurnDropped(t) \/ AcquireSessionLock(t)
  PROVE  StepSound(t)
<1>1. PICK pc \in Before : Goto(t, pc)
  BY DEF SpawnTask, StartTurnDropped, AcquireSessionLock, Before
<1>2. task[t].pc \in Before /\ UNCHANGED store
  BY DEF SpawnTask, StartTurnDropped, AcquireSessionLock, Before, At
<1>3. /\ task[t] = NoTask(task[t].pc)
      /\ requested[t] = {}
      /\ \A o \in Ops : effect[o].turn # t
      /\ turn[t].status # "absent"
  <2>1. task[t].pc # "absent"
    BY <1>2 DEF Before
  <2>. QED BY <1>2, <2>1, TurnPresent, TurnFacts DEF FreshInv
<1>4. Becomes(t, pc, task[t].op, task[t].batch, task[t].item, task[t].error)
  BY <1>1, GotoDoes, TurnFacts DEF Before, Places, Locked
<1>5. task'[t] = NoTask(pc)
  <2>1. task'[t] = [task[t] EXCEPT !.pc = pc]
    BY <1>1, TurnFacts DEF Goto, TypeOK
  <2>2. task'[t] = [NoTask(task[t].pc) EXCEPT !.pc = pc]
    BY <1>3, <2>1
  <2>. QED BY <2>2 DEF NoTask
<1>6. task'[t].pc = pc /\ task'[t].op = None
  BY <1>5 DEF NoTask
<1>7. FreshInv(t)'
  BY <1>2, <1>3, <1>5, <1>6 DEF FreshInv, store
<1>8. TaskOnly(t) /\ TaskInv(t)'
  BY <1>4, <1>6, <1>7, NotRunning DEF TaskOnly, Becomes
<1>9. CASE SpawnTask(t)
  BY <1>8, <1>9, TurnFacts DEF SpawnTask, StepSound, TypeOK
<1>10. CASE StartTurnDropped(t) \/ AcquireSessionLock(t)
  BY <1>8, <1>10, SameRequests DEF StartTurnDropped, AcquireSessionLock
<1>. QED BY <1>9, <1>10

\* StartTurn: the new Turn, or the one its key already named.
LEMMA StartTurnInv ==
  ASSUME IInv, NEW s \in Sessions, NEW k \in Keys, NEW r \in Requests, NEW t \in Turns,
         StartTurn(s, k, r, t)
  PROVE  StepSound(t)
<1>1. Store!AcceptTurn(s, k, r, t) /\ Goto(t, "accepted") /\ UNCHANGED requests
  BY DEF StartTurn
<1>2. task[t] = NoTask("absent") /\ turn[t].status = "absent"
  BY <1>1, TurnFacts DEF Store!AcceptTurn, FreshInv
<1>3. task'[t] = NoTask("accepted")
  <2>1. task'[t] = [task[t] EXCEPT !.pc = "accepted"]
    BY <1>1, TurnFacts DEF Goto, TypeOK
  <2>2. task'[t] = [NoTask("absent") EXCEPT !.pc = "accepted"]
    BY <1>2, <2>1
  <2>. QED BY <2>2 DEF NoTask
<1>4. task'[t].pc = "accepted" /\ task'[t].op = None
  BY <1>3 DEF NoTask
<1>5. requested'[t] = {} /\ turn'[t].status = "running"
  BY <1>1, <1>2, TurnFacts, StoreTypes
     DEF Store!AcceptTurn, Store!IndInv, Store!RunningTurnHoldsReportsOnly
<1>6. \A o \in Ops : effect'[o].turn # t
  <2> SUFFICES ASSUME NEW o \in Ops, effect[o].turn = t
               PROVE  FALSE
    BY <1>1 DEF Store!AcceptTurn
  <2>1. effect[o] = Store!NoEffect \/ turn[t].status # "absent"
    BY TurnFacts DEF Store!IndInv, Store!EffectsFollowTheirTurn
  <2>. QED BY <1>2, <2>1, TurnFacts, StoreTypes DEF Store!NoEffect
<1>7. FreshInv(t)'
  BY <1>3, <1>4, <1>5, <1>6 DEF FreshInv
<1>8. TaskInv(t)'
  BY <1>4, <1>7, NotRunning DEF Before
<1>9. TaskOnly(t)
  BY <1>1, GotoDoes, TurnFacts DEF TaskOnly, Becomes, Places
<1>. QED BY <1>1, <1>8, <1>9, SameRequests

\* The task is left as it is; the Turn may end.
LEMMA CancelSteps ==
  ASSUME IInv, NEW t \in Turns,
         CancelTurn(t) \/ CancelTurnDropped(t) \/ CancelUnregisteredTurn(t)
  PROVE  StepSound(t)
<1>1. task' = task /\ requested' = requested
  BY DEF CancelTurn, CancelTurnDropped, CancelUnregisteredTurn, store,
         Store!FinishTurn, Store!EndTurns
<1>2. \A o \in Ops : effect'[o].turn = effect[o].turn
  BY DEF CancelTurn, CancelTurnDropped, CancelUnregisteredTurn, store,
         Store!FinishTurn, Store!EndTurns, Store!CloseOpenEffects
<1>3. turn[t].status # "absent"
  <2>1. CASE CancelTurn(t) \/ CancelTurnDropped(t)
    BY <2>1, TurnPresent DEF CancelTurn, CancelTurnDropped
  <2>2. CASE CancelUnregisteredTurn(t)
    BY <2>2 DEF CancelUnregisteredTurn, Store!FinishTurn, Store!Active
  <2>. QED BY <2>1, <2>2
<1>4. turn'[t].status # "absent"
  <2>1. Disciplined(t)
    BY RequestDisciplined DEF RequestStep
  <2>. QED BY <1>3, <2>1, DisciplinedStatus, TurnFacts
<1>5. FreshInv(t)' /\ PlaceInv(t)'
  BY <1>1, <1>2, <1>4, TurnFacts DEF FreshInv, PlaceInv, AtItem
<1>6. CASE CancelTurn(t) \/ CancelTurnDropped(t)
  <2>1. UNCHANGED <<turn, effect, requested, results, task>>
    BY <1>6 DEF CancelTurn, CancelTurnDropped, store
  <2>2. BatchInv(t)' /\ OpenInv(t)' /\ CertainInv(t)'
    BY <2>1, TurnFacts DEF BatchInv, Active, Store!Active, Pending, OpenInv, Store!IsOpen,
                Executing, CertainInv, LostOutcome
  <2>. QED
    BY <1>5, <1>6, <2>1, <2>2, TurnFacts DEF CancelTurn, CancelTurnDropped, StepSound, TaskOnly,
                                  TypeOK, TaskInv
<1>7. CASE CancelUnregisteredTurn(t)
  <2>1. turn'[t].status = "cancelled"
    BY <1>7 DEF CancelUnregisteredTurn, Store!FinishTurn, Store!EndTurns
  <2>2. BatchInv(t)' /\ OpenInv(t)' /\ CertainInv(t)'
    BY <2>1 DEF BatchInv, Active, Store!Active, OpenInv, CertainInv
  <2>3. TaskOnly(t)
    BY <1>1, TurnFacts DEF TaskOnly, TypeOK
  <2>. QED
    BY <1>5, <1>7, <2>2, <2>3, SameRequests DEF CancelUnregisteredTurn, TaskInv
<1>. QED BY <1>6, <1>7

\* A task that is dropped is gone, and its Turn's row is left alone.
LEMMA NoTaskDoes ==
  ASSUME TypeOK, NEW t \in Turns, task' = [task EXCEPT ![t] = NoTask("gone")]
  PROVE  TaskOnly(t) /\ task'[t].pc = "gone" /\ task'[t].op = None
<1>1. NoTask("gone") \in Task
  BY NoTaskType DEF Places
<1>2. NoTask("gone").pc = "gone" /\ NoTask("gone").op = None
  BY DEF NoTask
<1>. QED BY <1>1, <1>2 DEF TypeOK, TaskOnly

\* A task that leaves does nothing else.
LEMMA LeaveDoes ==
  ASSUME TypeOK, NEW t \in Turns, Goto(t, "leave")
  PROVE  TaskOnly(t) /\ task'[t].pc = "leave"
  BY GotoDoes DEF Places, Locked, TaskOnly, Becomes

\* A task on its way out needs no more than its Turn's rows.
LEMMA LeavingKept ==
  ASSUME IInv, NEW t \in Turns, Disciplined(t), turn[t].status # "absent",
         task'[t].pc \in {"leave", "gone"}, task'[t].op # None => task'[t].pc = "leave"
  PROVE  TaskInv(t)'
<1>1. turn'[t].status # "absent"
  BY DisciplinedStatus, TurnFacts
<1>2. task'[t].pc \notin Before /\ task'[t].pc \notin Running /\ task'[t].pc # "record"
      /\ task'[t].pc \notin InBatch /\ task'[t].pc \notin Clean /\ task'[t].pc \notin AcpSteps
      /\ task'[t].pc \notin {"before_tool", "after_tool", "acp_mark", "acp_prompt"}
  BY DEF Before, Running, InBatch, Clean, NativeSteps, AcpSteps, Hooks
<1>. QED
  BY <1>1, <1>2 DEF TaskInv, FreshInv, PlaceInv, BatchInv, OpenInv, CertainInv

\* The Turn's task ends, or is about to.
LEMMA LeavingSteps ==
  ASSUME IInv, NEW t \in Turns,
         \/ CancelTurnEnds(t) \/ SetupFailsEarly(t) \/ SetupFails(t) \/ LeaveTask(t)
         \/ FinishNative(t)
         \/ AcpGivesUp(t) /\ UNCHANGED requests /\ task[t].pc # "absent" /\ Disciplined(t)
  PROVE  StepSound(t)
<1>1. CASE CancelTurnEnds(t)
  <2>1. Disciplined(t) /\ turn[t].status # "absent"
    BY <1>1, RequestDisciplined, TurnPresent DEF RequestStep, CancelTurnEnds
  <2>2. TaskOnly(t) /\ TaskInv(t)'
    BY <1>1, <2>1, NoTaskDoes, LeavingKept, TurnFacts DEF CancelTurnEnds
  <2>. QED BY <1>1, <2>2, TurnFacts DEF CancelTurnEnds, StepSound, TypeOK
<1>2. CASE LeaveTask(t)
  <2>1. Disciplined(t) /\ turn[t].status # "absent"
    BY <1>2, AroundDisciplined, TurnPresent DEF LeaveTask, At
  <2>2. TaskOnly(t) /\ TaskInv(t)'
    BY <1>2, <2>1, NoTaskDoes, LeavingKept, TurnFacts DEF LeaveTask
  <2>. QED BY <1>2, <2>2, TurnFacts DEF LeaveTask, StepSound, TypeOK
<1>3. ASSUME Disciplined(t), task[t].pc # "absent", Goto(t, "leave"), UNCHANGED requests
      PROVE  StepSound(t)
  BY <1>3, LeaveDoes, TurnPresent, LeavingKept, SameRequests, TurnFacts
<1>4. CASE SetupFailsEarly(t) \/ SetupFails(t)
  BY <1>3, <1>4, AroundDisciplined DEF SetupFailsEarly, SetupFails, At
<1>5. CASE FinishNative(t)
  BY <1>3, <1>5, LoopDisciplined DEF FinishNative, LoopStep, At
<1>6. CASE AcpGivesUp(t) /\ UNCHANGED requests /\ task[t].pc # "absent" /\ Disciplined(t)
  BY <1>3, <1>6 DEF AcpGivesUp
<1>. QED BY <1>1, <1>2, <1>4, <1>5, <1>6

\* The harness takes the Turn over with nothing done yet.
LEMMA BeginTurnInv ==
  ASSUME IInv, NEW t \in Turns, NEW h \in Harnesses, BeginTurn(t, h)
  PROVE  StepSound(t)
<1>1. task[t].pc = "setup" /\ Store!RecordTurnHarness(t, h) /\ UNCHANGED requests
  BY DEF BeginTurn, At
<1>2. /\ task[t].error = "none" /\ task[t].op = None /\ task[t].item = 1
      /\ requested[t] = {}
      /\ \A o \in Ops : effect[o].turn # t
      /\ Active(t)
  <2>1. task[t] = NoTask("setup") /\ requested[t] = {} /\ \A o \in Ops : effect[o].turn # t
    BY <1>1, TurnFacts DEF FreshInv, Before
  <2>2. Active(t)
    BY <1>1 DEF Store!RecordTurnHarness, Active
  <2>. QED BY <2>1, <2>2 DEF NoTask
<1>3. PICK m \in Modes, pc \in {"context", "acp_schedule"} :
         task' = [task EXCEPT ![t] = [task[t] EXCEPT !.pc = pc, !.mode = m]]
  BY DEF BeginTurn
<1>4. [task[t] EXCEPT !.pc = pc, !.mode = m] \in Task
  BY TurnFacts DEF Task, Locked, NativeSteps, AcpSteps
<1>5. task'[t] = [task[t] EXCEPT !.pc = pc, !.mode = m] /\ TaskOnly(t)
  BY <1>3, <1>4, TurnFacts DEF TypeOK, TaskOnly
<1>6. task'[t].pc = pc /\ task'[t].op = None /\ task'[t].error = "none"
  BY <1>2, <1>5, TurnFacts DEF Task
<1>7. UNCHANGED <<effect, requested, results>> /\ turn'[t].status = "running"
  <2>1. turn[t] \in Store!TurnRow /\ turn[t].status = "running"
    BY <1>2, TurnFacts, StoreTypes DEF Active, Store!Active
  <2>2. turn'[t] = [turn[t] EXCEPT !.harness = h]
    BY <1>1, TurnFacts, StoreTypes DEF Store!RecordTurnHarness
  <2>3. turn'[t].status = turn[t].status
    BY <2>1, <2>2 DEF Store!TurnRow
  <2>. QED BY <1>1, <2>1, <2>3 DEF Store!RecordTurnHarness
<1>8. pc \notin Before /\ pc \notin InBatch /\ pc # "record" /\ pc # "after_step"
  BY DEF Before, InBatch
<1>9. FreshInv(t)' /\ PlaceInv(t)' /\ BatchInv(t)' /\ OpenInv(t)'
  BY <1>2, <1>6, <1>7, <1>8 DEF FreshInv, PlaceInv, BatchInv, OpenInv
<1>10. CertainInv(t)'
  <2>1. \A c \in Calls : results[t][c] = <<>>
    BY <1>2, TurnFacts DEF RowsInv, AnswersOnce
  <2>2. \A c \in Calls : results[t][c] # <<"uncertain">>
    BY <2>1
  <2>. QED BY <1>2, <1>6, <1>7, <1>8, <2>2 DEF CertainInv
<1>. QED BY <1>1, <1>5, <1>9, <1>10, SameRequests DEF TaskInv

\* Starting an effect marks it as the one in flight.
LEMMA StartsEffectInv ==
  ASSUME IInv, NEW t \in Turns, Disciplined(t), StartsEffect(t),
         task[t].pc \in Hooks \cup {"provider"},
         task[t].pc \in {"before_tool", "after_tool"} => AtItem(t)
  PROVE  StepSound(t)
<1>. DEFINE o == NextOp(t)
            k == [task[t] EXCEPT !.op = o]
<1>1. o \in Ops /\ Store!StartEffect(t, o) /\ task[t].op = None /\ UNCHANGED requests
  BY DEF StartsEffect
<1>2. task' = [task EXCEPT ![t] = k]
  BY DEF StartsEffect
<1>. HIDE DEF o
<1>3. k \in Task
  BY <1>1, TurnFacts DEF Task
<1>4. k.pc = task[t].pc /\ k.op = o /\ k.batch = task[t].batch /\ k.item = task[t].item
      /\ k.error = task[t].error
  BY TurnFacts DEF Task
<1>5. Becomes(t, task[t].pc, o, task[t].batch, task[t].item, task[t].error)
  <2>. HIDE DEF k
  <2>. QED BY <1>2, <1>3, <1>4, UpdateDoes, TurnFacts
<1>6. Store!NewEffect(o, t, None, "started") /\ UNCHANGED <<turn, requested, results>>
  BY <1>1 DEF Store!StartEffect
<1>7. task[t].pc \in Running \ {"execute"} /\ "started" \in Store!Open
  BY DEF Running, NativeSteps, Hooks, Store!Open
<1>. QED BY <1>1, <1>5, <1>6, <1>7, StepIn, SameRequests

\* StartHook: a hook's effect starts.
LEMMA StartHookInv ==
  ASSUME IInv, NEW t \in Turns, StartHook(t)
  PROVE  StepSound(t)
  BY AroundDisciplined, StartsEffectInv DEF StartHook

\* The loop stops with an error and turns to the turn_end hook, or to its end.
LEMMA FailInv ==
  ASSUME IInv, NEW t \in Turns, Disciplined(t), task[t].pc \in Running \ {"execute"},
         NEW e \in {"failed", "cancelled"}, NEW pc \in {"turn_end", "finish"},
         Fail(t, e, pc), Active(t) => Settled(t), UNCHANGED requests
  PROVE  StepSound(t)
<1>. DEFINE err == IF task[t].error = "none" THEN e ELSE task[t].error
<1>1. pc \in Places /\ pc \in Running \ InBatch /\ pc \notin Clean /\ pc \notin AcpSteps
  BY DEF Places, Locked, NativeSteps, Hooks, Running, InBatch, Clean, AcpSteps
<1>2. e \in Errors
  BY DEF Errors
<1>3. Becomes(t, pc, None, task[t].batch, task[t].item, err)
  BY <1>1, <1>2, FailDoes, TurnFacts
<1>4. err \in Errors /\ err # "none"
  BY <1>2, TurnFacts DEF Task
<1>. HIDE DEF err
<1>5. TaskOnly(t) /\ TaskInv(t)'
  BY <1>1, <1>3, <1>4, StepOn
<1>. QED BY <1>5, SameRequests

\* The loop goes on.
LEMMA GoOnInv ==
  ASSUME IInv, NEW t \in Turns, Disciplined(t), task[t].pc \in Running \ InBatch,
         NEW pc \in Running \ InBatch, pc \notin AcpSteps, NEW k \in Task,
         task' = [task EXCEPT ![t] = k], k.pc = pc, k.op = None, k.error = task[t].error,
         pc \in Clean => task[t].error = "none",
         Active(t) => /\ Settled(t) /\ NoNewDoubt(t) /\ SameAnswers(t)
                      /\ task[t].pc = "after_step" => ~ LostOutcome(t),
         UNCHANGED requests
  PROVE  StepSound(t)
<1>1. Becomes(t, pc, None, k.batch, k.item, task[t].error)
  BY UpdateDoes, TurnFacts
<1>2. task[t].error \in Errors /\ task[t].pc \in Running \ {"execute"}
      /\ pc \notin {"acp_mark", "acp_prompt"}
  BY TurnFacts DEF Task, InBatch, AcpSteps
<1>3. TaskOnly(t) /\ TaskInv(t)'
  BY <1>1, <1>2, StepOn
<1>. QED BY <1>3, SameRequests

\* The places of the loop around the batch.
LEMMA LoopPlaces ==
  /\ {"context", "turn_start", "step", "before_model", "provider", "respond",
      "after_step", "turn_end", "finish"} \subseteq Running \ InBatch
  /\ {"context", "turn_start", "step", "before_model", "provider", "respond",
      "after_step", "turn_end", "finish"} \cap AcpSteps = {}
  /\ Running \ InBatch \subseteq Running \ {"execute"}
  BY DEF Running, NativeSteps, Hooks, InBatch, AcpSteps

\* A step that leaves the store alone.
LEMMA Quietly ==
  ASSUME IInv, NEW t \in Turns, UNCHANGED store,
         task[t].pc \in {"context", "step", "respond", "execute", "record", "finish"}
            \/ task[t].op = None
  PROVE  /\ Disciplined(t) /\ Settled(t) /\ NoNewDoubt(t) /\ SameAnswers(t)
         /\ task[t].op = None
<1>1. task[t].op = None
  BY TurnFacts DEF PlaceInv, Hooks
<1>. QED BY <1>1, QuietStore DEF Disciplined

\* FetchContext: the Agent's context is read.
LEMMA FetchContextInv ==
  ASSUME IInv, NEW t \in Turns, FetchContext(t)
  PROVE  StepSound(t)
<1>1. task[t].pc = "context" /\ UNCHANGED store /\ UNCHANGED requests
  BY DEF FetchContext, At
<1>2. Disciplined(t) /\ Settled(t) /\ NoNewDoubt(t) /\ SameAnswers(t) /\ task[t].op = None
  BY <1>1, Quietly
<1>3. task[t].error = "none"
  BY <1>1, TurnFacts DEF PlaceInv, Clean
<1>4. CASE Goto(t, "turn_start")
  <2>. DEFINE k == [task[t] EXCEPT !.pc = "turn_start"]
  <2>1. k \in Task
    BY TurnFacts DEF Task, Locked, NativeSteps, Hooks
  <2>2. k.pc = "turn_start" /\ k.op = None /\ k.error = task[t].error
    BY <1>2, TurnFacts DEF Task
  <2>3. task' = [task EXCEPT ![t] = k]
    BY <1>4 DEF Goto
  <2>. HIDE DEF k
  <2>. QED BY <1>1, <1>2, <1>3, <2>1, <2>2, <2>3, LoopPlaces, GoOnInv
<1>5. CASE Fail(t, "failed", "finish")
  BY <1>1, <1>2, <1>5, LoopPlaces, FailInv
<1>. QED BY <1>4, <1>5 DEF FetchContext

\* TurnStarted: the turn_start hook returned.
LEMMA TurnStartedInv ==
  ASSUME IInv, NEW t \in Turns, TurnStarted(t)
  PROVE  StepSound(t)
<1>1. PICK out \in Outcomes :
         /\ HookReturns(t, "turn_start", out)
         /\ IF out = "ok"
            THEN \E c \in BOOLEAN :
                   task' = [task EXCEPT ![t].pc = "step", ![t].op = None, ![t].cursor = c]
            ELSE Fail(t, CancelledIf(out = "cancelled"), "turn_end")
  BY DEF TurnStarted
<1>2. /\ task[t].pc = "turn_start" /\ Disciplined(t)
      /\ Active(t) => Settled(t) /\ SameAnswers(t) /\ (out \in {"ok", "failed"} => NoNewDoubt(t))
      /\ UNCHANGED requests
  <2>1. "turn_start" \in Hooks /\ HookReturns(t, "turn_start", out)
    BY <1>1 DEF Hooks
  <2>. QED BY <2>1, HookEnds DEF HookReturns
<1>3. task[t].error = "none"
  BY <1>2, TurnFacts DEF PlaceInv, Clean
<1>4. CASE out = "ok"
  <2>1. PICK c \in BOOLEAN :
           task' = [task EXCEPT ![t].pc = "step", ![t].op = None, ![t].cursor = c]
    BY <1>1, <1>4
  <2>. DEFINE k == [task[t] EXCEPT !.pc = "step", !.op = None, !.cursor = c]
  <2>2. k \in Task
    BY TurnFacts DEF Task, Locked, NativeSteps
  <2>3. k.pc = "step" /\ k.op = None /\ k.error = task[t].error
    BY TurnFacts DEF Task
  <2>4. task' = [task EXCEPT ![t] = k]
    BY <2>1
  <2>. HIDE DEF k
  <2>. QED BY <1>2, <1>3, <1>4, <2>2, <2>3, <2>4, LoopPlaces, GoOnInv
<1>5. CASE out # "ok"
  BY <1>1, <1>2, <1>5, LoopPlaces, FailInv DEF CancelledIf
<1>. QED BY <1>4, <1>5

\* BeginStep: a step of the loop begins.
LEMMA BeginStepInv ==
  ASSUME IInv, NEW t \in Turns, BeginStep(t)
  PROVE  StepSound(t)
<1>1. task[t].pc = "step" /\ UNCHANGED store /\ UNCHANGED requests
  BY DEF BeginStep, At
<1>2. Disciplined(t) /\ Settled(t) /\ NoNewDoubt(t) /\ SameAnswers(t) /\ task[t].op = None
  BY <1>1, Quietly
<1>3. task[t].error = "none"
  BY <1>1, TurnFacts DEF PlaceInv, Clean
<1>4. CASE Goto(t, "before_model")
  <2>. DEFINE k == [task[t] EXCEPT !.pc = "before_model"]
  <2>1. k \in Task
    BY TurnFacts DEF Task, Locked, NativeSteps, Hooks
  <2>2. k.pc = "before_model" /\ k.op = None /\ k.error = task[t].error
    BY <1>2, TurnFacts DEF Task
  <2>3. task' = [task EXCEPT ![t] = k]
    BY <1>4 DEF Goto
  <2>. HIDE DEF k
  <2>. QED BY <1>1, <1>2, <1>3, <2>1, <2>2, <2>3, LoopPlaces, GoOnInv
<1>5. CASE \E e \in {"failed", "cancelled"} : Fail(t, e, "turn_end")
  BY <1>1, <1>2, <1>5, LoopPlaces, FailInv
<1>. QED BY <1>4, <1>5 DEF BeginStep

\* BeforeModel: the before_model hook returned.
LEMMA BeforeModelInv ==
  ASSUME IInv, NEW t \in Turns, BeforeModel(t)
  PROVE  StepSound(t)
<1>1. PICK out \in Outcomes :
         /\ HookReturns(t, "before_model", out)
         /\ \/ /\ out = "ok"
               /\ task' = [task EXCEPT ![t].pc = "provider", ![t].op = None]
            \/ Fail(t, CancelledIf(out = "cancelled"), "turn_end")
  BY DEF BeforeModel
<1>2. /\ task[t].pc = "before_model" /\ Disciplined(t)
      /\ Active(t) => Settled(t) /\ SameAnswers(t) /\ (out \in {"ok", "failed"} => NoNewDoubt(t))
      /\ UNCHANGED requests
  <2>1. "before_model" \in Hooks /\ HookReturns(t, "before_model", out)
    BY <1>1 DEF Hooks
  <2>. QED BY <2>1, HookEnds DEF HookReturns
<1>3. task[t].error = "none"
  BY <1>2, TurnFacts DEF PlaceInv, Clean
<1>4. CASE out = "ok" /\ task' = [task EXCEPT ![t].pc = "provider", ![t].op = None]
  <2>. DEFINE k == [task[t] EXCEPT !.pc = "provider", !.op = None]
  <2>1. k \in Task
    BY TurnFacts DEF Task, Locked, NativeSteps
  <2>2. k.pc = "provider" /\ k.op = None /\ k.error = task[t].error
    BY TurnFacts DEF Task
  <2>3. task' = [task EXCEPT ![t] = k]
    BY <1>4
  <2>. HIDE DEF k
  <2>. QED BY <1>2, <1>3, <1>4, <2>1, <2>2, <2>3, LoopPlaces, GoOnInv
<1>5. CASE Fail(t, CancelledIf(out = "cancelled"), "turn_end")
  BY <1>2, <1>5, LoopPlaces, FailInv DEF CancelledIf
<1>. QED BY <1>1, <1>4, <1>5

\* The end of a provider call settles its effect.
LEMMA ProviderEnds ==
  ASSUME IInv, NEW t \in Turns, NEW status \in Store!Closed, ProviderEffectEnds(t, status)
  PROVE  /\ task[t].pc = "provider" /\ task[t].error = "none"
         /\ Settled(t) /\ SameAnswers(t) /\ (status # "uncertain" => NoNewDoubt(t))
         /\ UNCHANGED requests
<1>1. task[t].pc = "provider" /\ task[t].pc \in Running /\ task[t].op # None /\ Active(t)
      /\ Store!FinishEffect(task[t].op, status) /\ UNCHANGED requests
  BY DEF ProviderEffectEnds, At, Running, NativeSteps
<1>2. task[t].error = "none"
  BY <1>1, TurnFacts DEF PlaceInv, Clean
<1>. QED BY <1>1, <1>2, OpEnds

\* Provider: a provider call starts, fails, is retried without its cursor, or completes.
LEMMA ProviderInv ==
  ASSUME IInv, NEW t \in Turns,
         \/ StartProviderCall(t) \/ ProviderFails(t)
         \/ CursorRejected(t) \/ ProviderCompletes(t)
  PROVE  StepSound(t)
<1>1. Disciplined(t) /\ task[t].pc = "provider"
  BY LoopDisciplined DEF LoopStep, StartProviderCall, ProviderFails, CursorRejected,
                         ProviderCompletes, ProviderEffectEnds, At
<1>2. {"failed", "uncertain", "succeeded"} \subseteq Store!Closed
  BY DEF Store!Closed
<1>3. CASE StartProviderCall(t)
  <2>1. CASE StartsEffect(t)
    BY <1>1, <2>1, StartsEffectInv
  <2>2. CASE Fail(t, CancelledIf(token[t]), "turn_end") /\ UNCHANGED <<store, requests>>
    <3>1. Settled(t) /\ UNCHANGED requests
      BY <1>3, <2>2, Quietly DEF StartProviderCall
    <3>. QED BY <1>1, <2>2, <3>1, LoopPlaces, FailInv DEF CancelledIf
  <2>. QED BY <1>3, <2>1, <2>2 DEF StartProviderCall
<1>4. CASE ProviderFails(t)
  <2>1. ASSUME NEW e \in {"failed", "cancelled"}, Fail(t, e, "turn_end"),
               Active(t) => Settled(t), UNCHANGED requests
        PROVE  StepSound(t)
    BY <1>1, <2>1, LoopPlaces, FailInv
  <2>2. CASE ProviderEffectEnds(t, "failed") /\ Fail(t, "failed", "turn_end")
    BY <1>2, <2>1, <2>2, ProviderEnds
  <2>3. CASE ProviderEffectEnds(t, "uncertain")
             /\ \E e \in {"failed", "cancelled"} : Fail(t, e, "turn_end")
    BY <1>2, <2>1, <2>3, ProviderEnds
  <2>4. CASE ~ Active(t) /\ Fail(t, "failed", "turn_end") /\ UNCHANGED <<store, requests>>
    BY <2>1, <2>4
  <2>. QED BY <1>4, <2>2, <2>3, <2>4 DEF ProviderFails
<1>5. CASE CursorRejected(t)
  <2>. DEFINE k == [task[t] EXCEPT !.cursor = FALSE, !.op = None]
  <2>1. k \in Task
    BY TurnFacts DEF Task
  <2>2. k.pc = "provider" /\ k.op = None /\ k.error = task[t].error
    BY <1>1, TurnFacts DEF Task
  <2>3. task' = [task EXCEPT ![t] = k]
    BY <1>5 DEF CursorRejected
  <2>4. ProviderEffectEnds(t, "failed")
    BY <1>5 DEF CursorRejected
  <2>. HIDE DEF k
  <2>. QED BY <1>1, <1>2, <2>1, <2>2, <2>3, <2>4, LoopPlaces, ProviderEnds, GoOnInv
<1>6. CASE ProviderCompletes(t)
  <2>. DEFINE k == [task[t] EXCEPT !.pc = "respond", !.op = None, !.cursor = FALSE]
  <2>1. k \in Task
    BY TurnFacts DEF Task, Locked, NativeSteps
  <2>2. k.pc = "respond" /\ k.op = None /\ k.error = task[t].error
    BY TurnFacts DEF Task
  <2>3. task' = [task EXCEPT ![t] = k]
    BY <1>6 DEF ProviderCompletes
  <2>4. ProviderEffectEnds(t, "succeeded")
    BY <1>6 DEF ProviderCompletes
  <2>. HIDE DEF k
  <2>. QED BY <1>1, <1>2, <2>1, <2>2, <2>3, <2>4, LoopPlaces, ProviderEnds, GoOnInv
<1>. QED BY <1>3, <1>4, <1>5, <1>6

\* AfterStep: the loop goes on, or finishes.
LEMMA AfterStepInv ==
  ASSUME IInv, NEW t \in Turns, AfterStep(t)
  PROVE  StepSound(t)
<1>1. PICK out \in Outcomes :
         /\ HookReturns(t, "after_step", out)
         /\ \/ /\ out # "ok" \/ LostOutcome(t)
               /\ Fail(t, CancelledIf(out = "cancelled" /\ ~ LostOutcome(t)), "turn_end")
            \/ /\ out = "ok"
               /\ ~ LostOutcome(t)
               /\ task' = [task EXCEPT ![t].pc = "turn_end", ![t].op = None]
            \/ /\ out = "ok"
               /\ ~ LostOutcome(t)
               /\ task[t].batch # <<>>
               /\ IF task[t].step < MaxSteps
                  THEN task' = [task EXCEPT ![t].pc = "step", ![t].op = None,
                                  ![t].step = @ + 1, ![t].batch = <<>>]
                  ELSE Fail(t, "failed", "turn_end")
  BY DEF AfterStep
<1>2. /\ task[t].pc = "after_step" /\ Disciplined(t)
      /\ Active(t) => Settled(t) /\ SameAnswers(t) /\ (out \in {"ok", "failed"} => NoNewDoubt(t))
      /\ UNCHANGED requests
  <2>1. "after_step" \in Hooks /\ HookReturns(t, "after_step", out)
    BY <1>1 DEF Hooks
  <2>. QED BY <2>1, HookEnds DEF HookReturns
<1>3. task[t].error = "none"
  BY <1>2, TurnFacts DEF PlaceInv, Clean
<1>4. ASSUME NEW e \in {"failed", "cancelled"}, Fail(t, e, "turn_end")
      PROVE  StepSound(t)
  BY <1>2, <1>4, LoopPlaces, FailInv
<1>5. CASE out = "ok" /\ ~ LostOutcome(t)
           /\ task' = [task EXCEPT ![t].pc = "turn_end", ![t].op = None]
  <2>. DEFINE k == [task[t] EXCEPT !.pc = "turn_end", !.op = None]
  <2>1. k \in Task
    BY TurnFacts DEF Task, Locked, NativeSteps, Hooks
  <2>2. k.pc = "turn_end" /\ k.op = None /\ k.error = task[t].error
    BY TurnFacts DEF Task
  <2>3. task' = [task EXCEPT ![t] = k]
    BY <1>5
  <2>. HIDE DEF k
  <2>. QED BY <1>2, <1>3, <1>5, <2>1, <2>2, <2>3, LoopPlaces, GoOnInv
<1>6. CASE out = "ok" /\ ~ LostOutcome(t) /\ task[t].step < MaxSteps
           /\ task' = [task EXCEPT ![t].pc = "step", ![t].op = None,
                                   ![t].step = @ + 1, ![t].batch = <<>>]
  <2>. DEFINE n == task[t].step + 1
              k == [task[t] EXCEPT !.pc = "step", !.op = None, !.step = n, !.batch = <<>>]
  <2>1. n \in 1 .. MaxSteps
    <3>1. task[t].step \in 1 .. MaxSteps /\ MaxSteps \in Nat
      BY TurnFacts, TaskFields, MaxStepsAssumption
    <3>. QED BY <1>6, <3>1
  <2>2. task' = [task EXCEPT ![t] = k]
    BY <1>6
  <2>. HIDE DEF n
  <2>3. k \in Task
    <3>1. <<>> \in Seq(Item)
      OBVIOUS
    <3>. QED BY <2>1, <3>1, TurnFacts DEF Task, Locked, NativeSteps
  <2>4. k.pc = "step" /\ k.op = None /\ k.error = task[t].error
    BY TurnFacts DEF Task
  <2>. HIDE DEF k
  <2>. QED BY <1>2, <1>3, <1>6, <2>2, <2>3, <2>4, LoopPlaces, GoOnInv
<1>. QED BY <1>1, <1>4, <1>5, <1>6 DEF CancelledIf

\* TurnFinished: the turn_end hook returned.
LEMMA TurnFinishedInv ==
  ASSUME IInv, NEW t \in Turns, TurnFinished(t)
  PROVE  StepSound(t)
<1>1. PICK out \in Outcomes :
         /\ HookReturns(t, "turn_end", out)
         /\ IF out = "ok" THEN task' = [task EXCEPT ![t].pc = "finish", ![t].op = None]
                          ELSE Fail(t, "failed", "finish")
  BY DEF TurnFinished
<1>2. /\ task[t].pc = "turn_end" /\ Disciplined(t)
      /\ Active(t) => Settled(t) /\ SameAnswers(t) /\ (out \in {"ok", "failed"} => NoNewDoubt(t))
      /\ UNCHANGED requests
  <2>1. "turn_end" \in Hooks /\ HookReturns(t, "turn_end", out)
    BY <1>1 DEF Hooks
  <2>. QED BY <2>1, HookEnds DEF HookReturns
<1>3. CASE out = "ok"
  <2>. DEFINE k == [task[t] EXCEPT !.pc = "finish", !.op = None]
  <2>1. k \in Task
    BY TurnFacts DEF Task, Locked, NativeSteps
  <2>2. k.pc = "finish" /\ k.op = None /\ k.error = task[t].error /\ "finish" \notin Clean
    BY TurnFacts DEF Task, Clean
  <2>3. task' = [task EXCEPT ![t] = k]
    BY <1>1, <1>3
  <2>. HIDE DEF k
  <2>. QED BY <1>2, <1>3, <2>1, <2>2, <2>3, LoopPlaces, GoOnInv
<1>4. CASE out # "ok"
  BY <1>1, <1>2, <1>4, LoopPlaces, FailInv
<1>. QED BY <1>3, <1>4

--------------------
(***************************************************************************)
(* What is said of a task: the batch.                                      *)
(***************************************************************************)

\* To keep what is said of a running task it is enough to look at it while its
\* Turn is active.
LEMMA ActiveEnough ==
  ASSUME IInv, NEW t \in Turns, Disciplined(t), task[t].pc \in Running,
         task'[t].pc \in Running, TaskOnly(t), UNCHANGED requests, PlaceInv(t)',
         Active(t) => BatchInv(t)' /\ OpenInv(t)' /\ CertainInv(t)'
  PROVE  StepSound(t)
<1>1. task[t].pc # "absent" /\ task'[t].pc \notin Before
  BY DEF Running, NativeSteps, AcpSteps, Hooks, Before
<1>2. FreshInv(t)' /\ (Active(t)' => Active(t))
  BY <1>1, FreshKept
<1>3. ~ Active(t)' => BatchInv(t)' /\ OpenInv(t)' /\ CertainInv(t)'
  BY DEF BatchInv, OpenInv, CertainInv, Active
<1>4. TaskInv(t)'
  BY <1>2, <1>3 DEF TaskInv
<1>. QED BY <1>4, SameRequests

\* The places of the batch pipeline are the task's own.
LEMMA BatchPlaces ==
  /\ InBatch \subseteq Running
  /\ InBatch \cap Clean = {}
  /\ InBatch \cap AcpSteps = {}
  BY DEF InBatch, Running, NativeSteps, Hooks, Clean, AcpSteps

\* AppendResponse: the response opens a batch of fresh calls.
LEMMA AppendResponseInv ==
  ASSUME IInv, NEW t \in Turns, AppendResponse(t)
  PROVE  StepSound(t)
<1>1. task[t].pc = "respond" /\ UNCHANGED requests /\ Disciplined(t)
  BY LoopDisciplined DEF AppendResponse, At, LoopStep
<1>2. task[t].op = None /\ task[t].error = "none" /\ task[t].pc \in Running \ {"execute"}
  BY <1>1, LoopPlaces, TurnFacts DEF PlaceInv, Hooks, Clean
<1>3. CASE Fail(t, "failed", "turn_end") /\ UNCHANGED store
  BY <1>1, <1>2, <1>3, Quietly, FailInv
<1>4. ASSUME NEW cs \in SUBSET Calls, AcceptsResponse(t, cs), Active(t),
             requested' = [requested EXCEPT ![t] = @ \cup cs],
             UNCHANGED <<hub, turn, receipt, effect, results>>,
             task' = [task EXCEPT ![t].pc = "before_tool", ![t].batch = NewBatch(cs),
                                  ![t].item = 1]
      PROVE  StepSound(t)
  <2>. DEFINE b == NewBatch(cs)
              k == [task[t] EXCEPT !.pc = "before_tool", !.batch = b, !.item = 1]
  <2>1. b \in Seq(Item)
    BY NewBatchHolds
  <2>2. task' = [task EXCEPT ![t] = k]
    BY <1>4
  <2>. HIDE DEF b
  <2>3. k \in Task
    <3>1. task[t] \in Task /\ 1 \in Nat \ {0} /\ "before_tool" \in Locked
      BY TurnFacts DEF Locked, NativeSteps, Hooks
    <3>. QED BY <2>1, <3>1 DEF Task
  <2>4. k.pc = "before_tool" /\ k.op = None /\ k.batch = b /\ k.item = 1 /\ k.error = "none"
    BY <1>2, TurnFacts DEF Task
  <2>. HIDE DEF k
  <2>5. Becomes(t, "before_tool", None, b, 1, "none")
    BY <2>2, <2>3, <2>4, UpdateDoes, TurnFacts
  <2>6. /\ task'[t].pc = "before_tool" /\ task'[t].op = None /\ task'[t].batch = b
        /\ task'[t].item = 1 /\ task'[t].error = "none" /\ TaskOnly(t)
    BY <2>5 DEF Becomes, TaskOnly
  <2>7. PlaceInv(t)'
    BY <2>6 DEF PlaceInv, Clean, AcpSteps
  <2>8. requested'[t] = requested[t] \cup cs /\ cs \cap requested[t] = {}
    BY <1>4, TurnFacts, StoreTypes DEF AcceptsResponse
  <2>9. \A i \in DOMAIN b :
          /\ b[i].call \in cs /\ b[i].state = "new" /\ b[i].result = None
          /\ \A j \in DOMAIN b : b[i].call = b[j].call => i = j
    BY NewBatchHolds DEF b
  <2>10. \A c \in cs : \E i \in DOMAIN b : b[i].call = c
    BY NewBatchHolds DEF b
  <2>11. \A c \in cs : results[t][c] = <<>>
    BY <2>8, TurnFacts DEF RowsInv, AnswersOnce
  <2>12. BatchInv(t)'
    <3>1. results' = results /\ \A i \in DOMAIN b : b[i].call \in requested'[t]
      BY <1>4, <2>8, <2>9
    <3>2. \A i \in DOMAIN b : results'[t][b[i].call] = <<>>
      BY <2>9, <2>11, <3>1
    <3>3. \A i \in DOMAIN b : b[i].state # "done" /\ b[i].result = None
      BY <2>9
    <3>. QED BY <2>6, <2>9, <3>1, <3>2, <3>3 DEF BatchInv
  <2>13. OpenInv(t)'
    <3>1. Settled(t)
      BY <1>2, <1>4, TurnFacts, StoreTypes DEF Settled
    <3>. QED BY <1>2, <1>4, <2>6, <3>1, OpenNone
  <2>14. CertainInv(t)'
    <3>1. /\ \A c \in requested[t] : results[t][c] # <<>>
          /\ \A o \in Ops : effect[o].turn = t => effect[o].status # "uncertain"
          /\ \A c \in Calls : results[t][c] # <<"uncertain">>
      BY <1>1, <1>2, <1>4, TurnFacts DEF CertainInv, InBatch
    <3>2. \A c \in requested'[t] :
             results'[t][c] # <<>> \/ \E i \in DOMAIN b : b[i].call = c
      BY <1>4, <2>8, <2>10, <3>1
    <3>. QED BY <1>4, <2>6, <3>1, <3>2 DEF CertainInv, InBatch, Pending
  <2>. QED
    BY <1>1, <1>2, <2>6, <2>7, <2>12, <2>13, <2>14, ActiveEnough, BatchPlaces DEF InBatch
<1>. QED BY <1>3, <1>4 DEF AppendResponse

\* The call the loop prepares is settled.
LEMMA PreparedInv ==
  ASSUME IInv, NEW t \in Turns, Disciplined(t), task[t].pc = "before_tool", AtItem(t),
         NEW state \in {"allowed", "done"}, NEW r \in Store!Reported \cup {None},
         NEW e \in Errors, Prepared(t, state, r, e), r # None <=> state = "done",
         Active(t) => /\ Settled(t) /\ SameAnswers(t)
                      /\ e = "none" => NoNewDoubt(t),
         UNCHANGED requests
  PROVE  StepSound(t)
<1>. DEFINE n == task[t].item
            b == task[t].batch
            new == [call |-> Current(t).call, state |-> state, result |-> r]
            b2 == [b EXCEPT ![n] = new]
            err == IF task[t].error = "none" THEN e ELSE task[t].error
<1>1. Becomes(t, task[t].pc, None, b2, n + 1, err)
  BY PreparedDoes, TurnFacts
<1>2. n \in DOMAIN b /\ b \in Seq(Item) /\ n \in Nat \ {0} /\ DOMAIN b \subseteq Nat
  BY TurnFacts, TaskFields DEF AtItem
<1>3. /\ DOMAIN b2 = DOMAIN b
      /\ b2[n] = new
      /\ \A i \in DOMAIN b : i # n => b2[i] = b[i]
  BY <1>2
<1>4. new.call = b[n].call /\ new.state = state /\ new.result = r
  BY DEF Current
<1>. HIDE DEF new, b2
<1>5. /\ task'[t].pc = "before_tool" /\ task'[t].op = None /\ task'[t].batch = b2
      /\ task'[t].item = n + 1 /\ task'[t].error = err /\ TaskOnly(t)
  BY <1>1 DEF Becomes, TaskOnly
<1>6. PlaceInv(t)'
  BY <1>5 DEF PlaceInv, Clean, AcpSteps
<1>7. \A i \in DOMAIN b : b2[i].call = b[i].call
  BY <1>3, <1>4
<1>8. ASSUME Active(t) PROVE BatchInv(t)'
  <2>1. \A i \in DOMAIN b :
          /\ b[i].call \in requested[t]
          /\ results[t][b[i].call] = <<>>
          /\ b[i].result # None <=> b[i].state = "done"
          /\ i >= n => b[i].state = "new"
          /\ \A j \in DOMAIN b : b[i].call = b[j].call => i = j
    BY <1>8, TurnFacts DEF BatchInv, InBatch, Pending
  <2>2. requested'[t] = requested[t] /\ results'[t] = results[t]
    BY <1>8 DEF SameAnswers
  <2>3. \A i \in DOMAIN b :
          /\ b2[i].result # None <=> b2[i].state = "done"
          /\ i >= n + 1 => b2[i].state = "new"
    BY <1>2, <1>3, <1>4, <2>1
  <2>. QED BY <1>3, <1>5, <1>7, <2>1, <2>2, <2>3 DEF BatchInv
<1>9. ASSUME Active(t) PROVE OpenInv(t)'
  <2>1. task[t].pc \in Running \ {"execute"}
    BY BatchPlaces DEF InBatch
  <2>2. task[t].error # "none" => task'[t].error # "none"
    BY <1>5
  <2>. QED BY <1>5, <1>9, <2>1, <2>2, OpenNone
<1>10. ASSUME Active(t) PROVE CertainInv(t)'
  <2> SUFFICES ASSUME err = "none"
               PROVE  CertainInv(t)'
    BY <1>5 DEF CertainInv
  <2>1. task[t].error = "none" /\ e = "none" /\ SameAnswers(t) /\ NoNewDoubt(t)
    BY <1>10
  <2>2. \A c \in requested'[t] :
           results'[t][c] # <<>> \/ \E i \in DOMAIN b2 : b2[i].call = c
    BY <1>3, <1>7, <1>10, <2>1, BatchPlaces, TurnFacts DEF CertainInv, InBatch, SameAnswers
  <2>3. b[n].result = None
    BY <1>2, <1>10, TurnFacts DEF BatchInv, InBatch
  <2>4. LostOutcome(t) => LostOutcome(t)'
    BY <1>3, <1>5, <2>3, NoneAssumption DEF LostOutcome
  <2>5. ~ LostOutcome(t)' =>
           /\ \A o \in Ops : effect'[o].turn = t => effect'[o].status # "uncertain"
           /\ \A c \in Calls : results'[t][c] # <<"uncertain">>
    BY <1>10, <2>1, <2>4, BatchPlaces, TurnFacts
       DEF CertainInv, InBatch, SameAnswers, NoNewDoubt
  <2>. QED BY <1>5, <2>2, <2>5 DEF CertainInv, InBatch, Pending
<1>. QED
  BY <1>5, <1>6, <1>8, <1>9, <1>10, ActiveEnough, BatchPlaces DEF InBatch

\* RefuseCall: a call the Agent may not make is answered at once.
LEMMA RefuseCallInv ==
  ASSUME IInv, NEW t \in Turns, RefuseCall(t)
  PROVE  StepSound(t)
<1>1. /\ task[t].pc = "before_tool" /\ AtItem(t) /\ task[t].op = None
      /\ UNCHANGED store /\ UNCHANGED requests
  BY DEF RefuseCall, At
<1>2. Disciplined(t) /\ Settled(t) /\ NoNewDoubt(t) /\ SameAnswers(t)
  BY <1>1, Quietly
<1>3. PICK e \in Errors : Prepared(t, "done", "error", e)
  BY DEF RefuseCall, Errors
<1>4. "error" \in Store!Reported /\ "error" # None
  BY NoneAssumption DEF Store!Reported
<1>. QED BY <1>1, <1>2, <1>3, <1>4, PreparedInv

\* BeforeTool: the hook lets a call through, refuses it, or fails.
LEMMA BeforeToolInv ==
  ASSUME IInv, NEW t \in Turns, BeforeTool(t)
  PROVE  StepSound(t)
<1>1. PICK out \in Outcomes :
         /\ AtItem(t)
         /\ HookReturns(t, "before_tool", out)
         /\ \/ out = "ok" /\ Prepared(t, "allowed", None, "none")
            \/ out \in {"ok", "failed"} /\ Prepared(t, "done", "error", "none")
            \/ out = "cancelled" /\ Prepared(t, "done", "error", "cancelled")
            \/ out = "uncertain" /\ Prepared(t, "done", "uncertain", "failed")
  BY DEF BeforeTool
<1>2. /\ task[t].pc = "before_tool" /\ Disciplined(t)
      /\ Active(t) => Settled(t) /\ SameAnswers(t) /\ (out \in {"ok", "failed"} => NoNewDoubt(t))
      /\ UNCHANGED requests
  <2>1. "before_tool" \in Hooks /\ HookReturns(t, "before_tool", out)
    BY <1>1 DEF Hooks
  <2>. QED BY <2>1, HookEnds DEF HookReturns
<1>3. /\ "error" \in Store!Reported /\ "error" # None
      /\ "uncertain" \in Store!Reported /\ "uncertain" # None
      /\ Errors = {"none", "failed", "cancelled"}
  BY NoneAssumption DEF Store!Reported, Errors
<1>4. CASE out = "ok" /\ Prepared(t, "allowed", None, "none")
  BY <1>1, <1>2, <1>3, <1>4, PreparedInv
<1>5. CASE out \in {"ok", "failed"} /\ Prepared(t, "done", "error", "none")
  BY <1>1, <1>2, <1>3, <1>5, PreparedInv
<1>6. CASE Prepared(t, "done", "error", "cancelled")
  BY <1>1, <1>2, <1>3, <1>6, PreparedInv
<1>7. CASE Prepared(t, "done", "uncertain", "failed")
  BY <1>1, <1>2, <1>3, <1>7, PreparedInv
<1>. QED BY <1>1, <1>4, <1>5, <1>6, <1>7

\* EndPreparation: the batch starts, or is answered after a failed hook.
LEMMA EndPreparationInv ==
  ASSUME IInv, NEW t \in Turns, EndPreparation(t)
  PROVE  StepSound(t)
<1>. DEFINE b == task[t].batch
            err == task[t].error
            b2 == [i \in DOMAIN b |->
                     IF err # "none" /\ b[i].state = "allowed"
                     THEN [call |-> b[i].call, state |-> "done", result |-> "error"]
                     ELSE b[i]]
            k == [task[t] EXCEPT !.pc = "execute", !.item = 1, !.batch = b2]
<1>1. task[t].pc = "before_tool" /\ ~ AtItem(t) /\ UNCHANGED store /\ UNCHANGED requests
  BY DEF EndPreparation, At
<1>2. task[t].op = None
  BY <1>1, TurnFacts DEF PlaceInv
<1>3. Disciplined(t) /\ Settled(t) /\ NoNewDoubt(t) /\ SameAnswers(t)
  BY <1>1, <1>2, Quietly
<1>4. b \in Seq(Item) /\ err \in Errors
  BY TurnFacts, TaskFields
<1>5. "error" \in Store!Reported /\ "error" # None
  BY NoneAssumption DEF Store!Reported
<1>6. b2 \in Seq(Item)
  <2>1. \A i \in DOMAIN b : b[i] \in Item
    BY <1>4
  <2>2. \A i \in DOMAIN b :
           [call |-> b[i].call, state |-> "done", result |-> "error"] \in Item
    BY <1>5, <2>1 DEF Item
  <2>3. DOMAIN b = 1 .. Len(b) /\ Len(b) \in Nat
    BY <1>4
  <2>4. b2 \in [DOMAIN b -> Item]
    BY <2>1, <2>2
  <2>. HIDE DEF b2
  <2>. QED BY <2>3, <2>4
<1>7. /\ DOMAIN b2 = DOMAIN b
      /\ \A i \in DOMAIN b : b2[i].call = b[i].call
      /\ err = "none" => \A i \in DOMAIN b : b2[i] = b[i]
      /\ \A i \in DOMAIN b :
           (b[i].result # None <=> b[i].state = "done") =>
           (b2[i].result # None <=> b2[i].state = "done")
  BY <1>5
<1>8. task' = [task EXCEPT ![t] = k]
  BY DEF EndPreparation
<1>. HIDE DEF b2
<1>9. k \in Task
  <2>1. task[t] \in Task /\ 1 \in Nat \ {0} /\ "execute" \in Locked
    BY TurnFacts DEF Locked, NativeSteps
  <2>. QED BY <1>6, <2>1 DEF Task
<1>10. k.pc = "execute" /\ k.op = None /\ k.batch = b2 /\ k.item = 1 /\ k.error = err
  BY <1>2, TurnFacts DEF Task
<1>. HIDE DEF k
<1>11. Becomes(t, "execute", None, b2, 1, err)
  BY <1>8, <1>9, <1>10, UpdateDoes, TurnFacts
<1>12. /\ task'[t].pc = "execute" /\ task'[t].op = None /\ task'[t].batch = b2
       /\ task'[t].item = 1 /\ task'[t].error = err /\ TaskOnly(t)
  BY <1>11 DEF Becomes, TaskOnly
<1>13. PlaceInv(t)'
  BY <1>12 DEF PlaceInv, Clean, AcpSteps
<1>14. ASSUME Active(t) PROVE BatchInv(t)'
  <2>1. \A i \in DOMAIN b :
          /\ b[i].call \in requested[t]
          /\ results[t][b[i].call] = <<>>
          /\ b[i].result # None <=> b[i].state = "done"
          /\ \A j \in DOMAIN b : b[i].call = b[j].call => i = j
    BY <1>1, <1>14, TurnFacts DEF BatchInv, InBatch, Pending
  <2>. QED BY <1>3, <1>7, <1>12, <2>1 DEF BatchInv, SameAnswers
<1>15. ASSUME Active(t) PROVE OpenInv(t)'
  <2>1. task[t].pc \in Running \ {"execute"} /\ (task[t].error # "none" => task'[t].error # "none")
    BY <1>1, <1>12, BatchPlaces DEF InBatch
  <2>. QED BY <1>3, <1>12, <1>15, <2>1, OpenNone
<1>16. ASSUME Active(t) PROVE CertainInv(t)'
  <2> SUFFICES ASSUME err = "none" PROVE CertainInv(t)'
    BY <1>12 DEF CertainInv
  <2>1. \A c \in requested'[t] :
           results'[t][c] # <<>> \/ \E i \in DOMAIN b2 : b2[i].call = c
    BY <1>1, <1>3, <1>7, <1>16, BatchPlaces, TurnFacts DEF CertainInv, InBatch, SameAnswers
  <2>2. LostOutcome(t) => LostOutcome(t)'
    BY <1>7, <1>12 DEF LostOutcome
  <2>3. ~ LostOutcome(t)' =>
           /\ \A o \in Ops : effect'[o].turn = t => effect'[o].status # "uncertain"
           /\ \A c \in Calls : results'[t][c] # <<"uncertain">>
    BY <1>1, <1>3, <1>16, <2>2, BatchPlaces, TurnFacts
       DEF CertainInv, InBatch, SameAnswers, NoNewDoubt
  <2>. QED BY <1>12, <2>1, <2>3 DEF CertainInv, InBatch, Pending
<1>17. task[t].pc \in Running /\ task'[t].pc \in Running
  BY <1>1, <1>12, BatchPlaces DEF InBatch
<1>. QED
  BY <1>1, <1>3, <1>12, <1>13, <1>14, <1>15, <1>16, <1>17, ActiveEnough

\* An item of the batch starts executing, or its execution ends.
LEMMA ExecutedInv ==
  ASSUME IInv, NEW t \in Turns, Disciplined(t), task[t].pc = "execute",
         NEW i \in DOMAIN task[t].batch, task[t].batch[i].state # "done",
         NEW state \in {"running", "done", "failed", "cancelled"},
         NEW r \in Store!Reported \cup {None}, r # None <=> state = "done",
         Executed(t, i, state, r), UNCHANGED requests,
         Active(t) =>
            /\ SameAnswers(t)
            /\ \A o \in Ops : effect'[o].turn = t /\ effect'[o].status \in Store!Open =>
                 IF effect'[o].call = task[t].batch[i].call
                 THEN state \in {"running", "cancelled"}
                 ELSE /\ effect[o].turn = t
                      /\ effect[o].call = effect'[o].call
                      /\ Store!IsOpen(o)
            /\ \A o \in Ops : effect'[o].turn = t /\ effect'[o].status = "uncertain" =>
                 r = "uncertain" \/ (effect[o].turn = t /\ effect[o].status = "uncertain")
  PROVE  StepSound(t)
<1>. DEFINE b == task[t].batch
            new == [call |-> b[i].call, state |-> state, result |-> r]
            b2 == [b EXCEPT ![i] = new]
<1>1. Becomes(t, task[t].pc, task[t].op, b2, task[t].item, task[t].error)
  BY ExecutedDoes, TurnFacts
<1>2. b \in Seq(Item) /\ task[t].op = None
  BY TurnFacts, TaskFields DEF PlaceInv, Hooks
<1>3. /\ DOMAIN b2 = DOMAIN b
      /\ b2[i] = new
      /\ \A j \in DOMAIN b : j # i => b2[j] = b[j]
  BY <1>2
<1>4. new.call = b[i].call /\ new.state = state /\ new.result = r
  OBVIOUS
<1>. HIDE DEF new, b2
<1>5. /\ task'[t].pc = "execute" /\ task'[t].op = None /\ task'[t].batch = b2
      /\ task'[t].item = task[t].item /\ task'[t].error = task[t].error /\ TaskOnly(t)
  BY <1>1, <1>2 DEF Becomes, TaskOnly
<1>6. PlaceInv(t)'
  BY <1>5 DEF PlaceInv, Clean, AcpSteps
<1>7. \A j \in DOMAIN b : b2[j].call = b[j].call
  BY <1>3, <1>4
<1>8. ASSUME Active(t)
      PROVE  /\ task[t].item = 1
             /\ \A j \in DOMAIN b :
                  /\ b[j].call \in requested[t]
                  /\ results[t][b[j].call] = <<>>
                  /\ b[j].result # None <=> b[j].state = "done"
                  /\ \A l \in DOMAIN b : b[j].call = b[l].call => j = l
  BY <1>8, TurnFacts DEF BatchInv, InBatch, Pending
<1>9. ASSUME Active(t) PROVE BatchInv(t)'
  <2>1. requested'[t] = requested[t] /\ results'[t] = results[t]
    BY <1>9 DEF SameAnswers
  <2>2. \A j \in DOMAIN b : b2[j].result # None <=> b2[j].state = "done"
    BY <1>3, <1>4, <1>8, <1>9
  <2>. QED BY <1>3, <1>5, <1>7, <1>8, <1>9, <2>1, <2>2 DEF BatchInv
<1>10. ASSUME Active(t) PROVE OpenInv(t)'
  <2> SUFFICES ASSUME NEW o \in Ops, effect'[o].turn = t, effect'[o].status \in Store!Open
               PROVE  effect'[o].call # None /\ Executing(t, o)'
    BY <1>5 DEF OpenInv, Store!IsOpen
  <2>1. CASE effect'[o].call = b[i].call
    <3>1. state \in {"running", "cancelled"}
      BY <1>10, <2>1
    <3>2. b[i].call \in Calls
      <4>1. b[i] \in Item
        BY <1>2
      <4>. QED BY <4>1 DEF Item
    <3>3. b2[i].call = effect'[o].call /\ b2[i].state \in {"running", "cancelled"}
      BY <1>3, <1>4, <2>1, <3>1
    <3>4. Executing(t, o)'
      BY <1>3, <1>5, <3>3 DEF Executing
    <3>. QED BY <2>1, <3>2, <3>4, StoreTypes, TurnFacts
  <2>2. CASE effect'[o].call # b[i].call
    <3>1. effect[o].turn = t /\ effect[o].call = effect'[o].call /\ Store!IsOpen(o)
      BY <1>10, <2>2
    <3>2. effect[o].call # None /\ Executing(t, o)
      BY <1>2, <1>10, <3>1, BatchPlaces, StoreTypes, TurnFacts DEF OpenInv, InBatch
    <3>3. CASE task[t].error # "none"
      BY <1>5, <3>1, <3>2, <3>3 DEF Executing
    <3>4. ASSUME NEW j \in DOMAIN b, b[j].call = effect[o].call,
                 b[j].state \in {"running", "cancelled"}
          PROVE  Executing(t, o)'
      <4>1. b2[j] = b[j]
        BY <1>3, <2>2, <3>1, <3>4
      <4>. QED BY <1>3, <1>5, <3>1, <3>4, <4>1 DEF Executing
    <3>. QED BY <3>1, <3>2, <3>3, <3>4 DEF Executing
  <2>. QED BY <2>1, <2>2
<1>11. ASSUME Active(t) PROVE CertainInv(t)'
  <2> SUFFICES ASSUME task[t].error = "none" PROVE CertainInv(t)'
    BY <1>5 DEF CertainInv
  <2>1. \A c \in requested'[t] :
           results'[t][c] # <<>> \/ \E j \in DOMAIN b2 : b2[j].call = c
    BY <1>3, <1>7, <1>11, BatchPlaces, TurnFacts DEF CertainInv, InBatch, SameAnswers
  <2>2. LostOutcome(t) => LostOutcome(t)'
    <3>1. b[i].result = None /\ None # "uncertain"
      BY <1>8, <1>11, NoneAssumption
    <3>. QED BY <1>3, <1>5, <3>1 DEF LostOutcome
  <2>3. r = "uncertain" => LostOutcome(t)'
    BY <1>3, <1>4, <1>5 DEF LostOutcome
  <2>4. ~ LostOutcome(t)' =>
           /\ \A o \in Ops : effect'[o].turn = t => effect'[o].status # "uncertain"
           /\ \A c \in Calls : results'[t][c] # <<"uncertain">>
    BY <1>11, <2>2, <2>3, BatchPlaces, TurnFacts DEF CertainInv, InBatch, SameAnswers
  <2>. QED BY <1>5, <2>1, <2>4 DEF CertainInv, InBatch, Pending
<1>12. task[t].pc \in Running /\ task'[t].pc \in Running
  BY <1>5, BatchPlaces DEF InBatch
<1>. QED
  BY <1>5, <1>6, <1>9, <1>10, <1>11, <1>12, ActiveEnough

\* StartTool: an allowed call gets its effect.
LEMMA StartToolInv ==
  ASSUME IInv, NEW t \in Turns, NEW i \in DOMAIN task[t].batch, StartTool(t, i)
  PROVE  StepSound(t)
<1>. DEFINE c == task[t].batch[i].call
<1>1. /\ task[t].pc = "execute" /\ task[t].batch[i].state = "allowed"
      /\ UNCHANGED requests /\ Disciplined(t)
  BY BatchDisciplined DEF StartTool, At, BatchStep
<1>2. CASE Active(t)
  <2>1. PICK o \in Ops : Store!StartToolEffect(t, o, c) /\ Executed(t, i, "running", None)
    BY <1>2 DEF StartTool
  <2>2. /\ effect'[o] = [status |-> "started", turn |-> t, call |-> c, raw |-> None]
        /\ \A p \in Ops : p # o => effect'[p] = effect[p]
        /\ \A p \in Ops : ~ (effect[p].turn = t /\ effect[p].call = c)
        /\ UNCHANGED <<requested, results>>
    BY <2>1, StoreTypes, TurnFacts DEF Store!StartToolEffect, Store!NewEffect, Store!ToolEffects
  <2>3. effect'[o].call = c /\ effect'[o].status = "started"
    BY <2>2
  <2>4. \A p \in Ops : effect'[p].turn = t /\ effect'[p].status \in Store!Open =>
           IF effect'[p].call = c
           THEN "running" \in {"running", "cancelled"}
           ELSE effect[p].turn = t /\ effect[p].call = effect'[p].call /\ Store!IsOpen(p)
    BY <2>2, <2>3 DEF Store!IsOpen
  <2>5. \A p \in Ops : effect'[p].turn = t /\ effect'[p].status = "uncertain" =>
           effect[p].turn = t /\ effect[p].status = "uncertain"
    BY <2>2, <2>3
  <2>6. SameAnswers(t) /\ None \notin Store!Reported
    BY <2>2, StoreTypes, TurnFacts DEF SameAnswers
  <2>. QED BY <1>1, <2>1, <2>4, <2>5, <2>6, ExecutedInv
<1>3. CASE ~ Active(t)
  BY <1>1, <1>3, ExecutedInv DEF StartTool
<1>. QED BY <1>2, <1>3

\* ToolReturns: a call that ran closes its effect.
LEMMA ToolReturnsInv ==
  ASSUME IInv, NEW t \in Turns, NEW i \in DOMAIN task[t].batch, ToolReturns(t, i)
  PROVE  StepSound(t)
<1>. DEFINE c == task[t].batch[i].call
<1>1. /\ task[t].pc = "execute" /\ task[t].batch[i].state = "running"
      /\ UNCHANGED requests /\ Disciplined(t)
  BY BatchDisciplined DEF ToolReturns, At, BatchStep
<1>2. None \notin Store!Reported
  BY StoreTypes, TurnFacts
<1>3. ASSUME Active(t), NEW r \in Store!Reported, Store!CompleteToolExecution(t, c, r),
             Executed(t, i, "done", r)
      PROVE  StepSound(t)
  <2>1. PICK o \in Ops :
          /\ effect[o].turn = t /\ effect[o].call = c /\ effect[o].status = "started"
          /\ effect' = [effect EXCEPT ![o] = [status |-> Store!StatusOf(r), turn |-> t,
                                              call |-> c, raw |-> r]]
    BY <1>3 DEF Store!CompleteToolExecution, Store!ToolEffects
  <2>2. effect'[o] = [status |-> Store!StatusOf(r), turn |-> t, call |-> c, raw |-> r]
    BY <2>1, StoreTypes, TurnFacts
  <2>3. effect'[o].status = Store!StatusOf(r) /\ effect'[o].call = c
    BY <2>2
  <2>4. \A p \in Ops : p # o => effect'[p] = effect[p]
    BY <2>1, StoreTypes, TurnFacts
  <2>5. Store!StatusOf(r) \notin Store!Open /\ (Store!StatusOf(r) = "uncertain" => r = "uncertain")
    BY DEF Store!StatusOf, Store!Open
  <2>6. \A p \in Ops : effect[p].turn = t /\ effect[p].call = c => p = o
    <3>1. c # None
      <4>1. task[t].batch[i] \in Item
        BY TurnFacts, TaskFields
      <4>. QED BY <4>1, StoreTypes, TurnFacts DEF Item
    <3>. QED BY <2>1, <3>1, TurnFacts DEF RowsInv, ToolsAnswerCalls
  <2>7. \A p \in Ops : effect'[p].turn = t /\ effect'[p].status \in Store!Open =>
           IF effect'[p].call = c
           THEN "done" \in {"running", "cancelled"}
           ELSE effect[p].turn = t /\ effect[p].call = effect'[p].call /\ Store!IsOpen(p)
    <3> SUFFICES ASSUME NEW p \in Ops, effect'[p].turn = t, effect'[p].status \in Store!Open
                 PROVE  /\ effect'[p].call # c
                        /\ effect[p].turn = t /\ effect[p].call = effect'[p].call
                        /\ Store!IsOpen(p)
      OBVIOUS
    <3>1. p # o
      BY <2>3, <2>5
    <3>. QED BY <2>4, <2>6, <3>1 DEF Store!IsOpen
  <2>8. \A p \in Ops : effect'[p].turn = t /\ effect'[p].status = "uncertain" =>
           r = "uncertain" \/ (effect[p].turn = t /\ effect[p].status = "uncertain")
    BY <2>3, <2>4, <2>5
  <2>9. SameAnswers(t)
    BY <1>3 DEF Store!CompleteToolExecution, SameAnswers
  <2>. QED BY <1>1, <1>2, <1>3, <2>7, <2>8, <2>9, ExecutedInv
<1>4. CASE ~ Active(t) /\ Executed(t, i, "failed", None)
  BY <1>1, <1>2, <1>4, ExecutedInv
<1>5. CASE UNCHANGED store /\ Executed(t, i, "cancelled", None)
  <2>1. SameAnswers(t) /\ UNCHANGED effect
    BY <1>5 DEF store, SameAnswers
  <2>2. \A p \in Ops : effect'[p].turn = t /\ effect'[p].status \in Store!Open =>
           IF effect'[p].call = c
           THEN "cancelled" \in {"running", "cancelled"}
           ELSE effect[p].turn = t /\ effect[p].call = effect'[p].call /\ Store!IsOpen(p)
    BY <2>1 DEF Store!IsOpen
  <2>3. \A p \in Ops : effect'[p].turn = t /\ effect'[p].status = "uncertain" =>
           effect[p].turn = t /\ effect[p].status = "uncertain"
    BY <2>1
  <2>. QED BY <1>1, <1>2, <1>5, <2>1, <2>2, <2>3, ExecutedInv
<1>. QED BY <1>3, <1>4, <1>5 DEF ToolReturns

\* EndBatch: what cannot be reported is closed, the rest goes on to be recorded.
LEMMA EndBatchInv ==
  ASSUME IInv, NEW t \in Turns, EndBatch(t)
  PROVE  StepSound(t)
<1>. DEFINE b == task[t].batch
            err == task[t].error
            lost == {i \in DOMAIN b : b[i].state \in GivenUp}
<1>1. task[t].pc = "execute" /\ UNCHANGED store /\ UNCHANGED requests
  BY DEF EndBatch, At
<1>2. Disciplined(t) /\ Settled(t) /\ NoNewDoubt(t) /\ SameAnswers(t) /\ task[t].op = None
  BY <1>1, Quietly
<1>3. b \in Seq(Item) /\ err \in Errors
  BY TurnFacts, TaskFields
<1>4. task[t].pc \in Running \cap InBatch /\ "after_tool" \in Running
  BY <1>1, BatchPlaces DEF InBatch
<1>5. ASSUME Active(t)
      PROVE  /\ task[t].item = 1
             /\ \A j \in DOMAIN b :
                  /\ b[j].call \in requested[t]
                  /\ results[t][b[j].call] = <<>>
                  /\ b[j].result # None <=> b[j].state = "done"
                  /\ \A l \in DOMAIN b : b[j].call = b[l].call => j = l
             /\ \A o \in Ops : effect[o].turn = t /\ Store!IsOpen(o) =>
                  effect[o].call # None /\ Executing(t, o)
  BY <1>1, <1>2, <1>4, <1>5, StoreTypes, TurnFacts DEF BatchInv, OpenInv, InBatch, Pending
<1>6. UNCHANGED <<effect, requested, results>>
  BY <1>1 DEF store
<1>7. CASE (\A i \in DOMAIN b : b[i].state = "done") /\ Goto(t, "after_tool")
  <2>1. Becomes(t, "after_tool", None, b, task[t].item, err)
    BY <1>2, <1>7, GotoDoes, TurnFacts DEF Places, Locked, NativeSteps, Hooks
  <2>2. /\ task'[t].pc = "after_tool" /\ task'[t].op = None /\ task'[t].batch = b
        /\ task'[t].item = task[t].item /\ task'[t].error = err /\ TaskOnly(t)
    BY <2>1 DEF Becomes, TaskOnly
  <2>3. PlaceInv(t)'
    BY <2>2 DEF PlaceInv, Clean, AcpSteps
  <2>4. ASSUME Active(t) PROVE BatchInv(t)'
    BY <1>5, <1>6, <1>7, <2>2, <2>4 DEF BatchInv
  <2>5. ASSUME Active(t) PROVE OpenInv(t)'
    <3>1. \A o \in Ops : effect[o].turn = t /\ Store!IsOpen(o) =>
             effect[o].call # None /\ err # "none"
      BY <1>5, <1>7, <2>5 DEF Executing
    <3>. QED BY <1>6, <2>2, <3>1 DEF OpenInv, Executing, Store!IsOpen
  <2>6. ASSUME Active(t) PROVE CertainInv(t)'
    <3> SUFFICES ASSUME err = "none" PROVE CertainInv(t)'
      BY <2>2 DEF CertainInv
    <3>1. /\ \A c \in requested[t] :
               results[t][c] # <<>> \/ \E i \in DOMAIN b : b[i].call = c
          /\ ~ LostOutcome(t) =>
               /\ \A o \in Ops : effect[o].turn = t => effect[o].status # "uncertain"
               /\ \A c \in Calls : results[t][c] # <<"uncertain">>
      BY <1>4, <2>6, TurnFacts DEF CertainInv
    <3>2. LostOutcome(t)' <=> LostOutcome(t)
      BY <2>2 DEF LostOutcome
    <3>3. \A i \in DOMAIN b : i >= task[t].item
      BY <1>3, <1>5, <2>6
    <3>. QED BY <1>6, <2>2, <3>1, <3>2, <3>3 DEF CertainInv, InBatch, Pending
  <2>. QED
    BY <1>1, <1>2, <1>4, <2>2, <2>3, <2>4, <2>5, <2>6, ActiveEnough
<1>8. ASSUME NEW first \in lost,
             NEW kept \in [1 .. Cardinality(Reporting(t, first)) -> Reporting(t, first)],
             \A i, j \in DOMAIN kept : i < j => kept[i] < kept[j],
             task' = [task EXCEPT ![t].pc = "after_tool",
                        ![t].batch = [i \in DOMAIN kept |-> b[kept[i]]],
                        ![t].error = IF @ = "none" THEN b[first].state ELSE @]
      PROVE  StepSound(t)
  <2>. DEFINE b2 == [i \in DOMAIN kept |-> b[kept[i]]]
              e == IF err = "none" THEN b[first].state ELSE err
              k == [task[t] EXCEPT !.pc = "after_tool", !.batch = b2, !.error = e]
  <2>1. task' = [task EXCEPT ![t] = k]
    BY <1>8
  <2>2. Reporting(t, first) \in SUBSET DOMAIN b
    BY DEF Reporting
  <2>3. b2 \in Seq(Item) /\ \A i, j \in DOMAIN kept : kept[i] = kept[j] => i = j
    BY <1>3, <1>8, <2>2, KeptBatchHolds
  <2>4. /\ DOMAIN b2 = DOMAIN kept
        /\ \A i \in DOMAIN b2 : /\ b2[i] = b[kept[i]]
                                /\ kept[i] \in DOMAIN b
                                /\ b[kept[i]].state = "done"
    BY DEF Reporting
  <2>5. e \in Errors /\ e # "none"
    BY <1>3 DEF GivenUp, Errors
  <2>. HIDE DEF b2, e
  <2>6. k \in Task
    <3>1. task[t] \in Task /\ "after_tool" \in Locked
      BY TurnFacts DEF Locked, NativeSteps, Hooks
    <3>. QED BY <2>3, <2>5, <3>1 DEF Task
  <2>7. /\ k.pc = "after_tool" /\ k.op = None /\ k.batch = b2 /\ k.item = task[t].item
        /\ k.error = e
    BY <1>2, TurnFacts DEF Task
  <2>. HIDE DEF k
  <2>8. Becomes(t, "after_tool", None, b2, task[t].item, e)
    BY <2>1, <2>6, <2>7, UpdateDoes, TurnFacts
  <2>9. /\ task'[t].pc = "after_tool" /\ task'[t].op = None /\ task'[t].batch = b2
        /\ task'[t].item = task[t].item /\ task'[t].error = e /\ TaskOnly(t)
    BY <2>8 DEF Becomes, TaskOnly
  <2>10. PlaceInv(t)'
    BY <2>9 DEF PlaceInv, Clean, AcpSteps
  <2>11. ASSUME Active(t) PROVE BatchInv(t)'
    <3>1. \A i \in DOMAIN b2 :
            /\ b2[i].call \in requested[t]
            /\ results[t][b2[i].call] = <<>>
            /\ b2[i].result # None
            /\ b2[i].state = "done"
            /\ \A j \in DOMAIN b2 : b2[i].call = b2[j].call => i = j
      BY <1>5, <2>3, <2>4, <2>11
    <3>. QED BY <1>6, <2>9, <3>1 DEF BatchInv
  <2>12. ASSUME Active(t) PROVE OpenInv(t)' /\ CertainInv(t)'
    BY <1>5, <1>6, <2>5, <2>9, <2>12 DEF OpenInv, CertainInv, Executing, Store!IsOpen
  <2>. QED
    BY <1>1, <1>2, <1>4, <2>9, <2>10, <2>11, <2>12, ActiveEnough
<1>. QED BY <1>7, <1>8 DEF EndBatch

\* AfterTool: the after_tool hook lets the result pass, or fails.
LEMMA AfterToolInv ==
  ASSUME IInv, NEW t \in Turns, AfterTool(t)
  PROVE  StepSound(t)
<1>. DEFINE n == task[t].item
            b == task[t].batch
<1>1. PICK out \in Outcomes :
         /\ AtItem(t)
         /\ HookReturns(t, "after_tool", out)
         /\ \E r \in HookedResults(Current(t).result, out) :
              task' = [task EXCEPT ![t].pc = "record", ![t].op = None,
                         ![t].batch[task[t].item].result = r,
                         ![t].error = IF @ = "none" /\ out # "ok"
                                      THEN CancelledIf(out = "cancelled") ELSE @]
  BY DEF AfterTool
<1>2. PICK r \in HookedResults(Current(t).result, out) :
         task' = [task EXCEPT ![t].pc = "record", ![t].op = None,
                    ![t].batch[task[t].item].result = r,
                    ![t].error = IF @ = "none" /\ out # "ok"
                                 THEN CancelledIf(out = "cancelled") ELSE @]
  BY <1>1
<1>. DEFINE new == [b[n] EXCEPT !.result = r]
            b2 == [b EXCEPT ![n] = new]
            e == IF task[t].error = "none" /\ out # "ok"
                 THEN CancelledIf(out = "cancelled") ELSE task[t].error
            k == [task[t] EXCEPT !.pc = "record", !.op = None, !.batch = b2, !.error = e]
<1>3. /\ task[t].pc = "after_tool" /\ Disciplined(t)
      /\ Active(t) => Settled(t) /\ SameAnswers(t) /\ (out \in {"ok", "failed"} => NoNewDoubt(t))
      /\ UNCHANGED requests
  <2>1. "after_tool" \in Hooks /\ HookReturns(t, "after_tool", out)
    BY <1>1 DEF Hooks
  <2>. QED BY <2>1, HookEnds DEF HookReturns
<1>4. n \in DOMAIN b /\ b \in Seq(Item) /\ n \in Nat \ {0} /\ DOMAIN b \subseteq Nat
  BY <1>1, TurnFacts, TaskFields DEF AtItem
<1>5. b[n] \in Item
  BY <1>4
<1>6. /\ r \in Store!Reported
      /\ out = "ok" /\ b[n].result = "uncertain" => r = "uncertain"
  BY DEF HookedResults, Current, Store!Reported
<1>7. new \in Item /\ new.call = b[n].call /\ new.state = b[n].state /\ new.result = r
  BY <1>5, <1>6 DEF Item
<1>8. task' = [task EXCEPT ![t] = k]
  BY <1>2
<1>. HIDE DEF new
<1>9. /\ b2 \in Seq(Item)
      /\ DOMAIN b2 = DOMAIN b
      /\ b2[n] = new
      /\ \A j \in DOMAIN b : j # n => b2[j] = b[j]
  BY <1>4, <1>7
<1>10. /\ e \in Errors
       /\ e = "none" => out = "ok" /\ task[t].error = "none"
       /\ task[t].error # "none" => e # "none"
  BY TurnFacts, TaskFields DEF CancelledIf, Errors
<1>. HIDE DEF b2, e
<1>11. k \in Task
  <2>1. task[t] \in Task /\ "record" \in Locked
    BY TurnFacts DEF Locked, NativeSteps
  <2>. QED BY <1>9, <1>10, <2>1 DEF Task
<1>12. k.pc = "record" /\ k.op = None /\ k.batch = b2 /\ k.item = n /\ k.error = e
  BY TurnFacts DEF Task
<1>. HIDE DEF k
<1>13. Becomes(t, "record", None, b2, n, e)
  BY <1>8, <1>11, <1>12, UpdateDoes, TurnFacts
<1>14. /\ task'[t].pc = "record" /\ task'[t].op = None /\ task'[t].batch = b2
       /\ task'[t].item = n /\ task'[t].error = e /\ TaskOnly(t)
  BY <1>13 DEF Becomes, TaskOnly
<1>15. PlaceInv(t)'
  <2>1. AtItem(t)'
    <3>1. n <= Len(b2)
      BY <1>4, <1>9
    <3>. QED BY <1>14, <3>1 DEF AtItem
  <2>. QED BY <1>14, <2>1 DEF PlaceInv, Clean, AcpSteps
<1>16. ASSUME Active(t)
       PROVE  \A j \in DOMAIN b :
                /\ b[j].call \in requested[t]
                /\ j >= n => results[t][b[j].call] = <<>>
                /\ b[j].result # None
                /\ b[j].state = "done"
                /\ \A l \in DOMAIN b : b[j].call = b[l].call => j = l
  BY <1>3, <1>16, TurnFacts DEF BatchInv, InBatch, Pending
<1>17. \A j \in DOMAIN b : b2[j].call = b[j].call /\ b2[j].state = b[j].state
  BY <1>7, <1>9
<1>18. ASSUME Active(t) PROVE BatchInv(t)'
  <2>1. requested'[t] = requested[t] /\ results'[t] = results[t]
    BY <1>3, <1>18 DEF SameAnswers
  <2>2. \A j \in DOMAIN b : b2[j].result # None
    <3>1. r # None
      BY <1>6, StoreTypes, TurnFacts
    <3>. QED BY <1>7, <1>9, <1>16, <1>18, <3>1
  <2>. QED BY <1>9, <1>14, <1>16, <1>17, <1>18, <2>1, <2>2 DEF BatchInv, Pending
<1>19. ASSUME Active(t) PROVE OpenInv(t)'
  <2>1. task[t].pc \in Running \ {"execute"} /\ (task[t].error # "none" => task'[t].error # "none")
    BY <1>3, <1>10, <1>14, BatchPlaces DEF InBatch
  <2>. QED BY <1>3, <1>14, <1>19, <2>1, OpenNone
<1>20. ASSUME Active(t) PROVE CertainInv(t)'
  <2> SUFFICES ASSUME e = "none" PROVE CertainInv(t)'
    BY <1>14 DEF CertainInv
  <2>1. out = "ok" /\ task[t].error = "none" /\ SameAnswers(t) /\ NoNewDoubt(t)
    BY <1>3, <1>10, <1>20
  <2>2. \A c \in requested'[t] :
           results'[t][c] # <<>> \/ \E j \in DOMAIN b2 : j >= n /\ b2[j].call = c
    BY <1>3, <1>9, <1>17, <1>20, <2>1, BatchPlaces, TurnFacts
       DEF CertainInv, InBatch, Pending, SameAnswers
  <2>3. LostOutcome(t) => LostOutcome(t)'
    <3> SUFFICES ASSUME NEW j \in DOMAIN b, b[j].result = "uncertain"
                 PROVE  b2[j].result = "uncertain"
      BY <1>9, <1>14 DEF LostOutcome
    <3>. QED BY <1>6, <1>7, <1>9, <2>1
  <2>4. ~ LostOutcome(t)' =>
           /\ \A o \in Ops : effect'[o].turn = t => effect'[o].status # "uncertain"
           /\ \A c \in Calls : results'[t][c] # <<"uncertain">>
    BY <1>3, <1>20, <2>1, <2>3, BatchPlaces, TurnFacts
       DEF CertainInv, InBatch, SameAnswers, NoNewDoubt
  <2>. QED BY <1>14, <2>2, <2>4 DEF CertainInv, InBatch, Pending
<1>21. task[t].pc \in Running /\ task'[t].pc \in Running
  BY <1>3, <1>14, BatchPlaces DEF InBatch
<1>. QED
  BY <1>3, <1>14, <1>15, <1>18, <1>19, <1>20, <1>21, ActiveEnough

\* RecordResult: one result is appended to the history.
LEMMA RecordResultInv ==
  ASSUME IInv, NEW t \in Turns, RecordResult(t)
  PROVE  StepSound(t)
<1>. DEFINE n == task[t].item
            b == task[t].batch
            k == [task[t] EXCEPT !.pc = "after_tool", !.item = n + 1]
<1>1. task[t].pc = "record" /\ UNCHANGED requests /\ Disciplined(t) /\ task[t].op = None
  BY BatchDisciplined, TurnFacts DEF RecordResult, At, BatchStep, PlaceInv, Hooks
<1>2. task[t].pc \in Running \cap InBatch /\ task[t].pc \in Running \ {"execute"}
      /\ "after_tool" \in Running
  BY <1>1, BatchPlaces DEF InBatch
<1>3. CASE ~ Active(t)
  <2>1. UNCHANGED store /\ Fail(t, "failed", "turn_end")
    BY <1>3 DEF RecordResult
  <2>. QED BY <1>1, <1>2, <1>3, <2>1, FailInv
<1>4. CASE Active(t)
  <2>1. /\ Store!AppendToolResult(t, b[n].call, b[n].result)
        /\ task' = [task EXCEPT ![t] = k]
    BY <1>4 DEF RecordResult, Current
  <2>2. n \in DOMAIN b /\ b \in Seq(Item) /\ n \in Nat \ {0} /\ DOMAIN b \subseteq Nat
    BY <1>1, TurnFacts, TaskFields DEF AtItem, PlaceInv
  <2>3. b[n].call \in Calls
    <3>1. b[n] \in Item
      BY <2>2
    <3>. QED BY <3>1 DEF Item
  <2>4. k \in Task
    <3>1. task[t] \in Task /\ n + 1 \in Nat \ {0} /\ "after_tool" \in Locked
      BY <2>2, TurnFacts DEF Locked, NativeSteps, Hooks
    <3>. QED BY <3>1 DEF Task
  <2>5. /\ k.pc = "after_tool" /\ k.op = None /\ k.batch = b /\ k.item = n + 1
        /\ k.error = task[t].error
    BY <1>1, TurnFacts DEF Task
  <2>. HIDE DEF k
  <2>6. Becomes(t, "after_tool", None, b, n + 1, task[t].error)
    BY <2>1, <2>4, <2>5, UpdateDoes, TurnFacts
  <2>7. /\ task'[t].pc = "after_tool" /\ task'[t].op = None /\ task'[t].batch = b
        /\ task'[t].item = n + 1 /\ task'[t].error = task[t].error /\ TaskOnly(t)
    BY <2>6 DEF Becomes, TaskOnly
  <2>8. PlaceInv(t)'
    BY <2>7 DEF PlaceInv, Clean, AcpSteps
  <2>9. \A j \in DOMAIN b :
          /\ b[j].call \in requested[t]
          /\ j >= n => results[t][b[j].call] = <<>>
          /\ b[j].result # None
          /\ b[j].state = "done"
          /\ \A l \in DOMAIN b : b[j].call = b[l].call => j = l
    BY <1>1, <1>4, TurnFacts DEF BatchInv, InBatch, Pending
  <2>10. /\ results'[t][b[n].call] = Append(<<>>, b[n].result)
         /\ \A c \in Calls : c # b[n].call => results'[t][c] = results[t][c]
         /\ UNCHANGED <<effect, requested>>
    <3>1. results[t][b[n].call] = <<>>
      BY <2>2, <2>9
    <3>2. results' = [results EXCEPT ![t][b[n].call] = Append(@, b[n].result)]
          /\ UNCHANGED <<effect, requested>>
      BY <2>1 DEF Store!AppendToolResult
    <3>3. results \in [Turns -> [Calls -> Seq(Store!Results)]]
      BY StoreTypes, TurnFacts
    <3>. QED BY <2>3, <3>1, <3>2, <3>3
  <2>11. results'[t][b[n].call] = <<b[n].result>> /\ results'[t][b[n].call] # <<>>
    BY <2>10
  <2>12. BatchInv(t)'
    <3>1. \A j \in DOMAIN b : j >= n + 1 => results'[t][b[j].call] = <<>>
      <4> SUFFICES ASSUME NEW j \in DOMAIN b, j >= n + 1
                   PROVE  results'[t][b[j].call] = <<>>
        OBVIOUS
      <4>1. j # n /\ j >= n
        BY <2>2
      <4>2. b[j].call # b[n].call /\ b[j].call \in Calls
        BY <2>2, <2>9, <4>1, StoreTypes, TurnFacts
      <4>. QED BY <2>9, <2>10, <4>1, <4>2
    <3>2. \A j \in DOMAIN b :
            /\ b[j].call \in requested'[t]
            /\ b[j].result # None /\ b[j].state = "done"
            /\ \A l \in DOMAIN b : b[j].call = b[l].call => j = l
      BY <2>9, <2>10
    <3>. HIDE DEF n, b
    <3>. QED BY <2>7, <3>1, <3>2 DEF BatchInv, Pending
  <2>13. OpenInv(t)'
    <3>1. Settled(t)
      BY <1>1, <2>10, StoreTypes, TurnFacts DEF Settled
    <3>. QED BY <1>2, <1>4, <2>7, <3>1, OpenNone
  <2>14. CertainInv(t)'
    <3> SUFFICES ASSUME task[t].error = "none" PROVE CertainInv(t)'
      BY <2>7 DEF CertainInv
    <3>1. /\ \A c \in requested[t] :
               results[t][c] # <<>> \/ \E j \in DOMAIN b : j >= n /\ b[j].call = c
          /\ ~ LostOutcome(t) =>
               /\ \A o \in Ops : effect[o].turn = t => effect[o].status # "uncertain"
               /\ \A c \in Calls : results[t][c] # <<"uncertain">>
      BY <1>1, <1>2, <1>4, TurnFacts DEF CertainInv, Pending
    <3>2. LostOutcome(t)' <=> LostOutcome(t)
      BY <2>7 DEF LostOutcome
    <3>3. \A c \in requested'[t] :
             results'[t][c] # <<>> \/ \E j \in DOMAIN b : j >= n + 1 /\ b[j].call = c
      <4> SUFFICES ASSUME NEW c \in requested[t], c # b[n].call
                   PROVE  results'[t][c] # <<>> \/ \E j \in DOMAIN b : j >= n + 1 /\ b[j].call = c
        BY <2>10, <2>11
      <4>1. c \in Calls
        BY StoreTypes, TurnFacts
      <4>2. ASSUME NEW j \in DOMAIN b, j >= n, b[j].call = c
            PROVE  j >= n + 1
        BY <2>2, <4>2
      <4>. QED BY <2>10, <3>1, <4>1, <4>2
    <3>4. ~ LostOutcome(t) => \A c \in Calls : results'[t][c] # <<"uncertain">>
      <4> SUFFICES ASSUME ~ LostOutcome(t), NEW c \in Calls
                   PROVE  results'[t][c] # <<"uncertain">>
        OBVIOUS
      <4>1. b[n].result # "uncertain"
        BY <2>2 DEF LostOutcome
      <4>2. CASE c = b[n].call
        <5>1. results'[t][c] = <<b[n].result>>
          BY <2>11, <4>2
        <5>. QED BY <4>1, <5>1, Singletons
      <4>3. CASE c # b[n].call
        BY <2>10, <3>1, <4>3
      <4>. QED BY <4>2, <4>3
    <3>5. ~ LostOutcome(t) => \A o \in Ops : effect'[o].turn = t => effect'[o].status # "uncertain"
      BY <2>10, <3>1
    <3>. HIDE DEF n, b
    <3>. QED BY <2>7, <3>2, <3>3, <3>4, <3>5 DEF CertainInv, InBatch, Pending
  <2>. QED
    BY <1>1, <1>2, <2>7, <2>8, <2>12, <2>13, <2>14, ActiveEnough
<1>. QED BY <1>3, <1>4

\* ResultsRecorded: the step ends, or the error that stopped the batch is raised.
LEMMA ResultsRecordedInv ==
  ASSUME IInv, NEW t \in Turns, ResultsRecorded(t)
  PROVE  StepSound(t)
<1>. DEFINE pc == IF task[t].error = "none" THEN "after_step" ELSE "turn_end"
<1>1. /\ task[t].pc = "after_tool" /\ ~ AtItem(t) /\ Goto(t, pc)
      /\ UNCHANGED store /\ UNCHANGED requests
  BY DEF ResultsRecorded, At
<1>2. task[t].op = None
  BY <1>1, TurnFacts DEF PlaceInv
<1>3. Disciplined(t) /\ Settled(t) /\ NoNewDoubt(t) /\ SameAnswers(t)
  BY <1>1, <1>2, Quietly
<1>4. /\ pc \in Places /\ pc \in Running \ InBatch /\ pc \notin AcpSteps
      /\ pc \in Clean => task[t].error = "none"
      /\ pc \notin {"before_tool", "after_tool", "acp_mark", "acp_prompt"}
  BY DEF Places, Locked, NativeSteps, Hooks, Running, InBatch, AcpSteps, Clean
<1>. HIDE DEF pc
<1>5. Becomes(t, pc, None, task[t].batch, task[t].item, task[t].error)
  BY <1>1, <1>2, <1>4, GotoDoes, TurnFacts
<1>6. /\ task'[t].pc = pc /\ task'[t].op = None /\ task'[t].batch = task[t].batch
      /\ task'[t].error = task[t].error /\ TaskOnly(t)
  BY <1>5 DEF Becomes, TaskOnly
<1>7. PlaceInv(t)'
  BY <1>4, <1>6 DEF PlaceInv, InBatch
<1>8. BatchInv(t)'
  BY <1>4, <1>6 DEF BatchInv
<1>9. task[t].pc \in Running \ {"execute"} /\ task[t].pc \in InBatch
  BY <1>1, BatchPlaces DEF InBatch
<1>10. ASSUME Active(t) PROVE OpenInv(t)'
  BY <1>3, <1>6, <1>9, <1>10, OpenNone
<1>11. ASSUME Active(t) PROVE CertainInv(t)'
  <2> SUFFICES ASSUME task[t].error = "none" PROVE CertainInv(t)'
    BY <1>6 DEF CertainInv
  <2>1. \A i \in DOMAIN task[t].batch : ~ (i >= task[t].item)
    BY <1>1, TurnFacts, TaskFields DEF AtItem
  <2>2. \A c \in requested[t] : results[t][c] # <<>>
    BY <1>1, <1>9, <1>11, <2>1, TurnFacts DEF CertainInv, Pending
  <2>3. LostOutcome(t)' <=> LostOutcome(t)
    BY <1>6 DEF LostOutcome
  <2>4. ~ LostOutcome(t) =>
           /\ \A o \in Ops : effect'[o].turn = t => effect'[o].status # "uncertain"
           /\ \A c \in Calls : results'[t][c] # <<"uncertain">>
    BY <1>3, <1>9, <1>11, TurnFacts DEF CertainInv, SameAnswers, NoNewDoubt
  <2>5. pc = "after_step"
    BY DEF pc
  <2>. QED BY <1>3, <1>6, <2>2, <2>3, <2>4, <2>5 DEF CertainInv, SameAnswers
<1>. QED
  BY <1>1, <1>3, <1>4, <1>6, <1>7, <1>8, <1>9, <1>10, <1>11, ActiveEnough

--------------------
(***************************************************************************)
(* What is said of a task: the ACP harness.                                *)
(***************************************************************************)

\* The places of an ACP Turn are none of the native loop's.
LEMMA AcpPlaces ==
  /\ AcpSteps \subseteq Running \ InBatch
  /\ AcpSteps \subseteq Running \ {"execute"}
  /\ {"acp_schedule", "acp_mark", "acp_prompt"} \subseteq Clean
  /\ "acp_finish" \notin Clean
  BY DEF Running, InBatch, Clean, AcpSteps

\* AcpSchedule: the prompt's effect is scheduled.
LEMMA AcpScheduleInv ==
  ASSUME IInv, NEW t \in Turns, AcpSchedule(t)
  PROVE  StepSound(t)
<1>1. task[t].pc = "acp_schedule" /\ UNCHANGED requests /\ Disciplined(t)
  BY AcpDisciplined DEF AcpSchedule, At, AcpStep
<1>2. task[t].op = None
  BY <1>1, TurnFacts DEF PlaceInv, Hooks
<1>3. ASSUME NEW o \in Ops, Store!ScheduleEffect(t, o),
             task' = [task EXCEPT ![t].pc = "acp_mark", ![t].op = o]
      PROVE  StepSound(t)
  <2>. DEFINE k == [task[t] EXCEPT !.pc = "acp_mark", !.op = o]
  <2>1. task' = [task EXCEPT ![t] = k]
    BY <1>3
  <2>2. k \in Task
    BY TurnFacts DEF Task, Locked, AcpSteps
  <2>3. k.pc = "acp_mark" /\ k.op = o /\ k.batch = task[t].batch /\ k.item = task[t].item
        /\ k.error = task[t].error
    BY TurnFacts DEF Task
  <2>. HIDE DEF k
  <2>4. Becomes(t, "acp_mark", o, task[t].batch, task[t].item, task[t].error)
    BY <2>1, <2>2, <2>3, UpdateDoes, TurnFacts
  <2>5. Store!NewEffect(o, t, None, "scheduled") /\ UNCHANGED <<turn, requested, results>>
        /\ "scheduled" \in Store!Open
    BY <1>3 DEF Store!ScheduleEffect, Store!Open
  <2>6. task[t].pc \in Running \ {"execute"}
    BY <1>1 DEF Running, AcpSteps
  <2>. QED BY <1>1, <1>2, <2>4, <2>5, <2>6, StepIn, SameRequests
<1>4. CASE AcpGivesUp(t)
  BY <1>1, <1>4, LeavingSteps
<1>. QED BY <1>3, <1>4 DEF AcpSchedule

\* AcpMark: the prompt's effect starts.
LEMMA AcpMarkInv ==
  ASSUME IInv, NEW t \in Turns, AcpMark(t)
  PROVE  StepSound(t)
<1>. DEFINE op == task[t].op
<1>1. task[t].pc = "acp_mark" /\ UNCHANGED requests /\ Disciplined(t)
  BY AcpDisciplined DEF AcpMark, At, AcpStep
<1>2. op # None /\ task[t].error = "none" /\ requested[t] = {} /\ task[t].pc \in AcpSteps
  BY <1>1, TurnFacts DEF PlaceInv, Clean, AcpSteps
<1>3. CASE Active(t)
  <2>1. Store!MarkEffectStarted(op) /\ Goto(t, "acp_prompt")
    BY <1>3 DEF AcpMark
  <2>2. Becomes(t, "acp_prompt", op, task[t].batch, task[t].item, task[t].error)
    BY <2>1, GotoDoes, TurnFacts DEF Places, Locked, AcpSteps
  <2>3. /\ task'[t].pc = "acp_prompt" /\ task'[t].op = op /\ task'[t].error = "none"
        /\ TaskOnly(t)
    BY <1>2, <2>2 DEF Becomes, TaskOnly
  <2>4. op \in Ops /\ effect[op].turn = t /\ effect[op].call = None
    BY <1>2, <1>3, AcpPlaces, OpInFlight
  <2>5. /\ effect'[op].turn = t /\ effect'[op].call = None /\ effect'[op].status = "started"
        /\ \A o \in Ops : o # op => effect'[o] = effect[o]
        /\ UNCHANGED <<turn, requested, results>>
    BY <2>1, <2>4, StoreTypes, TurnFacts DEF Store!MarkEffectStarted, Store!EffectRow
  <2>6. PlaceInv(t)'
    BY <1>2, <2>3, <2>5 DEF PlaceInv, AcpSteps
  <2>7. BatchInv(t)'
    BY <2>3 DEF BatchInv, InBatch
  <2>8. OpenInv(t)'
    <3>1. \A o \in Ops : effect[o].turn = t /\ Store!IsOpen(o) =>
             o = op \/ (effect[o].call # None /\ Executing(t, o))
      BY <1>2, <1>3, AcpPlaces, TurnFacts DEF OpenInv
    <3>2. \A o \in Ops : ~ Executing(t, o)
      BY <1>1, <1>2 DEF Executing
    <3>. QED BY <2>3, <2>5, <3>1, <3>2 DEF OpenInv, Store!IsOpen, Store!Open
  <2>9. CertainInv(t)'
    <3>1. /\ \A o \in Ops : effect[o].turn = t => effect[o].status # "uncertain"
          /\ \A c \in Calls : results[t][c] # <<"uncertain">>
      BY <1>1, <1>2, <1>3, AcpPlaces, TurnFacts DEF CertainInv, InBatch
    <3>. QED BY <1>2, <2>3, <2>5, <3>1 DEF CertainInv
  <2>10. task[t].pc \in Running /\ task'[t].pc \in Running
    BY <1>2, <2>3, AcpPlaces DEF AcpSteps
  <2>. QED
    BY <1>1, <2>3, <2>6, <2>7, <2>8, <2>9, <2>10, ActiveEnough
<1>4. CASE ~ Active(t)
  BY <1>1, <1>4, LeavingSteps DEF AcpMark
<1>. QED BY <1>3, <1>4

\* AcpPrompt: the prompt's outcome closes the effect.
LEMMA AcpPromptInv ==
  ASSUME IInv, NEW t \in Turns, AcpPrompt(t)
  PROVE  StepSound(t)
<1>1. task[t].pc = "acp_prompt" /\ UNCHANGED requests /\ Disciplined(t)
  BY AcpDisciplined DEF AcpPrompt, At, AcpStep
<1>2. /\ task[t].op # None /\ task[t].error = "none" /\ requested[t] = {}
      /\ task[t].pc \in AcpSteps
  BY <1>1, TurnFacts DEF PlaceInv, Clean, AcpSteps
<1>3. ASSUME NEW status \in Store!Closed, NEW e \in Errors, AcpEffectEnds(t, status, e),
             e = "none" => status # "uncertain"
      PROVE  StepSound(t)
  <2>. DEFINE k == [task[t] EXCEPT !.pc = "acp_finish", !.op = None, !.error = e]
  <2>1. Active(t) /\ Store!FinishEffect(task[t].op, status) /\ task' = [task EXCEPT ![t] = k]
    BY <1>3 DEF AcpEffectEnds
  <2>2. k \in Task
    BY TurnFacts DEF Task, Locked, AcpSteps
  <2>3. /\ k.pc = "acp_finish" /\ k.op = None /\ k.batch = task[t].batch
        /\ k.item = task[t].item /\ k.error = e
    BY TurnFacts DEF Task
  <2>. HIDE DEF k
  <2>4. Becomes(t, "acp_finish", None, task[t].batch, task[t].item, e)
    BY <2>1, <2>2, <2>3, UpdateDoes, TurnFacts
  <2>5. Settled(t) /\ SameAnswers(t) /\ (status # "uncertain" => NoNewDoubt(t))
    BY <1>2, <2>1, AcpPlaces, OpEnds
  <2>6. requested'[t] = {}
    BY <1>2, <2>5 DEF SameAnswers
  <2>7. /\ "acp_finish" \in Running \ InBatch /\ task[t].pc \in Running \ {"execute"}
        /\ task[t].pc \notin InBatch /\ task[t].pc # "after_step"
    BY <1>1, <1>2, AcpPlaces DEF AcpSteps
  <2>8. TaskOnly(t) /\ TaskInv(t)'
    BY <1>1, <1>2, <1>3, <2>4, <2>5, <2>6, <2>7, AcpPlaces, StepOn
  <2>. QED BY <1>1, <2>8, SameRequests
<1>4. CASE AcpGivesUp(t)
  BY <1>1, <1>4, LeavingSteps
<1>5. {"succeeded", "uncertain", "failed"} \subseteq Store!Closed
      /\ {"none", "cancelled", "failed"} \subseteq Errors
  BY DEF Store!Closed, Errors
<1>. QED BY <1>3, <1>4, <1>5 DEF AcpPrompt

\* AcpFinish: the Turn is finished with the outcome.
LEMMA AcpFinishInv ==
  ASSUME IInv, NEW t \in Turns, AcpFinish(t)
  PROVE  StepSound(t)
<1>1. task[t].pc = "acp_finish" /\ UNCHANGED requests /\ Disciplined(t) /\ Goto(t, "leave")
  BY AcpDisciplined DEF AcpFinish, AcpGivesUp, At, AcpStep
<1>. QED BY <1>1, LeaveDoes, TurnPresent, LeavingKept, SameRequests, TurnFacts

--------------------
(***************************************************************************)
(* Every step.                                                             *)
(***************************************************************************)

\* Whatever a task does is disciplined and keeps what is said of it.
LEMMA TaskStepSound ==
  ASSUME IInv, NEW t \in Turns, TaskStep(t)
  PROVE  Disciplined(t) /\ StepSound(t)
<1>1. CASE LoopStep(t)
  BY <1>1, LoopDisciplined, FetchContextInv, TurnStartedInv, BeginStepInv, BeforeModelInv,
     ProviderInv, AppendResponseInv, AfterStepInv, TurnFinishedInv, LeavingSteps
     DEF LoopStep
<1>2. CASE BatchStep(t)
  BY <1>2, BatchDisciplined, RefuseCallInv, BeforeToolInv, EndPreparationInv, StartToolInv,
     ToolReturnsInv, EndBatchInv, AfterToolInv, RecordResultInv, ResultsRecordedInv
     DEF BatchStep
<1>3. CASE AcpStep(t)
  BY <1>3, AcpDisciplined, AcpScheduleInv, AcpMarkInv, AcpPromptInv, AcpFinishInv
     DEF AcpStep
<1>4. CASE \/ AcquireSessionLock(t) \/ SetupFailsEarly(t) \/ SetupFails(t)
           \/ (\E h \in Harnesses : BeginTurn(t, h)) \/ StartHook(t) \/ LeaveTask(t)
  BY <1>4, AroundDisciplined, BeforeSteps, LeavingSteps, BeginTurnInv, StartHookInv
<1>. QED BY <1>1, <1>2, <1>3, <1>4 DEF TaskStep

\* So does whatever a client's request does to its Turn.
LEMMA RequestStepSound ==
  ASSUME IInv, NEW t \in Turns,
         \/ RequestStep(t)
         \/ \E s \in Sessions, k \in Keys, r \in Requests : StartTurn(s, k, r, t)
  PROVE  Disciplined(t) /\ StepSound(t)
  BY RequestDisciplined, BeforeSteps, CancelSteps, LeavingSteps, StartTurnInv
     DEF RequestStep

\* What is said of a Turn stays true while its rows and its task stay.
LEMMA OtherTurn ==
  ASSUME IInv, NEW u \in Turns, SameRows(u), task'[u] = task[u],
         registered'[u] = registered[u], waiting'[u] = waiting[u]
  PROVE  TurnInv(u)'
<1>1. RowsInv(u)'
  BY SameRowsKeep, TurnFacts
<1>2. /\ turn'[u] = turn[u] /\ requested'[u] = requested[u] /\ results'[u] = results[u]
      /\ \A o \in Ops : effect[o].turn = u \/ effect'[o].turn = u => effect'[o] = effect[o]
  BY DEF SameRows
<1>3. FreshInv(u)'
  BY <1>2, TurnFacts DEF FreshInv
<1>4. PlaceInv(u)'
  BY <1>2, TurnFacts DEF PlaceInv, AtItem
<1>5. BatchInv(u)'
  BY <1>2, TurnFacts DEF BatchInv, Pending, Active, Store!Active
<1>6. OpenInv(u)'
  <2>1. ASSUME Active(u), task[u].pc \in Running, task[u].op # None
        PROVE  effect'[task[u].op] = effect[task[u].op]
    BY <1>2, <2>1, OpInFlight
  <2>. QED
    BY <1>2, <2>1, TurnFacts DEF OpenInv, Active, Store!Active, Store!IsOpen, Executing
<1>7. CertainInv(u)'
  BY <1>2, TurnFacts
     DEF CertainInv, Pending, LostOutcome, Active, Store!Active
<1>. QED BY <1>1, <1>3, <1>4, <1>5, <1>6, <1>7 DEF TurnInv, TaskInv

\* What holds of the stepping Turn, and of the others by the frame, is IInv.
LEMMA SoundStep ==
  ASSUME IInv, NEW t \in Turns, Disciplined(t), StepSound(t)
  PROVE  IInv'
<1>1. Store!IndInv /\ Store!IndInv'
  BY DisciplinedImplements, StoreInvStep, TurnFacts
<1>2. TypeOK'
  BY <1>1 DEF StepSound, TaskOnly, TypeOK, Store!IndInv
<1>3. TurnInv(t)'
  BY <1>1, DisciplinedRows, TurnFacts DEF StepSound, TurnInv
<1>4. ASSUME NEW u \in Turns, u # t PROVE TurnInv(u)'
  BY <1>1, <1>4, DisciplinedFrame, OtherTurn DEF StepSound, TaskOnly
<1>5. \A u \in Turns : TurnInv(u)'
  BY <1>3, <1>4
<1>. QED BY <1>1, <1>2, <1>5 DEF IInv

\* Rows that do not change are the same rows.
LEMMA UnchangedRows ==
  ASSUME NEW u \in Turns, UNCHANGED <<turn, requested, results, effect>>
  PROVE  SameRows(u)
  BY DEF SameRows

\* A crash drops every task and leaves the database as it is.
LEMMA CrashInv ==
  ASSUME IInv, Crash
  PROVE  IInv'
<1>1. Store!IndInv /\ Store!IndInv'
  BY StoreInvStep DEF IInv, Crash, Store!Next
<1>2. \A t \in Turns : NoTask("gone") \in Task
  BY NoTaskType DEF Places
<1>3. TypeOK'
  BY <1>1, <1>2 DEF IInv, Crash, TypeOK, Store!IndInv
<1>4. NoTask("gone").pc = "gone" /\ NoTask("gone").op = None
      /\ NoTask("absent").pc = "absent" /\ NoTask("absent").op = None
  BY DEF NoTask
<1>5. ASSUME NEW u \in Turns PROVE TurnInv(u)'
  <2>1. UNCHANGED <<turn, requested, results, effect>>
        /\ registered'[u] = FALSE /\ waiting'[u] = FALSE
    BY DEF Crash, Store!Crash
  <2>2. SameRows(u)
    BY <2>1, UnchangedRows
  <2>3. RowsInv(u)'
    BY <1>1, <2>2, SameRowsKeep, TurnFacts
  <2>4. CASE task[u].pc = "absent"
    <3>1. task'[u] = task[u]
      BY <2>4 DEF Crash
    <3>2. FreshInv(u)'
      BY <2>1, <3>1, TurnFacts DEF FreshInv
    <3>3. PlaceInv(u)'
      BY <2>1, <3>1, TurnFacts DEF PlaceInv, AtItem
    <3>4. task'[u].pc \notin Running /\ task'[u].pc \notin InBatch
      BY <2>4, <3>1 DEF Running, InBatch, NativeSteps, AcpSteps, Hooks
    <3>5. TaskInv(u)'
      BY <3>2, <3>3, <3>4 DEF TaskInv, BatchInv, OpenInv, CertainInv
    <3>. QED BY <2>3, <3>5 DEF TurnInv
  <2>5. CASE task[u].pc # "absent"
    <3>1. task'[u] = NoTask("gone")
      BY <2>5 DEF Crash
    <3>2. turn'[u].status # "absent"
      BY <2>1, <2>5, TurnPresent
    <3>3. task'[u].pc \notin Before /\ task'[u].pc \notin Running /\ task'[u].pc # "record"
          /\ task'[u].pc \notin InBatch /\ task'[u].pc \notin Clean
          /\ task'[u].pc \notin AcpSteps /\ task'[u].pc \notin {"acp_mark", "acp_prompt"}
          /\ task'[u].op = None
      BY <1>4, <3>1 DEF Before, Running, InBatch, Clean, NativeSteps, AcpSteps, Hooks
    <3>4. TaskInv(u)'
      BY <3>2, <3>3 DEF TaskInv, FreshInv, PlaceInv, BatchInv, OpenInv, CertainInv
    <3>. QED BY <2>3, <3>4 DEF TurnInv
  <2>. QED BY <2>4, <2>5
<1>. QED BY <1>1, <1>3, <1>5 DEF IInv

\* Recovery closes what the crash left open, before any task runs.
LEMMA RecoverInv ==
  ASSUME IInv, Recover
  PROVE  IInv'
<1>. DEFINE T == {t \in Turns : Store!Active(t)}
<1>1. Store!IndInv /\ Store!IndInv'
  BY StoreInvStep DEF IInv, Recover, Store!Next
<1>2. TypeOK'
  BY <1>1 DEF IInv, Recover, TypeOK, Store!IndInv, requests
<1>3. Store!EndTurns(T, "failed") /\ UNCHANGED <<task, requests>>
  BY DEF Recover, Store!RecoverInterruptedWork
<1>4. ASSUME NEW u \in Turns PROVE TurnInv(u)'
  <2>1. RowsInv(u)'
    <3>1. T \in SUBSET Turns /\ "failed" \in Store!Terminal
      BY DEF Store!Terminal
    <3>. HIDE DEF T
    <3>. QED BY <1>1, <1>3, <3>1, EndTurnsRows, TurnFacts
  <2>2. /\ ~ Active(u)'
        /\ turn'[u].status = "absent" => turn[u].status = "absent"
        /\ requested' = requested
        /\ \A o \in Ops : effect'[o].turn = effect[o].turn
        /\ task' = task /\ registered' = registered /\ waiting' = waiting
    BY <1>3 DEF Store!EndTurns, Store!CloseOpenEffects, Active, Store!Active, requests
  <2>3. FreshInv(u)' /\ PlaceInv(u)'
    BY <2>2, TurnFacts DEF FreshInv, PlaceInv, AtItem
  <2>4. BatchInv(u)' /\ OpenInv(u)' /\ CertainInv(u)'
    BY <2>2 DEF BatchInv, OpenInv, CertainInv
  <2>. QED BY <2>1, <2>3, <2>4 DEF TurnInv, TaskInv
<1>. QED BY <1>1, <1>2, <1>4 DEF IInv

\* IInv is inductive: one case for each disjunct of Next.
LEMMA InvariantStep ==
  ASSUME IInv, [Next]_vars
  PROVE  IInv'
<1>1. ASSUME NEW t \in Turns, TaskStep(t) PROVE IInv'
  BY <1>1, TaskStepSound, SoundStep
<1>2. ASSUME NEW t \in Turns, RequestStep(t) PROVE IInv'
  BY <1>2, RequestStepSound, SoundStep
<1>3. ASSUME NEW s \in Sessions, NEW k \in Keys, NEW r \in Requests, NEW t \in Turns,
             StartTurn(s, k, r, t)
      PROVE  IInv'
  BY <1>3, RequestStepSound, SoundStep
<1>4. CASE UNCHANGED vars
  <2>1. UNCHANGED <<hub, turn, receipt, effect, requested, results, task, registered,
                    token, waiting>>
    BY <1>4 DEF vars, store, requests
  <2>2. Store!IndInv'
    BY <2>1, StoreInvStep DEF IInv, Store!vars
  <2>3. TypeOK'
    BY <2>1, <2>2 DEF IInv, TypeOK, Store!IndInv
  <2>4. \A u \in Turns : TurnInv(u)'
    BY <2>1, UnchangedRows, OtherTurn
  <2>. QED BY <2>2, <2>3, <2>4 DEF IInv
<1>. QED BY <1>1, <1>2, <1>3, <1>4, CrashInv, RecoverInv DEF Next

\* IInv holds of an empty database without tasks.
LEMMA InitialInvariant ==
  ASSUME Init
  PROVE  IInv
<1>1. Store!IndInv
  <2>1. P!Init
    BY SameStore DEF Init
  <2>2. 2 \in Nat
    OBVIOUS
  <2>3. P!IndInv
    BY <2>1, <2>2, P!InitIndInv, NoneAssumption, NoReceiptAssumption
  <2>. QED BY <2>3, SameStore
<1>2. NoTask("absent") \in Task
  BY NoTaskType DEF Places
<1>3. TypeOK
  BY <1>1, <1>2 DEF Init, TypeOK, Store!IndInv
<1>4. ASSUME NEW t \in Turns PROVE TurnInv(t)
  <2>1. /\ turn[t].status = "absent" /\ requested[t] = {}
        /\ \A c \in Calls : results[t][c] = <<>>
        /\ \A o \in Ops : effect[o].turn # t
        /\ task[t] = NoTask("absent") /\ ~ registered[t] /\ ~ waiting[t]
    <3>1. None # t
      BY NoneAssumption
    <3>. QED BY <3>1 DEF Init, Store!Init, Store!NoTurn, Store!NoEffect
  <2>2. RowsInv(t)
    BY <2>1 DEF RowsInv, AnswersOnce, ToolsAnswerCalls
  <2>3. task[t].pc = "absent" /\ task[t].op = None
    BY <2>1 DEF NoTask
  <2>4. FreshInv(t)
    BY <2>1, <2>3 DEF FreshInv
  <2>5. task[t].pc \notin Running /\ task[t].pc \notin InBatch /\ task[t].pc \notin Clean
        /\ task[t].pc \notin AcpSteps /\ task[t].pc # "record"
        /\ task[t].pc \notin {"acp_mark", "acp_prompt"}
    BY <2>3 DEF Running, InBatch, Clean, NativeSteps, AcpSteps, Hooks
  <2>6. TaskInv(t)
    BY <2>3, <2>4, <2>5 DEF TaskInv, PlaceInv, BatchInv, OpenInv, CertainInv
  <2>. QED BY <2>2, <2>6 DEF TurnInv
<1>. QED BY <1>1, <1>3, <1>4 DEF IInv

--------------------
(***************************************************************************)
(* The theorems.                                                           *)
(***************************************************************************)

\* The inductive invariant holds whatever hooks, providers, tools and clients do and
\* whenever the Hub stops (agent loop, Turn supervisor, cancel_turn, recovery).
THEOREM InvariantHolds == Spec => []IInv
<1>1. Init => IInv
  BY InitialInvariant
<1>2. IInv /\ [Next]_vars => IInv'
  BY InvariantStep
<1>. QED BY <1>1, <1>2, PTL DEF Spec

\* The tables and the tasks keep their shape, for every bound on steps and calls.
THEOREM TypeCorrect == Spec => []TypeOK
<1>1. IInv => TypeOK
  BY DEF IInv
<1>. QED BY <1>1, InvariantHolds, PTL

\* The running Hub does to the store only what TurnStore says: every transaction of
\* a task, a request, a guard or the recovery is one of its actions, so everything
\* proved of TurnStore holds of the tasks that share it.
THEOREM HubImplementsTurnStore == Spec => ImplementsTurnStore
<1>1. Init => Store!Init
  BY DEF Init
<1>2. IInv /\ [Next]_vars => [Store!Next]_(Store!vars)
  <2> SUFFICES ASSUME IInv, [Next]_vars PROVE [Store!Next]_(Store!vars)
    OBVIOUS
  <2>1. ASSUME NEW t \in Turns,
               \/ TaskStep(t) \/ RequestStep(t)
               \/ \E s \in Sessions, k \in Keys, r \in Requests : StartTurn(s, k, r, t)
        PROVE  [Store!Next]_(Store!vars)
    BY <2>1, TaskStepSound, RequestStepSound, DisciplinedImplements
  <2>2. CASE Crash
    BY <2>2 DEF Crash, Store!Next
  <2>3. CASE Recover
    BY <2>3 DEF Recover, Store!Next
  <2>4. CASE UNCHANGED vars
    BY <2>4 DEF vars, store, Store!vars
  <2>. QED BY <2>1, <2>2, <2>3, <2>4 DEF Next
<1>. QED BY <1>1, <1>2, InvariantHolds, PTL DEF Spec, ImplementsTurnStore, Store!Spec

\* No call is answered twice, however a cancellation, an abort or the recovery meets
\* the batch (append_tool_result, close_orphan_tool_calls).
THEOREM CallsAreAnsweredOnce == Spec => []OneResultPerCall
<1>1. IInv => OneResultPerCall
  BY DEF IInv, TurnInv, RowsInv, AnswersOnce, OneResultPerCall
<1>. QED BY <1>1, InvariantHolds, PTL

\* A Turn reported completed hides no unknown outcome (finish of execute_mews_turn,
\* finish_acp_turn).
THEOREM CompletionIsCertain == Spec => []CompletedMeansCertain
<1>1. IInv => CompletedMeansCertain
  BY DEF IInv, TurnInv, RowsInv, AllCertain, CompletedMeansCertain
<1>. QED BY <1>1, InvariantHolds, PTL

\* A provider works only on a history in which every call is answered once and
\* nothing is uncertain or still open (run_model_tool_loop).
THEOREM HistoryIsSettled == Spec => []ModelSeesSettledHistory
<1>1. IInv => ModelSeesSettledHistory
  <2> SUFFICES ASSUME IInv, NEW t \in Turns, task[t].pc = "provider",
                      task[t].op # None, Active(t)
               PROVE  /\ \A c \in requested[t] : Len(results[t][c]) = 1
                      /\ Store!OpenEffectsOf(t) = {task[t].op}
                      /\ \A o \in Ops : effect[o].turn = t => effect[o].status # "uncertain"
    BY DEF ModelSeesSettledHistory
  <2>1. task[t].pc \in Running /\ task[t].pc \notin InBatch \cup {"after_step", "execute"}
        /\ task[t].error = "none"
    BY TurnFacts DEF Running, NativeSteps, InBatch, PlaceInv, Clean
  <2>2. /\ \A c \in requested[t] : results[t][c] # <<>>
        /\ \A o \in Ops : effect[o].turn = t => effect[o].status # "uncertain"
    BY <2>1, TurnFacts DEF CertainInv
  <2>3. \A c \in requested[t] : Len(results[t][c]) = 1
    <3> SUFFICES ASSUME NEW c \in requested[t] PROVE Len(results[t][c]) = 1
      OBVIOUS
    <3>1. c \in Calls /\ results[t][c] \in Seq(Store!Results)
      BY StoreTypes, TurnFacts
    <3>2. Len(results[t][c]) <= 1 /\ results[t][c] # <<>>
      BY <2>2, <3>1, TurnFacts DEF RowsInv, AnswersOnce
    <3>. QED BY <3>1, <3>2, OneElement
  <2>4. Store!OpenEffectsOf(t) = {task[t].op}
    <3>1. task[t].op \in Ops /\ effect[task[t].op].turn = t /\ Store!IsOpen(task[t].op)
      BY <2>1, OpInFlight
    <3>2. \A o \in Ops : effect[o].turn = t /\ Store!IsOpen(o) => o = task[t].op
      BY <2>1, TurnFacts DEF OpenInv, Executing
    <3>. QED BY <3>1, <3>2 DEF Store!OpenEffectsOf
  <2>. QED BY <2>2, <2>3, <2>4
<1>. QED BY <1>1, InvariantHolds, PTL

--------------------
(***************************************************************************)
(* Requests that are not dropped: a Turn whose task is gone has ended, or  *)
(* the cancel request that took the task over ends it.                     *)
(***************************************************************************)

\* A Turn that EndTurn reaches is no longer active.
LEMMA EndTurnDoes ==
  ASSUME TypeOK, NEW t \in Turns, NEW st \in Store!Terminal, EndTurn(t, st)
  PROVE  ~ Active(t)'
<1>1. CASE Active(t)
  <2>1. turn'[t].status = st
    BY <1>1 DEF EndTurn, Store!FinishTurn, Store!EndTurns
  <2>. QED BY <2>1 DEF Active, Store!Active, Store!Terminal
<1>2. CASE ~ Active(t)
  BY <1>2 DEF EndTurn, store, Active, Store!Active
<1>. QED BY <1>1, <1>2

\* Steps that give the task a place at which it goes on.
Stays == Running \cup {"setup"}

\* A failure sends the task to the end of its loop, and not away.
LEMMA FailStays ==
  ASSUME TypeOK, NEW t \in Turns, NEW e, NEW pc \in {"turn_end", "finish"}, Fail(t, e, pc)
  PROVE  task'[t].pc \in Stays
<1>1. task'[t].pc = pc
  BY DEF Fail, TypeOK, Task
<1>. QED BY <1>1 DEF Stays, Running, NativeSteps, Hooks

\* Only the loop's last step leaves the task's run.
LEMMA LoopStays ==
  ASSUME TypeOK, NEW t \in Turns, LoopStep(t)
  PROVE  task'[t].pc \in Stays \/ FinishNative(t)
<1>. USE FailStays DEF Stays, Running, NativeSteps, Hooks
<1>0. task \in [Turns -> Task]
  BY DEF TypeOK
<1>1. CASE FetchContext(t) \/ BeginStep(t)
  BY <1>0, <1>1 DEF FetchContext, BeginStep, Goto, Task
<1>2. CASE TurnStarted(t) \/ BeforeModel(t) \/ TurnFinished(t)
  BY <1>0, <1>2 DEF TurnStarted, BeforeModel, TurnFinished, Task
<1>3. CASE AfterStep(t)
  BY <1>0, <1>3 DEF AfterStep, Task
<1>4. CASE StartProviderCall(t) \/ CursorRejected(t)
  BY <1>0, <1>4 DEF StartProviderCall, StartsEffect, CursorRejected, ProviderEffectEnds, At, Task
<1>5. CASE ProviderFails(t) \/ ProviderCompletes(t)
  BY <1>0, <1>5 DEF ProviderFails, ProviderCompletes, Task
<1>6. CASE AppendResponse(t)
  <2>1. ASSUME NEW b, task' = [task EXCEPT ![t].pc = "before_tool", ![t].batch = b,
                                             ![t].item = 1]
        PROVE  task'[t].pc = "before_tool"
    BY <1>0, <2>1 DEF Task
  <2>2. task'[t].pc = "before_tool" \/ Fail(t, "failed", "turn_end")
    BY <1>6, <2>1 DEF AppendResponse
  <2>. QED BY <2>2
<1>. QED BY <1>1, <1>2, <1>3, <1>4, <1>5, <1>6 DEF LoopStep

\* No step of the batch pipeline leaves the task's run.
LEMMA BatchStays ==
  ASSUME TypeOK, NEW t \in Turns, BatchStep(t)
  PROVE  task'[t].pc \in Stays
<1>. USE FailStays DEF Stays, Running, NativeSteps, Hooks
<1>0. task \in [Turns -> Task]
  BY DEF TypeOK
<1>1. CASE RefuseCall(t) \/ BeforeTool(t)
  BY <1>0, <1>1 DEF RefuseCall, BeforeTool, HookReturns, Prepared, At, Task
<1>2. CASE EndPreparation(t) \/ ResultsRecorded(t)
  BY <1>0, <1>2 DEF EndPreparation, ResultsRecorded, Goto, Task
<1>3. CASE \E i \in DOMAIN task[t].batch : StartTool(t, i) \/ ToolReturns(t, i)
  BY <1>0, <1>3 DEF StartTool, ToolReturns, Executed, At, Task
<1>4. CASE EndBatch(t)
  <2>1. ASSUME NEW b, NEW e, task' = [task EXCEPT ![t].pc = "after_tool", ![t].batch = b,
                                                    ![t].error = e]
        PROVE  task'[t].pc = "after_tool"
    BY <1>0, <2>1 DEF Task
  <2>2. Goto(t, "after_tool") => task'[t].pc = "after_tool"
    BY <1>0 DEF Goto, Task
  <2>3. task'[t].pc = "after_tool"
    BY <1>4, <2>1, <2>2 DEF EndBatch
  <2>. QED BY <2>3
<1>5. CASE AfterTool(t)
  <2>1. PICK r \in Store!Reported, e \in Errors :
           task' = [task EXCEPT ![t].pc = "record", ![t].op = None,
                      ![t].batch[task[t].item].result = r, ![t].error = e]
    <3>1. \A out \in Outcomes : HookedResults(Current(t).result, out) \subseteq Store!Reported
      BY DEF HookedResults, Store!Reported
    <3>2. \A out \in Outcomes :
             (IF task[t].error = "none" /\ out # "ok"
              THEN CancelledIf(out = "cancelled") ELSE task[t].error) \in Errors
      BY TaskFields DEF CancelledIf, Errors
    <3>. QED BY <1>5, <3>1, <3>2 DEF AfterTool
  <2>2. task'[t].pc = "record"
    BY <1>0, <2>1 DEF Task
  <2>. QED BY <2>2
<1>6. CASE RecordResult(t)
  <2>1. ASSUME NEW n, task' = [task EXCEPT ![t].pc = "after_tool", ![t].item = n]
        PROVE  task'[t].pc = "after_tool"
    BY <1>0, <2>1 DEF Task
  <2>2. task'[t].pc = "after_tool" \/ Fail(t, "failed", "turn_end")
    BY <1>6, <2>1 DEF RecordResult
  <2>. QED BY <2>2
<1>. QED BY <1>1, <1>2, <1>3, <1>4, <1>5, <1>6 DEF BatchStep

\* An ACP step goes on, or leaves with the Turn ended.
LEMMA AcpStays ==
  ASSUME TypeOK, NEW t \in Turns, AcpStep(t)
  PROVE  task'[t].pc \in Stays \/ (task'[t].pc = "leave" /\ ~ Active(t)')
<1>0. task \in [Turns -> Task]
  BY DEF TypeOK
<1>1. ASSUME Goto(t, "leave"), NEW st \in Store!Terminal, EndTurn(t, st)
      PROVE  task'[t].pc = "leave" /\ ~ Active(t)'
  BY <1>1, LeaveDoes, EndTurnDoes
<1>2. AcpGivesUp(t) => task'[t].pc = "leave" /\ ~ Active(t)'
  BY <1>1 DEF AcpGivesUp, CancelledIf, Store!Terminal
<1>3. CASE AcpSchedule(t) \/ AcpMark(t) \/ AcpPrompt(t)
  BY <1>0, <1>2, <1>3 DEF AcpSchedule, AcpMark, AcpPrompt, AcpEffectEnds, Goto, Task,
                          Stays, Running, AcpSteps
<1>4. CASE AcpFinish(t)
  <2>1. Termination(t) \in Store!Terminal
    BY TaskFields DEF Termination, Errors, Store!Terminal
  <2>. QED BY <1>1, <1>2, <1>4, <2>1 DEF AcpFinish
<1>. QED BY <1>3, <1>4 DEF AcpStep

\* A task that goes on has a place in its run.
LEMMA StaysMeans ==
  Stays \cap {"absent", "accepted", "leave", "gone"} = {}
  BY DEF Stays, Running, NativeSteps, AcpSteps, Hooks

\* Everything a task or request does is done while the Hub is up.
LEMMA SameHub ==
  ASSUME NEW t \in Turns, Disciplined(t)
  PROVE  hub' = hub
  BY DEF Disciplined, store, Store!AcceptTurn, Store!RecordTurnHarness,
         Store!ScheduleEffect, Store!StartEffect, Store!StartToolEffect,
         Store!MarkEffectStarted, Store!FinishEffect, Store!AppendAssistantResponse,
         Store!CompleteToolExecution, Store!AppendToolResult, Store!FinishTurn

\* A step of the task that leaves the request as it is: it leaves no running Turn
\* behind unless the request is waiting, or it had left it before.
LEMMA RequestKept ==
  ASSUME IInv, NEW t \in Turns, Disciplined(t), RequestInv(t), UNCHANGED requests,
         turn[t].status # "absent", task'[t].pc \notin {"absent", "accepted"},
         task'[t].pc \in {"leave", "gone"} /\ Active(t)' =>
            token[t] \/ task[t].pc \in {"leave", "gone"}
  PROVE  RequestInv(t)'
<1>1. hub' = hub /\ (Active(t)' => Active(t))
  BY SameHub, DisciplinedStatus, TurnFacts
<1>. QED BY <1>1 DEF RequestInv, requests

\* A step of the task keeps what is said of its cancel requests.
LEMMA RequestTaskStep ==
  ASSUME IInv, NEW t \in Turns, TaskStep(t), RequestInv(t)
  PROVE  RequestInv(t)'
<1>1. Disciplined(t) /\ TypeOK /\ task \in [Turns -> Task]
  BY TaskStepSound, TurnFacts DEF TypeOK
<1>2. ASSUME UNCHANGED requests, task[t].pc # "absent", task'[t].pc \in Stays
      PROVE  RequestInv(t)'
  BY <1>1, <1>2, StaysMeans, TurnPresent, RequestKept
<1>3. ASSUME UNCHANGED requests, task[t].pc # "absent", task'[t].pc = "leave", ~ Active(t)'
      PROVE  RequestInv(t)'
  BY <1>1, <1>3, TurnPresent, RequestKept
<1>4. CASE LoopStep(t)
  <2>1. UNCHANGED requests /\ task[t].pc # "absent"
    BY <1>4 DEF LoopStep, FetchContext, TurnStarted, BeginStep, BeforeModel,
         StartProviderCall, StartsEffect, ProviderFails, CursorRejected, ProviderCompletes,
         ProviderEffectEnds, AppendResponse, AfterStep, TurnFinished, FinishNative,
         HookReturns, At
  <2>2. CASE FinishNative(t)
    <3>1. PICK st \in Store!Terminal : EndTurn(t, st) /\ Goto(t, "leave")
      <4>1. Termination(t) \in Store!Terminal /\ "cancelled" \in Store!Terminal
        BY <1>1, TaskFields DEF Termination, Errors, Store!Terminal
      <4>. QED BY <2>2, <4>1 DEF FinishNative
    <3>. QED BY <1>1, <1>3, <2>1, <3>1, LeaveDoes, EndTurnDoes
  <2>3. CASE task'[t].pc \in Stays
    BY <1>2, <2>1, <2>3
  <2>. QED BY <1>1, <1>4, <2>2, <2>3, LoopStays
<1>5. CASE BatchStep(t)
  <2>1. UNCHANGED requests /\ task[t].pc # "absent"
    BY <1>5 DEF BatchStep, RefuseCall, BeforeTool, EndPreparation, StartTool,
         ToolReturns, EndBatch, AfterTool, RecordResult, ResultsRecorded, HookReturns, At
  <2>. QED BY <1>1, <1>2, <1>5, <2>1, BatchStays
<1>6. CASE AcpStep(t)
  <2>1. UNCHANGED requests /\ task[t].pc # "absent"
    BY <1>6 DEF AcpStep, AcpSchedule, AcpMark, AcpPrompt, AcpFinish, At
  <2>. QED BY <1>1, <1>2, <1>3, <1>6, <2>1, AcpStays
<1>7. CASE AcquireSessionLock(t) \/ StartHook(t) \/ \E h \in Harnesses : BeginTurn(t, h)
  <2>1. UNCHANGED requests /\ task[t].pc # "absent"
    BY <1>7 DEF AcquireSessionLock, StartHook, StartsEffect, BeginTurn, At, Hooks
  <2>2. task'[t].pc \in Stays
    <3>1. CASE AcquireSessionLock(t)
      BY <1>1, <3>1 DEF AcquireSessionLock, Goto, Task, Stays
    <3>2. CASE StartHook(t)
      BY <1>1, <3>2 DEF StartHook, StartsEffect, Task, Hooks, Stays, Running, NativeSteps
    <3>3. CASE \E h \in Harnesses : BeginTurn(t, h)
      BY <1>1, <3>3 DEF BeginTurn, Task, Stays, Running, NativeSteps, AcpSteps
    <3>. QED BY <1>7, <3>1, <3>2, <3>3
  <2>. QED BY <1>2, <2>1, <2>2
<1>8. CASE SetupFails(t)
  <2>1. CancelledIf(token[t]) \in Store!Terminal
    BY DEF CancelledIf, Store!Terminal
  <2>2. EndTurn(t, CancelledIf(token[t])) /\ Goto(t, "leave") /\ UNCHANGED requests
        /\ task[t].pc # "absent"
    BY <1>8 DEF SetupFails, At
  <2>. QED BY <1>1, <1>3, <2>1, <2>2, LeaveDoes, EndTurnDoes
<1>9. CASE SetupFailsEarly(t)
  <2>1. Goto(t, "leave") /\ UNCHANGED requests /\ task[t].pc # "absent"
    BY <1>9 DEF SetupFailsEarly, At
  <2>2. task'[t].pc = "leave"
    BY <1>1, <2>1, LeaveDoes
  <2>3. CASE token[t]
    BY <1>1, <2>1, <2>2, <2>3, TurnPresent, RequestKept
  <2>4. CASE ~ token[t]
    <3>1. ~ Active(t)'
      BY <1>1, <1>9, <2>4, EndTurnDoes DEF SetupFailsEarly, Store!Terminal
    <3>. QED BY <1>3, <2>1, <2>2, <3>1
  <2>. QED BY <2>3, <2>4
<1>10. CASE LeaveTask(t)
  <2>1. /\ task[t].pc = "leave" /\ UNCHANGED <<store, token, waiting>>
        /\ registered' = [registered EXCEPT ![t] = FALSE]
        /\ task' = [task EXCEPT ![t] = NoTask("gone")]
    BY <1>10 DEF LeaveTask, At
  <2>2. task'[t].pc = "gone"
    BY <1>1, <2>1, NoTaskDoes
  <2>. QED BY <2>1, <2>2 DEF RequestInv, store, Active, Store!Active
<1>. QED
  BY <1>4, <1>5, <1>6, <1>7, <1>8, <1>9, <1>10 DEF TaskStep

\* So does a step of a request, when none is dropped half way.
LEMMA RequestRequestStep ==
  ASSUME ~ RequestsDrop, IInv, NEW t \in Turns, RequestInv(t),
         \/ RequestStep(t)
         \/ \E s \in Sessions, k \in Keys, r \in Requests : StartTurn(s, k, r, t)
  PROVE  RequestInv(t)'
<1>1. /\ Disciplined(t) /\ TypeOK /\ task \in [Turns -> Task]
      /\ registered \in [Turns -> BOOLEAN]
      /\ token \in [Turns -> BOOLEAN]
      /\ waiting \in [Turns -> BOOLEAN]
  BY RequestStepSound, TurnFacts DEF TypeOK
<1>2. CASE \E s \in Sessions, k \in Keys, r \in Requests : StartTurn(s, k, r, t)
  <2>1. /\ turn[t].status = "absent" /\ UNCHANGED requests /\ task'[t].pc = "accepted"
    BY <1>1, <1>2 DEF StartTurn, Store!AcceptTurn, Goto, Task
  <2>2. task[t].pc = "absent"
    <3>1. task[t] = NoTask("absent")
      BY <2>1, TurnFacts DEF FreshInv
    <3>. QED BY <3>1 DEF NoTask
  <2>. QED BY <2>1, <2>2 DEF RequestInv, requests
<1>3. CASE SpawnTask(t)
  <2>1. task[t].pc = "accepted" /\ task'[t].pc = "waiting" /\ UNCHANGED <<store, token, waiting>>
    BY <1>1, <1>3 DEF SpawnTask, At, Goto, Task
  <2>. QED BY <2>1 DEF RequestInv
<1>4. CASE CancelTurn(t)
  <2>1. /\ registered[t] /\ waiting'[t] = TRUE /\ UNCHANGED <<store, task>>
    BY <1>1, <1>4 DEF CancelTurn
  <2>. QED BY <2>1 DEF RequestInv
<1>5. CASE CancelUnregisteredTurn(t)
  <2>1. Store!FinishTurn(t, "cancelled") /\ UNCHANGED <<task, requests>>
    BY <1>5 DEF CancelUnregisteredTurn
  <2>2. turn'[t].status = "cancelled"
    BY <2>1 DEF Store!FinishTurn, Store!EndTurns
  <2>. QED BY <2>1, <2>2 DEF RequestInv, requests, Active, Store!Active
<1>6. CASE CancelTurnEnds(t)
  <2>1. task'[t].pc = "gone" /\ ~ Active(t)'
    BY <1>1, <1>6, NoTaskDoes, EndTurnDoes DEF CancelTurnEnds, Store!Terminal
  <2>. QED BY <2>1 DEF RequestInv
<1>. QED
  BY <1>2, <1>3, <1>4, <1>5, <1>6 DEF RequestStep, StartTurnDropped, CancelTurnDropped

\* No running Turn is left by a task that is gone, for a Hub whose requests are not
\* dropped (TurnTerminalGuard, the guards of a spawned Turn, cancel_turn). Without
\* that premise it is false: a CancelTurn dropped while it waits for a task that leaves
\* the Turn to it leaves it to the next recovery.
THEOREM NoTurnIsAbandoned ==
  ASSUME ~ RequestsDrop
  PROVE  Spec => []TaskLeavesNoActiveTurn
<1>. DEFINE Requested == \A t \in Turns : RequestInv(t)
<1>1. Init => Requested
  BY DEF Init, RequestInv, Store!Init, Store!NoTurn, Active, Store!Active, NoTask
<1>2. IInv /\ Requested /\ [Next]_vars => Requested'
  <2> SUFFICES ASSUME IInv, Requested, [Next]_vars, NEW u \in Turns
               PROVE  RequestInv(u)'
    OBVIOUS
  <2>1. RequestInv(u) /\ Store!IndInv
    BY TurnFacts
  <2>2. ASSUME NEW t \in Turns, Disciplined(t), StepSound(t), RequestInv(t)'
        PROVE  RequestInv(u)'
    <3>1. CASE u = t
      BY <2>2, <3>1
    <3>2. CASE u # t
      <4>1. SameRows(u) /\ hub' = hub
        BY <2>1, <2>2, <3>2, DisciplinedFrame, SameHub
      <4>2. /\ task'[u] = task[u] /\ registered'[u] = registered[u]
            /\ token'[u] = token[u] /\ waiting'[u] = waiting[u]
        BY <2>2, <3>2 DEF StepSound, TaskOnly
      <4>. QED BY <2>1, <4>1, <4>2 DEF RequestInv, SameRows, Active, Store!Active
    <3>. QED BY <3>1, <3>2
  <2>3. ASSUME NEW t \in Turns, TaskStep(t) PROVE RequestInv(u)'
    BY <2>2, <2>3, TaskStepSound, RequestTaskStep
  <2>4. ASSUME NEW t \in Turns,
               \/ RequestStep(t)
               \/ \E s \in Sessions, k \in Keys, r \in Requests : StartTurn(s, k, r, t)
        PROVE  RequestInv(u)'
    BY <2>2, <2>4, RequestStepSound, RequestRequestStep
  <2>5. CASE Crash
    <3>1. hub' = "down" /\ ~ registered'[u] /\ ~ token'[u]
      BY <2>5 DEF Crash, Store!Crash
    <3>. QED BY <3>1 DEF RequestInv
  <2>6. CASE Recover
    <3>1. ~ Active(u)' /\ UNCHANGED <<task, registered, token, waiting>>
      BY <2>6 DEF Recover, requests, Store!RecoverInterruptedWork, Store!EndTurns,
                  Active, Store!Active
    <3>. QED BY <2>1, <3>1 DEF RequestInv
  <2>7. CASE UNCHANGED vars
    BY <2>1, <2>7 DEF vars, store, requests, RequestInv, Active, Store!Active
  <2>. QED BY <2>3, <2>4, <2>5, <2>6, <2>7 DEF Next
<1>3. Requested => TaskLeavesNoActiveTurn
  BY DEF RequestInv, TaskLeavesNoActiveTurn
<1>. QED BY <1>1, <1>2, <1>3, InvariantHolds, PTL DEF Spec

=============================================================================
