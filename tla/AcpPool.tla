------------------------------ MODULE AcpPool ------------------------------
(***************************************************************************)
(* The pool of warm ACP processes (mews-acp/src/session.rs).  A Turn is    *)
(* submitted by a caller that picks a worker thread, sends its job under   *)
(* the worker's `accepting` lock and waits for the result; a worker runs   *)
(* one job at a time, leaves after an idle timeout or when the pool evicts *)
(* it, and only then closes its process.  Callers are cancelled or dropped *)
(* at any await.                                                           *)
(*                                                                         *)
(* `lock` is the mutex of `groups`; every other step is what runs between  *)
(* two synchronisation points of one thread.                               *)
(***************************************************************************)
EXTENDS Naturals, Sequences, FiniteSets, SequencesExt

CONSTANTS
    Turns,              \* the Turns submitted to the pool
    Fingerprints,       \* launch fingerprints
    Fingerprint,        \* Turn -> its AcpLaunchFingerprint
    SessionKey,         \* Turn -> its Session
    NoOne,              \* no Turn, no worker
    MaxPerFingerprint,  \* max_processes_per_fingerprint
    MaxTotal,           \* max_total_processes
    MaxGenerations,     \* bound: workers ever spawned
    Cancellable,        \* the Turns that may be cancelled
    Droppable           \* the Turns whose caller may be dropped

Generations == 1..MaxGenerations
SessionKeys == {SessionKey[t] : t \in Turns}
Shutdown == "shutdown"

\* What the constants must satisfy; every instance assumes it.
LimitsAssumption ==
    /\ MaxPerFingerprint \in Nat \ {0} /\ MaxTotal \in Nat \ {0} /\ MaxGenerations \in Nat
    /\ \A t \in Turns : Fingerprint[t] \in Fingerprints
    /\ Shutdown \notin Turns /\ NoOne \notin Turns /\ NoOne \notin Generations

VARIABLES
    nextGeneration, \* next_generation
    workers,        \* generation -> the worker and its thread
    bindings,       \* <<fingerprint, session>> -> generation or NoOne
    lock,           \* the caller inside try_worker, or NoOne
    callers,        \* Turn -> execute_persistent_acp_turn
    jobState,       \* Turn -> the job's atomic state
    cancelled,      \* Turn -> its cancellation token
    turnEnds        \* Turn -> how often its turn_end hooks ran

vars == <<nextGeneration, workers, bindings, lock, callers, jobState,
          cancelled, turnEnds>>

Unborn == [fingerprint |-> NoOne, phase |-> "none", accepting |-> FALSE,
           listed |-> FALSE, queue |-> <<>>, pending |-> 0, current |-> NoOne,
           live |-> FALSE]

Caller == [pc |-> "start", worker |-> NoOne, woken |-> FALSE,
           observing |-> TRUE, event |-> "none"]

Init ==
    /\ nextGeneration = 1
    /\ workers = [g \in Generations |-> Unborn]
    /\ bindings = [b \in Fingerprints \X SessionKeys |-> NoOne]
    /\ lock = NoOne
    /\ callers = [t \in Turns |-> Caller]
    /\ jobState = [t \in Turns |-> "queued"]
    /\ cancelled = [t \in Turns |-> FALSE]
    /\ turnEnds = [t \in Turns |-> 0]

--------------------
(* Choosing a worker *)

GoTo(t, pc) == callers' = [callers EXCEPT ![t].pc = pc]

\* capacity_changed.notify_waiters(): everyone registered at this moment.
NotifyWaiters(cs) ==
    [t \in Turns |-> IF cs[t].pc \in {"try", "evict", "waiting"}
                     THEN [cs[t] EXCEPT !.woken = TRUE] ELSE cs[t]]

\* worker: the caller is registered before it looks at the capacity.
Register(t) ==
    /\ callers[t].pc = "start"
    /\ callers' = [callers EXCEPT ![t].pc = "try", ![t].woken = FALSE]
    /\ UNCHANGED <<nextGeneration, workers, bindings, lock, jobState, cancelled, turnEnds>>

Accepting(g) == workers[g].listed /\ workers[g].accepting
Group(f) == {g \in Generations : Accepting(g) /\ workers[g].fingerprint = f}
LeastLoaded(G) == {g \in G : \A h \in G : workers[g].pending <= workers[h].pending}
Idle(G) == {g \in G : workers[g].pending = 0}
\* Mutants: the limits are passed by one.
GroupIsFullLate(f) == Cardinality(Group(f)) > MaxPerFingerprint
PoolIsFullLate == Cardinality({g \in Generations : Accepting(g)}) > MaxTotal
GroupIsFull(f) == Cardinality(Group(f)) >= MaxPerFingerprint
PoolIsFull == Cardinality({g \in Generations : Accepting(g)}) >= MaxTotal

\* The pruning at the head of try_worker: what no longer accepts leaves the
\* groups, and the bindings to it go as well.
Unlist(ws) == [g \in Generations |-> IF ws[g].accepting THEN ws[g]
                                     ELSE [ws[g] EXCEPT !.listed = FALSE]]
Pruned == [b \in DOMAIN bindings |->
              IF bindings[b] # NoOne /\ Accepting(bindings[b])
              THEN bindings[b] ELSE NoOne]

Home(t) == <<Fingerprint[t], SessionKey[t]>>

\* The workers try_worker may hand to t without spawning one.
Candidates(t) ==
    LET group == Group(Fingerprint[t])
        bound == Pruned[Home(t)]
    IN  IF bound # NoOne THEN {bound}
        ELSE IF Idle(group) # {} THEN Idle(group)
        ELSE IF GroupIsFull(Fingerprint[t]) THEN LeastLoaded(group)
        ELSE IF PoolIsFull /\ Idle(UNION {Group(f) : f \in Fingerprints}) = {}
             THEN LeastLoaded(group)
        ELSE {}

TakesWorker(t, g) ==
    /\ bindings' = [Pruned EXCEPT ![Home(t)] = g]
    /\ callers' = [callers EXCEPT ![t].pc = "send", ![t].worker = g]

UseWorker(t) ==
    /\ callers[t].pc = "try" /\ lock = NoOne
    /\ \E g \in Candidates(t) : TakesWorker(t, g)
    /\ workers' = Unlist(workers)
    /\ UNCHANGED <<nextGeneration, lock, jobState, cancelled, turnEnds>>

\* spawn_worker: a fresh generation, published when its thread runs.
Spawn(t) ==
    /\ callers[t].pc = "try" /\ lock = NoOne
    /\ Candidates(t) = {} /\ ~PoolIsFull
    /\ nextGeneration <= MaxGenerations
    /\ nextGeneration' = nextGeneration + 1
    /\ workers' = [Unlist(workers) EXCEPT ![nextGeneration] =
          [Unborn EXCEPT !.fingerprint = Fingerprint[t], !.phase = "up",
                         !.accepting = TRUE, !.listed = TRUE]]
    /\ TakesWorker(t, nextGeneration)
    /\ UNCHANGED <<lock, jobState, cancelled, turnEnds>>

\* The thread could not be started: the Turn fails before any of its hooks.
SpawnFails(t) ==
    /\ callers[t].pc = "try" /\ lock = NoOne
    /\ Candidates(t) = {} /\ ~PoolIsFull
    /\ workers' = Unlist(workers)
    /\ bindings' = Pruned
    /\ GoTo(t, "failed")
    /\ UNCHANGED <<nextGeneration, lock, jobState, cancelled, turnEnds>>

\* At the total limit an idle worker is picked for eviction; its pending
\* count was read without its lock, which send may take first.
PickIdle(t) ==
    /\ callers[t].pc = "try" /\ lock = NoOne
    /\ Candidates(t) = {} /\ PoolIsFull
    /\ \E g \in Idle({h \in Generations : Accepting(h)}) :
          callers' = [callers EXCEPT ![t].pc = "evict", ![t].worker = g]
    /\ lock' = t
    /\ workers' = Unlist(workers)
    /\ bindings' = Pruned
    /\ UNCHANGED <<nextGeneration, jobState, cancelled, turnEnds>>

Unbound(g) == [b \in DOMAIN bindings |-> IF bindings[b] = g THEN NoOne ELSE bindings[b]]

\* Mutant: Shutdown overtakes the jobs already accepted.
ShutdownFirst(w) ==
    IF w.accepting
    THEN [w EXCEPT !.accepting = FALSE, !.queue = <<Shutdown>> \o @]
    ELSE w

\* stop_accepting sends Shutdown once, behind every job already accepted.
StopAccepting(w) ==
    IF w.accepting
    THEN [w EXCEPT !.accepting = FALSE, !.queue = Append(@, Shutdown)]
    ELSE w

Evict(t) ==
    LET g == callers[t].worker IN
    /\ callers[t].pc = "evict"
    /\ workers' = [workers EXCEPT ![g] = [StopAccepting(@) EXCEPT !.listed = FALSE]]
    /\ bindings' = Unbound(g)
    /\ lock' = NoOne
    /\ callers' = [callers EXCEPT ![t].pc = "waiting", ![t].worker = NoOne]
    /\ UNCHANGED <<nextGeneration, jobState, cancelled, turnEnds>>

\* Every worker is busy and none is compatible.
WaitForCapacity(t) ==
    /\ callers[t].pc = "try" /\ lock = NoOne
    /\ Candidates(t) = {} /\ PoolIsFull
    /\ Idle({h \in Generations : Accepting(h)}) = {}
    /\ workers' = Unlist(workers)
    /\ bindings' = Pruned
    /\ GoTo(t, "waiting")
    /\ UNCHANGED <<nextGeneration, lock, jobState, cancelled, turnEnds>>

Wakes(t) ==
    /\ callers[t].pc = "waiting" /\ callers[t].woken
    /\ GoTo(t, "start")
    /\ UNCHANGED <<nextGeneration, workers, bindings, lock, jobState, cancelled, turnEnds>>

\* PersistentWorker::send, under the accepting lock.
SendOrRetry(t) ==
    LET g == callers[t].worker IN
    /\ callers[t].pc = "send"
    /\ IF workers[g].accepting
       THEN /\ workers' = [workers EXCEPT ![g].queue = Append(@, t),
                                          ![g].pending = @ + 1]
            /\ GoTo(t, "sent")
       ELSE /\ callers' = [callers EXCEPT ![t].pc = "start", ![t].worker = NoOne]
            /\ UNCHANGED workers
    /\ UNCHANGED <<nextGeneration, bindings, lock, jobState, cancelled, turnEnds>>

--------------------
(* Cancellation, dropped callers, events and results *)

Cancel(t) ==
    /\ t \in Cancellable /\ ~cancelled[t]
    /\ callers[t].pc \notin {"answered", "failed", "dropped"}
    /\ cancelled' = [cancelled EXCEPT ![t] = TRUE]
    /\ UNCHANGED <<nextGeneration, workers, bindings, lock, callers, jobState, turnEnds>>

\* The select around pool.worker: the job was never sent.
CancelledWhileChoosing(t) ==
    /\ callers[t].pc \in {"start", "waiting"} /\ cancelled[t]
    /\ GoTo(t, "finalizing")
    /\ UNCHANGED <<nextGeneration, workers, bindings, lock, jobState, cancelled, turnEnds>>

\* Mutant: the caller does not win the job before it finalizes it.
CancelsWithoutCAS(t) ==
    /\ callers[t].pc = "sent" /\ cancelled[t] /\ callers[t].observing
    /\ jobState' = [jobState EXCEPT ![t] = "cancelled"]
    /\ GoTo(t, "finalizing")
    /\ UNCHANGED <<nextGeneration, workers, bindings, lock, cancelled, turnEnds>>

\* The select after send: a job still queued is the caller's to finalize, a
\* running one is the worker's.
ObservesCancellation(t) ==
    /\ callers[t].pc = "sent" /\ cancelled[t] /\ callers[t].observing
    /\ IF jobState[t] = "queued"
       THEN /\ jobState' = [jobState EXCEPT ![t] = "cancelled"]
            /\ GoTo(t, "finalizing")
       ELSE /\ callers' = [callers EXCEPT ![t].observing = FALSE]
            /\ UNCHANGED jobState
    /\ UNCHANGED <<nextGeneration, workers, bindings, lock, cancelled, turnEnds>>

\* finalize_cancelled_before_start runs turn_end for a Turn no worker ran.
FinalizeCancelled(t) ==
    /\ callers[t].pc = "finalizing"
    /\ turnEnds' = [turnEnds EXCEPT ![t] = @ + 1]
    /\ GoTo(t, "answered")
    /\ UNCHANGED <<nextGeneration, workers, bindings, lock, jobState, cancelled>>

\* CancelOnDrop, which finalize_cancelled_before_start has disarmed.
DropCaller(t) ==
    /\ t \in Droppable
    /\ callers[t].pc \in {"waiting", "sent", "finalizing"}
    /\ IF callers[t].pc = "finalizing" THEN UNCHANGED <<jobState, cancelled>>
       ELSE /\ jobState' = [jobState EXCEPT ![t] = IF @ = "queued" THEN "cancelled" ELSE @]
            /\ cancelled' = [cancelled EXCEPT ![t] = TRUE]
    /\ callers' = [callers EXCEPT ![t].pc = "dropped", ![t].event = "closed"]
    /\ UNCHANGED <<nextGeneration, workers, bindings, lock, turnEnds>>

\* The caller hands an event to its sink and acknowledges it.
AcknowledgeEvent(t) ==
    /\ callers[t].pc = "sent" /\ callers[t].event = "sent"
    /\ callers' = [callers EXCEPT ![t].event = "acknowledged"]
    /\ UNCHANGED <<nextGeneration, workers, bindings, lock, jobState, cancelled, turnEnds>>

--------------------
(* The worker thread *)

\* What a worker does for the pool when it is through with a job: the pending
\* count goes down, the waiting callers wake, the caller has its result.
Completed(g, t) ==
    callers' = LET cs == NotifyWaiters(callers)
               IN  [cs EXCEPT ![t].pc = IF @ = "sent" THEN "answered" ELSE @]

\* Mutant: a job cancelled in the queue keeps its place in the pending count.
SkipsWithoutCounting(g) ==
    LET t == Head(workers[g].queue) IN
    /\ workers[g].phase = "up" /\ workers[g].current = NoOne
    /\ workers[g].queue # <<>> /\ t # Shutdown
    /\ jobState[t] = "cancelled"
    /\ workers' = [workers EXCEPT ![g].queue = Tail(@)]
    /\ Completed(g, t)
    /\ UNCHANGED <<nextGeneration, bindings, lock, jobState, cancelled, turnEnds>>

TakeCancelledJob(g) ==
    LET t == Head(workers[g].queue) IN
    /\ workers[g].phase = "up" /\ workers[g].current = NoOne
    /\ workers[g].queue # <<>> /\ t # Shutdown
    /\ jobState[t] = "cancelled"
    /\ workers' = [workers EXCEPT ![g].queue = Tail(@), ![g].pending = @ - 1]
    /\ Completed(g, t)
    /\ UNCHANGED <<nextGeneration, bindings, lock, jobState, cancelled, turnEnds>>

TakeJob(g) ==
    LET t == Head(workers[g].queue) IN
    /\ workers[g].phase = "up" /\ workers[g].current = NoOne
    /\ workers[g].queue # <<>> /\ t # Shutdown
    /\ jobState[t] = "queued"
    /\ jobState' = [jobState EXCEPT ![t] = "running"]
    /\ workers' = [workers EXCEPT ![g].queue = Tail(@), ![g].current = t,
                                  ![g].live = TRUE]
    /\ UNCHANGED <<nextGeneration, bindings, lock, callers, cancelled, turnEnds>>

\* An event waits for the caller's acknowledgement; a dropped caller fails it.
\* Bound: one event per job.
EmitEvent(g) ==
    LET t == workers[g].current IN
    /\ t # NoOne /\ jobState[t] = "running"
    /\ callers[t].event = "none"
    /\ callers' = [callers EXCEPT ![t].event = "sent"]
    /\ UNCHANGED <<nextGeneration, workers, bindings, lock, jobState, cancelled, turnEnds>>

\* The execution ends, with its turn_end hooks; an error drops the process.
Execute(g) ==
    LET t == workers[g].current IN
    /\ t # NoOne /\ jobState[t] = "running" /\ callers[t].event # "sent"
    /\ jobState' = [jobState EXCEPT ![t] = "executed"]
    /\ turnEnds' = [turnEnds EXCEPT ![t] = @ + 1]
    /\ \E ok \in BOOLEAN : workers' = [workers EXCEPT ![g].live = ok]
    /\ UNCHANGED <<nextGeneration, bindings, lock, callers, cancelled>>

AnswerJob(g) ==
    LET t == workers[g].current IN
    /\ t # NoOne /\ jobState[t] = "executed"
    /\ workers' = [workers EXCEPT ![g].current = NoOne, ![g].pending = @ - 1]
    /\ Completed(g, t)
    /\ UNCHANGED <<nextGeneration, bindings, lock, jobState, cancelled, turnEnds>>

\* Mutant: the idle thread leaves without looking at its queue again.
LeavesWithoutLooking(g) ==
    /\ workers[g].phase = "up" /\ workers[g].current = NoOne
    /\ workers' = [workers EXCEPT ![g].accepting = FALSE, ![g].phase = "leaving"]
    /\ UNCHANGED <<nextGeneration, bindings, lock, callers, jobState, cancelled, turnEnds>>

\* recv_timeout ran out: under the accepting lock the queue is read again.
IdleTimeout(g) ==
    /\ workers[g].phase = "up" /\ workers[g].current = NoOne
    /\ workers[g].queue = <<>>
    /\ workers' = [workers EXCEPT ![g].accepting = FALSE, ![g].phase = "leaving"]
    /\ UNCHANGED <<nextGeneration, bindings, lock, callers, jobState, cancelled, turnEnds>>

TakeShutdown(g) ==
    /\ workers[g].phase = "up" /\ workers[g].current = NoOne
    /\ workers[g].queue # <<>> /\ Head(workers[g].queue) = Shutdown
    /\ workers' = [workers EXCEPT ![g].queue = Tail(@), ![g].phase = "leaving"]
    /\ UNCHANGED <<nextGeneration, bindings, lock, callers, jobState, cancelled, turnEnds>>

LeaveGroups(g) ==
    /\ workers[g].phase = "leaving" /\ lock = NoOne
    /\ workers' = [workers EXCEPT ![g].listed = FALSE, ![g].phase = "closing"]
    /\ bindings' = Unbound(g)
    /\ UNCHANGED <<nextGeneration, lock, callers, jobState, cancelled, turnEnds>>

CloseProcess(g) ==
    /\ workers[g].phase = "closing"
    /\ workers' = [workers EXCEPT ![g] = [Unborn EXCEPT !.phase = "gone"]]
    /\ callers' = NotifyWaiters(callers)
    /\ UNCHANGED <<nextGeneration, bindings, lock, jobState, cancelled, turnEnds>>

--------------------

CallerStep(t) ==
    \/ Register(t) \/ UseWorker(t) \/ Spawn(t) \/ SpawnFails(t)
    \/ PickIdle(t) \/ Evict(t) \/ WaitForCapacity(t) \/ Wakes(t)
    \/ SendOrRetry(t) \/ CancelledWhileChoosing(t) \/ ObservesCancellation(t)
    \/ FinalizeCancelled(t) \/ AcknowledgeEvent(t)

WorkerStep(g) ==
    \/ TakeCancelledJob(g) \/ TakeJob(g) \/ Execute(g) \/ AnswerJob(g)
    \/ TakeShutdown(g) \/ LeaveGroups(g) \/ CloseProcess(g)

Next ==
    \/ \E t \in Turns : CallerStep(t) \/ Cancel(t) \/ DropCaller(t)
    \/ \E g \in Generations : WorkerStep(g) \/ EmitEvent(g) \/ IdleTimeout(g)

\* Threads and polled futures run; a Harness may never cancel, drop, emit or
\* time out, so those are not assumed.
Fairness ==
    /\ \A t \in Turns : WF_vars(CallerStep(t))
    /\ \A g \in Generations : WF_vars(WorkerStep(g))

Spec == Init /\ [][Next]_vars /\ Fairness

--------------------
(* Properties *)

\* The type of the pool, its workers and its callers; the pending count that
\* decides which worker is idle is the number of its unfinished jobs.
TypeOK ==
    /\ nextGeneration \in 1..(MaxGenerations + 1)
    /\ bindings \in [Fingerprints \X SessionKeys -> Generations \cup {NoOne}]
    /\ lock \in Turns \cup {NoOne}
    /\ cancelled \in [Turns -> BOOLEAN]
    /\ \A t \in Turns :
          /\ callers[t].pc \in {"start", "try", "evict", "waiting", "send",
                "sent", "finalizing", "answered", "failed", "dropped"}
          /\ callers[t].worker \in Generations \cup {NoOne}
          /\ jobState[t] \in {"queued", "running", "executed", "cancelled"}
    /\ \A g \in Generations :
          /\ workers[g].phase \in {"none", "up", "leaving", "closing", "gone"}
          /\ workers[g].pending =
                Cardinality({t \in Turns : Contains(workers[g].queue, t)
                                           \/ workers[g].current = t})
          /\ ToSet(workers[g].queue) \subseteq Turns \cup {Shutdown}

Listed == {g \in Generations : workers[g].listed}

\* However callers interleave, the groups never hold more workers than the
\* total limit, nor more of one fingerprint than its own limit.
PoolLimits ==
    /\ Cardinality(Listed) <= MaxTotal
    /\ \A f \in Fingerprints :
          Cardinality({g \in Listed : workers[g].fingerprint = f}) <= MaxPerFingerprint

\* A job that a worker accepted is never left in the queue of a thread that
\* has gone: neither the idle timeout nor an eviction overtakes send.
AcceptedJobsAreServed ==
    \A g \in Generations : \A t \in Turns :
        Contains(workers[g].queue, t) => workers[g].phase = "up"

\* A Turn's turn_end hooks run at most once, by the worker that ran it or by
\* the caller that cancelled it before it started, and they have run when the
\* caller has its answer, except for a Turn its caller dropped.
TurnEndsOnce ==
    \A t \in Turns :
        /\ turnEnds[t] <= 1
        /\ callers[t].pc = "answered" => turnEnds[t] = 1

\* What the pool promises, whatever its callers and workers do.
PoolIsSound == TypeOK /\ PoolLimits /\ AcceptedJobsAreServed /\ TurnEndsOnce

\* Every Turn is answered: no caller waits for capacity that nobody will
\* announce, nor for a result nobody will send.  (Callers can evict each
\* other's worker between its spawn and its first job; the bound on
\* generations cuts that race off.)
EveryTurnIsAnswered ==
    \A t \in Turns :
        <>(callers[t].pc \in {"answered", "failed", "dropped"}
              \/ nextGeneration > MaxGenerations)

============================================================================
