--------------------------- MODULE ChannelRuntime ---------------------------
(***************************************************************************)
(* A standalone Channel process (mews-channel/src/runtime.rs, mapping.rs): *)
(* messages of an external platform become Turns of Sessions, one at a     *)
(* time for each conversation.  The mapping store survives the process;    *)
(* the Hub is modelled by what the Channel asks of it: an idempotent       *)
(* start of a Turn, a cursor over events, and whether a Session is busy.   *)
(***************************************************************************)
EXTENDS Naturals, Sequences, FiniteSets, SequencesExt

CONSTANTS
    Messages,       \* external messages
    Convs,          \* conversations
    Of,             \* Message -> Conv
    Invalid,        \* messages the protocol does not accept
    None,
    MaxCrashes,     \* how often the process stops on its own
    MaxRepeats,     \* how often the platform repeats what it was acknowledged
    MaxForeign      \* Turns other clients start in the same Sessions

\* What the constants must satisfy; every instance assumes it.
ChannelAssumption ==
    /\ Of \in [Messages -> Convs] /\ Invalid \subseteq Messages /\ None \notin Messages \cup Convs
    /\ {MaxCrashes, MaxRepeats, MaxForeign} \subseteq Nat

VARIABLES
    store,          \* channel.db: mappings, pending messages, active Turns
    proc,           \* the process: where it is and what it holds
    hub,            \* Turns by key, busy Sessions, subscriptions, events, checkpoint
    platform,       \* messages not acknowledged, answers received
    budget,
    history         \* messages in the order they were stored and started

vars == <<store, proc, hub, platform, budget, history>>

At(pc) == proc.pc = pc
Goto(pc) == proc' = [proc EXCEPT !.pc = pc]

Init ==
    /\ store = [mapped |-> {}, pending |-> <<>>, active |-> [c \in Convs |-> None]]
    /\ proc = [pc |-> "down", conv |-> None, msg |-> None, back |-> "select",
               batch |-> <<>>, todo |-> {}]
    /\ hub = [turn |-> [m \in Messages |-> "none"], foreign |-> {}, subscribed |-> {},
              events |-> <<>>, checkpoint |-> 0]
    /\ platform = [unacked |-> Messages, answers |-> <<>>]
    /\ budget = [crash |-> MaxCrashes, repeat |-> MaxRepeats, foreign |-> MaxForeign]
    /\ history = [stored |-> <<>>, started |-> <<>>]

--------------------
(* Opening: subscribe again, settle the Turns that ended meanwhile, launch *)

Open ==
    /\ At("down")
    /\ proc' = [proc EXCEPT !.pc = "subscribing", !.todo = store.mapped, !.batch = <<>>]
    /\ UNCHANGED <<store, hub, platform, budget, history>>

OpenSubscribe ==
    /\ At("subscribing")
    /\ hub' = [hub EXCEPT !.subscribed = @ \cup store.mapped]
    /\ proc' = [proc EXCEPT !.pc = "recovering",
                            !.todo = {c \in Convs : store.active[c] # None}]
    /\ UNCHANGED <<store, platform, budget, history>>

\* Mutant: a Turn that ended while the process was down is not settled.
SkipRecovery ==
    /\ At("recovering")
    /\ proc' = [proc EXCEPT !.pc = "launching", !.todo = store.mapped]
    /\ UNCHANGED <<store, hub, platform, budget, history>>

\* get_turn, and finish_turn for a Turn whose terminal event may be consumed.
Recover ==
    /\ At("recovering")
    /\ \/ /\ proc.todo = {}
          /\ proc' = [proc EXCEPT !.pc = "launching", !.todo = store.mapped]
          /\ UNCHANGED store
       \/ \E c \in proc.todo :
            IF store.active[c] # None /\ hub.turn[store.active[c]] = "done"
            THEN /\ store' = [store EXCEPT !.active[c] = None]
                 /\ proc' = [proc EXCEPT !.pc = "launch", !.conv = c, !.back = "recovering",
                                         !.todo = @ \ {c}]
            ELSE /\ proc' = [proc EXCEPT !.todo = @ \ {c}]
                 /\ UNCHANGED store
    /\ UNCHANGED <<hub, platform, budget, history>>

\* Mutant: opening waits for the next inbound message.
LaunchesNone ==
    /\ At("launching") /\ Goto("select")
    /\ UNCHANGED <<store, hub, platform, budget, history>>

LaunchAll ==
    /\ At("launching")
    /\ \/ proc.todo = {} /\ Goto("select")
       \/ \E c \in proc.todo :
            proc' = [proc EXCEPT !.pc = "launch", !.conv = c, !.back = "launching", !.todo = @ \ {c}]
    /\ UNCHANGED <<store, hub, platform, budget, history>>

--------------------
(* launch_next: from pc "launch", then on to proc.back *)

OfConversation(c) == {i \in DOMAIN store.pending : Of[store.pending[i]] = c}

\* Mutant: the newest message first.
WaitingNewest(c) == {i \in OfConversation(c) : \A k \in OfConversation(c) : k <= i}

\* next: the row of the oldest pending message of the conversation, if it has one.
Waiting(c) == {i \in OfConversation(c) : \A k \in OfConversation(c) : i <= k}

LaunchNothing ==
    /\ At("launch")
    /\ store.active[proc.conv] # None \/ Waiting(proc.conv) = {}
    /\ Goto(proc.back)
    /\ UNCHANGED <<store, hub, platform, budget, history>>

\* start_turn_idempotent: the Turn of this key if there is one, else a new one
\* unless the Session is busy, which ends the process.
StartTurn ==
    LET c == proc.conv
        busy == c \in hub.foreign \/ \E n \in Messages : Of[n] = c /\ hub.turn[n] = "running"
    IN /\ At("launch") /\ store.active[c] = None
       /\ \E i \in Waiting(c) :
          LET m == store.pending[i] IN
          \/ /\ hub.turn[m] # "none"
             /\ proc' = [proc EXCEPT !.pc = hub.turn[m], !.msg = m]
             /\ UNCHANGED <<hub, history>>
          \/ /\ hub.turn[m] = "none" /\ ~busy
             /\ hub' = [hub EXCEPT !.turn[m] = "running"]
             /\ history' = [history EXCEPT !.started = Append(@, m)]
             /\ proc' = [proc EXCEPT !.pc = "running", !.msg = m]
          \/ /\ hub.turn[m] = "none" /\ busy
             /\ Goto("down")
             /\ UNCHANGED <<hub, history>>
       /\ UNCHANGED <<store, platform, budget>>

\* DELETE FROM pending: the row that was launched.
Deleted(i) == RemoveAt(store.pending, i)

\* Mutant: any Turn the Hub returns is waited for.
WaitsForAnyTurn ==
    /\ proc.pc \in {"running", "done"}
    /\ \E i \in DOMAIN store.pending :
        /\ store.pending[i] = proc.msg
        /\ store' = [store EXCEPT !.pending = Deleted(i), !.active[proc.conv] = proc.msg]
    /\ Goto(proc.back)
    /\ UNCHANGED <<hub, platform, budget, history>>

\* mark_started: one transaction.
MarkStarted ==
    /\ At("running")
    /\ \E i \in DOMAIN store.pending :
        /\ store.pending[i] = proc.msg
        /\ store' = [store EXCEPT !.pending = Deleted(i), !.active[proc.conv] = proc.msg]
    /\ Goto(proc.back)
    /\ UNCHANGED <<hub, platform, budget, history>>

\* discard_pending: the Hub returned the finished Turn of a repeated message.
DiscardPending ==
    /\ At("done")
    /\ \E i \in DOMAIN store.pending :
        store.pending[i] = proc.msg /\ store' = [store EXCEPT !.pending = Deleted(i)]
    /\ Goto("launch")
    /\ UNCHANGED <<hub, platform, budget, history>>

--------------------
(* run_until: one select over inbound messages and event batches *)

\* Mutant: the platform's message is acknowledged before it is stored.
AcksFirst(m) ==
    /\ At("select")
    /\ \/ m \in platform.unacked /\ UNCHANGED budget
       \/ m \notin platform.unacked /\ budget.repeat > 0
          /\ budget' = [budget EXCEPT !.repeat = @ - 1]
    /\ proc' = [proc EXCEPT !.msg = m, !.conv = Of[m],
                            !.pc = IF m \in Invalid THEN "reject"
                                   ELSE IF Of[m] \in store.mapped THEN "enqueue" ELSE "map"]
    /\ platform' = [platform EXCEPT !.unacked = @ \ {m}]
    /\ UNCHANGED <<store, hub, history>>

\* A message of the platform, repeated until it is acknowledged and perhaps later.
Receive(m) ==
    /\ At("select")
    /\ \/ m \in platform.unacked /\ UNCHANGED budget
       \/ m \notin platform.unacked /\ budget.repeat > 0
          /\ budget' = [budget EXCEPT !.repeat = @ - 1]
    /\ proc' = [proc EXCEPT !.msg = m, !.conv = Of[m],
                            !.pc = IF m \in Invalid THEN "reject"
                                   ELSE IF Of[m] \in store.mapped THEN "enqueue" ELSE "map"]
    /\ UNCHANGED <<store, hub, platform, history>>

Reject ==
    /\ At("reject")
    /\ platform' = [platform EXCEPT !.unacked = @ \ {proc.msg}]
    /\ Goto("select")
    /\ UNCHANGED <<store, hub, budget, history>>

\* start_session and then the mapping; a Session without one is left behind.
InsertMapping ==
    /\ At("map")
    /\ store' = [store EXCEPT !.mapped = @ \cup {proc.conv}]
    /\ Goto("subscribe")
    /\ UNCHANGED <<hub, platform, budget, history>>

Subscribe ==
    /\ At("subscribe")
    /\ hub' = [hub EXCEPT !.subscribed = @ \cup {proc.conv}]
    /\ Goto("enqueue")
    /\ UNCHANGED <<store, platform, budget, history>>

\* Mutant: a repeated message is stored again.
EnqueuesAgain ==
    /\ At("enqueue")
    /\ store' = [store EXCEPT !.pending = Append(@, proc.msg)]
    /\ history' = [history EXCEPT !.stored = IF Contains(@, proc.msg) THEN @ ELSE Append(@, proc.msg)]
    /\ Goto("ack")
    /\ UNCHANGED <<hub, platform, budget>>

\* INSERT OR IGNORE: once while it is pending.
Enqueue ==
    /\ At("enqueue")
    /\ store' = [store EXCEPT !.pending = IF Contains(@, proc.msg) THEN @ ELSE Append(@, proc.msg)]
    /\ history' = [history EXCEPT !.stored = IF Contains(@, proc.msg) THEN @ ELSE Append(@, proc.msg)]
    /\ Goto("ack")
    /\ UNCHANGED <<hub, platform, budget>>

AcknowledgeInbound ==
    /\ At("ack")
    /\ platform' = [platform EXCEPT !.unacked = @ \ {proc.msg}]
    /\ proc' = [proc EXCEPT !.pc = "launch", !.back = "select"]
    /\ UNCHANGED <<store, hub, budget, history>>

PollEvents ==
    /\ At("select") /\ hub.checkpoint < Len(hub.events)
    /\ proc' = [proc EXCEPT !.pc = "acknowledge",
                   !.batch = SubSeq(hub.events, hub.checkpoint + 1, Len(hub.events))]
    /\ UNCHANGED <<store, hub, platform, budget, history>>

\* Mutant: the batch is acknowledged only after it was handled.
HandlesFirst ==
    /\ At("acknowledge")
    /\ Goto("batch")
    /\ hub' = IF \E e \in Range(proc.batch) : e.kind = "answer" THEN hub
              ELSE [hub EXCEPT !.checkpoint = @ + Len(proc.batch)]
    /\ UNCHANGED <<store, platform, budget, history>>

\* The batch is acknowledged before anything of it is handled.
AcknowledgeBatch ==
    /\ At("acknowledge")
    /\ hub' = [hub EXCEPT !.checkpoint = @ + Len(proc.batch)]
    /\ Goto("batch")
    /\ UNCHANGED <<store, platform, budget, history>>

\* handle_event: an answer goes to the dispatcher; a terminal event ends the active
\* Turn and launches the next message. Events of other clients do neither.
HandleEvent ==
    /\ At("batch")
    /\ IF proc.batch = <<>>
       THEN Goto("select") /\ UNCHANGED <<store, platform>>
       ELSE LET e == Head(proc.batch)
                ends == e.kind = "end" /\ \E c \in Convs : store.active[c] = e.msg
            IN /\ platform' = IF e.kind = "answer" THEN [platform EXCEPT !.answers = Append(@, e.msg)]
                              ELSE platform
               /\ store' = IF ends THEN [store EXCEPT !.active[Of[e.msg]] = None] ELSE store
               /\ proc' = [proc EXCEPT !.batch = Tail(@), !.back = "batch",
                                       !.conv = IF ends THEN Of[e.msg] ELSE @,
                                       !.pc = IF ends THEN "launch" ELSE "batch"]
    /\ UNCHANGED <<hub, budget, history>>

--------------------
(* The Hub and the outside world *)

\* A Turn ends: its answer, if it has one, and its terminal event.
TurnEnds(m) ==
    /\ hub.turn[m] = "running"
    /\ \E answers \in BOOLEAN :
        hub' = [hub EXCEPT !.turn[m] = "done",
                   !.events = IF Of[m] \notin hub.subscribed THEN @
                              ELSE @ \o (IF answers THEN <<[kind |-> "answer", msg |-> m]>> ELSE <<>>)
                                     \o <<[kind |-> "end", msg |-> m]>>]
    /\ UNCHANGED <<store, proc, platform, budget, history>>

ForeignStarts(c) ==
    /\ c \in store.mapped /\ c \notin hub.foreign /\ budget.foreign > 0
    /\ \A m \in Messages : Of[m] = c => hub.turn[m] # "running"
    /\ hub' = [hub EXCEPT !.foreign = @ \cup {c}]
    /\ budget' = [budget EXCEPT !.foreign = @ - 1]
    /\ UNCHANGED <<store, proc, platform, history>>

ForeignEnds(c) ==
    /\ c \in hub.foreign
    /\ hub' = [hub EXCEPT !.foreign = @ \ {c},
                          !.events = Append(@, [kind |-> "other", msg |-> None])]
    /\ UNCHANGED <<store, proc, platform, budget, history>>

Crash ==
    /\ ~At("down") /\ budget.crash > 0
    /\ budget' = [budget EXCEPT !.crash = @ - 1]
    /\ Goto("down")
    /\ UNCHANGED <<store, hub, platform, history>>

--------------------

Step ==
    \/ Open \/ OpenSubscribe \/ Recover \/ LaunchAll
    \/ LaunchNothing \/ StartTurn \/ MarkStarted \/ DiscardPending
    \/ Reject \/ InsertMapping \/ Subscribe \/ Enqueue \/ AcknowledgeInbound
    \/ PollEvents \/ AcknowledgeBatch \/ HandleEvent
    \/ \E m \in Messages : Receive(m)

Next ==
    \/ Step \/ Crash
    \/ \E m \in Messages : TurnEnds(m)
    \/ \E c \in Convs : ForeignStarts(c) \/ ForeignEnds(c)

\* The process is started again and runs; both branches of its select are taken;
\* Turns end.
Fairness ==
    /\ WF_vars(Step) /\ SF_vars(PollEvents)
    /\ \A m \in Messages : SF_vars(m \in platform.unacked /\ Receive(m)) /\ WF_vars(TurnEnds(m))
    /\ \A c \in Convs : WF_vars(ForeignEnds(c))

Spec == Init /\ [][Next]_vars /\ Fairness

--------------------
(* Properties *)

\* The type of the state.
TypeOK ==
    /\ store.mapped \subseteq Convs /\ Range(store.pending) \subseteq Messages \ Invalid
    /\ IsInjective(store.pending)
    /\ \A c \in Convs : store.active[c] = None \/ Of[store.active[c]] = c
    /\ hub.checkpoint \in 0..Len(hub.events)
    /\ platform.unacked \subseteq Messages

\* When the process waits in its select, every active Turn is running or its
\* terminal event is still ahead: it never waits for an event it has consumed.
WaitsForWhatComes ==
    At("select") => \A c \in Convs :
        LET m == store.active[c] IN
        m # None /\ hub.turn[m] = "done" =>
            \E i \in (hub.checkpoint + 1)..Len(hub.events) : hub.events[i] = [kind |-> "end", msg |-> m]

\* When the process waits in its select, a pending message waits for a Turn of its
\* conversation and for nothing else.
PendingHasAReason ==
    At("select") => \A i \in DOMAIN store.pending : store.active[Of[store.pending[i]]] # None

\* An answer crosses to the platform at most once, whatever crashes.
AnswersCrossOnce == IsInjective(platform.answers)

\* The messages of a conversation become Turns once each and in the order in which
\* they were first stored: none before one that was stored earlier.
TurnsInOrder ==
    /\ IsInjective(history.started)
    /\ \A i \in DOMAIN history.started : \E k \in DOMAIN history.stored :
         /\ history.stored[k] = history.started[i]
         /\ \A l \in 1..(k - 1) : Of[history.stored[l]] = Of[history.stored[k]] =>
              \E j \in 1..(i - 1) : history.started[j] = history.stored[l]

\* Every valid message of the platform becomes a Turn that ends, and the Channel
\* comes to rest with nothing pending.
EveryMessageIsServed ==
    /\ \A m \in Messages \ Invalid : <>(hub.turn[m] = "done")
    /\ <>[](store.pending = <<>> /\ \A c \in Convs : store.active[c] = None)

============================================================================
