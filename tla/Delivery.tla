------------------------------ MODULE Delivery ------------------------------
(***************************************************************************)
(* Delivery of client events: the tables client_events, client_consumers   *)
(* and client_subscriptions of the store, the long poll of the Hub and the *)
(* clients that poll and acknowledge (mews-store/src/delivery.rs,          *)
(* mews/src/server/active_turns.rs, mews-client/src/events.rs).            *)
(*                                                                         *)
(* Every store operation is one transaction.  The deletion of events that  *)
(* nobody needs any more (prune_client_events) follows in the same call    *)
(* and is part of the operation's action.  A client is one connection that *)
(* sends one request at a time; an acknowledgement may be sent twice and   *)
(* may arrive late, because the client library repeats it after a lost     *)
(* answer.                                                                 *)
(***************************************************************************)
EXTENDS Integers, FiniteSets, SequencesExt

CONSTANTS
  Sessions,    \* Sessions that emit events
  Consumers,   \* identities of event consumers
  Durable,     \* the consumers whose clients ask for a durable subscription
  MaxSeq,      \* bound on the number of events ever emitted
  Limit,       \* the largest number of events of one page
  None         \* no consumer row

\* A page holds an event, and the bound is a number.
ASSUME BoundsAssumption == MaxSeq \in Nat /\ Limit \in Nat \ {0}

\* Some of the consumers are durable.
ASSUME ConsumersAssumption == Durable \subseteq Consumers

VARIABLES
  events,      \* table client_events
  watermark,   \* sqlite_sequence of client_events, never decreases
  active,      \* active[s]: Session s has a Turn that is not completed
  consumer,    \* table client_consumers: a row per identity, or None
  subs,        \* table client_subscriptions: pairs of consumer and Session
  quiet,       \* events committed whose writer has not called notify_waiters
  poll,        \* the long poll of a consumer: its step and whether it was woken
  batch,       \* the page the client of a consumer holds, not yet acknowledged
  acks,        \* acknowledgements sent, as pairs of consumer and checkpoint
  owed,        \* owed[c]: events emitted for c since it subscribed
  received     \* received[c]: sequences of events handed to c's client

store == <<events, watermark, active, consumer, subs, quiet, owed>>
client == <<poll, batch, acks, received>>
vars == <<store, client>>

Kinds == {"durable", "ephemeral"}
Event == [seq : 1..MaxSeq, session : Sessions, transient : BOOLEAN]
Row == [cursor : 0..MaxSeq, kind : Kinds, fresh : BOOLEAN]
NoPage == [events |-> {}, checkpoint |-> 0]

\* The absence of a row is not a row.
ASSUME NoneAssumption == None \notin Row

TypeOK ==
  /\ events \subseteq Event
  /\ watermark \in 0..MaxSeq
  /\ active \in [Sessions -> BOOLEAN]
  /\ consumer \in [Consumers -> Row \cup {None}]
  /\ subs \subseteq Consumers \X Sessions
  /\ quiet \in BOOLEAN
  /\ poll \in [Consumers -> [at : {"idle", "armed", "waiting", "last"}, woken : BOOLEAN]]
  /\ batch \in [Consumers -> [events : SUBSET Event, checkpoint : 0..MaxSeq]]
  /\ acks \subseteq Consumers \X (0..MaxSeq)
  /\ owed \in [Consumers -> SUBSET Event]
  /\ received \in [Consumers -> SUBSET (1..MaxSeq)]

Init ==
  /\ events = {} /\ watermark = 0
  /\ active = [s \in Sessions |-> FALSE]
  /\ consumer = [c \in Consumers |-> None]
  /\ subs = {}
  /\ quiet = FALSE
  /\ poll = [c \in Consumers |-> [at |-> "idle", woken |-> FALSE]]
  /\ batch = [c \in Consumers |-> NoPage]
  /\ acks = {}
  /\ owed = [c \in Consumers |-> {}]
  /\ received = [c \in Consumers |-> {}]

--------------------
(* Pruning.                                                                *)

\* The consumers that subscribe to Session s, in the tables given.
Subscribers(rows, ss, s) == {c \in Consumers : rows[c] # None /\ <<c, s>> \in ss}

\* An ephemeral consumer whose lease has run out is deleted, and its
\* subscriptions with it (ON DELETE CASCADE).
LiveRows(rows) ==
  [c \in Consumers |->
     IF rows[c] # None /\ rows[c].kind = "ephemeral" /\ ~rows[c].fresh
       THEN None ELSE rows[c]]

\* A mutant: only the newest cursor counts.
NeededByTheFastest(rows, ss, e) ==
  LET all == Subscribers(rows, ss, e.session)
  IN  all # {} /\ \A c \in all : rows[c].cursor < e.seq

\* Event e is still needed.  Transient events wait for every subscriber; the
\* others for the durable subscribers if there are any, else for all of them.
Needed(rows, ss, e) ==
  LET all == Subscribers(rows, ss, e.session)
      durable == {c \in all : rows[c].kind = "durable"}
      readers == IF e.transient \/ durable = {} THEN all ELSE durable
  IN  \E c \in readers : rows[c].cursor < e.seq

\* prune_client_events applied to the tables a transaction has left behind.
Prune(evs, rows, ss) ==
  LET live == LiveRows(rows)
      kept == {p \in ss : live[p[1]] # None}
  IN  /\ consumer' = live
      /\ subs' = kept
      /\ events' = {e \in evs : Needed(live, kept, e)}

\* Nothing is owed to a consumer that is gone or no longer subscribed.
OwedAfter(o, rows, ss) ==
  [c \in Consumers |-> {e \in o[c] : rows[c] # None /\ <<c, e.session>> \in ss}]

--------------------
(* Writers.                                                                *)

\* What subscribers may count on: transient events, and the durable ones for
\* a durable subscriber.
OwedBy(e) ==
  [c \in Consumers |->
     IF /\ c \in Subscribers(consumer, subs, e.session)
        /\ e.transient \/ consumer[c].kind = "durable"
       THEN owed[c] \cup {e} ELSE owed[c]]

\* A mutant: the watermark itself is used again.
NextSequenceStale == watermark

\* A mutant: INTEGER PRIMARY KEY without AUTOINCREMENT.
NextSequenceAfterLargest ==
  IF events = {} THEN 1 ELSE 1 + CHOOSE n \in {e.seq : e \in events} :
                                   \A e \in events : e.seq <= n

\* AUTOINCREMENT: a sequence is never used again.
NextSequence == watermark + 1

Insert(s, transient) ==
  LET e == [seq |-> NextSequence, session |-> s, transient |-> transient]
  IN  /\ NextSequence <= MaxSeq
      /\ watermark' = IF NextSequence > watermark THEN NextSequence ELSE watermark
      /\ Prune(events \cup {e}, consumer, subs)
      /\ owed' = OwedAfter(OwedBy(e), consumer', subs')
      /\ quiet' = TRUE
      /\ UNCHANGED client

\* A durable event is appended by the transaction that changes the Session:
\* a Turn is accepted, an entry recorded, a Turn ended.
AppendDurableClientEvent(s, isActive) ==
  /\ active' = [active EXCEPT ![s] = isActive]
  /\ Insert(s, FALSE)

\* A delta of a running Turn; refused once the Turn is completed.
EmitRuntimeSignal(s) ==
  /\ active[s]
  /\ Insert(s, TRUE)
  /\ UNCHANGED active

\* The task that wrote wakes the long polls.
NotifyWaiters ==
  /\ quiet
  /\ quiet' = FALSE
  /\ poll' = [c \in Consumers |->
                IF poll[c].at = "idle" THEN poll[c] ELSE [poll[c] EXCEPT !.woken = TRUE]]
  /\ UNCHANGED <<events, watermark, active, consumer, subs, owed, batch, acks, received>>

\* Start-up deletes all transient events and ends the Turns that were running;
\* the Hub's polls and the answers on their way are gone.
RecoverInterruptedWork ==
  /\ events' = {e \in events : ~e.transient}
  /\ owed' = [c \in Consumers |-> {e \in owed[c] : ~e.transient}]
  /\ active' = [s \in Sessions |-> FALSE]
  /\ quiet' = FALSE
  /\ poll' = [c \in Consumers |-> [at |-> "idle", woken |-> FALSE]]
  /\ UNCHANGED <<watermark, consumer, subs, batch, acks, received>>

\* An ephemeral consumer has not been seen for 120 seconds.
LeaseRunsOut(c) ==
  /\ consumer[c] # None /\ consumer[c].fresh
  /\ consumer[c].kind = "ephemeral"
  /\ consumer' = [consumer EXCEPT ![c].fresh = FALSE]
  /\ UNCHANGED <<events, watermark, active, subs, quiet, owed, client>>

--------------------
(* Requests of a client.                                                   *)

ClientIdle(c) == poll[c].at = "idle" /\ batch[c] = NoPage

\* A Channel subscribes durably, an interactive client as an observer.
KindAsked(c) == IF c \in Durable THEN "durable" ELSE "ephemeral"

LargestSequence == IF events = {} THEN 0 ELSE Max({e.seq : e \in events})

\* A new consumer starts behind the newest event; a known one keeps its
\* cursor.  A consumer cannot change its kind.
SubscribeSession(c, s, kind) ==
  /\ ClientIdle(c)
  /\ consumer[c] # None => consumer[c].kind = kind
  /\ consumer' = [consumer EXCEPT ![c] =
       [cursor |-> IF @ = None THEN LargestSequence ELSE @.cursor,
        kind |-> kind, fresh |-> TRUE]]
  /\ subs' = subs \cup {<<c, s>>}
  /\ UNCHANGED <<events, watermark, active, quiet, owed, client>>

UnsubscribeSession(c, s) ==
  /\ ClientIdle(c) /\ <<c, s>> \in subs
  /\ Prune(events, consumer, subs \ {<<c, s>>})
  /\ owed' = OwedAfter(owed, consumer', subs')
  /\ UNCHANGED <<watermark, active, quiet, client>>

\* The acknowledgements of a deleted consumer find no row.
DeleteConsumer(c) ==
  /\ ClientIdle(c) /\ consumer[c] # None
  /\ Prune(events, [consumer EXCEPT ![c] = None], {p \in subs : p[1] # c})
  /\ owed' = OwedAfter(owed, consumer', subs')
  /\ acks' = {a \in acks : a[1] # c}
  /\ received' = [received EXCEPT ![c] = {}]
  /\ UNCHANGED <<watermark, active, quiet, poll, batch>>

--------------------
(* The long poll.                                                          *)

\* The events behind the cursor, in order.
Unread(c) == {e \in events : <<c, e.session>> \in subs /\ e.seq > consumer[c].cursor}

\* The pages the size limits allow: a prefix of the unread events, at least
\* one event if there is one.
Pages(c) ==
  LET unread == Unread(c)
      Prefix(n) == {e \in unread : Cardinality({x \in unread : x.seq <= e.seq}) <= n}
  IN  IF unread = {} THEN {{}} ELSE {Prefix(n) : n \in 1..Limit}

Checkpoint(c, page) == IF page = {} THEN consumer[c].cursor ELSE Max({e.seq : e \in page})

\* The waiter is registered before the tables are read.
PollEvents(c) ==
  /\ ClientIdle(c) /\ consumer[c] # None
  /\ poll' = [poll EXCEPT ![c] = [at |-> "armed", woken |-> FALSE]]
  /\ UNCHANGED <<store, batch, acks, received>>

Touch(c) == consumer' = [consumer EXCEPT ![c].fresh = TRUE]

\* client_events: a page is returned if it advances the cursor or the time is
\* over; otherwise the poll waits.
ReadEvents(c) ==
  /\ poll[c].at \in {"armed", "last"} /\ consumer[c] # None
  /\ Touch(c)
  /\ \E page \in Pages(c) :
       IF page # {} \/ poll[c].at = "last"
         THEN /\ batch' = [batch EXCEPT ![c] =
                             [events |-> page, checkpoint |-> Checkpoint(c, page)]]
              /\ received' = [received EXCEPT ![c] = @ \cup {e.seq : e \in page}]
              /\ poll' = [poll EXCEPT ![c] = [at |-> "idle", woken |-> FALSE]]
         ELSE /\ poll' = [poll EXCEPT ![c].at = "waiting"]
              /\ UNCHANGED <<batch, received>>
  /\ UNCHANGED <<events, watermark, active, subs, quiet, owed, acks>>

\* The consumer was deleted by a lease that ran out: the poll is an error.
PollFails(c) ==
  /\ poll[c].at # "idle" /\ consumer[c] = None
  /\ poll' = [poll EXCEPT ![c] = [at |-> "idle", woken |-> FALSE]]
  /\ UNCHANGED <<store, batch, acks, received>>

\* A mutant: the wake-up comes before the waiter is registered and is lost.
PollWakesOrMisses(c) ==
  /\ poll[c].at = "waiting" /\ poll[c].woken
  /\ \E at \in {"armed", "waiting"} :
       poll' = [poll EXCEPT ![c] = [at |-> at, woken |-> FALSE]]
  /\ UNCHANGED <<store, batch, acks, received>>

PollWakes(c) ==
  /\ poll[c].at = "waiting" /\ poll[c].woken
  /\ poll' = [poll EXCEPT ![c] = [at |-> "armed", woken |-> FALSE]]
  /\ UNCHANGED <<store, batch, acks, received>>

PollTimesOut(c) ==
  /\ poll[c].at = "waiting"
  /\ poll' = [poll EXCEPT ![c] = [at |-> "last", woken |-> FALSE]]
  /\ UNCHANGED <<store, batch, acks, received>>

\* The client sends the page's checkpoint, unless the page did not advance.
SendAcknowledgement(c) ==
  /\ batch[c] # NoPage
  /\ acks' = acks \cup IF batch[c].events = {} THEN {} ELSE {<<c, batch[c].checkpoint>>}
  /\ batch' = [batch EXCEPT ![c] = NoPage]
  /\ UNCHANGED <<store, poll, received>>

\* The client stops while it holds a page: it will be read again.
ClientRestarts(c) ==
  /\ batch' = [batch EXCEPT ![c] = NoPage]
  /\ poll' = [poll EXCEPT ![c] = [at |-> "idle", woken |-> FALSE]]
  /\ <<batch', poll'>> # <<batch, poll>>
  /\ UNCHANGED <<store, acks, received>>

\* A mutant: the last acknowledgement wins.
CursorAsSent(cursor, checkpoint) == checkpoint

\* The cursor only moves forward, whichever acknowledgement arrives last.
NewCursor(cursor, checkpoint) == IF checkpoint > cursor THEN checkpoint ELSE cursor

\* Acknowledgements stay in acks: each may arrive again.
AcknowledgeEvents(a) ==
  LET c == a[1] IN
  /\ a \in acks /\ a[2] <= watermark /\ consumer[c] # None
  /\ Prune(events,
           [consumer EXCEPT ![c].cursor = NewCursor(@, a[2]), ![c].fresh = TRUE],
           subs)
  /\ owed' = OwedAfter(owed, consumer', subs')
  /\ UNCHANGED <<watermark, active, quiet, client>>

Next ==
  \/ \E s \in Sessions, isActive \in BOOLEAN : AppendDurableClientEvent(s, isActive)
  \/ \E s \in Sessions : EmitRuntimeSignal(s)
  \/ NotifyWaiters
  \/ RecoverInterruptedWork
  \/ \E c \in Consumers :
       \/ LeaseRunsOut(c)
       \/ \E s \in Sessions : SubscribeSession(c, s, KindAsked(c))
       \/ \E s \in Sessions : UnsubscribeSession(c, s)
       \/ DeleteConsumer(c)
       \/ PollEvents(c) \/ ReadEvents(c) \/ PollFails(c)
       \/ PollWakes(c) \/ PollTimesOut(c)
       \/ SendAcknowledgement(c) \/ ClientRestarts(c)
  \/ \E a \in acks : AcknowledgeEvents(a)

Spec == Init /\ [][Next]_vars

--------------------
(* Properties.                                                             *)

\* An event emitted for a subscriber stays in the table until that subscriber
\* has acknowledged it: pruning (prune_client_events), repeated and late
\* acknowledgements and other consumers' progress never remove it.
RetainedUntilAcknowledged ==
  \A c \in Consumers : \A e \in owed[c] : e.seq > consumer[c].cursor => e \in events

\* A cursor never passes an event its client was not given (client_events,
\* acknowledge_events), so that a page limit or a reused sequence cannot make a
\* consumer skip an event.
NothingIsSkipped ==
  \A c \in Consumers : \A e \in owed[c] : e.seq <= consumer[c].cursor => e.seq \in received[c]

\* A poll that sleeps although it could return a page will be woken: the
\* writer has yet to call notify_waiters (poll_events enables its waiter
\* before it reads).
NoLostWakeup ==
  \A c \in Consumers :
    poll[c].at = "waiting" /\ consumer[c] # None /\ Unread(c) # {}
      => poll[c].woken \/ quiet

\* An event emitted for a subscriber stays until that subscriber has acknowledged it,
\* no cursor passes an event its client was not given, and a poll that sleeps although
\* it could answer will be woken, whatever pruning, repeated and late acknowledgements
\* and other consumers do.
EventsReachTheirConsumers ==
  TypeOK /\ RetainedUntilAcknowledged /\ NothingIsSkipped /\ NoLostWakeup
=============================================================================
