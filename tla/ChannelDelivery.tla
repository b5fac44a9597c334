-------------------------- MODULE ChannelDelivery --------------------------
(***************************************************************************)
(* The outbound half of a Channel (mews-channel/src/runtime.rs             *)
(* delivery_dispatcher): one task that keeps a lane for each destination,  *)
(* runs a bounded number of platform calls, and sets aside what the        *)
(* platform wants repeated later.  A delivery is a pair of a destination   *)
(* and its place among that destination's deliveries.                      *)
(***************************************************************************)
EXTENDS Naturals, Sequences, FiniteSets, SequencesExt

CONSTANTS
    Dests,          \* destinations
    Load,           \* Dest -> deliveries the producers submit for it
    Workers,        \* delivery_workers
    Pending,        \* pending_deliveries
    MaxRetries      \* how often the platform asks for a repetition

\* What the constants must satisfy; every instance assumes it.
DeliveryAssumption ==
    /\ Load \in [Dests -> Nat] /\ Workers \in Nat \ {0} /\ MaxRetries \in Nat
    /\ Pending \in Nat /\ Pending >= Workers

VARIABLES
    submitted,      \* Dest -> deliveries submitted
    permits,        \* delivery_capacity
    incoming,       \* the channel to the dispatcher
    closed,         \* every sender is gone
    listening,      \* incoming_open: the dispatcher has not seen that
    pc,             \* "top" of the loop, "select", or "returned"
    lanes,          \* Dest -> deliveries waiting
    ready,          \* destinations to look at
    active,         \* destinations with a delivery running or set aside
    sends,          \* platform calls
    delayed,        \* deliveries set aside
    settled,        \* Dest -> deliveries with a terminal outcome
    retries

vars == <<submitted, permits, incoming, closed, listening, pc, lanes, ready, active, sends,
          delayed, settled, retries>>
producers == <<submitted, closed, listening>>

Init ==
    /\ submitted = [d \in Dests |-> 0] /\ permits = Pending
    /\ incoming = <<>> /\ closed = FALSE /\ listening = TRUE /\ pc = "top"
    /\ lanes = [d \in Dests |-> <<>>] /\ ready = <<>> /\ active = {}
    /\ sends = {} /\ delayed = {}
    /\ settled = [d \in Dests |-> <<>>] /\ retries = MaxRetries

Outstanding == sends # {} \/ delayed # {} \/ \E d \in Dests : lanes[d] # <<>>

--------------------
(* handle_event and ChannelHandle::broadcast: a permit, then the channel *)

Submit(d) ==
    /\ ~closed /\ permits > 0 /\ submitted[d] < Load[d] /\ pc # "returned"
    /\ permits' = permits - 1
    /\ submitted' = [submitted EXCEPT ![d] = @ + 1]
    /\ incoming' = Append(incoming, [dest |-> d, n |-> submitted[d] + 1])
    /\ UNCHANGED <<closed, listening, pc, lanes, ready, active, sends, delayed, settled, retries>>

Close ==
    /\ ~closed /\ \A d \in Dests : submitted[d] = Load[d]
    /\ closed' = TRUE
    /\ UNCHANGED <<submitted, listening, permits, incoming, pc, lanes, ready, active, sends, delayed,
                   settled, retries>>

--------------------
(* The top of the loop *)

\* Mutant: a repeated delivery goes to the end of its lane.
RetriesLast(x) ==
    /\ pc \in {"top", "select"} /\ x \in delayed
    /\ pc' = "top"
    /\ delayed' = delayed \ {x}
    /\ active' = active \ {x.dest}
    /\ ready' = Append(ready, x.dest)
    /\ lanes' = [lanes EXCEPT ![x.dest] = Append(@, x)]
    /\ UNCHANGED <<producers, permits, incoming, sends, settled, retries>>

\* A delivery whose delay is over, which also wakes the select, goes to the front of its lane.
Due(x) ==
    /\ pc \in {"top", "select"} /\ x \in delayed
    /\ pc' = "top"
    /\ delayed' = delayed \ {x}
    /\ active' = active \ {x.dest}
    /\ ready' = Append(ready, x.dest)
    /\ lanes' = [lanes EXCEPT ![x.dest] = <<x>> \o @]
    /\ UNCHANGED <<producers, permits, incoming, sends, settled, retries>>

\* Mutant: a destination that is being served is served again.
StartsTwice ==
    /\ pc = "top" /\ Cardinality(sends) < Workers /\ ready # <<>>
    /\ LET d == Head(ready) IN
       IF lanes[d] = <<>>
       THEN UNCHANGED <<lanes, active, sends>>
       ELSE /\ sends' = sends \cup {Head(lanes[d])}
            /\ lanes' = [lanes EXCEPT ![d] = Tail(@)]
            /\ active' = active
    /\ ready' = Tail(ready)
    /\ UNCHANGED <<producers, permits, incoming, pc, delayed, settled, retries>>

\* One ready destination: its first delivery, unless one is running or set aside.
StartSend ==
    /\ pc = "top" /\ Cardinality(sends) < Workers /\ ready # <<>>
    /\ LET d == Head(ready) IN
       IF d \in active \/ lanes[d] = <<>>
       THEN UNCHANGED <<lanes, active, sends>>
       ELSE /\ sends' = sends \cup {Head(lanes[d])}
            /\ lanes' = [lanes EXCEPT ![d] = Tail(@)]
            /\ active' = active \cup {d}
    /\ ready' = Tail(ready)
    /\ UNCHANGED <<producers, permits, incoming, pc, delayed, settled, retries>>

Select ==
    /\ pc = "top" /\ (Cardinality(sends) = Workers \/ ready = <<>>)
    /\ pc' = "select"
    /\ UNCHANGED <<producers, permits, incoming, lanes, ready, active, sends, delayed, settled, retries>>

--------------------
(* The select; the task returns if its input is closed and nothing is left *)

Left(s, dl, ls) == s = {} /\ dl = {} /\ \A d \in Dests : ls[d] = <<>>

\* Mutant: the lane of a settled delivery is not looked at again.
SettlesAndForgets(x) ==
    LET d == x.dest IN
    /\ pc = "select" /\ x \in sends
    /\ sends' = sends \ {x}
    /\ settled' = [settled EXCEPT ![d] = Append(@, x.n)]
    /\ active' = active \ {d}
    /\ permits' = permits + 1
    /\ pc' = IF ~listening /\ Left(sends', delayed, lanes) THEN "returned" ELSE "top"
    /\ UNCHANGED <<producers, incoming, lanes, ready, delayed, retries>>

\* Mutant: the task never looks whether it is done.
SettlesOn(x) ==
    LET d == x.dest IN
    /\ pc = "select" /\ x \in sends
    /\ sends' = sends \ {x}
    /\ settled' = [settled EXCEPT ![d] = Append(@, x.n)]
    /\ active' = active \ {d}
    /\ ready' = IF lanes[d] # <<>> THEN Append(ready, d) ELSE ready
    /\ permits' = permits + 1
    /\ pc' = "top"
    /\ UNCHANGED <<producers, incoming, lanes, delayed, retries>>

\* Delivered or Dropped: the lane goes on.
Settle(x) ==
    LET d == x.dest IN
    /\ pc = "select" /\ x \in sends
    /\ sends' = sends \ {x}
    /\ settled' = [settled EXCEPT ![d] = Append(@, x.n)]
    /\ active' = active \ {d}
    /\ ready' = IF lanes[d] # <<>> THEN Append(ready, d) ELSE ready
    /\ permits' = permits + 1
    /\ pc' = IF ~listening /\ Left(sends', delayed, lanes) THEN "returned" ELSE "top"
    /\ UNCHANGED <<producers, incoming, lanes, delayed, retries>>

\* Mutant: a delivery that is set aside gives its permit back.
RetryReleases(x) ==
    /\ pc = "select" /\ x \in sends /\ retries > 0
    /\ retries' = retries - 1
    /\ sends' = sends \ {x}
    /\ delayed' = delayed \cup {x}
    /\ permits' = permits + 1
    /\ pc' = "top"
    /\ UNCHANGED <<producers, incoming, lanes, ready, active, settled>>

\* RetryAfter: the destination stays active, the worker is free, the permit is kept.
Retry(x) ==
    /\ pc = "select" /\ x \in sends /\ retries > 0
    /\ retries' = retries - 1
    /\ sends' = sends \ {x}
    /\ delayed' = delayed \cup {x}
    /\ pc' = "top"
    /\ UNCHANGED <<producers, permits, incoming, lanes, ready, active, settled>>

\* Mutant: the lane of a new delivery becomes ready only if no other is.
AcceptsQuietly ==
    /\ pc = "select" /\ incoming # <<>>
    /\ LET x == Head(incoming) IN
       /\ lanes' = [lanes EXCEPT ![x.dest] = Append(@, x)]
       /\ ready' = IF x.dest \notin active /\ ready = <<>> /\ sends = {} THEN Append(ready, x.dest) ELSE ready
    /\ incoming' = Tail(incoming)
    /\ pc' = "top"
    /\ UNCHANGED <<producers, permits, active, sends, delayed, settled, retries>>

\* A new delivery; its lane becomes ready if it was empty and nothing of it runs.
Accept ==
    /\ pc = "select" /\ incoming # <<>>
    /\ LET x == Head(incoming) IN
       /\ lanes' = [lanes EXCEPT ![x.dest] = Append(@, x)]
       /\ ready' = IF x.dest \notin active /\ lanes[x.dest] = <<>> THEN Append(ready, x.dest) ELSE ready
    /\ incoming' = Tail(incoming)
    /\ pc' = "top"
    /\ UNCHANGED <<producers, permits, active, sends, delayed, settled, retries>>

\* The channel is closed: the task goes on without looking whether anything is left.
NoticeClosed ==
    /\ pc = "select" /\ listening /\ closed /\ incoming = <<>>
    /\ listening' = FALSE
    /\ pc' = "top"
    /\ UNCHANGED <<submitted, closed, permits, incoming, lanes, ready, active, sends, delayed,
                   settled, retries>>

--------------------

Dispatch ==
    \/ StartSend \/ Select \/ Accept \/ NoticeClosed
    \/ \E x \in delayed : Due(x)
    \/ \E x \in sends : Settle(x) \/ Retry(x)

Next == (\E d \in Dests : Submit(d)) \/ Close \/ Dispatch

\* The dispatcher runs, platform calls return, delays are over, producers go on.
\* Nothing can happen for ever without progress, so one condition for each is enough.
Fairness ==
    WF_vars(Dispatch) /\ WF_vars(Close) /\ WF_vars(\E d \in Dests : Submit(d))

Spec == Init /\ [][Next]_vars /\ Fairness

--------------------
(* Properties *)

\* Types, the worker limit, and the account of the permits: queued, running and
\* delayed deliveries together are never more than pending_deliveries.
TypeOK ==
    /\ pc \in {"top", "select", "returned"} /\ active \subseteq Dests
    /\ Range(ready) \subseteq Dests
    /\ Cardinality(sends) <= Workers
    /\ Cardinality(sends \cup delayed \cup Range(incoming) \cup UNION {Range(lanes[d]) : d \in Dests})
            <= Pending

\* A destination has at most one delivery running or set aside.
OneAtATime ==
    \A x, y \in sends \cup delayed : x.dest = y.dest => x = y

\* The deliveries of a destination settle in the order they were submitted, however
\* often one of them is repeated.
SettledInOrder ==
    \A d \in Dests : settled[d] = [i \in 1..Len(settled[d]) |-> i]

\* When the dispatcher waits, a lane that holds something is being served, or it is
\* ready and all workers are busy: no lane is forgotten.
NoLaneForgotten ==
    pc = "select" => \A d \in Dests :
        lanes[d] # <<>> => d \in active \/ (Contains(ready, d) /\ Cardinality(sends) = Workers)

\* Every delivery settles.
EverythingSettles == <>(\A d \in Dests : Len(settled[d]) = Load[d])

\* A dispatcher that learns that its input is closed while work is left finishes the
\* work and returns.
ReturnsWhenDone == (~listening /\ Outstanding) ~> (pc = "returned")

============================================================================
