--------------------------- MODULE DeliveryProofs ---------------------------
(***************************************************************************)
(* Proofs about Delivery, for any Sessions and consumers and any number of *)
(* events: what is emitted for a subscriber is kept until the subscriber   *)
(* has acknowledged it, no cursor passes an event that was not given to    *)
(* its client, and no poll sleeps over an event.  The properties support   *)
(* each other: a page that is the beginning of what is unread covers its   *)
(* checkpoint only because what is owed was kept, and it was kept because  *)
(* cursors come from checkpoints.                                          *)
(*                                                                         *)
(* They are followed by the proofs about AcpPool and AcpSession, reached   *)
(* through instances of their own (Pool, Acp).                             *)
(***************************************************************************)
EXTENDS Delivery, FiniteSetTheorems, WellFoundedInduction, SequenceTheorems, TLAPS

\* What is owed to consumer c is owed to a subscriber that may count on it.
Owing(c) ==
  \A e \in owed[c] :
    /\ consumer[c] # None /\ <<c, e.session>> \in subs
    /\ e.transient \/ consumer[c].kind = "durable"
    /\ e.seq <= watermark

\* The events of the table have different sequences, and neither they nor the cursors
\* are ahead of the watermark.
Sequenced ==
  /\ IsFiniteSet(events)
  /\ \A e \in events : e.seq <= watermark
  /\ \A e, f \in events : e.seq = f.seq => e = f
  /\ \A c \in Consumers : consumer[c] # None => consumer[c].cursor <= watermark

\* Of what is owed to c, its client was given all up to sequence n.
Given(c, n) == \A e \in owed[c] : e.seq <= n => e.seq \in received[c]

\* Checkpoints, acknowledged or about to be, cover only what was given.
Acknowledged == \A a \in acks : a[2] <= watermark /\ Given(a[1], a[2])
Handed ==
  \A c \in Consumers :
    /\ batch[c].checkpoint <= watermark
    /\ batch[c].events # {} => Given(c, batch[c].checkpoint)

IInv ==
  /\ TypeOK /\ Sequenced
  /\ \A c \in Consumers : Owing(c)
  /\ Acknowledged /\ Handed
  /\ RetainedUntilAcknowledged /\ NothingIsSkipped /\ NoLostWakeup

--------------------
(* Sets of sequences.                                                      *)

\* A set of natural numbers has a least one, if it has any,
LEMMA Least ==
  ASSUME NEW T \in SUBSET Nat, T # {}
  PROVE  \E x \in T : \A y \in T : x <= y
<1>1. PICK x \in T : \A y \in T : ~(<<y, x>> \in OpToRel(<, Nat))
  BY NatLessThanWellFounded, WFMin, Zenon
<1>2. \A y \in T : ~(y < x)
  <2> SUFFICES ASSUME NEW y \in T, y < x PROVE FALSE
    OBVIOUS
  <2>1. <<y, x>> \in OpToRel(<, Nat)
    BY DEF OpToRel
  <2> QED
    BY <2>1, <1>1
<1> QED
  BY <1>2

\* and, if it is bounded, a greatest one, which is Max.
LEMMA Greatest ==
  ASSUME NEW n \in Nat, NEW T \in SUBSET (0..n), T # {}
  PROVE  Max(T) \in T /\ \A y \in T : y <= Max(T)
<1> DEFINE U == {n - x : x \in T}
<1>1. U \in SUBSET Nat /\ U # {}
  <2>1. \A x \in T : x \in Nat /\ n - x \in Nat
    OBVIOUS
  <2> QED
    BY <2>1
<1>2. PICK u \in U : \A v \in U : u <= v
  BY <1>1, Least
<1>3. PICK x \in T : u = n - x
  OBVIOUS
<1>4. \A y \in T : n - x <= n - y
  BY <1>2, <1>3
<1>5. \A y \in T : x >= y
  BY <1>4
<1>6. \E z \in T : \A y \in T : z >= y
  BY <1>5
<1>7. Max(T) \in T /\ \A y \in T : Max(T) >= y
  BY <1>6 DEF Max
<1> QED
  BY <1>7

\* The beginning of a set of events, up to the n-th.
Beginning(unread, n) == {e \in unread : Cardinality({x \in unread : x.seq <= e.seq}) <= n}

\* It is not empty, since the first event counts as one;
LEMMA BeginningHasAnEvent ==
  ASSUME NEW unread \in SUBSET Event, unread # {}, NEW n \in Nat \ {0},
         \A e, f \in unread : e.seq = f.seq => e = f
  PROVE  Beginning(unread, n) # {}
<1> DEFINE S == {e.seq : e \in unread}
<1>1. S \in SUBSET Nat /\ S # {}
  BY BoundsAssumption DEF Event
<1>2. PICK m \in S : \A y \in S : m <= y
  BY <1>1, Least
<1>3. PICK e \in unread : e.seq = m
  OBVIOUS
<1>4. {x \in unread : x.seq <= e.seq} = {e}
  <2>1. ASSUME NEW x \in unread, x.seq <= e.seq PROVE x = e
    <3>1. x.seq \in S /\ e.seq \in S /\ x.seq \in Nat /\ e.seq \in Nat
      BY <1>1
    <3>2. x.seq = e.seq
      BY <2>1, <3>1, <1>2, <1>3
    <3> QED
      BY <3>2
  <2>2. e.seq <= e.seq
    BY <1>1
  <2> QED
    BY <2>1, <2>2
<1>5. Cardinality({e}) = 1
  BY FS_Singleton
<1>6. e \in Beginning(unread, n)
  BY <1>4, <1>5 DEF Beginning
<1> QED
  BY <1>6

\* and what comes before one of its events belongs to it.
LEMMA BeginningIsClosed ==
  ASSUME NEW unread \in SUBSET Event, IsFiniteSet(unread), NEW n \in Nat,
         NEW m \in Beginning(unread, n), NEW e \in unread, e.seq <= m.seq
  PROVE  e \in Beginning(unread, n)
<1> DEFINE A == {x \in unread : x.seq <= e.seq}
           B == {x \in unread : x.seq <= m.seq}
<1>1. \A x \in unread : x.seq \in Nat
  BY BoundsAssumption DEF Event
<1>2. A \subseteq B /\ B \subseteq unread
  BY <1>1 DEF Beginning
<1>3. IsFiniteSet(B)
  BY <1>2, FS_Subset
<1>4. IsFiniteSet(A) /\ Cardinality(A) <= Cardinality(B) /\ Cardinality(A) \in Nat /\ Cardinality(B) \in Nat
  BY <1>2, <1>3, FS_Subset, FS_CardinalityType
<1>5. Cardinality(B) <= n
  BY DEF Beginning
<1>6. Cardinality(A) <= n
  BY <1>4, <1>5
<1> QED
  BY <1>6 DEF Beginning

--------------------
(* Pruning.                                                                *)

\* The rows and subscriptions that a transaction leaves to prune_client_events.
Rows == [Consumers -> Row \cup {None}]
Pairs == SUBSET (Consumers \X Sessions)
Debts == [Consumers -> SUBSET Event]

\* The table of events is only cut, rows only go, and what is still owed is kept.
LEMMA PruneKeeps ==
  ASSUME NEW evs \in SUBSET Event, NEW rows \in Rows, NEW ss \in Pairs, NEW o \in Debts,
         Prune(evs, rows, ss), owed' = OwedAfter(o, consumer', subs'),
         \A c \in Consumers : \A e \in o[c] :
            (rows[c] # None /\ <<c, e.session>> \in ss) =>
               /\ e.transient \/ rows[c].kind = "durable"
               /\ e.seq > rows[c].cursor => e \in evs
  PROVE  /\ consumer' \in Rows /\ subs' \in Pairs /\ owed' \in Debts /\ events' \in SUBSET Event
         /\ events' \subseteq evs /\ subs' \subseteq ss
         /\ \A c \in Consumers :
               /\ consumer'[c] # None => consumer'[c] = rows[c]
               /\ owed'[c] \subseteq o[c]
               /\ \A e \in owed'[c] : /\ consumer'[c] # None /\ <<c, e.session>> \in subs'
                                      /\ e.transient \/ consumer'[c].kind = "durable"
         /\ RetainedUntilAcknowledged'
<1> DEFINE live == LiveRows(rows)
           kept == {p \in ss : live[p[1]] # None}
<1>1. consumer' = live /\ subs' = kept /\ events' = {e \in evs : Needed(live, kept, e)}
  BY DEF Prune
<1>2. live \in Rows /\ \A c \in Consumers : live[c] # None => live[c] = rows[c]
  BY DEF LiveRows, Rows
<1>3. kept \subseteq ss /\ kept \in Pairs
  BY DEF Pairs
<1> HIDE DEF live, kept
<1>4. \A c \in Consumers :
         owed'[c] = {e \in o[c] : live[c] # None /\ <<c, e.session>> \in kept}
  BY <1>1 DEF OwedAfter
<1>5. owed' \in Debts
  <2>1. \A c \in Consumers : {e \in o[c] : consumer'[c] # None /\ <<c, e.session>> \in subs'} \in SUBSET Event
    BY DEF Debts
  <2> QED
    BY <2>1 DEF OwedAfter, Debts
<1>6. ASSUME NEW c \in Consumers, NEW e \in owed'[c]
      PROVE  /\ consumer'[c] # None /\ <<c, e.session>> \in subs'
             /\ e.transient \/ consumer'[c].kind = "durable"
             /\ e.seq > consumer'[c].cursor => e \in events'
  <2>1. /\ e \in o[c] /\ live[c] # None /\ <<c, e.session>> \in kept
        /\ rows[c] # None /\ <<c, e.session>> \in ss /\ live[c] = rows[c]
    BY <1>2, <1>3, <1>4, NoneAssumption DEF Rows
  <2>2. e.transient \/ live[c].kind = "durable"
    BY <2>1
  <2>3. ASSUME e.seq > live[c].cursor PROVE Needed(live, kept, e)
    <3>1. c \in Subscribers(live, kept, e.session)
      BY <2>1 DEF Subscribers
    <3> DEFINE all == Subscribers(live, kept, e.session)
               durable == {d \in all : live[d].kind = "durable"}
               readers == IF e.transient \/ durable = {} THEN all ELSE durable
    <3>2. c \in readers
      BY <3>1, <2>2
    <3>3. live[c].cursor < e.seq
      BY <2>3, <2>1, <1>2, BoundsAssumption DEF Rows, Row, Debts, Event
    <3> QED
      BY <3>2, <3>3 DEF Needed
  <2>4. e.seq > live[c].cursor => e \in evs
    BY <2>1
  <2> QED
    BY <2>1, <2>2, <2>3, <2>4, <1>1
<1>7. RetainedUntilAcknowledged'
  BY <1>6 DEF RetainedUntilAcknowledged
<1> QED
  BY <1>1, <1>2, <1>3, <1>4, <1>5, <1>6, <1>7

\* The variables' types, and what follows for sequences and cursors.
LEMMA Types ==
  ASSUME TypeOK
  PROVE  /\ consumer \in Rows /\ subs \in Pairs /\ owed \in Debts /\ events \in SUBSET Event
         /\ watermark \in Nat /\ MaxSeq \in Nat
         /\ \A e \in Event : e.seq \in Nat /\ e.seq >= 1
         /\ \A c \in Consumers : consumer[c] # None =>
               /\ consumer[c] \in Row /\ consumer[c].cursor \in Nat /\ consumer[c].kind \in Kinds
         /\ \A c \in Consumers : owed[c] \subseteq Event /\ batch[c].checkpoint \in Nat
         /\ \A a \in acks : a[1] \in Consumers /\ a[2] \in Nat
BY BoundsAssumption DEF TypeOK, Rows, Pairs, Debts, Event, Row

\* A step that enlarges neither what is unread nor the set of sleeping polls.
LEMMA SleepersStay ==
  ASSUME TypeOK, NoLostWakeup, events' \subseteq events, subs' \subseteq subs,
         UNCHANGED <<poll, quiet>>,
         \A c \in Consumers : (poll[c].at = "waiting" /\ consumer'[c] # None) =>
            /\ consumer[c] # None /\ consumer'[c].cursor \in Nat
            /\ consumer'[c].cursor >= consumer[c].cursor
  PROVE  NoLostWakeup'
<1> SUFFICES ASSUME NEW c \in Consumers, poll[c].at = "waiting", consumer'[c] # None, Unread(c)' # {}
             PROVE  poll[c].woken \/ quiet
  BY DEF NoLostWakeup
<1>1. PICK e \in events' : <<c, e.session>> \in subs' /\ e.seq > consumer'[c].cursor
  BY DEF Unread
<1>2. e.seq > consumer[c].cursor
  BY <1>1, Types
<1>3. e \in Unread(c)
  BY <1>1, <1>2 DEF Unread
<1> QED
  BY <1>3 DEF NoLostWakeup

--------------------
(* Writers.                                                                *)

\* An event gets a new sequence, and is kept for those who may count on it.
LEMMA InsertStep ==
  ASSUME IInv, NEW s \in Sessions, NEW transient \in BOOLEAN, Insert(s, transient),
         active' \in [Sessions -> BOOLEAN]
  PROVE  IInv'
<1> DEFINE e == [seq |-> watermark + 1, session |-> s, transient |-> transient]
           o == OwedBy(e)
<1>1. /\ watermark + 1 <= MaxSeq /\ watermark' = watermark + 1 /\ quiet' = TRUE
      /\ Prune(events \cup {e}, consumer, subs) /\ owed' = OwedAfter(o, consumer', subs')
      /\ UNCHANGED <<poll, batch, acks, received>>
  BY Types DEF Insert, NextSequence, client, IInv
<1>2. watermark \in 0..MaxSeq /\ watermark \in Nat /\ MaxSeq \in Nat /\ e \in Event /\ e.seq = watermark + 1
  BY <1>1, BoundsAssumption DEF IInv, TypeOK, Event
<1>3. \A c \in Consumers :
         /\ o[c] = owed[c] \/ o[c] = owed[c] \cup {e}
         /\ e \in o[c] /\ e \notin owed[c] =>
              consumer[c] # None /\ (e.transient \/ consumer[c].kind = "durable")
  BY DEF OwedBy, Subscribers
<1>4. o \in Debts
  <2>1. \A c \in Consumers : o[c] \in SUBSET Event
    BY <1>2, <1>3, Types DEF IInv
  <2> QED
    BY <2>1 DEF OwedBy, Debts
<1> HIDE DEF e, o
<1>5. \A c \in Consumers : \A x \in owed[c] :
         /\ consumer[c] # None /\ (x.transient \/ consumer[c].kind = "durable") /\ x.seq <= watermark
         /\ x.seq > consumer[c].cursor => x \in events
         /\ x.seq <= consumer[c].cursor => x.seq \in received[c]
  BY DEF IInv, Owing, RetainedUntilAcknowledged, NothingIsSkipped
<1>6. /\ consumer' \in Rows /\ subs' \in Pairs /\ owed' \in Debts /\ events' \in SUBSET Event
      /\ events' \subseteq events \cup {e} /\ subs' \subseteq subs
      /\ \A c \in Consumers :
            /\ consumer'[c] # None => consumer'[c] = consumer[c]
            /\ owed'[c] \subseteq o[c]
            /\ \A x \in owed'[c] : /\ consumer'[c] # None /\ <<c, x.session>> \in subs'
                                   /\ x.transient \/ consumer'[c].kind = "durable"
      /\ RetainedUntilAcknowledged'
  <2>1. events \cup {e} \in SUBSET Event /\ consumer \in Rows /\ subs \in Pairs
    BY <1>2, Types DEF IInv
  <2>2. \A c \in Consumers : \A x \in o[c] :
           (consumer[c] # None /\ <<c, x.session>> \in subs) =>
              /\ x.transient \/ consumer[c].kind = "durable"
              /\ x.seq > consumer[c].cursor => x \in events \cup {e}
    BY <1>3, <1>5
  <2> QED
    BY <1>1, <1>4, <2>1, <2>2, PruneKeeps
<1>7. \A c \in Consumers : \A x \in owed'[c] : x \in owed[c] \/ x = e
  BY <1>3, <1>6
<1>8. TypeOK'
  BY <1>1, <1>2, <1>6 DEF IInv, TypeOK, Rows, Pairs, Debts
<1>9. Sequenced'
  <2>1. IsFiniteSet(events')
    <3>1. IsFiniteSet(events \cup {e})
      BY FS_AddElement DEF IInv, Sequenced
    <3> QED
      BY <3>1, <1>6, FS_Subset
  <2>2. \A x \in events : x.seq <= watermark /\ x.seq \in Nat
    BY Types DEF IInv, Sequenced
  <2>3. \A x \in events' : x.seq <= watermark'
    BY <2>2, <1>1, <1>2, <1>6
  <2>4. \A x, y \in events' : x.seq = y.seq => x = y
    <3>1. \A x, y \in events : x.seq = y.seq => x = y
      BY DEF IInv, Sequenced
    <3>2. \A x \in events : x.seq # e.seq
      BY <2>2, <1>2
    <3> QED
      BY <3>1, <3>2, <1>6
  <2>5. \A c \in Consumers : consumer'[c] # None => consumer'[c].cursor <= watermark'
    <3> SUFFICES ASSUME NEW c \in Consumers, consumer'[c] # None
                 PROVE  consumer'[c].cursor <= watermark'
      OBVIOUS
    <3>1. consumer[c].cursor \in Nat /\ consumer[c].cursor <= watermark
      BY <1>6, Types DEF IInv, Sequenced
    <3> QED
      BY <3>1, <1>1, <1>2, <1>6
  <2> QED
    BY <2>1, <2>3, <2>4, <2>5 DEF Sequenced
<1>10. \A c \in Consumers : Owing(c)'
  <2> SUFFICES ASSUME NEW c \in Consumers, NEW x \in owed'[c] PROVE x.seq <= watermark'
    BY <1>6 DEF Owing
  <2>1. x.seq \in Nat /\ (x \in owed[c] \/ x = e)
    BY <1>6, <1>7, Types DEF Debts, IInv
  <2> QED
    BY <2>1, <1>1, <1>2, <1>5
<1>11. ASSUME NEW c \in Consumers, NEW n \in Nat, n <= watermark, Given(c, n)
       PROVE  Given(c, n)'
  <2> SUFFICES ASSUME NEW x \in owed'[c], x.seq <= n PROVE x.seq \in received[c]
    BY <1>1 DEF Given
  <2>1. x # e
    BY <1>2, <1>11
  <2> QED
    BY <2>1, <1>7, <1>11 DEF Given
<1>12. Acknowledged'
  <2> SUFFICES ASSUME NEW a \in acks PROVE a[2] <= watermark' /\ Given(a[1], a[2])'
    BY <1>1 DEF Acknowledged
  <2>1. a[1] \in Consumers /\ a[2] \in Nat /\ a[2] <= watermark /\ Given(a[1], a[2])
    BY Types DEF IInv, Acknowledged
  <2> QED
    BY <2>1, <1>1, <1>2, <1>11
<1>13. Handed'
  <2> SUFFICES ASSUME NEW c \in Consumers
               PROVE  /\ batch[c].checkpoint <= watermark'
                      /\ batch[c].events # {} => Given(c, batch[c].checkpoint)'
    BY <1>1 DEF Handed
  <2>1. /\ batch[c].checkpoint \in Nat /\ batch[c].checkpoint <= watermark
        /\ batch[c].events # {} => Given(c, batch[c].checkpoint)
    BY Types DEF IInv, Handed
  <2> QED
    BY <2>1, <1>1, <1>2, <1>11
<1>14. NothingIsSkipped'
  <2> SUFFICES ASSUME NEW c \in Consumers, NEW x \in owed'[c], x.seq <= consumer'[c].cursor
               PROVE  x.seq \in received[c]
    BY <1>1 DEF NothingIsSkipped
  <2>1. consumer'[c] # None /\ consumer'[c] = consumer[c]
    BY <1>6
  <2>2. consumer[c].cursor \in Nat /\ consumer[c].cursor <= watermark
    BY <2>1, Types DEF IInv, Sequenced
  <2>3. x # e
    BY <2>1, <2>2, <1>2
  <2> QED
    BY <2>1, <2>3, <1>5, <1>7
<1>15. NoLostWakeup'
  BY <1>1 DEF NoLostWakeup
<1> QED
  BY <1>6, <1>8, <1>9, <1>10, <1>12, <1>13, <1>14, <1>15 DEF IInv

\* A transaction that only takes away: rows, subscriptions, events before a cursor.
LEMMA PruneStep ==
  ASSUME IInv, NEW rows \in Rows, NEW ss \in Pairs,
         Prune(events, rows, ss), owed' = OwedAfter(owed, consumer', subs'),
         UNCHANGED <<watermark, active, quiet, poll, batch>>,
         acks' \subseteq acks, received' \in [Consumers -> SUBSET (1..MaxSeq)], ss \subseteq subs,
         \A c \in Consumers : rows[c] # None =>
            /\ consumer[c] # None /\ rows[c].kind = consumer[c].kind
            /\ rows[c].cursor >= consumer[c].cursor /\ rows[c].cursor <= watermark
            /\ Given(c, rows[c].cursor) /\ received'[c] = received[c]
  PROVE  IInv'
<1>1. /\ consumer' \in Rows /\ subs' \in Pairs /\ owed' \in Debts /\ events' \in SUBSET Event
      /\ events' \subseteq events /\ subs' \subseteq ss
      /\ \A c \in Consumers :
            /\ consumer'[c] # None => consumer'[c] = rows[c]
            /\ owed'[c] \subseteq owed[c]
            /\ \A x \in owed'[c] : /\ consumer'[c] # None /\ <<c, x.session>> \in subs'
                                   /\ x.transient \/ consumer'[c].kind = "durable"
      /\ RetainedUntilAcknowledged'
  <2>1. events \in SUBSET Event /\ owed \in Debts
    BY Types DEF IInv
  <2>2. ASSUME NEW c \in Consumers, NEW e \in owed[c], rows[c] # None, e.seq > rows[c].cursor
        PROVE  e \in events
    <3>1. /\ e.seq \in Nat /\ rows[c].cursor \in Nat /\ consumer[c].cursor \in Nat
          /\ rows[c].cursor >= consumer[c].cursor
      BY <2>1, <2>2, Types, BoundsAssumption DEF IInv, Rows, Row, Debts
    <3>2. e.seq > consumer[c].cursor
      BY <3>1, <2>2
    <3> QED
      BY <3>2 DEF IInv, RetainedUntilAcknowledged
  <2>3. \A c \in Consumers : \A e \in owed[c] :
           (rows[c] # None /\ <<c, e.session>> \in ss) =>
              /\ e.transient \/ rows[c].kind = "durable"
              /\ e.seq > rows[c].cursor => e \in events
    BY <2>2 DEF IInv, Owing
  <2> QED
    BY <2>1, <2>3, PruneKeeps
<1>2. TypeOK'
  BY <1>1 DEF IInv, TypeOK, Rows, Pairs, Debts
<1>3. Sequenced'
  <2>1. IsFiniteSet(events')
    BY <1>1, FS_Subset DEF IInv, Sequenced
  <2> QED
    BY <2>1, <1>1 DEF IInv, Sequenced
<1>4. \A c \in Consumers : Owing(c)'
  BY <1>1 DEF IInv, Owing
<1>5. ASSUME NEW c \in Consumers, NEW n, Given(c, n) PROVE Given(c, n)'
  BY <1>1, <1>5 DEF Given
<1>6. Acknowledged'
  BY <1>5, Types DEF IInv, Acknowledged
<1>7. Handed'
  BY <1>5 DEF IInv, Handed
<1>8. NothingIsSkipped'
  BY <1>1 DEF NothingIsSkipped, Given
<1>9. NoLostWakeup'
  <2>1. \A c \in Consumers : consumer'[c] # None =>
           /\ consumer[c] # None /\ consumer'[c].cursor \in Nat
           /\ consumer'[c].cursor >= consumer[c].cursor
    <3>1. \A c \in Consumers : rows[c] # None => rows[c].cursor \in Nat
      BY BoundsAssumption DEF Rows, Row
    <3> QED
      BY <3>1, <1>1
  <2> QED
    BY <2>1, <1>1, SleepersStay DEF IInv
<1> QED
  BY <1>1, <1>2, <1>3, <1>4, <1>6, <1>7, <1>8, <1>9 DEF IInv

\* Whoever may sleep is woken once the writer has called notify_waiters.
LEMMA NotifyWaitersStep ==
  ASSUME IInv, NotifyWaiters
  PROVE  IInv'
<1>1. /\ UNCHANGED <<events, watermark, active, consumer, subs, owed, batch, acks, received>>
      /\ quiet' = FALSE
      /\ poll' = [c \in Consumers |->
                    IF poll[c].at = "idle" THEN poll[c] ELSE [poll[c] EXCEPT !.woken = TRUE]]
  BY DEF NotifyWaiters
<1>2. poll \in [Consumers -> [at : {"idle", "armed", "waiting", "last"}, woken : BOOLEAN]]
  BY DEF IInv, TypeOK
<1>3. poll' \in [Consumers -> [at : {"idle", "armed", "waiting", "last"}, woken : BOOLEAN]]
  BY <1>1, <1>2
<1>4. \A c \in Consumers : poll'[c].at = "waiting" => poll'[c].woken
  BY <1>1, <1>2
<1>5. TypeOK'
  BY <1>1, <1>3 DEF IInv, TypeOK
<1>6. NoLostWakeup'
  BY <1>4 DEF NoLostWakeup
<1> QED
  BY <1>1, <1>5, <1>6 DEF IInv, Sequenced, Owing, Acknowledged, Handed, Given,
     RetainedUntilAcknowledged, NothingIsSkipped

\* A restart forgets transient events, and whatever was owed of them.
LEMMA RecoverStep ==
  ASSUME IInv, RecoverInterruptedWork
  PROVE  IInv'
<1>1. /\ UNCHANGED <<watermark, consumer, subs, batch, acks, received>>
      /\ events' = {e \in events : ~e.transient} /\ quiet' = FALSE
      /\ owed' = [c \in Consumers |-> {e \in owed[c] : ~e.transient}]
      /\ active' = [s \in Sessions |-> FALSE]
      /\ poll' = [c \in Consumers |-> [at |-> "idle", woken |-> FALSE]]
  BY DEF RecoverInterruptedWork
<1>2. \A c \in Consumers : owed'[c] = {e \in owed[c] : ~e.transient}
  BY <1>1
<1>3. owed' \in [Consumers -> SUBSET Event]
  <2>1. \A c \in Consumers : {e \in owed[c] : ~e.transient} \in SUBSET Event
    BY Types DEF IInv
  <2> QED
    BY <2>1, <1>1
<1>4. TypeOK'
  <2>1. poll' \in [Consumers -> [at : {"idle", "armed", "waiting", "last"}, woken : BOOLEAN]]
    BY <1>1
  <2> QED
    BY <2>1, <1>1, <1>3 DEF IInv, TypeOK
<1>5. Sequenced'
  <2>1. IsFiniteSet(events')
    BY <1>1, FS_Subset DEF IInv, Sequenced
  <2> QED
    BY <2>1, <1>1 DEF IInv, Sequenced
<1>6. \A c \in Consumers : Owing(c)'
  BY <1>1, <1>2 DEF IInv, Owing
<1>7. \A c \in Consumers : \A n : Given(c, n) => Given(c, n)'
  BY <1>1, <1>2 DEF Given
<1>8. Acknowledged' /\ Handed'
  BY <1>1, <1>7, Types DEF IInv, Acknowledged, Handed
<1>9. RetainedUntilAcknowledged' /\ NothingIsSkipped'
  BY <1>1, <1>2 DEF IInv, RetainedUntilAcknowledged, NothingIsSkipped
<1>10. NoLostWakeup'
  BY <1>1 DEF NoLostWakeup
<1> QED
  BY <1>4, <1>5, <1>6, <1>8, <1>9, <1>10 DEF IInv

--------------------
(* Requests of a client.                                                   *)

\* A row that is only marked, fresh or not.
LEMMA RowIsMarked ==
  ASSUME TypeOK, NEW c \in Consumers, consumer[c] # None, NEW fresh \in BOOLEAN,
         consumer' = [consumer EXCEPT ![c].fresh = fresh]
  PROVE  /\ consumer' \in Rows
         /\ \A d \in Consumers :
               /\ consumer'[d] = None <=> consumer[d] = None
               /\ consumer[d] # None => /\ consumer'[d].cursor = consumer[d].cursor
                                        /\ consumer'[d].kind = consumer[d].kind
<1>1. consumer \in Rows /\ consumer[c] \in Row
  BY Types
<1>2. /\ [consumer[c] EXCEPT !.fresh = fresh] \in Row
      /\ [consumer[c] EXCEPT !.fresh = fresh].cursor = consumer[c].cursor
      /\ [consumer[c] EXCEPT !.fresh = fresh].kind = consumer[c].kind
  BY <1>1 DEF Row
<1>3. consumer' = [consumer EXCEPT ![c] = [consumer[c] EXCEPT !.fresh = fresh]]
  BY <1>1
<1> QED
  BY <1>1, <1>2, <1>3, NoneAssumption DEF Rows

\* The lease of an ephemeral consumer runs out; nothing else moves.
LEMMA LeaseStep ==
  ASSUME IInv, NEW c \in Consumers, LeaseRunsOut(c)
  PROVE  IInv'
<1>1. /\ UNCHANGED <<events, watermark, active, subs, quiet, owed, poll, batch, acks, received>>
      /\ consumer[c] # None /\ consumer' = [consumer EXCEPT ![c].fresh = FALSE]
  BY DEF LeaseRunsOut, client
<1>2. /\ consumer' \in Rows
      /\ \A d \in Consumers :
            /\ consumer'[d] = None <=> consumer[d] = None
            /\ consumer[d] # None => /\ consumer'[d].cursor = consumer[d].cursor
                                     /\ consumer'[d].kind = consumer[d].kind
  BY <1>1, RowIsMarked DEF IInv
<1>3. TypeOK'
  BY <1>1, <1>2 DEF IInv, TypeOK, Rows
<1>4. Sequenced'
  BY <1>1, <1>2 DEF IInv, Sequenced
<1>5. \A d \in Consumers : Owing(d)'
  BY <1>1, <1>2 DEF IInv, Owing
<1>6. Acknowledged' /\ Handed'
  BY <1>1 DEF IInv, Acknowledged, Handed, Given
<1>7. RetainedUntilAcknowledged' /\ NothingIsSkipped'
  BY <1>1, <1>2 DEF IInv, Owing, RetainedUntilAcknowledged, NothingIsSkipped
<1>8. NoLostWakeup'
  <2>1. \A d \in Consumers : consumer[d] # None => consumer[d].cursor \in Nat
    BY Types DEF IInv
  <2>2. \A d \in Consumers : consumer'[d] # None =>
           /\ consumer[d] # None /\ consumer'[d].cursor \in Nat
           /\ consumer'[d].cursor >= consumer[d].cursor
    BY <1>2, <2>1
  <2> QED
    BY <2>2, <1>1, SleepersStay DEF IInv
<1> QED
  BY <1>3, <1>4, <1>5, <1>6, <1>7, <1>8 DEF IInv

\* A new consumer is owed nothing yet, and starts at or before the watermark.
LEMMA SubscribeStep ==
  ASSUME IInv, NEW c \in Consumers, NEW s \in Sessions, SubscribeSession(c, s, KindAsked(c))
  PROVE  IInv'
<1> DEFINE cursor == IF consumer[c] = None THEN LargestSequence ELSE consumer[c].cursor
           row == [cursor |-> cursor, kind |-> KindAsked(c), fresh |-> TRUE]
<1>1. /\ UNCHANGED <<events, watermark, active, quiet, owed, poll, batch, acks, received>>
      /\ ClientIdle(c) /\ (consumer[c] # None => consumer[c].kind = KindAsked(c))
      /\ consumer' = [consumer EXCEPT ![c] =
            [cursor |-> IF @ = None THEN LargestSequence ELSE @.cursor, kind |-> KindAsked(c),
             fresh |-> TRUE]]
      /\ subs' = subs \cup {<<c, s>>}
  BY DEF SubscribeSession, client
<1>2. consumer' = [consumer EXCEPT ![c] = row]
  BY <1>1, Types DEF IInv, Rows
<1>3. LargestSequence \in 0..watermark
  <2>1. CASE events = {}
    BY <2>1, Types DEF LargestSequence, IInv
  <2>2. CASE events # {}
    <3> DEFINE S == {e.seq : e \in events}
    <3>1. watermark \in Nat /\ S \in SUBSET (0..watermark) /\ S # {}
      <4>1. \A e \in events : e.seq \in Nat /\ e.seq <= watermark
        BY Types DEF IInv, Sequenced
      <4> QED
        BY <4>1, <2>2, Types DEF IInv
    <3>2. Max(S) \in S
      BY <3>1, Greatest
    <3> QED
      BY <3>1, <3>2, <2>2 DEF LargestSequence
  <2> QED
    BY <2>1, <2>2
<1>4. row \in Row /\ row.cursor = cursor /\ row.kind = KindAsked(c) /\ cursor <= watermark
  <2>1. cursor \in 0..watermark
    BY <1>3, Types DEF IInv, Sequenced
  <2>2. cursor \in 0..MaxSeq /\ cursor <= watermark
    BY <2>1, BoundsAssumption DEF IInv, TypeOK
  <2> QED
    BY <2>2 DEF Row, KindAsked, Kinds
<1> HIDE DEF row
<1>5. consumer' \in Rows /\ consumer'[c] = row /\ \A d \in Consumers \ {c} : consumer'[d] = consumer[d]
  BY <1>2, <1>4, Types DEF IInv, Rows
<1>6. row # None
  BY <1>4, NoneAssumption
<1>7. consumer[c] = None => owed[c] = {}
  BY DEF IInv, Owing
<1>8. consumer[c] # None => row.cursor = consumer[c].cursor /\ row.kind = consumer[c].kind
  BY <1>1, <1>4
<1>9. TypeOK'
  BY <1>1, <1>5 DEF IInv, TypeOK, Rows
<1>10. Sequenced'
  BY <1>1, <1>4, <1>5 DEF IInv, Sequenced
<1>11. ASSUME NEW d \in Consumers PROVE Owing(d)'
  BY <1>1, <1>5, <1>6, <1>7, <1>8 DEF IInv, Owing
<1>12. Acknowledged' /\ Handed'
  BY <1>1 DEF IInv, Acknowledged, Handed, Given
<1>13. RetainedUntilAcknowledged' /\ NothingIsSkipped'
  BY <1>1, <1>5, <1>7, <1>8 DEF IInv, RetainedUntilAcknowledged, NothingIsSkipped
<1>14. NoLostWakeup'
  <2> SUFFICES ASSUME NEW d \in Consumers, poll[d].at = "waiting", consumer'[d] # None, Unread(d)' # {}
               PROVE  poll[d].woken \/ quiet
    BY <1>1 DEF NoLostWakeup
  <2>1. d # c
    BY <1>1 DEF ClientIdle
  <2>2. Unread(d)' = Unread(d) /\ consumer'[d] = consumer[d]
    BY <2>1, <1>1, <1>5 DEF Unread
  <2> QED
    BY <2>2 DEF IInv, NoLostWakeup
<1> QED
  BY <1>9, <1>10, <1>11, <1>12, <1>13, <1>14 DEF IInv

\* A consumer that unsubscribes is owed nothing of that Session any more.
LEMMA UnsubscribeStep ==
  ASSUME IInv, NEW c \in Consumers, NEW s \in Sessions, UnsubscribeSession(c, s)
  PROVE  IInv'
<1> DEFINE ss == subs \ {<<c, s>>}
<1>1. /\ Prune(events, consumer, ss) /\ owed' = OwedAfter(owed, consumer', subs')
      /\ UNCHANGED <<watermark, active, quiet, poll, batch, acks, received>>
  BY DEF UnsubscribeSession, client
<1>2. consumer \in Rows /\ ss \in Pairs /\ ss \subseteq subs
  BY Types DEF IInv, Pairs
<1>3. \A d \in Consumers : consumer[d] # None =>
         /\ consumer[d].cursor \in Nat /\ consumer[d].cursor <= watermark
         /\ Given(d, consumer[d].cursor)
  BY Types DEF IInv, Sequenced, NothingIsSkipped, Given
<1>4. received' \in [Consumers -> SUBSET (1..MaxSeq)]
  BY <1>1 DEF IInv, TypeOK
<1>5. \A d \in Consumers : consumer[d] # None => consumer[d].cursor >= consumer[d].cursor
  BY <1>3
<1> HIDE DEF ss
<1> QED
  BY <1>1, <1>2, <1>3, <1>4, <1>5, PruneStep

\* A deleted consumer takes its subscriptions, and what it was owed, with it.
LEMMA DeleteStep ==
  ASSUME IInv, NEW c \in Consumers, DeleteConsumer(c)
  PROVE  IInv'
<1> DEFINE rows == [consumer EXCEPT ![c] = None]
           ss == {p \in subs : p[1] # c}
<1>1. /\ Prune(events, rows, ss) /\ owed' = OwedAfter(owed, consumer', subs')
      /\ UNCHANGED <<watermark, active, quiet, poll, batch>>
      /\ acks' \subseteq acks /\ received' = [received EXCEPT ![c] = {}]
  BY DEF DeleteConsumer
<1>2. rows \in Rows /\ ss \in Pairs /\ ss \subseteq subs
  BY Types DEF IInv, Pairs, Rows
<1>3. \A d \in Consumers : rows[d] # None => d # c /\ rows[d] = consumer[d]
  BY Types DEF IInv, Rows
<1>4. \A d \in Consumers : consumer[d] # None =>
         /\ consumer[d].cursor \in Nat /\ consumer[d].cursor <= watermark
         /\ consumer[d].cursor >= consumer[d].cursor /\ Given(d, consumer[d].cursor)
  BY Types DEF IInv, Sequenced, NothingIsSkipped, Given
<1>5. /\ received' \in [Consumers -> SUBSET (1..MaxSeq)]
      /\ \A d \in Consumers : d # c => received'[d] = received[d]
  BY <1>1 DEF IInv, TypeOK
<1> HIDE DEF ss, rows
<1> QED
  BY <1>1, <1>2, <1>3, <1>4, <1>5, PruneStep

\* A cursor moves to a checkpoint of what was given, or stays.
LEMMA AcknowledgeStep ==
  ASSUME IInv, NEW a \in acks, AcknowledgeEvents(a)
  PROVE  IInv'
<1> DEFINE c == a[1]
           row == [consumer[c] EXCEPT !.cursor = NewCursor(consumer[c].cursor, a[2]), !.fresh = TRUE]
           rows == [consumer EXCEPT ![c] = row]
<1>1. /\ a[2] <= watermark /\ consumer[c] # None
      /\ Prune(events,
               [consumer EXCEPT ![c].cursor = NewCursor(@, a[2]), ![c].fresh = TRUE], subs)
      /\ owed' = OwedAfter(owed, consumer', subs')
      /\ UNCHANGED <<watermark, active, quiet, poll, batch, acks, received>>
  BY DEF AcknowledgeEvents, client
<1>2. c \in Consumers /\ a[2] \in Nat /\ Given(c, a[2]) /\ consumer \in Rows /\ consumer[c] \in Row
      /\ consumer[c].cursor \in Nat /\ consumer[c].cursor <= watermark /\ watermark \in 0..MaxSeq
  BY <1>1, Types DEF IInv, Acknowledged, Sequenced, TypeOK
<1>3. [consumer EXCEPT ![c].cursor = NewCursor(@, a[2]), ![c].fresh = TRUE] = rows
  BY <1>2 DEF Rows
<1>4. /\ row \in Row /\ row.kind = consumer[c].kind /\ row.cursor = NewCursor(consumer[c].cursor, a[2])
      /\ row.cursor >= consumer[c].cursor /\ row.cursor <= watermark
  <2>1. /\ NewCursor(consumer[c].cursor, a[2]) \in 0..MaxSeq
        /\ NewCursor(consumer[c].cursor, a[2]) >= consumer[c].cursor
        /\ NewCursor(consumer[c].cursor, a[2]) <= watermark
    BY <1>1, <1>2, BoundsAssumption DEF NewCursor
  <2> QED
    BY <2>1, <1>2 DEF Row
<1>5. Given(c, row.cursor)
  BY <1>2, <1>4 DEF NewCursor, Given, IInv, NothingIsSkipped
<1> HIDE DEF row
<1>6. rows \in Rows /\ rows[c] = row /\ \A d \in Consumers \ {c} : rows[d] = consumer[d]
  BY <1>2, <1>4 DEF Rows
<1>7. \A d \in Consumers : consumer[d] # None =>
         /\ consumer[d].cursor \in Nat /\ consumer[d].cursor <= watermark
         /\ consumer[d].cursor >= consumer[d].cursor /\ Given(d, consumer[d].cursor)
  BY Types DEF IInv, Sequenced, NothingIsSkipped, Given
<1>8. Prune(events, rows, subs) /\ subs \in Pairs /\ subs \subseteq subs /\ acks' \subseteq acks
  BY <1>1, <1>3, Types DEF IInv
<1>9. received' \in [Consumers -> SUBSET (1..MaxSeq)] /\ received' = received
  BY <1>1 DEF IInv, TypeOK
<1> HIDE DEF rows
<1>10. \A d \in Consumers : rows[d] # None =>
          /\ consumer[d] # None /\ rows[d].kind = consumer[d].kind
          /\ rows[d].cursor >= consumer[d].cursor /\ rows[d].cursor <= watermark
          /\ Given(d, rows[d].cursor)
  BY <1>1, <1>4, <1>5, <1>6, <1>7
<1> QED
  BY <1>1, <1>6, <1>8, <1>9, <1>10, PruneStep

--------------------
(* The long poll and the client.                                           *)

\* A step of a poll that does not fall asleep.
LEMMA PollStep ==
  ASSUME IInv, UNCHANGED <<store, acks, received>>,
         poll' \in [Consumers -> [at : {"idle", "armed", "waiting", "last"}, woken : BOOLEAN]],
         batch' \in [Consumers -> [events : SUBSET Event, checkpoint : 0..MaxSeq]],
         \A c \in Consumers : batch'[c] = batch[c] \/ batch'[c] = NoPage,
         \A c \in Consumers : poll'[c].at = "waiting" => poll'[c] = poll[c]
  PROVE  IInv'
<1>1. UNCHANGED <<events, watermark, active, consumer, subs, quiet, owed, acks, received>>
  BY DEF store
<1>2. TypeOK'
  BY <1>1 DEF IInv, TypeOK
<1>3. Sequenced' /\ Acknowledged' /\ RetainedUntilAcknowledged' /\ NothingIsSkipped'
  BY <1>1 DEF IInv, Sequenced, Acknowledged, Given, RetainedUntilAcknowledged, NothingIsSkipped
<1>4. \A c \in Consumers : Owing(c)'
  BY <1>1 DEF IInv, Owing
<1>5. Handed'
  <2> SUFFICES ASSUME NEW c \in Consumers
               PROVE  /\ batch'[c].checkpoint <= watermark
                      /\ batch'[c].events # {} => Given(c, batch'[c].checkpoint)
    BY <1>1 DEF Handed, Given
  <2>1. CASE batch'[c] = batch[c]
    BY <2>1 DEF IInv, Handed
  <2>2. CASE batch'[c] = NoPage
    BY <2>2, Types DEF NoPage, IInv
  <2> QED
    BY <2>1, <2>2
<1>6. NoLostWakeup'
  <2> SUFFICES ASSUME NEW c \in Consumers, poll'[c].at = "waiting", consumer[c] # None, Unread(c)' # {}
               PROVE  poll'[c].woken \/ quiet
    BY <1>1 DEF NoLostWakeup
  <2>1. Unread(c)' = Unread(c)
    BY <1>1 DEF Unread
  <2> QED
    BY <2>1 DEF IInv, NoLostWakeup
<1> QED
  BY <1>2, <1>3, <1>4, <1>5, <1>6 DEF IInv

\* The poll's steps that are not a read, and the client's.
LEMMA PollSteps ==
  ASSUME IInv, NEW c \in Consumers,
         PollEvents(c) \/ PollFails(c) \/ PollWakes(c) \/ PollTimesOut(c) \/ ClientRestarts(c)
  PROVE  IInv'
<1>1. /\ poll \in [Consumers -> [at : {"idle", "armed", "waiting", "last"}, woken : BOOLEAN]]
      /\ batch \in [Consumers -> [events : SUBSET Event, checkpoint : 0..MaxSeq]]
  BY DEF IInv, TypeOK
<1>2. NoPage \in [events : SUBSET Event, checkpoint : 0..MaxSeq]
  BY BoundsAssumption DEF NoPage
<1>3. UNCHANGED <<store, acks, received>>
  BY DEF PollEvents, PollFails, PollWakes, PollTimesOut, ClientRestarts
<1>4. \E at \in {"idle", "armed", "last"} : poll' = [poll EXCEPT ![c] = [at |-> at, woken |-> FALSE]]
  BY DEF PollEvents, PollFails, PollWakes, PollTimesOut, ClientRestarts
<1>5. /\ poll' \in [Consumers -> [at : {"idle", "armed", "waiting", "last"}, woken : BOOLEAN]]
      /\ \A d \in Consumers : poll'[d].at = "waiting" => poll'[d] = poll[d]
  BY <1>1, <1>4
<1>6. batch' = batch \/ batch' = [batch EXCEPT ![c] = NoPage]
  BY DEF PollEvents, PollFails, PollWakes, PollTimesOut, ClientRestarts
<1>7. /\ batch' \in [Consumers -> [events : SUBSET Event, checkpoint : 0..MaxSeq]]
      /\ \A d \in Consumers : batch'[d] = batch[d] \/ batch'[d] = NoPage
  BY <1>1, <1>2, <1>6
<1> QED
  BY <1>3, <1>5, <1>7, PollStep

\* The checkpoint of a page that was handed over is acknowledged.
LEMMA SendAcknowledgementStep ==
  ASSUME IInv, NEW c \in Consumers, SendAcknowledgement(c)
  PROVE  IInv'
<1>1. /\ UNCHANGED <<events, watermark, active, consumer, subs, quiet, owed, poll, received>>
      /\ acks' = acks \cup IF batch[c].events = {} THEN {} ELSE {<<c, batch[c].checkpoint>>}
      /\ batch' = [batch EXCEPT ![c] = NoPage]
  BY DEF SendAcknowledgement, store
<1>2. /\ batch \in [Consumers -> [events : SUBSET Event, checkpoint : 0..MaxSeq]]
      /\ NoPage \in [events : SUBSET Event, checkpoint : 0..MaxSeq]
      /\ acks \subseteq Consumers \X (0..MaxSeq)
  BY BoundsAssumption DEF IInv, TypeOK, NoPage
<1>3. acks' \subseteq Consumers \X (0..MaxSeq)
  BY <1>1, <1>2
<1>4. /\ batch' \in [Consumers -> [events : SUBSET Event, checkpoint : 0..MaxSeq]]
      /\ \A d \in Consumers : batch'[d] = batch[d] \/ batch'[d] = NoPage
  BY <1>1, <1>2
<1>5. TypeOK'
  BY <1>1, <1>3, <1>4 DEF IInv, TypeOK
<1>6. Acknowledged'
  <2> SUFFICES ASSUME NEW a \in acks' PROVE a[2] <= watermark /\ Given(a[1], a[2])
    BY <1>1 DEF Acknowledged, Given
  <2>1. CASE a \in acks
    BY <2>1 DEF IInv, Acknowledged
  <2>2. CASE a = <<c, batch[c].checkpoint>> /\ batch[c].events # {}
    BY <2>2 DEF IInv, Handed
  <2> QED
    BY <2>1, <2>2, <1>1
<1>7. Handed'
  <2> SUFFICES ASSUME NEW d \in Consumers
               PROVE  /\ batch'[d].checkpoint <= watermark
                      /\ batch'[d].events # {} => Given(d, batch'[d].checkpoint)
    BY <1>1 DEF Handed, Given
  <2>1. CASE batch'[d] = batch[d]
    BY <2>1 DEF IInv, Handed
  <2>2. CASE batch'[d] = NoPage
    BY <2>2, Types DEF NoPage, IInv
  <2> QED
    BY <2>1, <2>2, <1>4
<1>8. Sequenced' /\ RetainedUntilAcknowledged' /\ NothingIsSkipped'
  BY <1>1 DEF IInv, Sequenced, RetainedUntilAcknowledged, NothingIsSkipped
<1>9. \A d \in Consumers : Owing(d)'
  BY <1>1 DEF IInv, Owing
<1>10. NoLostWakeup'
  BY <1>1 DEF IInv, NoLostWakeup, Unread
<1> QED
  BY <1>5, <1>6, <1>7, <1>8, <1>9, <1>10 DEF IInv

\* What a poll may return.
LEMMA PageFacts ==
  ASSUME IInv, NEW c \in Consumers, consumer[c] # None, NEW page \in Pages(c)
  PROVE  /\ page \subseteq Unread(c) /\ page \in SUBSET Event
         /\ page = {} => Unread(c) = {}
         /\ Checkpoint(c, page) \in 0..MaxSeq /\ Checkpoint(c, page) <= watermark
         /\ page # {} => \A e \in Unread(c) : e.seq <= Checkpoint(c, page) => e \in page
<1> DEFINE unread == Unread(c)
<1>1. /\ unread \in SUBSET Event /\ IsFiniteSet(unread) /\ watermark \in 0..MaxSeq
      /\ \A e, f \in unread : e.seq = f.seq => e = f
      /\ \A e \in unread : e.seq \in Nat /\ e.seq <= watermark
  BY Types, FS_Subset DEF IInv, TypeOK, Sequenced, Unread
<1>2. CASE unread = {}
  <2>1. page = {}
    BY <1>2 DEF Pages
  <2>2. consumer[c].cursor \in 0..MaxSeq /\ consumer[c].cursor <= watermark
    BY Types DEF IInv, Sequenced, Row
  <2> QED
    BY <2>1, <2>2, <1>2 DEF Checkpoint
<1>3. CASE unread # {}
  <2>1. PICK n \in 1..Limit : page = Beginning(unread, n)
    BY <1>3 DEF Pages, Beginning
  <2>2. n \in Nat \ {0}
    BY BoundsAssumption
  <2> HIDE DEF unread
  <2>3. page # {}
    BY <1>1, <1>3, <2>1, <2>2, BeginningHasAnEvent
  <2>4. page \subseteq unread
    BY <2>1 DEF Beginning
  <2> DEFINE S == {e.seq : e \in page}
  <2>5. S \in SUBSET (0..watermark) /\ S # {} /\ watermark \in Nat
    BY <1>1, <2>3, <2>4, BoundsAssumption
  <2>6. Max(S) \in S /\ Checkpoint(c, page) = Max(S)
    BY <2>3, <2>5, Greatest DEF Checkpoint
  <2>7. PICK m \in page : m.seq = Max(S)
    BY <2>6
  <2>8. Checkpoint(c, page) \in 0..MaxSeq /\ Checkpoint(c, page) <= watermark
    BY <2>5, <2>6, <1>1, BoundsAssumption
  <2>9. ASSUME NEW e \in unread, e.seq <= Checkpoint(c, page) PROVE e \in page
    BY <1>1, <2>1, <2>2, <2>6, <2>7, <2>9, BeginningIsClosed
  <2> QED
    BY <1>1, <2>3, <2>4, <2>8, <2>9 DEF unread
<1> QED
  BY <1>2, <1>3

\* A poll reads: what it returns covers all that is owed up to its checkpoint; if it
\* returns nothing and sleeps, there is nothing to return.
LEMMA ReadStep ==
  ASSUME IInv, NEW c \in Consumers, ReadEvents(c)
  PROVE  IInv'
<1>1. /\ UNCHANGED <<events, watermark, active, subs, quiet, owed, acks>>
      /\ consumer[c] # None /\ consumer' = [consumer EXCEPT ![c].fresh = TRUE]
  BY DEF ReadEvents, Touch
<1>2. /\ consumer' \in Rows
      /\ \A d \in Consumers :
            /\ consumer'[d] = None <=> consumer[d] = None
            /\ consumer[d] # None => /\ consumer'[d].cursor = consumer[d].cursor
                                     /\ consumer'[d].kind = consumer[d].kind
  BY <1>1, RowIsMarked DEF IInv
<1>3. PICK page \in Pages(c) :
         IF page # {} \/ poll[c].at = "last"
           THEN /\ batch' = [batch EXCEPT ![c] =
                               [events |-> page, checkpoint |-> Checkpoint(c, page)]]
                /\ received' = [received EXCEPT ![c] = @ \cup {e.seq : e \in page}]
                /\ poll' = [poll EXCEPT ![c] = [at |-> "idle", woken |-> FALSE]]
           ELSE /\ poll' = [poll EXCEPT ![c].at = "waiting"]
                /\ UNCHANGED <<batch, received>>
  BY DEF ReadEvents
<1>4. PICK n \in 0..MaxSeq :
         /\ n = Checkpoint(c, page) /\ n <= watermark
         /\ page \subseteq Unread(c) /\ page \in SUBSET Event /\ (page = {} => Unread(c) = {})
         /\ page # {} => \A e \in Unread(c) : e.seq <= n => e \in page
  BY <1>1, PageFacts
<1>5. /\ poll \in [Consumers -> [at : {"idle", "armed", "waiting", "last"}, woken : BOOLEAN]]
      /\ batch \in [Consumers -> [events : SUBSET Event, checkpoint : 0..MaxSeq]]
      /\ received \in [Consumers -> SUBSET (1..MaxSeq)]
  BY DEF IInv, TypeOK
<1>6. \/ /\ batch' = [batch EXCEPT ![c] = [events |-> page, checkpoint |-> n]]
         /\ received' = [received EXCEPT ![c] = received[c] \cup {e.seq : e \in page}]
         /\ poll' = [poll EXCEPT ![c] = [at |-> "idle", woken |-> FALSE]]
      \/ /\ page = {} /\ UNCHANGED <<batch, received>>
         /\ poll' = [poll EXCEPT ![c].at = "waiting"]
  BY <1>3, <1>4, <1>5
<1>7. poll' \in [Consumers -> [at : {"idle", "armed", "waiting", "last"}, woken : BOOLEAN]]
  <2>1. CASE poll' = [poll EXCEPT ![c] = [at |-> "idle", woken |-> FALSE]]
    BY <2>1, <1>5
  <2>2. CASE poll' = [poll EXCEPT ![c].at = "waiting"]
    BY <2>2, <1>5
  <2> QED
    BY <2>1, <2>2, <1>6
<1>8. batch' \in [Consumers -> [events : SUBSET Event, checkpoint : 0..MaxSeq]]
  BY <1>4, <1>5, <1>6
<1>9. /\ received' \in [Consumers -> SUBSET (1..MaxSeq)]
      /\ \A d \in Consumers : received[d] \subseteq received'[d]
  <2>1. received[c] \cup {e.seq : e \in page} \in SUBSET (1..MaxSeq)
    BY <1>4, <1>5 DEF Event
  <2> QED
    BY <2>1, <1>5, <1>6
<1>10. TypeOK'
  BY <1>1, <1>2, <1>7, <1>8, <1>9 DEF IInv, TypeOK, Rows
<1>11. Sequenced'
  BY <1>1, <1>2 DEF IInv, Sequenced
<1>12. \A d \in Consumers : Owing(d)'
  BY <1>1, <1>2 DEF IInv, Owing
<1>13. \A d \in Consumers : \A k : Given(d, k) => Given(d, k)'
  BY <1>1, <1>9 DEF Given
<1>14. Acknowledged'
  BY <1>1, <1>13, Types DEF IInv, Acknowledged
<1>15. RetainedUntilAcknowledged' /\ NothingIsSkipped'
  BY <1>1, <1>2, <1>9 DEF IInv, Owing, RetainedUntilAcknowledged, NothingIsSkipped
<1>16. Handed'
  <2>1. ASSUME NEW d \in Consumers, batch'[d] = batch[d]
        PROVE  \A k : k = batch'[d].checkpoint =>
                        k <= watermark /\ (batch'[d].events # {} => Given(d, k)')
    BY <2>1, <1>13 DEF IInv, Handed
  <2>2. ASSUME batch'[c] = [events |-> page, checkpoint |-> n], page # {},
               received'[c] = received[c] \cup {e.seq : e \in page}
        PROVE  Given(c, n)'
    <3> SUFFICES ASSUME NEW e \in owed[c], e.seq <= n PROVE e.seq \in received'[c]
      BY <1>1 DEF Given
    <3>1. CASE e.seq <= consumer[c].cursor
      BY <3>1, <1>9 DEF IInv, NothingIsSkipped
    <3>2. CASE ~(e.seq <= consumer[c].cursor)
      <4>1. e.seq > consumer[c].cursor
        BY <3>2, <1>1, Types DEF IInv
      <4>2. e \in Unread(c)
        BY <4>1 DEF Unread, IInv, RetainedUntilAcknowledged, Owing
      <4> QED
        BY <4>2, <2>2, <1>4
    <3> QED
      BY <3>1, <3>2
  <2>3. CASE UNCHANGED batch
    BY <2>1, <2>3, <1>1 DEF Handed
  <2>4. CASE /\ batch' = [batch EXCEPT ![c] = [events |-> page, checkpoint |-> n]]
             /\ received' = [received EXCEPT ![c] = received[c] \cup {e.seq : e \in page}]
    <3>1. /\ batch'[c] = [events |-> page, checkpoint |-> n]
          /\ received'[c] = received[c] \cup {e.seq : e \in page}
          /\ \A d \in Consumers \ {c} : batch'[d] = batch[d]
      BY <2>4, <1>5
    <3>2. \A k : k = batch'[c].checkpoint =>
                  k <= watermark /\ (batch'[c].events # {} => Given(c, k)')
      BY <3>1, <2>2, <1>4
    <3>3. \A d \in Consumers : \A k : k = batch'[d].checkpoint =>
             k <= watermark /\ (batch'[d].events # {} => Given(d, k)')
      BY <3>1, <3>2, <2>1
    <3> QED
      BY <3>3, <1>1 DEF Handed
  <2> QED
    BY <2>3, <2>4, <1>6
<1>17. NoLostWakeup'
  <2> SUFFICES ASSUME NEW d \in Consumers, poll'[d].at = "waiting", consumer'[d] # None, Unread(d)' # {}
               PROVE  poll'[d].woken \/ quiet
    BY <1>1 DEF NoLostWakeup
  <2>1. Unread(d)' = Unread(d) /\ consumer[d] # None
    BY <1>1, <1>2 DEF Unread
  <2>2. d # c
    BY <2>1, <1>4, <1>5, <1>6
  <2>3. poll'[d] = poll[d]
    BY <2>2, <1>5, <1>6
  <2> QED
    BY <2>1, <2>3 DEF IInv, NoLostWakeup
<1> QED
  BY <1>10, <1>11, <1>12, <1>14, <1>15, <1>16, <1>17 DEF IInv

--------------------
(* The theorems.                                                           *)

\* At first there are neither events nor consumers.
LEMMA InitIInv == Init => IInv
<1> SUFFICES ASSUME Init PROVE IInv
  OBVIOUS
<1>1. TypeOK
  <2>1. NoPage \in [events : SUBSET Event, checkpoint : 0..MaxSeq]
    BY BoundsAssumption DEF NoPage
  <2>2. poll \in [Consumers -> [at : {"idle", "armed", "waiting", "last"}, woken : BOOLEAN]]
    BY DEF Init
  <2>3. batch \in [Consumers -> [events : SUBSET Event, checkpoint : 0..MaxSeq]]
    BY <2>1 DEF Init
  <2>4. /\ consumer \in [Consumers -> Row \cup {None}]
        /\ active \in [Sessions -> BOOLEAN]
        /\ owed \in [Consumers -> SUBSET Event]
        /\ received \in [Consumers -> SUBSET (1..MaxSeq)]
    BY DEF Init
  <2>5. events \subseteq Event /\ subs \subseteq Consumers \X Sessions
    BY DEF Init
  <2>6. watermark \in 0..MaxSeq
    BY BoundsAssumption DEF Init
  <2>7. quiet \in BOOLEAN /\ acks \subseteq Consumers \X (0..MaxSeq)
    BY DEF Init
  <2> QED
    BY <2>2, <2>3, <2>4, <2>5, <2>6, <2>7 DEF TypeOK
<1>2. Sequenced
  BY FS_EmptySet DEF Init, Sequenced
<1>3. Acknowledged /\ Handed
  BY DEF Init, Acknowledged, Handed, NoPage
<1>4. \A c \in Consumers : Owing(c)
  BY DEF Init, Owing
<1>5. RetainedUntilAcknowledged /\ NothingIsSkipped /\ NoLostWakeup
  BY DEF Init, RetainedUntilAcknowledged, NothingIsSkipped, NoLostWakeup
<1> QED
  BY <1>1, <1>2, <1>3, <1>4, <1>5 DEF IInv

\* Every step keeps the invariant.
LEMMA NextIInv == IInv /\ [Next]_vars => IInv'
<1> SUFFICES ASSUME IInv, [Next]_vars PROVE IInv'
  OBVIOUS
<1>1. ASSUME NEW s \in Sessions, NEW isActive \in BOOLEAN, AppendDurableClientEvent(s, isActive)
      PROVE  IInv'
  <2>1. active' \in [Sessions -> BOOLEAN] /\ Insert(s, FALSE)
    BY <1>1 DEF AppendDurableClientEvent, IInv, TypeOK
  <2> QED
    BY <2>1, InsertStep
<1>2. ASSUME NEW s \in Sessions, EmitRuntimeSignal(s) PROVE IInv'
  <2>1. active' \in [Sessions -> BOOLEAN] /\ Insert(s, TRUE)
    BY <1>2 DEF EmitRuntimeSignal, IInv, TypeOK
  <2> QED
    BY <2>1, InsertStep
<1>3. ASSUME NEW c \in Consumers,
             \/ LeaseRunsOut(c)
             \/ \E s \in Sessions : SubscribeSession(c, s, KindAsked(c))
             \/ \E s \in Sessions : UnsubscribeSession(c, s)
             \/ DeleteConsumer(c)
      PROVE  IInv'
  BY <1>3, LeaseStep, SubscribeStep, UnsubscribeStep, DeleteStep
<1>4. ASSUME NEW c \in Consumers,
             \/ PollEvents(c) \/ ReadEvents(c) \/ PollFails(c) \/ PollWakes(c) \/ PollTimesOut(c)
             \/ SendAcknowledgement(c) \/ ClientRestarts(c)
      PROVE  IInv'
  BY <1>4, PollSteps, ReadStep, SendAcknowledgementStep
<1>5. ASSUME UNCHANGED vars PROVE IInv'
  <2>1. UNCHANGED <<events, watermark, active, consumer, subs, quiet, owed, poll, batch, acks, received>>
    BY <1>5 DEF vars, store, client
  <2> QED
    BY <2>1 DEF IInv, TypeOK, Sequenced, Owing, Acknowledged, Handed, Given,
       RetainedUntilAcknowledged, NothingIsSkipped, NoLostWakeup, Unread
<1> QED
  BY <1>1, <1>2, <1>3, <1>4, <1>5, NotifyWaitersStep, RecoverStep, AcknowledgeStep DEF Next

\* The inductive invariant holds in every state.
THEOREM InvariantHolds == Spec => []IInv
<1>1. Init => IInv
  BY InitIInv
<1>2. IInv /\ [Next]_vars => IInv'
  BY NextIInv
<1> QED
  BY <1>1, <1>2, PTL DEF Spec

\* The tables of the store, the polls and the clients' pages keep their types.
THEOREM TypeCorrect == Spec => []TypeOK
<1>1. IInv => TypeOK
  BY DEF IInv
<1> QED
  BY <1>1, InvariantHolds, PTL

\* prune_client_events never removes what a subscriber has not acknowledged.
THEOREM NothingOwedIsPruned == Spec => []RetainedUntilAcknowledged
<1>1. IInv => RetainedUntilAcknowledged
  BY DEF IInv
<1> QED
  BY <1>1, InvariantHolds, PTL

\* No cursor passes an event that its client was not given.
THEOREM CursorsSkipNothing == Spec => []NothingIsSkipped
<1>1. IInv => NothingIsSkipped
  BY DEF IInv
<1> QED
  BY <1>1, InvariantHolds, PTL

\* poll_events enables its waiter before it reads, so that no wake-up is lost.
THEOREM WakeupsArrive == Spec => []NoLostWakeup
<1>1. IInv => NoLostWakeup
  BY DEF IInv
<1> QED
  BY <1>1, InvariantHolds, PTL

\* All of it, as the runs check it together.
THEOREM EventsAreDelivered == Spec => []EventsReachTheirConsumers
<1>1. IInv => EventsReachTheirConsumers
  BY DEF IInv, EventsReachTheirConsumers
<1> QED
  BY <1>1, InvariantHolds, PTL

\* No row that stays has its cursor moved back or its kind changed.
Advances ==
  \A c \in Consumers : (consumer[c] # None /\ consumer'[c] # None) =>
     consumer'[c].cursor >= consumer[c].cursor /\ consumer'[c].kind = consumer[c].kind

\* Rows that a transaction has not moved back are not moved back by pruning.
LEMMA PruneAdvances ==
  ASSUME TypeOK, NEW evs, NEW ss, NEW rows \in Rows, Prune(evs, rows, ss),
         \A c \in Consumers : (consumer[c] # None /\ rows[c] # None) =>
            rows[c].cursor >= consumer[c].cursor /\ rows[c].kind = consumer[c].kind
  PROVE  Advances
<1>1. consumer' = LiveRows(rows)
  BY DEF Prune
<1>2. \A c \in Consumers : consumer'[c] # None => consumer'[c] = rows[c]
  BY <1>1 DEF LiveRows
<1> QED
  BY <1>2 DEF Advances

\* A step that moves a cursor moves it forward.
LEMMA AdvancesStep == IInv /\ [Next]_vars => Advances
<1> SUFFICES ASSUME IInv, [Next]_vars PROVE Advances
  OBVIOUS
<1>1. TypeOK /\ consumer \in Rows /\ \A c \in Consumers : consumer[c] # None =>
         consumer[c] \in Row /\ consumer[c].cursor >= consumer[c].cursor
  BY Types DEF IInv
<1>2. UNCHANGED consumer => Advances
  BY <1>1 DEF Advances
<1>3. ASSUME NEW s \in Sessions, NEW transient \in BOOLEAN, Insert(s, transient) PROVE Advances
  <2>1. \E evs : Prune(evs, consumer, subs)
    BY <1>3 DEF Insert
  <2> QED
    BY <2>1, <1>1, PruneAdvances
<1>4. ASSUME NEW c \in Consumers, LeaseRunsOut(c) \/ ReadEvents(c) PROVE Advances
  <2>1. consumer[c] # None /\ \E fresh \in BOOLEAN : consumer' = [consumer EXCEPT ![c].fresh = fresh]
    BY <1>4 DEF LeaseRunsOut, ReadEvents, Touch
  <2> QED
    BY <2>1, <1>1, RowIsMarked DEF Advances
<1>5. ASSUME NEW c \in Consumers, NEW s \in Sessions, SubscribeSession(c, s, KindAsked(c)) PROVE Advances
  <2>1. /\ consumer[c] # None => consumer[c].kind = KindAsked(c)
        /\ consumer' = [consumer EXCEPT ![c] =
              [cursor |-> IF @ = None THEN LargestSequence ELSE @.cursor, kind |-> KindAsked(c),
               fresh |-> TRUE]]
    BY <1>5 DEF SubscribeSession
  <2>2. \A d \in Consumers \ {c} : consumer'[d] = consumer[d]
    BY <2>1, <1>1 DEF Rows
  <2>3. consumer[c] # None => consumer'[c].cursor = consumer[c].cursor /\ consumer'[c].kind = consumer[c].kind
    BY <2>1, <1>1 DEF Rows
  <2> QED
    BY <2>2, <2>3, <1>1 DEF Advances
<1>6. ASSUME NEW c \in Consumers, NEW s \in Sessions, UnsubscribeSession(c, s) PROVE Advances
  BY <1>6, <1>1, PruneAdvances DEF UnsubscribeSession
<1>7. ASSUME NEW c \in Consumers, DeleteConsumer(c) PROVE Advances
  <2> DEFINE rows == [consumer EXCEPT ![c] = None]
  <2>1. Prune(events, rows, {p \in subs : p[1] # c})
    BY <1>7 DEF DeleteConsumer
  <2>2. rows \in Rows /\ \A d \in Consumers : rows[d] # None => rows[d] = consumer[d]
    BY <1>1 DEF Rows
  <2> HIDE DEF rows
  <2> QED
    BY <2>1, <2>2, <1>1, PruneAdvances
<1>8. ASSUME NEW a \in acks, AcknowledgeEvents(a) PROVE Advances
  <2> DEFINE c == a[1]
             row == [consumer[c] EXCEPT !.cursor = NewCursor(consumer[c].cursor, a[2]), !.fresh = TRUE]
             rows == [consumer EXCEPT ![c] = row]
  <2>1. c \in Consumers /\ consumer[c] \in Row /\ a[2] \in 0..MaxSeq /\ consumer[c].cursor \in 0..MaxSeq
    BY <1>8, Types DEF AcknowledgeEvents, IInv, TypeOK, Row
  <2>2. Prune(events, rows, subs)
    <3>1. [consumer EXCEPT ![c].cursor = NewCursor(@, a[2]), ![c].fresh = TRUE] = rows
      BY <2>1, <1>1 DEF Rows
    <3> QED
      BY <3>1, <1>8 DEF AcknowledgeEvents
  <2>3. row \in Row /\ row.cursor = NewCursor(consumer[c].cursor, a[2]) /\ row.kind = consumer[c].kind
    BY <2>1, BoundsAssumption DEF Row, NewCursor
  <2>4. row.cursor >= consumer[c].cursor
    BY <2>1, <2>3, BoundsAssumption DEF NewCursor
  <2> HIDE DEF row
  <2>5. rows \in Rows /\ rows[c] = row /\ \A d \in Consumers \ {c} : rows[d] = consumer[d]
    BY <2>1, <2>3, <1>1 DEF Rows
  <2> HIDE DEF rows
  <2> QED
    BY <2>2, <2>3, <2>4, <2>5, <1>1, PruneAdvances
<1>9. ASSUME \/ NotifyWaiters \/ RecoverInterruptedWork \/ UNCHANGED vars
             \/ \E c \in Consumers :
                   \/ PollEvents(c) \/ PollFails(c) \/ PollWakes(c) \/ PollTimesOut(c)
                   \/ SendAcknowledgement(c) \/ ClientRestarts(c)
      PROVE  UNCHANGED consumer
  BY <1>9 DEF NotifyWaiters, RecoverInterruptedWork, vars, PollEvents, PollFails, PollWakes,
     PollTimesOut, SendAcknowledgement, ClientRestarts, store
<1> QED
  BY <1>2, <1>3, <1>4, <1>5, <1>6, <1>7, <1>8, <1>9 DEF Next, AppendDurableClientEvent, EmitRuntimeSignal

\* A repeated or late acknowledgement, or a second subscription, never moves a
\* consumer's cursor back (acknowledge_events, MAX(cursor)), and never turns a durable
\* consumer into one whose lease can run out.
THEOREM CursorsNeverGoBack == Spec => [][Advances]_vars
<1>1. IInv /\ [Next]_vars => Advances
  BY AdvancesStep
<1> QED
  BY <1>1, InvariantHolds, PTL DEF Spec

--------------------
(* The pool of Harness processes (AcpPool). *)

CONSTANTS
  Turns, Fingerprints, Fingerprint, SessionKey, NoOne, MaxPerFingerprint,
  MaxTotal, MaxGenerations, Cancellable, Droppable

VARIABLES
  nextGeneration, workers, bindings, lock, callers, jobState, cancelled, turnEnds

Pool == INSTANCE AcpPool

\* AcpPool has its own copy of the operators of FiniteSets.
LEMMA PoolSets ==
  /\ \A S : Pool!Cardinality(S) = Cardinality(S)
  /\ \A S : Pool!IsFiniteSet(S) <=> IsFiniteSet(S)
<1>1. \A S : Pool!Cardinality(S) = Cardinality(S)
  BY Zenon DEF Pool!Cardinality, Cardinality
<1>2. \A S : Pool!IsFiniteSet(S) <=> IsFiniteSet(S)
  BY Zenon DEF Pool!IsFiniteSet, IsFiniteSet
<1> QED BY <1>1, <1>2
PoolPcs == {"start", "try", "evict", "waiting", "send", "sent", "finalizing", "answered",
        "failed", "dropped"}
PoolPhases == {"none", "up", "leaving", "closing", "gone"}
PoolJobs == Turns \cup {Pool!Shutdown}
PoolWorkers == [fingerprint : Fingerprints \cup {NoOne}, phase : PoolPhases, accepting : BOOLEAN,
            listed : BOOLEAN, queue : Seq(PoolJobs), pending : Nat, current : Turns \cup {NoOne},
            live : BOOLEAN]
PoolCallers == [pc : PoolPcs, worker : Pool!Generations \cup {NoOne}, woken : BOOLEAN, observing : BOOLEAN,
            event : {"none", "sent", "acknowledged", "closed"}]
PoolStates == {"queued", "running", "executed", "cancelled"}

PoolStateOK ==
  /\ nextGeneration \in 1..(MaxGenerations + 1)
  /\ workers \in [Pool!Generations -> PoolWorkers]
  /\ bindings \in [Fingerprints \X Pool!SessionKeys -> Pool!Generations \cup {NoOne}]
  /\ lock \in Turns \cup {NoOne}
  /\ callers \in [Turns -> PoolCallers]
  /\ jobState \in [Turns -> PoolStates]
  /\ cancelled \in [Turns -> BOOLEAN]
  /\ turnEnds \in [Turns -> Nat]
  /\ \A t \in Turns : callers[t].pc \in {"evict", "send"} => callers[t].worker \in Pool!Generations
  /\ \A g \in Pool!Generations : g >= nextGeneration => workers[g].phase = "none"

\* A worker and its queue: Shutdown is the last of what was accepted.
PoolQueueOK(w) ==
  /\ w.phase # "up" => w.queue = <<>> /\ w.current = NoOne /\ ~w.accepting
  /\ \A i \in 1..Len(w.queue) : w.queue[i] = Pool!Shutdown => i = Len(w.queue) /\ ~w.accepting
PoolJobsOf(w) == {t \in Turns : Pool!Contains(w.queue, t) \/ w.current = t}
PoolCountOK(w) == Pool!IsFiniteSet(PoolJobsOf(w)) /\ w.pending = Pool!Cardinality(PoolJobsOf(w))
PoolWorkersOK == \A g \in Pool!Generations : PoolQueueOK(workers[g]) /\ PoolCountOK(workers[g])

\* A Turn is in one place only.
PoolInQueue(g, i, t) == i \in 1..Len(workers[g].queue) /\ workers[g].queue[i] = t
PoolOnePlace ==
  \A t \in Turns : \A g, h \in Pool!Generations :
    /\ \A i, j \in Nat : PoolInQueue(g, i, t) /\ PoolInQueue(h, j, t) => g = h /\ i = j
    /\ workers[g].current = t /\ workers[h].current = t => g = h
PoolJobsOK ==
  \A t \in Turns : \A g \in Pool!Generations :
    /\ Pool!Contains(workers[g].queue, t) =>
          \/ jobState[t] = "queued" /\ callers[t].pc = "sent"
          \/ jobState[t] = "cancelled" /\ callers[t].pc \in {"finalizing", "answered", "dropped"}
    /\ workers[g].current = t =>
          /\ jobState[t] \in {"running", "executed"}
          /\ callers[t].pc \in {"sent", "dropped"}
PoolEndsOK ==
  \A t \in Turns :
    /\ turnEnds[t] <= 1
    /\ callers[t].pc = "answered" => turnEnds[t] = 1
    /\ callers[t].pc = "finalizing" => turnEnds[t] = 0 /\ jobState[t] \in {"queued", "cancelled"}
    /\ jobState[t] = "running" => turnEnds[t] = 0 /\ callers[t].pc \in {"sent", "dropped"}
    /\ jobState[t] = "executed" => turnEnds[t] = 1 /\ callers[t].pc \in {"sent", "dropped", "answered"}
    /\ jobState[t] = "cancelled" => callers[t].pc \in {"finalizing", "answered", "dropped"}
    /\ jobState[t] = "queued" /\ callers[t].pc \notin {"answered", "dropped"} => turnEnds[t] = 0
PoolLimitsOK == Pool!IsFiniteSet(Pool!Listed) /\ Pool!PoolLimits
PoolIInv == PoolStateOK /\ PoolWorkersOK /\ PoolOnePlace /\ PoolJobsOK /\ PoolEndsOK /\ PoolLimitsOK

--------------------
PoolConstants ==
  /\ MaxPerFingerprint \in Nat \ {0} /\ MaxTotal \in Nat \ {0} /\ MaxGenerations \in Nat
  /\ \A t \in Turns : Fingerprint[t] \in Fingerprints
  /\ Pool!Shutdown \notin Turns /\ NoOne \notin Turns /\ NoOne \notin Pool!Generations

\* What the provers need of the constants, in parts.
LEMMA PoolConstant == ASSUME Pool!LimitsAssumption PROVE PoolConstants
  BY DEF Pool!LimitsAssumption, PoolConstants

\* A worker that was never spawned is a worker with nothing to do.
LEMMA PoolUnbornOK == Pool!Unborn \in PoolWorkers /\ PoolQueueOK(Pool!Unborn)
<1>1. <<>> \in Seq(PoolJobs) /\ Len(<<>>) = 0 OBVIOUS
<1> QED BY <1>1 DEF Pool!Unborn, PoolWorkers, PoolPhases, PoolQueueOK

\* A worker with an empty queue that runs nothing has no jobs.
LEMMA PoolEmptyJobs ==
  ASSUME PoolConstants, NEW w, w.queue = <<>>, w.current = NoOne
  PROVE  PoolJobsOf(w) = {} /\ Pool!IsFiniteSet(PoolJobsOf(w)) /\ Pool!Cardinality(PoolJobsOf(w)) = 0
<1>1. \A t \in Turns : ~Pool!Contains(w.queue, t)
  BY DEF Pool!Contains
<1>2. PoolJobsOf(w) = {} BY <1>1 DEF PoolJobsOf, PoolConstants
<1> QED BY <1>2, FS_EmptySet, PoolSets

\* The invariant holds before any Turn is submitted.
LEMMA PoolInitInv == ASSUME Pool!LimitsAssumption, Pool!Init PROVE PoolIInv
<1>0. PoolConstants BY PoolConstant
<1>1. \A g \in Pool!Generations : workers[g] = Pool!Unborn BY DEF Pool!Init
<1>2. PoolStateOK
  <2>1. workers \in [Pool!Generations -> PoolWorkers] BY PoolUnbornOK DEF Pool!Init
  <2>2. \A t \in Turns : callers[t].pc = "start"  BY DEF Pool!Init, Pool!Caller
  <2>3. callers \in [Turns -> PoolCallers] BY DEF Pool!Init, Pool!Caller, PoolCallers, PoolPcs
  <2>4. nextGeneration \in 1..(MaxGenerations + 1) BY <1>0 DEF Pool!Init, PoolConstants
  <2>5. \A g \in Pool!Generations : workers[g].phase = "none"  BY <1>1 DEF Pool!Unborn
  <2> QED BY <2>1, <2>2, <2>3, <2>4, <2>5 DEF Pool!Init, PoolStateOK, PoolStates
<1>3. PoolWorkersOK
  <2>1. Pool!Unborn.pending = 0 /\ Pool!Unborn.queue = <<>> /\ Pool!Unborn.current = NoOne BY DEF Pool!Unborn
  <2>2. PoolCountOK(Pool!Unborn) BY <2>1, <1>0, PoolEmptyJobs DEF PoolCountOK
  <2> QED BY <2>2, <1>1, PoolUnbornOK DEF PoolWorkersOK
<1>4. \A g \in Pool!Generations : workers[g].queue = <<>> /\ workers[g].current = NoOne /\ ~workers[g].listed
  BY <1>1 DEF Pool!Unborn
<1>5. PoolOnePlace BY <1>0, <1>4 DEF PoolOnePlace, PoolInQueue, PoolConstants
<1>6. PoolJobsOK BY <1>0, <1>4 DEF PoolJobsOK, Pool!Contains, PoolConstants
<1>7. PoolEndsOK BY DEF Pool!Init, Pool!Caller, PoolEndsOK
<1>8. PoolLimitsOK
  <2>1. Pool!Listed = {} BY <1>4 DEF Pool!Listed
  <2>2. \A f \in Fingerprints : {g \in Pool!Listed : workers[g].fingerprint = f} = {} BY <2>1
  <2> QED BY <1>0, <2>1, <2>2, FS_EmptySet, PoolSets DEF PoolLimitsOK, Pool!PoolLimits, PoolConstants
<1> QED BY <1>2, <1>3, <1>5, <1>6, <1>7, <1>8 DEF PoolIInv

--------------------
\* The jobs of every worker stay where they are.
PoolSamePlaces ==
  \A g \in Pool!Generations :
    /\ workers'[g].current = workers[g].current /\ workers'[g].pending = workers[g].pending
    /\ \A i \in Nat : \A t \in Turns : PoolInQueue(g, i, t)' <=> PoolInQueue(g, i, t)
PoolFewerListed ==
  \A g \in Pool!Generations : workers'[g].listed =>
      workers[g].listed /\ workers'[g].fingerprint = workers[g].fingerprint

\* A queue contains a Turn where the Turn has a position in it.
LEMMA PoolContainsIs ==
  ASSUME PoolStateOK
  PROVE  /\ \A g \in Pool!Generations : \A t : Pool!Contains(workers[g].queue, t) <=> \E i \in Nat : PoolInQueue(g, i, t)
         /\ \A g \in Pool!Generations : PoolJobsOf(workers[g]) =
               {t \in Turns : (\E i \in Nat : PoolInQueue(g, i, t)) \/ workers[g].current = t}
<1>1. \A g \in Pool!Generations : Len(workers[g].queue) \in Nat BY DEF PoolStateOK, PoolWorkers
<1>2. \A g \in Pool!Generations : \A t : Pool!Contains(workers[g].queue, t) <=> \E i \in Nat : PoolInQueue(g, i, t)
  BY <1>1 DEF Pool!Contains, PoolInQueue
<1> QED BY <1>2 DEF PoolJobsOf

\* The same after a step.
LEMMA PoolContainsIsNext ==
  ASSUME PoolStateOK'
  PROVE  /\ \A g \in Pool!Generations : \A t : Pool!Contains(workers'[g].queue, t) <=> \E i \in Nat : PoolInQueue(g, i, t)'
         /\ \A g \in Pool!Generations : PoolJobsOf(workers'[g]) =
               {t \in Turns : (\E i \in Nat : PoolInQueue(g, i, t)') \/ workers'[g].current = t}
<1>1. \A g \in Pool!Generations : Len(workers'[g].queue) \in Nat BY DEF PoolStateOK, PoolWorkers
<1>2. \A g \in Pool!Generations : \A t : Pool!Contains(workers'[g].queue, t) <=> \E i \in Nat : PoolInQueue(g, i, t)'
  BY <1>1 DEF Pool!Contains, PoolInQueue
<1> QED BY <1>2 DEF PoolJobsOf

\* A step that leaves every job in its place leaves the workers their jobs.
LEMMA PoolSameJobs ==
  ASSUME PoolStateOK, PoolStateOK', PoolSamePlaces
  PROVE  /\ \A g \in Pool!Generations : PoolJobsOf(workers'[g]) = PoolJobsOf(workers[g])
         /\ \A g \in Pool!Generations, t \in Turns : Pool!Contains(workers'[g].queue, t) <=> Pool!Contains(workers[g].queue, t)
<1>1. \A g \in Pool!Generations, t \in Turns : Pool!Contains(workers'[g].queue, t) <=> Pool!Contains(workers[g].queue, t)
  BY PoolContainsIs, PoolContainsIsNext DEF PoolSamePlaces
<1> QED BY <1>1 DEF PoolJobsOf, PoolSamePlaces

\* A step that leaves every job in its place keeps the counts of the workers.
LEMMA PoolPlacesKept ==
  ASSUME PoolIInv, PoolStateOK', PoolSamePlaces, \A g \in Pool!Generations : PoolQueueOK(workers'[g])
  PROVE  PoolWorkersOK' /\ PoolOnePlace'
<1>1. \A g \in Pool!Generations : PoolCountOK(workers'[g])
  BY PoolSameJobs DEF PoolIInv, PoolWorkersOK, PoolCountOK, PoolSamePlaces
<1>2. PoolOnePlace' BY DEF PoolOnePlace, PoolIInv, PoolSamePlaces
<1> QED BY <1>1, <1>2 DEF PoolWorkersOK

\* A step that lists no further worker keeps the limits of the pool.
LEMMA PoolLimitsKept ==
  ASSUME Pool!LimitsAssumption, PoolIInv, PoolFewerListed
  PROVE  PoolLimitsOK'
<1>0. PoolConstants BY PoolConstant
<1>1. Pool!IsFiniteSet(Pool!Listed) /\ Pool!Listed' \subseteq Pool!Listed BY DEF PoolIInv, PoolLimitsOK, PoolFewerListed, Pool!Listed
<1>2. Pool!IsFiniteSet(Pool!Listed') /\ Pool!Cardinality(Pool!Listed') <= Pool!Cardinality(Pool!Listed)
  BY <1>1, FS_Subset, PoolSets
<1>3. Pool!Cardinality(Pool!Listed) \in Nat /\ Pool!Cardinality(Pool!Listed') \in Nat BY <1>1, <1>2, FS_CardinalityType, PoolSets
<1>4. ASSUME NEW f \in Fingerprints
      PROVE  Pool!Cardinality({g \in Pool!Listed' : workers'[g].fingerprint = f}) <= MaxPerFingerprint
  <2> DEFINE A == {g \in Pool!Listed : workers[g].fingerprint = f}
             B == {g \in Pool!Listed' : workers'[g].fingerprint = f}
  <2>1. A \subseteq Pool!Listed /\ B \subseteq A BY <1>1 DEF PoolFewerListed, Pool!Listed
  <2>2. Pool!Cardinality(A) <= MaxPerFingerprint BY DEF PoolIInv, PoolLimitsOK, Pool!PoolLimits
  <2> HIDE DEF A, B
  <2>3. Pool!IsFiniteSet(A) /\ Pool!IsFiniteSet(B) /\ Pool!Cardinality(B) <= Pool!Cardinality(A) BY <1>1, <2>1, FS_Subset, PoolSets
  <2>4. Pool!Cardinality(A) \in Nat /\ Pool!Cardinality(B) \in Nat BY <2>3, FS_CardinalityType, PoolSets
  <2>5. Pool!Cardinality(B) <= MaxPerFingerprint BY <2>2, <2>3, <2>4, <1>0 DEF PoolConstants
  <2> QED BY <2>5 DEF B
<1>5. Pool!Cardinality(Pool!Listed') <= MaxTotal BY <1>2, <1>3, <1>0 DEF PoolIInv, PoolLimitsOK, Pool!PoolLimits, PoolConstants
<1> QED BY <1>2, <1>4, <1>5 DEF PoolLimitsOK, Pool!PoolLimits

PoolEarly == {"start", "try", "evict", "waiting", "send"}
\* A caller that has not sent its job may move without touching any job.
LEMMA PoolCallersKept ==
  ASSUME PoolIInv, PoolStateOK', PoolSamePlaces, UNCHANGED <<jobState, turnEnds>>,
         \A t \in Turns : \/ callers'[t].pc = callers[t].pc
                          \/ /\ callers[t].pc \in PoolEarly
                             /\ callers'[t].pc \in PoolEarly \cup {"failed", "finalizing"}
  PROVE  PoolJobsOK' /\ PoolEndsOK'
<1>1. PoolJobsOK'
  <2>1. ASSUME NEW t \in Turns, NEW g \in Pool!Generations
        PROVE  /\ Pool!Contains(workers'[g].queue, t) =>
                     \/ jobState'[t] = "queued" /\ callers'[t].pc = "sent"
                     \/ jobState'[t] = "cancelled" /\ callers'[t].pc \in {"finalizing", "answered", "dropped"}
               /\ workers'[g].current = t =>
                     /\ jobState'[t] \in {"running", "executed"}
                     /\ callers'[t].pc \in {"sent", "dropped"}
    <3>1. callers[t].pc \in {"sent", "finalizing", "answered", "dropped"} => callers'[t].pc = callers[t].pc
      BY DEF PoolEarly
    <3>2. Pool!Contains(workers'[g].queue, t) <=> Pool!Contains(workers[g].queue, t) BY PoolSameJobs DEF PoolIInv
    <3>3. workers'[g].current = workers[g].current BY DEF PoolSamePlaces
    <3> QED BY <3>1, <3>2, <3>3 DEF PoolIInv, PoolJobsOK
  <2> QED BY <2>1 DEF PoolJobsOK
<1>2. PoolEndsOK'
  <2>1. ASSUME NEW t \in Turns, callers[t].pc \in PoolEarly
        PROVE  jobState[t] = "queued" /\ turnEnds[t] = 0
    BY <2>1 DEF PoolIInv, PoolEndsOK, PoolStateOK, PoolStates, PoolEarly
  <2>2. \A t \in Turns : callers[t].pc \in PoolEarly =>
           callers'[t].pc \in {"start", "try", "evict", "waiting", "send", "failed", "finalizing"}
    BY DEF PoolEarly
  <2>3. ASSUME NEW t \in Turns
        PROVE  /\ turnEnds'[t] <= 1
               /\ callers'[t].pc = "answered" => turnEnds'[t] = 1
               /\ callers'[t].pc = "finalizing" => turnEnds'[t] = 0 /\ jobState'[t] \in {"queued", "cancelled"}
               /\ jobState'[t] = "running" => turnEnds'[t] = 0 /\ callers'[t].pc \in {"sent", "dropped"}
               /\ jobState'[t] = "executed" => turnEnds'[t] = 1 /\ callers'[t].pc \in {"sent", "dropped", "answered"}
               /\ jobState'[t] = "cancelled" => callers'[t].pc \in {"finalizing", "answered", "dropped"}
               /\ jobState'[t] = "queued" /\ callers'[t].pc \notin {"answered", "dropped"} => turnEnds'[t] = 0
    <3>1. CASE callers[t].pc \in PoolEarly
      BY <2>1, <2>2, <3>1
    <3>2. CASE callers'[t].pc = callers[t].pc
      BY <3>2 DEF PoolIInv, PoolEndsOK
    <3> QED BY <3>1, <3>2
  <2> QED BY <2>3 DEF PoolEndsOK
<1> QED BY <1>1, <1>2

\* A step that moves no job and ends no Turn.
LEMMA PoolQuietInv ==
  ASSUME Pool!LimitsAssumption, PoolIInv, PoolStateOK', PoolSamePlaces, PoolFewerListed,
         \A g \in Pool!Generations : PoolQueueOK(workers'[g]),
         UNCHANGED <<jobState, turnEnds>>,
         \A t \in Turns : \/ callers'[t].pc = callers[t].pc
                          \/ /\ callers[t].pc \in PoolEarly
                             /\ callers'[t].pc \in PoolEarly \cup {"failed", "finalizing"}
  PROVE  PoolIInv'
  BY PoolPlacesKept, PoolLimitsKept, PoolCallersKept DEF PoolIInv

\* Every worker as it is, but for the groups it is in.
PoolRelisted == \A g \in Pool!Generations :
  /\ workers'[g].queue = workers[g].queue /\ workers'[g].current = workers[g].current
  /\ workers'[g].pending = workers[g].pending /\ workers'[g].accepting = workers[g].accepting
  /\ workers'[g].phase = workers[g].phase /\ workers'[g].fingerprint = workers[g].fingerprint
  /\ workers'[g].listed => workers[g].listed

\* Unlisting workers leaves every job in its place.
LEMMA PoolRelistedKeeps ==
  ASSUME PoolIInv, PoolRelisted
  PROVE  PoolSamePlaces /\ PoolFewerListed /\ \A g \in Pool!Generations : PoolQueueOK(workers'[g])
<1>1. PoolSamePlaces BY DEF PoolSamePlaces, PoolInQueue, PoolRelisted
<1>2. PoolFewerListed BY DEF PoolFewerListed, PoolRelisted
<1>3. \A g \in Pool!Generations : PoolQueueOK(workers'[g]) BY DEF PoolQueueOK, PoolRelisted, PoolIInv, PoolWorkersOK
<1> QED BY <1>1, <1>2, <1>3

\* The pruning at the head of try_worker only takes workers off the list.
LEMMA PoolUnlistIs ==
  ASSUME PoolIInv, workers' = Pool!Unlist(workers)
  PROVE  PoolRelisted /\ workers' \in [Pool!Generations -> PoolWorkers]
<1>1. \A g \in Pool!Generations : workers[g] \in PoolWorkers BY DEF PoolIInv, PoolStateOK
<1>2. \A g \in Pool!Generations : workers'[g] = IF workers[g].accepting THEN workers[g]
                                           ELSE [workers[g] EXCEPT !.listed = FALSE]
  BY DEF Pool!Unlist
<1>3. \A g \in Pool!Generations : workers'[g] \in PoolWorkers BY <1>1, <1>2 DEF PoolWorkers
<1>4. workers' \in [Pool!Generations -> PoolWorkers] BY <1>3 DEF Pool!Unlist
<1>5. PoolRelisted BY <1>1, <1>2 DEF PoolRelisted, PoolWorkers
<1> QED BY <1>4, <1>5

\* The bindings that are left by a pruning, or by the end of a worker, are bindings.
LEMMA PoolPrunedIs ==
  ASSUME PoolStateOK
  PROVE  /\ Pool!Pruned \in [Fingerprints \X Pool!SessionKeys -> Pool!Generations \cup {NoOne}]
         /\ \A b : \A g \in Pool!Generations : [Pool!Pruned EXCEPT ![b] = g] \in [Fingerprints \X Pool!SessionKeys -> Pool!Generations \cup {NoOne}]
         /\ \A g : Pool!Unbound(g) \in [Fingerprints \X Pool!SessionKeys -> Pool!Generations \cup {NoOne}]
<1>1. Pool!Pruned \in [Fingerprints \X Pool!SessionKeys -> Pool!Generations \cup {NoOne}] BY DEF Pool!Pruned, PoolStateOK
<1>2. \A g : Pool!Unbound(g) \in [Fingerprints \X Pool!SessionKeys -> Pool!Generations \cup {NoOne}]
  BY DEF Pool!Unbound, PoolStateOK
<1> QED BY <1>1, <1>2

\* A caller that has not sent its job keeps the invariant, also with a pruning.
LEMMA PoolStayRelisted ==
  ASSUME Pool!LimitsAssumption, PoolIInv, PoolStateOK', PoolRelisted, UNCHANGED <<jobState, turnEnds>>,
         \A t \in Turns : \/ callers'[t].pc = callers[t].pc
                          \/ /\ callers[t].pc \in PoolEarly
                             /\ callers'[t].pc \in PoolEarly \cup {"failed", "finalizing"}
  PROVE  PoolIInv'
  BY PoolRelistedKeeps, PoolQuietInv

\* What try_worker may hand out is a worker.
LEMMA PoolCandidatesAre ==
  ASSUME PoolConstants, PoolStateOK, NEW t \in Turns, NEW g \in Pool!Candidates(t)
  PROVE  g \in Pool!Generations
<1>1. Pool!Group(Fingerprint[t]) \subseteq Pool!Generations BY DEF Pool!Group
<1>2. Pool!Home(t) \in Fingerprints \X Pool!SessionKeys BY DEF Pool!Home, PoolConstants, Pool!SessionKeys
<1>3. Pool!Pruned[Pool!Home(t)] # NoOne => Pool!Pruned[Pool!Home(t)] \in Pool!Generations
  BY <1>2, PoolPrunedIs
<1> QED BY <1>1, <1>3 DEF Pool!Candidates, Pool!Idle, Pool!LeastLoaded

\* Every step of a caller before its job is sent, but for a spawn and an eviction,
\* keeps the invariant, and so do a cancellation and an acknowledgement.
LEMMA PoolChoosing ==
  ASSUME Pool!LimitsAssumption, PoolIInv, NEW t \in Turns,
         Pool!Register(t) \/ Pool!UseWorker(t) \/ Pool!SpawnFails(t) \/ Pool!PickIdle(t) \/ Pool!WaitForCapacity(t) \/ Pool!Wakes(t)
           \/ Pool!CancelledWhileChoosing(t) \/ Pool!AcknowledgeEvent(t) \/ Pool!Cancel(t)
  PROVE  PoolIInv'
<1>0. PoolConstants /\ PoolStateOK BY PoolConstant DEF PoolIInv
<1>a. callers \in [Turns -> PoolCallers] /\ callers[t] \in PoolCallers BY <1>0 DEF PoolStateOK
<1>b. workers' = workers => PoolRelisted BY DEF PoolRelisted
<1>1. CASE Pool!Register(t)
  <2>1. /\ callers' = [callers EXCEPT ![t].pc = "try", ![t].woken = FALSE] /\ callers[t].pc = "start"
        /\ UNCHANGED <<nextGeneration, workers, bindings, lock, jobState, cancelled, turnEnds>>
    BY <1>1 DEF Pool!Register
  <2>2. callers' \in [Turns -> PoolCallers] BY <2>1, <1>a DEF PoolCallers, PoolPcs
  <2>3. PoolStateOK' BY <2>1, <2>2, <1>0 DEF PoolStateOK, PoolCallers
  <2> QED BY <2>1, <2>3, <1>a, <1>b, PoolStayRelisted DEF PoolEarly
<1>2. CASE Pool!UseWorker(t)
  <2>0. PICK g \in Pool!Candidates(t) : Pool!TakesWorker(t, g) BY <1>2 DEF Pool!UseWorker
  <2>1. g \in Pool!Generations BY <1>0, PoolCandidatesAre
  <2>2. /\ callers' = [callers EXCEPT ![t].pc = "send", ![t].worker = g] /\ callers[t].pc = "try"
        /\ bindings' = [Pool!Pruned EXCEPT ![Pool!Home(t)] = g] /\ workers' = Pool!Unlist(workers)
        /\ UNCHANGED <<nextGeneration, lock, jobState, cancelled, turnEnds>>
    BY <1>2, <2>0 DEF Pool!UseWorker, Pool!TakesWorker
  <2>3. callers' \in [Turns -> PoolCallers] BY <2>1, <2>2, <1>a DEF PoolCallers, PoolPcs
  <2>4. PoolRelisted /\ workers' \in [Pool!Generations -> PoolWorkers] BY <2>2, PoolUnlistIs
  <2>5. bindings' \in [Fingerprints \X Pool!SessionKeys -> Pool!Generations \cup {NoOne}] BY <1>0, <2>1, <2>2, PoolPrunedIs
  <2>6. \A u \in Turns : callers'[u].pc \in {"evict", "send"} => callers'[u].worker \in Pool!Generations
    BY <1>0, <1>a, <2>1, <2>2 DEF PoolStateOK, PoolCallers
  <2>7. PoolStateOK' BY <2>2, <2>3, <2>4, <2>5, <2>6, <1>0 DEF PoolStateOK, PoolRelisted
  <2> QED BY <2>2, <2>4, <2>7, <1>a, PoolStayRelisted DEF PoolEarly
<1>3. CASE Pool!SpawnFails(t)
  <2>2. /\ callers' = [callers EXCEPT ![t].pc = "failed"] /\ callers[t].pc = "try"
        /\ bindings' = Pool!Pruned /\ workers' = Pool!Unlist(workers)
        /\ UNCHANGED <<nextGeneration, lock, jobState, cancelled, turnEnds>>
    BY <1>3 DEF Pool!SpawnFails, Pool!GoTo
  <2>3. callers' \in [Turns -> PoolCallers] BY <2>2, <1>a DEF PoolCallers, PoolPcs
  <2>4. PoolRelisted /\ workers' \in [Pool!Generations -> PoolWorkers] BY <2>2, PoolUnlistIs
  <2>5. bindings' \in [Fingerprints \X Pool!SessionKeys -> Pool!Generations \cup {NoOne}] BY <1>0, <2>2, PoolPrunedIs
  <2>6. \A u \in Turns : callers'[u].pc \in {"evict", "send"} => callers'[u].worker \in Pool!Generations
    BY <1>0, <1>a, <2>2 DEF PoolStateOK, PoolCallers
  <2>7. PoolStateOK' BY <2>2, <2>3, <2>4, <2>5, <2>6, <1>0 DEF PoolStateOK, PoolRelisted
  <2> QED BY <2>2, <2>4, <2>7, <1>a, PoolStayRelisted DEF PoolEarly
<1>4. CASE Pool!PickIdle(t)
  <2>0. PICK g \in Pool!Generations : callers' = [callers EXCEPT ![t].pc = "evict", ![t].worker = g]
    BY <1>4 DEF Pool!PickIdle, Pool!Idle
  <2>2. /\ callers[t].pc = "try" /\ lock' = t
        /\ bindings' = Pool!Pruned /\ workers' = Pool!Unlist(workers)
        /\ UNCHANGED <<nextGeneration, jobState, cancelled, turnEnds>>
    BY <1>4 DEF Pool!PickIdle
  <2>3. callers' \in [Turns -> PoolCallers] BY <2>0, <1>a DEF PoolCallers, PoolPcs
  <2>4. PoolRelisted /\ workers' \in [Pool!Generations -> PoolWorkers] BY <2>2, PoolUnlistIs
  <2>5. bindings' \in [Fingerprints \X Pool!SessionKeys -> Pool!Generations \cup {NoOne}] BY <1>0, <2>2, PoolPrunedIs
  <2>6. \A u \in Turns : callers'[u].pc \in {"evict", "send"} => callers'[u].worker \in Pool!Generations
    BY <1>0, <1>a, <2>0 DEF PoolStateOK, PoolCallers
  <2>7. PoolStateOK' BY <2>2, <2>3, <2>4, <2>5, <2>6, <1>0 DEF PoolStateOK, PoolRelisted
  <2> QED BY <2>0, <2>2, <2>4, <2>7, <1>a, PoolStayRelisted DEF PoolEarly
<1>5. CASE Pool!WaitForCapacity(t)
  <2>2. /\ callers' = [callers EXCEPT ![t].pc = "waiting"] /\ callers[t].pc = "try"
        /\ bindings' = Pool!Pruned /\ workers' = Pool!Unlist(workers)
        /\ UNCHANGED <<nextGeneration, lock, jobState, cancelled, turnEnds>>
    BY <1>5 DEF Pool!WaitForCapacity, Pool!GoTo
  <2>3. callers' \in [Turns -> PoolCallers] BY <2>2, <1>a DEF PoolCallers, PoolPcs
  <2>4. PoolRelisted /\ workers' \in [Pool!Generations -> PoolWorkers] BY <2>2, PoolUnlistIs
  <2>5. bindings' \in [Fingerprints \X Pool!SessionKeys -> Pool!Generations \cup {NoOne}] BY <1>0, <2>2, PoolPrunedIs
  <2>6. \A u \in Turns : callers'[u].pc \in {"evict", "send"} => callers'[u].worker \in Pool!Generations
    BY <1>0, <1>a, <2>2 DEF PoolStateOK, PoolCallers
  <2>7. PoolStateOK' BY <2>2, <2>3, <2>4, <2>5, <2>6, <1>0 DEF PoolStateOK, PoolRelisted
  <2> QED BY <2>2, <2>4, <2>7, <1>a, PoolStayRelisted DEF PoolEarly
<1>6. CASE Pool!Wakes(t)
  <2>1. /\ callers' = [callers EXCEPT ![t].pc = "start"] /\ callers[t].pc = "waiting"
        /\ UNCHANGED <<nextGeneration, workers, bindings, lock, jobState, cancelled, turnEnds>>
    BY <1>6 DEF Pool!Wakes, Pool!GoTo
  <2>2. callers' \in [Turns -> PoolCallers] BY <2>1, <1>a DEF PoolCallers, PoolPcs
  <2>3. PoolStateOK' BY <2>1, <2>2, <1>0 DEF PoolStateOK, PoolCallers
  <2> QED BY <2>1, <2>3, <1>a, <1>b, PoolStayRelisted DEF PoolEarly
<1>7. CASE Pool!CancelledWhileChoosing(t)
  <2>1. /\ callers' = [callers EXCEPT ![t].pc = "finalizing"] /\ callers[t].pc \in {"start", "waiting"}
        /\ UNCHANGED <<nextGeneration, workers, bindings, lock, jobState, cancelled, turnEnds>>
    BY <1>7 DEF Pool!CancelledWhileChoosing, Pool!GoTo
  <2>2. callers' \in [Turns -> PoolCallers] BY <2>1, <1>a DEF PoolCallers, PoolPcs
  <2>3. PoolStateOK' BY <2>1, <2>2, <1>0 DEF PoolStateOK, PoolCallers
  <2> QED BY <2>1, <2>3, <1>a, <1>b, PoolStayRelisted DEF PoolEarly
<1>8. CASE Pool!AcknowledgeEvent(t)
  <2>1. /\ callers' = [callers EXCEPT ![t].event = "acknowledged"]
        /\ UNCHANGED <<nextGeneration, workers, bindings, lock, jobState, cancelled, turnEnds>>
    BY <1>8 DEF Pool!AcknowledgeEvent
  <2>2. callers' \in [Turns -> PoolCallers] BY <2>1, <1>a DEF PoolCallers, PoolPcs
  <2>3. \A u \in Turns : callers'[u].pc = callers[u].pc /\ callers'[u].worker = callers[u].worker
    BY <2>1, <1>a DEF PoolCallers
  <2>4. PoolStateOK' BY <2>1, <2>2, <2>3, <1>0 DEF PoolStateOK
  <2> QED BY <2>1, <2>3, <2>4, <1>a, <1>b, PoolStayRelisted DEF PoolEarly
<1>9. CASE Pool!Cancel(t)
  <2>1. /\ cancelled' \in [Turns -> BOOLEAN]
        /\ UNCHANGED <<nextGeneration, workers, bindings, lock, jobState, callers, turnEnds>>
    BY <1>9, <1>0 DEF Pool!Cancel, PoolStateOK
  <2>4. PoolStateOK' BY <2>1, <1>0 DEF PoolStateOK
  <2> QED BY <2>1, <2>4, <1>b, PoolStayRelisted
<1> QED BY <1>1, <1>2, <1>3, <1>4, <1>5, <1>6, <1>7, <1>8, <1>9

\* One worker changes and keeps its jobs.
PoolBecomes(g, w) ==
  /\ w \in PoolWorkers /\ workers' = [workers EXCEPT ![g] = w] /\ PoolQueueOK(w)
  /\ w.current = workers[g].current /\ w.pending = workers[g].pending
  /\ \A i \in Nat : \A t \in Turns :
        (i \in 1..Len(w.queue) /\ w.queue[i] = t) <=> PoolInQueue(g, i, t)
  /\ w.listed => workers[g].listed /\ w.fingerprint = workers[g].fingerprint
  /\ workers[g].phase = "none" => w.phase = "none"

\* A worker that changes neither its job nor its queue keeps what the others have.
LEMMA PoolBecomesKeeps ==
  ASSUME PoolIInv, NEW g \in Pool!Generations, NEW w, PoolBecomes(g, w)
  PROVE  /\ PoolSamePlaces /\ PoolFewerListed /\ \A h \in Pool!Generations : PoolQueueOK(workers'[h])
         /\ workers' \in [Pool!Generations -> PoolWorkers]
         /\ \A h \in Pool!Generations : workers[h].phase = "none" => workers'[h].phase = "none"
<1>1. workers \in [Pool!Generations -> PoolWorkers] BY DEF PoolIInv, PoolStateOK
<1>2. workers'[g] = w /\ \A h \in Pool!Generations \ {g} : workers'[h] = workers[h]
  BY <1>1 DEF PoolBecomes
<1>3. workers' \in [Pool!Generations -> PoolWorkers] BY <1>1 DEF PoolBecomes
<1>4. PoolSamePlaces
  <2>1. ASSUME NEW h \in Pool!Generations
        PROVE  /\ workers'[h].current = workers[h].current /\ workers'[h].pending = workers[h].pending
               /\ \A i \in Nat : \A t \in Turns : PoolInQueue(h, i, t)' <=> PoolInQueue(h, i, t)
    <3>1. CASE h = g BY <1>2, <3>1 DEF PoolBecomes, PoolInQueue
    <3>2. CASE h # g BY <1>2, <3>2 DEF PoolInQueue
    <3> QED BY <3>1, <3>2
  <2> QED BY <2>1 DEF PoolSamePlaces
<1>5. PoolFewerListed BY <1>2 DEF PoolFewerListed, PoolBecomes
<1>6. \A h \in Pool!Generations : PoolQueueOK(workers'[h])
  <2>1. ASSUME NEW h \in Pool!Generations PROVE PoolQueueOK(workers'[h])
    <3>1. CASE h = g BY <1>2, <3>1 DEF PoolBecomes
    <3>2. CASE h # g BY <1>2, <3>2 DEF PoolIInv, PoolWorkersOK
    <3> QED BY <3>1, <3>2
  <2> QED BY <2>1
<1> QED BY <1>2, <1>3, <1>4, <1>5, <1>6 DEF PoolBecomes

\* Waking the waiting callers changes nothing else about them.
LEMMA PoolNotifiedIs ==
  ASSUME NEW cs \in [Turns -> PoolCallers]
  PROVE  /\ Pool!NotifyWaiters(cs) \in [Turns -> PoolCallers]
         /\ \A t \in Turns : /\ Pool!NotifyWaiters(cs)[t].pc = cs[t].pc
                             /\ Pool!NotifyWaiters(cs)[t].worker = cs[t].worker
<1>1. ASSUME NEW t \in Turns
      PROVE  /\ Pool!NotifyWaiters(cs)[t] \in PoolCallers /\ Pool!NotifyWaiters(cs)[t].pc = cs[t].pc
             /\ Pool!NotifyWaiters(cs)[t].worker = cs[t].worker
  <2>1. cs[t] \in PoolCallers OBVIOUS
  <2> QED BY <2>1 DEF Pool!NotifyWaiters, PoolCallers
<1> QED BY <1>1 DEF Pool!NotifyWaiters

\* A step that changes one worker without touching its jobs keeps the invariant.
LEMMA PoolChangingWorker ==
  ASSUME Pool!LimitsAssumption, PoolIInv, NEW g \in Pool!Generations, NEW w, PoolBecomes(g, w),
         UNCHANGED <<nextGeneration, lock, jobState, cancelled, turnEnds>>,
         bindings' = bindings \/ bindings' = Pool!Unbound(g),
         callers' \in [Turns -> PoolCallers],
         \A t \in Turns : \/ callers'[t].pc = callers[t].pc /\ callers'[t].worker = callers[t].worker
                          \/ callers[t].pc \in PoolEarly /\ callers'[t].pc = "waiting"
  PROVE  PoolIInv'
<1>1. PoolStateOK BY DEF PoolIInv
<1>2. bindings' \in [Fingerprints \X Pool!SessionKeys -> Pool!Generations \cup {NoOne}] BY <1>1, PoolPrunedIs DEF PoolStateOK
<1>3. \A u \in Turns : callers'[u].pc \in {"evict", "send"} => callers'[u].worker \in Pool!Generations
  BY <1>1 DEF PoolStateOK
<1>4. PoolStateOK' BY <1>1, <1>2, <1>3, PoolBecomesKeeps DEF PoolStateOK
<1> QED BY <1>4, PoolBecomesKeeps, PoolQuietInv DEF PoolEarly

\* A worker that times out, is shut down, leaves its group or closes its process has no
\* job, so its end keeps the invariant, and so does an event of a running job.
LEMMA PoolLeaving ==
  ASSUME Pool!LimitsAssumption, PoolIInv, NEW g \in Pool!Generations,
         Pool!IdleTimeout(g) \/ Pool!TakeShutdown(g) \/ Pool!LeaveGroups(g) \/ Pool!CloseProcess(g) \/ Pool!EmitEvent(g)
  PROVE  PoolIInv'
<1>0. PoolConstants /\ PoolStateOK BY PoolConstant DEF PoolIInv
<1>1. workers[g] \in PoolWorkers /\ PoolQueueOK(workers[g]) /\ PoolCountOK(workers[g]) BY DEF PoolIInv, PoolStateOK, PoolWorkersOK
<1>2. workers[g].queue \in Seq(PoolJobs) /\ Len(workers[g].queue) \in Nat BY <1>1 DEF PoolWorkers
<1>3. callers \in [Turns -> PoolCallers] BY <1>0 DEF PoolStateOK
<1>4. CASE Pool!IdleTimeout(g)
  <2> DEFINE w == [workers[g] EXCEPT !.accepting = FALSE, !.phase = "leaving"]
  <2>1. w \in PoolWorkers BY <1>1 DEF PoolWorkers, PoolPhases
  <2>2. /\ w.queue = workers[g].queue /\ w.current = workers[g].current /\ w.pending = workers[g].pending
        /\ w.listed = workers[g].listed /\ w.fingerprint = workers[g].fingerprint
        /\ w.phase = "leaving" /\ w.accepting = FALSE
    BY <1>1 DEF PoolWorkers
  <2>3. /\ workers' = [workers EXCEPT ![g] = w] /\ workers[g].queue = <<>> /\ workers[g].current = NoOne
        /\ workers[g].phase = "up"
        /\ UNCHANGED <<nextGeneration, bindings, lock, callers, jobState, cancelled, turnEnds>>
    BY <1>4 DEF Pool!IdleTimeout
  <2> HIDE DEF w
  <2>4. PoolQueueOK(w) BY <2>2, <2>3 DEF PoolQueueOK
  <2>5. PoolBecomes(g, w) BY <2>1, <2>2, <2>3, <2>4 DEF PoolBecomes, PoolInQueue
  <2> QED BY <2>3, <2>5, <1>3, PoolChangingWorker
<1>5. CASE Pool!TakeShutdown(g)
  <2> DEFINE w == [workers[g] EXCEPT !.queue = Tail(@), !.phase = "leaving"]
  <2>1. /\ workers' = [workers EXCEPT ![g] = w] /\ workers[g].queue # <<>> /\ workers[g].current = NoOne
        /\ Head(workers[g].queue) = Pool!Shutdown /\ workers[g].phase = "up"
        /\ UNCHANGED <<nextGeneration, bindings, lock, callers, jobState, cancelled, turnEnds>>
    BY <1>5 DEF Pool!TakeShutdown
  <2>a. PICK q \in Seq(PoolJobs) : q = workers[g].queue BY <1>2
  <2>b. /\ q # <<>> /\ Len(q) \in Nat /\ Head(q) = q[1] /\ Len(q) >= 1 /\ Tail(q) \in Seq(PoolJobs)
        /\ Len(Tail(q)) = Len(q) - 1
    BY <2>1, <2>a, HeadTailProperties
  <2>2. Len(workers[g].queue) = 1 /\ workers[g].queue[1] = Pool!Shutdown /\ ~workers[g].accepting
    <3>1. 1 \in 1..Len(workers[g].queue) /\ workers[g].queue[1] = Pool!Shutdown BY <2>1, <2>a, <2>b
    <3> QED BY <1>1, <3>1 DEF PoolQueueOK
  <2>3. Tail(workers[g].queue) = <<>> /\ <<>> \in Seq(PoolJobs)
    <3>1. Len(Tail(q)) = 0 BY <2>2, <2>a, <2>b
    <3> QED BY <2>a, <2>b, <3>1, EmptySeq
  <2>4. w \in PoolWorkers BY <1>1, <2>3 DEF PoolWorkers, PoolPhases
  <2>5. /\ w.queue = <<>> /\ w.current = workers[g].current /\ w.pending = workers[g].pending
        /\ w.listed = workers[g].listed /\ w.fingerprint = workers[g].fingerprint
        /\ w.phase = "leaving" /\ w.accepting = workers[g].accepting
    BY <1>1, <2>3 DEF PoolWorkers
  <2> HIDE DEF w
  <2>6. PoolQueueOK(w) BY <2>1, <2>2, <2>5 DEF PoolQueueOK
  <2>7. \A i \in Nat : \A t \in Turns : ~(i \in 1..Len(w.queue)) /\ ~PoolInQueue(g, i, t)
    BY <1>0, <2>2, <2>5 DEF PoolInQueue, PoolConstants
  <2>8. PoolBecomes(g, w) BY <2>1, <2>4, <2>5, <2>6, <2>7 DEF PoolBecomes
  <2> QED BY <2>1, <2>8, <1>3, PoolChangingWorker
<1>6. CASE Pool!LeaveGroups(g)
  <2> DEFINE w == [workers[g] EXCEPT !.listed = FALSE, !.phase = "closing"]
  <2>1. w \in PoolWorkers BY <1>1 DEF PoolWorkers, PoolPhases
  <2>2. /\ w.queue = workers[g].queue /\ w.current = workers[g].current /\ w.pending = workers[g].pending
        /\ w.listed = FALSE
        /\ w.phase = "closing" /\ w.accepting = workers[g].accepting
    BY <1>1 DEF PoolWorkers
  <2>3. /\ workers' = [workers EXCEPT ![g] = w] /\ workers[g].phase = "leaving"
        /\ bindings' = Pool!Unbound(g)
        /\ UNCHANGED <<nextGeneration, lock, callers, jobState, cancelled, turnEnds>>
    BY <1>6 DEF Pool!LeaveGroups
  <2> HIDE DEF w
  <2>4. PoolQueueOK(w) BY <2>2, <2>3, <1>1 DEF PoolQueueOK
  <2>5. PoolBecomes(g, w) BY <2>1, <2>2, <2>3, <2>4 DEF PoolBecomes, PoolInQueue
  <2> QED BY <2>3, <2>5, <1>3, PoolChangingWorker
<1>7. CASE Pool!CloseProcess(g)
  <2> DEFINE w == [Pool!Unborn EXCEPT !.phase = "gone"]
  <2>1. w \in PoolWorkers BY PoolUnbornOK DEF PoolWorkers, PoolPhases
  <2>2. w.queue = <<>> /\ w.current = NoOne /\ w.pending = 0 /\ w.listed = FALSE /\ w.phase = "gone"
        /\ w.accepting = FALSE
    BY DEF Pool!Unborn
  <2>3. /\ workers' = [workers EXCEPT ![g] = w] /\ workers[g].phase = "closing"
        /\ callers' = Pool!NotifyWaiters(callers)
        /\ UNCHANGED <<nextGeneration, bindings, lock, jobState, cancelled, turnEnds>>
    BY <1>7 DEF Pool!CloseProcess
  <2> HIDE DEF w
  <2>4. PoolQueueOK(w) BY <2>2 DEF PoolQueueOK
  <2>5. workers[g].queue = <<>> /\ workers[g].current = NoOne BY <1>1, <2>3 DEF PoolQueueOK
  <2>6. workers[g].pending = 0 BY <1>0, <1>1, <2>5, PoolEmptyJobs DEF PoolCountOK
  <2>7. \A i \in Nat : \A t \in Turns : ~(i \in 1..Len(w.queue)) /\ ~PoolInQueue(g, i, t)
    BY <2>2, <2>5 DEF PoolInQueue
  <2>8. PoolBecomes(g, w) BY <2>1, <2>2, <2>3, <2>4, <2>5, <2>6, <2>7 DEF PoolBecomes
  <2> QED BY <2>3, <2>8, <1>3, PoolNotifiedIs, PoolChangingWorker
<1>8. CASE Pool!EmitEvent(g)
  <2>1. PICK t : t = workers[g].current OBVIOUS
  <2>2. /\ t # NoOne /\ callers' = [callers EXCEPT ![t].event = "sent"]
        /\ UNCHANGED <<nextGeneration, workers, bindings, lock, jobState, cancelled, turnEnds>>
    BY <2>1, <1>8 DEF Pool!EmitEvent
  <2>3. callers' \in [Turns -> PoolCallers] BY <2>2, <1>3 DEF PoolCallers
  <2>4. \A u \in Turns : callers'[u].pc = callers[u].pc /\ callers'[u].worker = callers[u].worker
    BY <2>2, <1>3 DEF PoolCallers
  <2>5. PoolStateOK' BY <1>0, <2>2, <2>3, <2>4 DEF PoolStateOK
  <2> QED BY <2>2, <2>4, <2>5, PoolStayRelisted DEF PoolRelisted
<1> QED BY <1>4, <1>5, <1>6, <1>7, <1>8

\* An eviction queues Shutdown behind every job that was accepted (stop_accepting).
LEMMA PoolEvictInv ==
  ASSUME Pool!LimitsAssumption, PoolIInv, NEW t \in Turns, Pool!Evict(t)
  PROVE  PoolIInv'
<1>0. PoolConstants /\ PoolStateOK BY PoolConstant DEF PoolIInv
<1>a. callers \in [Turns -> PoolCallers] /\ callers[t] \in PoolCallers BY <1>0 DEF PoolStateOK
<1>1. PICK g \in Pool!Generations : g = callers[t].worker BY <1>0 DEF Pool!Evict, PoolStateOK
<1>2. workers[g] \in PoolWorkers /\ PoolQueueOK(workers[g]) BY DEF PoolIInv, PoolStateOK, PoolWorkersOK
<1>3. workers[g].queue \in Seq(PoolJobs) /\ Len(workers[g].queue) \in Nat BY <1>2 DEF PoolWorkers
<1> DEFINE w == [Pool!StopAccepting(workers[g]) EXCEPT !.listed = FALSE]
<1>4. /\ workers' = [workers EXCEPT ![g] = w] /\ callers[t].pc = "evict"
      /\ bindings' = Pool!Unbound(g) /\ lock' = NoOne
      /\ callers' = [callers EXCEPT ![t].pc = "waiting", ![t].worker = NoOne]
      /\ UNCHANGED <<nextGeneration, jobState, cancelled, turnEnds>>
  BY <1>1 DEF Pool!Evict
<1>5. /\ w \in PoolWorkers /\ w.current = workers[g].current /\ w.pending = workers[g].pending
      /\ w.listed = FALSE /\ w.phase = workers[g].phase /\ w.accepting = FALSE
      /\ w.queue = IF workers[g].accepting THEN Append(workers[g].queue, Pool!Shutdown) ELSE workers[g].queue
  <2>0. Append(workers[g].queue, Pool!Shutdown) \in Seq(PoolJobs) BY <1>3 DEF PoolJobs
  <2>1. CASE workers[g].accepting
    BY <1>2, <2>0, <2>1 DEF Pool!StopAccepting, PoolWorkers
  <2>2. CASE ~workers[g].accepting
    BY <1>2, <2>2 DEF Pool!StopAccepting, PoolWorkers
  <2> QED BY <2>1, <2>2
<1> HIDE DEF w
<1>6. PoolQueueOK(w)
  <2>1. CASE workers[g].accepting
    <3>1. workers[g].phase = "up"  BY <1>2, <2>1 DEF PoolQueueOK
    <3>2. \A i \in 1..Len(workers[g].queue) : workers[g].queue[i] # Pool!Shutdown
      BY <1>2, <2>1 DEF PoolQueueOK
    <3>3. w.queue = Append(workers[g].queue, Pool!Shutdown) BY <1>5, <2>1
    <3>4. Len(w.queue) = Len(workers[g].queue) + 1 /\ \A i \in 1..Len(workers[g].queue) : w.queue[i] = workers[g].queue[i]
      BY <1>3, <3>3 DEF PoolJobs
    <3> QED BY <1>3, <1>5, <3>1, <3>2, <3>4 DEF PoolQueueOK
  <2>2. CASE ~workers[g].accepting
    BY <1>2, <1>5, <2>2 DEF PoolQueueOK
  <2> QED BY <2>1, <2>2
<1>7. \A i \in Nat : \A u \in Turns : (i \in 1..Len(w.queue) /\ w.queue[i] = u) <=> PoolInQueue(g, i, u)
  <2>1. CASE workers[g].accepting
    <3>3. w.queue = Append(workers[g].queue, Pool!Shutdown) BY <1>5, <2>1
    <3>4. /\ Len(w.queue) = Len(workers[g].queue) + 1 /\ w.queue[Len(workers[g].queue) + 1] = Pool!Shutdown
          /\ \A i \in 1..Len(workers[g].queue) : w.queue[i] = workers[g].queue[i]
      BY <1>3, <3>3 DEF PoolJobs
    <3> QED BY <1>0, <1>3, <3>4 DEF PoolInQueue, PoolConstants
  <2>2. CASE ~workers[g].accepting
    BY <1>5, <2>2 DEF PoolInQueue
  <2> QED BY <2>1, <2>2
<1>8. PoolBecomes(g, w) BY <1>4, <1>5, <1>6, <1>7 DEF PoolBecomes
<1>9. callers' \in [Turns -> PoolCallers] BY <1>4, <1>a DEF PoolCallers, PoolPcs
<1>10. bindings' \in [Fingerprints \X Pool!SessionKeys -> Pool!Generations \cup {NoOne}] BY <1>0, <1>4, PoolPrunedIs
<1>11. \A u \in Turns : callers'[u].pc \in {"evict", "send"} => callers'[u].worker \in Pool!Generations
  BY <1>0, <1>a, <1>4 DEF PoolStateOK, PoolCallers
<1>12. PoolStateOK' BY <1>0, <1>4, <1>8, <1>9, <1>10, <1>11, PoolBecomesKeeps DEF PoolStateOK
<1>13. \A u \in Turns : \/ callers'[u].pc = callers[u].pc
                        \/ /\ callers[u].pc \in PoolEarly
                           /\ callers'[u].pc \in PoolEarly \cup {"failed", "finalizing"}
  BY <1>a, <1>4 DEF PoolEarly
<1> QED BY <1>4, <1>8, <1>12, <1>13, PoolBecomesKeeps, PoolQuietInv

\* A set of natural numbers has a least one, if it has any.
LEMMA PoolLeastPending ==
  ASSUME NEW T \in SUBSET Nat, T # {}
  PROVE  \E x \in T : \A y \in T : x <= y
<1>1. PICK x \in T : \A y \in T : ~(<<y, x>> \in OpToRel(<, Nat))
  BY NatLessThanWellFounded, WFMin, Zenon
<1>2. \A y \in T : ~(y < x) BY <1>1 DEF OpToRel
<1> QED BY <1>2

\* try_worker finds nobody only while the group of the fingerprint has room.
LEMMA PoolNoCandidates ==
  ASSUME PoolConstants, PoolStateOK, NEW t \in Turns, Pool!Candidates(t) = {}
  PROVE  ~Pool!GroupIsFull(Fingerprint[t])
<1> SUFFICES ASSUME Pool!GroupIsFull(Fingerprint[t]) PROVE FALSE
  OBVIOUS
<1> DEFINE G == Pool!Group(Fingerprint[t])
<1>1. Pool!LeastLoaded(G) = {}
  BY DEF Pool!Candidates
<1>2. G # {}
  <2>1. Pool!Cardinality({}) = 0 BY FS_EmptySet, PoolSets
  <2> QED BY <2>1 DEF Pool!GroupIsFull, PoolConstants
<1>3. \A g \in G : g \in Pool!Generations /\ workers[g].pending \in Nat
  BY DEF Pool!Group, PoolStateOK, PoolWorkers
<1> HIDE DEF G
<1> DEFINE T == {workers[g].pending : g \in G}
<1>4. T \in SUBSET Nat /\ T # {} BY <1>2, <1>3
<1>5. PICK x \in T : \A y \in T : x <= y BY <1>4, PoolLeastPending
<1>6. PICK g \in G : x = workers[g].pending OBVIOUS
<1>7. \A h \in G : workers[g].pending <= workers[h].pending BY <1>5, <1>6
<1>8. g \in Pool!LeastLoaded(G) BY <1>7 DEF Pool!LeastLoaded
<1> QED BY <1>1, <1>8

\* One more element in a finite set.
LEMMA PoolOneMore ==
  ASSUME NEW S, NEW x, Pool!IsFiniteSet(S)
  PROVE  /\ Pool!IsFiniteSet(S \cup {x}) /\ Pool!Cardinality(S \cup {x}) \in Nat
         /\ Pool!Cardinality(S \cup {x}) <= Pool!Cardinality(S) + 1
<1>1. Pool!IsFiniteSet(S \cup {x}) BY FS_AddElement, PoolSets
<1>2. Pool!Cardinality(S \cup {x}) = IF x \in S THEN Pool!Cardinality(S) ELSE Pool!Cardinality(S) + 1
  BY FS_AddElement, PoolSets
<1>3. Pool!Cardinality(S) \in Nat /\ Pool!Cardinality(S \cup {x}) \in Nat BY <1>1, FS_CardinalityType, PoolSets
<1> QED BY <1>1, <1>2, <1>3

\* A worker is spawned within the limits, with an empty queue (spawn_worker).
LEMMA PoolSpawnInv ==
  ASSUME Pool!LimitsAssumption, PoolIInv, NEW t \in Turns, Pool!Spawn(t)
  PROVE  PoolIInv'
<1>0. PoolConstants /\ PoolStateOK BY PoolConstant DEF PoolIInv
<1>a. callers \in [Turns -> PoolCallers] /\ callers[t] \in PoolCallers BY <1>0 DEF PoolStateOK
<1> DEFINE W == [Pool!Unborn EXCEPT !.fingerprint = Fingerprint[t], !.phase = "up",
                               !.accepting = TRUE, !.listed = TRUE]
<1>1. PICK n \in Pool!Generations : n = nextGeneration
  BY <1>0 DEF Pool!Spawn, PoolStateOK, Pool!Generations, PoolConstants
<1>2. /\ callers[t].pc = "try" /\ Pool!Candidates(t) = {} /\ ~Pool!PoolIsFull /\ nextGeneration' = n + 1
      /\ workers' = [Pool!Unlist(workers) EXCEPT ![n] = W]
      /\ bindings' = [Pool!Pruned EXCEPT ![Pool!Home(t)] = n]
      /\ callers' = [callers EXCEPT ![t].pc = "send", ![t].worker = n]
      /\ UNCHANGED <<lock, jobState, cancelled, turnEnds>>
  BY <1>1 DEF Pool!Spawn, Pool!TakesWorker
<1>3. /\ W \in PoolWorkers /\ W.queue = <<>> /\ W.current = NoOne /\ W.pending = 0 /\ W.phase = "up"
      /\ W.accepting = TRUE /\ W.listed = TRUE /\ W.fingerprint = Fingerprint[t]
  <2>1. Fingerprint[t] \in Fingerprints BY <1>0 DEF PoolConstants
  <2>2. <<>> \in Seq(PoolJobs) OBVIOUS
  <2> QED BY <2>1, <2>2 DEF Pool!Unborn, PoolWorkers, PoolPhases
<1> HIDE DEF W
<1>4. PoolQueueOK(W) BY <1>3 DEF PoolQueueOK
<1>5. workers[n].queue = <<>> /\ workers[n].current = NoOne /\ workers[n].pending = 0
  <2>1. workers[n].phase = "none"  BY <1>0, <1>1 DEF PoolStateOK, Pool!Generations, PoolConstants
  <2>2. workers[n].queue = <<>> /\ workers[n].current = NoOne BY <2>1 DEF PoolIInv, PoolWorkersOK, PoolQueueOK
  <2> QED BY <1>0, <2>2, PoolEmptyJobs DEF PoolIInv, PoolWorkersOK, PoolCountOK
<1>6. \A g \in Pool!Generations : workers[g] \in PoolWorkers BY <1>0 DEF PoolStateOK
<1>7. /\ workers'[n] = W
      /\ \A g \in Pool!Generations \ {n} :
            workers'[g] = IF workers[g].accepting THEN workers[g] ELSE [workers[g] EXCEPT !.listed = FALSE]
  BY <1>2 DEF Pool!Unlist
<1>8. \A g \in Pool!Generations \ {n} :
         /\ workers'[g] \in PoolWorkers
         /\ workers'[g].queue = workers[g].queue /\ workers'[g].current = workers[g].current
         /\ workers'[g].pending = workers[g].pending /\ workers'[g].accepting = workers[g].accepting
         /\ workers'[g].phase = workers[g].phase /\ workers'[g].fingerprint = workers[g].fingerprint
         /\ workers'[g].listed => workers[g].listed /\ workers[g].accepting
  BY <1>6, <1>7 DEF PoolWorkers
<1>9. workers' \in [Pool!Generations -> PoolWorkers] BY <1>2, <1>3, <1>7, <1>8 DEF Pool!Unlist
<1>10. PoolSamePlaces
  <2>1. ASSUME NEW h \in Pool!Generations
        PROVE  /\ workers'[h].current = workers[h].current /\ workers'[h].pending = workers[h].pending
               /\ \A i \in Nat : \A u \in Turns : PoolInQueue(h, i, u)' <=> PoolInQueue(h, i, u)
    <3>1. CASE h = n BY <1>3, <1>5, <1>7, <3>1 DEF PoolInQueue
    <3>2. CASE h # n BY <1>8, <3>2 DEF PoolInQueue
    <3> QED BY <3>1, <3>2
  <2> QED BY <2>1 DEF PoolSamePlaces
<1>11. \A h \in Pool!Generations : PoolQueueOK(workers'[h])
  <2>1. ASSUME NEW h \in Pool!Generations PROVE PoolQueueOK(workers'[h])
    <3>1. CASE h = n BY <1>4, <1>7, <3>1
    <3>2. CASE h # n BY <1>8, <3>2 DEF PoolIInv, PoolWorkersOK, PoolQueueOK
    <3> QED BY <3>1, <3>2
  <2> QED BY <2>1
<1>12. PoolStateOK'
  <2>1. callers' \in [Turns -> PoolCallers] BY <1>1, <1>2, <1>a DEF PoolCallers, PoolPcs
  <2>2. bindings' \in [Fingerprints \X Pool!SessionKeys -> Pool!Generations \cup {NoOne}] BY <1>0, <1>2, PoolPrunedIs
  <2>3. nextGeneration' \in 1..(MaxGenerations + 1) BY <1>0, <1>1, <1>2 DEF Pool!Generations, PoolConstants
  <2>4. \A g \in Pool!Generations : g >= nextGeneration' => workers'[g].phase = "none"
    <3>1. ASSUME NEW g \in Pool!Generations, g >= n + 1 PROVE workers'[g].phase = "none"
      <4>1. g # n /\ g >= nextGeneration BY <1>0, <1>1, <3>1 DEF Pool!Generations, PoolConstants
      <4>2. workers[g].phase = "none"  BY <1>0, <4>1 DEF PoolStateOK
      <4> QED BY <1>8, <4>1, <4>2
    <3> QED BY <1>2, <3>1
  <2>5. \A u \in Turns : callers'[u].pc \in {"evict", "send"} => callers'[u].worker \in Pool!Generations
    BY <1>0, <1>a, <1>1, <1>2 DEF PoolStateOK, PoolCallers
  <2> QED BY <2>1, <2>2, <2>3, <2>4, <2>5, <1>0, <1>2, <1>9 DEF PoolStateOK
<1>13. \A u \in Turns : \/ callers'[u].pc = callers[u].pc
                        \/ /\ callers[u].pc \in PoolEarly
                           /\ callers'[u].pc \in PoolEarly \cup {"failed", "finalizing"}
  BY <1>a, <1>2 DEF PoolEarly
<1>14. PoolLimitsOK'
  <2> DEFINE Acc == {g \in Pool!Generations : Pool!Accepting(g)}
  <2>1. Acc \subseteq Pool!Listed /\ Pool!IsFiniteSet(Pool!Listed) BY DEF Pool!Accepting, Pool!Listed, PoolIInv, PoolLimitsOK
  <2>2. Pool!IsFiniteSet(Acc) /\ Pool!Cardinality(Acc) \in Nat BY <2>1, FS_Subset, FS_CardinalityType, PoolSets
  <2>3. Pool!Cardinality(Acc) < MaxTotal BY <1>0, <1>2, <2>2 DEF Pool!PoolIsFull, PoolConstants
  <2>4. Pool!Listed' \subseteq Acc \cup {n} BY <1>8 DEF Pool!Listed, Pool!Accepting
  <2> HIDE DEF Acc
  <2>5. /\ Pool!IsFiniteSet(Acc \cup {n}) /\ Pool!Cardinality(Acc \cup {n}) \in Nat
        /\ Pool!Cardinality(Acc \cup {n}) <= Pool!Cardinality(Acc) + 1
    BY <2>2, PoolOneMore
  <2>6. Pool!IsFiniteSet(Pool!Listed') /\ Pool!Cardinality(Pool!Listed') <= Pool!Cardinality(Acc \cup {n}) /\ Pool!Cardinality(Pool!Listed') \in Nat
    BY <2>4, <2>5, FS_Subset, FS_CardinalityType, PoolSets
  <2>7. Pool!Cardinality(Pool!Listed') <= MaxTotal BY <1>0, <2>2, <2>3, <2>5, <2>6 DEF PoolConstants
  <2>8. ASSUME NEW f \in Fingerprints
        PROVE  Pool!Cardinality({g \in Pool!Listed' : workers'[g].fingerprint = f}) <= MaxPerFingerprint
    <3> DEFINE B == {g \in Pool!Listed' : workers'[g].fingerprint = f}
    <3>1. CASE f = Fingerprint[t]
      <4>1. Pool!Group(f) \subseteq Pool!Listed BY DEF Pool!Group, Pool!Accepting, Pool!Listed
      <4>2. Pool!IsFiniteSet(Pool!Group(f)) /\ Pool!Cardinality(Pool!Group(f)) \in Nat BY <2>1, <4>1, FS_Subset, FS_CardinalityType, PoolSets
      <4>3. Pool!Cardinality(Pool!Group(f)) < MaxPerFingerprint
        BY <1>0, <1>2, <3>1, <4>2, PoolNoCandidates DEF Pool!GroupIsFull, PoolConstants
      <4>4. B \subseteq Pool!Group(f) \cup {n} BY <1>8 DEF Pool!Listed, Pool!Group, Pool!Accepting
      <4> HIDE DEF B
      <4>5. /\ Pool!IsFiniteSet(Pool!Group(f) \cup {n}) /\ Pool!Cardinality(Pool!Group(f) \cup {n}) \in Nat
            /\ Pool!Cardinality(Pool!Group(f) \cup {n}) <= Pool!Cardinality(Pool!Group(f)) + 1
        BY <4>2, PoolOneMore
      <4>6. Pool!Cardinality(B) <= Pool!Cardinality(Pool!Group(f) \cup {n}) /\ Pool!Cardinality(B) \in Nat
        BY <4>4, <4>5, FS_Subset, FS_CardinalityType, PoolSets
      <4>7. Pool!Cardinality(B) <= MaxPerFingerprint BY <1>0, <4>2, <4>3, <4>5, <4>6 DEF PoolConstants
      <4> QED BY <4>7 DEF B
    <3>2. CASE f # Fingerprint[t]
      <4> DEFINE A == {g \in Pool!Listed : workers[g].fingerprint = f}
      <4>1. A \subseteq Pool!Listed /\ B \subseteq A BY <1>3, <1>7, <1>8, <3>2 DEF Pool!Listed
      <4>2. Pool!Cardinality(A) <= MaxPerFingerprint BY DEF PoolIInv, PoolLimitsOK, Pool!PoolLimits
      <4> HIDE DEF A, B
      <4>3. Pool!IsFiniteSet(A) /\ Pool!IsFiniteSet(B) /\ Pool!Cardinality(B) <= Pool!Cardinality(A) BY <2>1, <4>1, FS_Subset, PoolSets
      <4>4. Pool!Cardinality(A) \in Nat /\ Pool!Cardinality(B) \in Nat BY <4>3, FS_CardinalityType, PoolSets
      <4>5. Pool!Cardinality(B) <= MaxPerFingerprint BY <4>2, <4>3, <4>4, <1>0 DEF PoolConstants
      <4> QED BY <4>5 DEF B
    <3> QED BY <3>1, <3>2
  <2> QED BY <2>6, <2>7, <2>8 DEF PoolLimitsOK, Pool!PoolLimits
<1> QED BY <1>2, <1>10, <1>11, <1>12, <1>13, <1>14, PoolPlacesKept, PoolCallersKept DEF PoolIInv

PoolJobsAt(t) ==
  \A g \in Pool!Generations :
    /\ Pool!Contains(workers[g].queue, t) =>
          \/ jobState[t] = "queued" /\ callers[t].pc = "sent"
          \/ jobState[t] = "cancelled" /\ callers[t].pc \in {"finalizing", "answered", "dropped"}
    /\ workers[g].current = t =>
          /\ jobState[t] \in {"running", "executed"}
          /\ callers[t].pc \in {"sent", "dropped"}
PoolEndsAt(t) ==
  /\ turnEnds[t] <= 1
  /\ callers[t].pc = "answered" => turnEnds[t] = 1
  /\ callers[t].pc = "finalizing" => turnEnds[t] = 0 /\ jobState[t] \in {"queued", "cancelled"}
  /\ jobState[t] = "running" => turnEnds[t] = 0 /\ callers[t].pc \in {"sent", "dropped"}
  /\ jobState[t] = "executed" => turnEnds[t] = 1 /\ callers[t].pc \in {"sent", "dropped", "answered"}
  /\ jobState[t] = "cancelled" => callers[t].pc \in {"finalizing", "answered", "dropped"}
  /\ jobState[t] = "queued" /\ callers[t].pc \notin {"answered", "dropped"} => turnEnds[t] = 0

\* What is asked of every Turn, Turn by Turn.
LEMMA PoolAtAll ==
  /\ PoolJobsOK <=> \A t \in Turns : PoolJobsAt(t)
  /\ PoolEndsOK <=> \A t \in Turns : PoolEndsAt(t)
<1>1. PoolJobsOK <=> \A t \in Turns : PoolJobsAt(t) BY DEF PoolJobsOK, PoolJobsAt
<1>2. PoolEndsOK <=> \A t \in Turns : PoolEndsAt(t) BY DEF PoolEndsOK, PoolEndsAt
<1> QED BY <1>1, <1>2

\* The same after a step.
LEMMA PoolAtAllNext ==
  /\ PoolJobsOK' <=> \A t \in Turns : PoolJobsAt(t)'
  /\ PoolEndsOK' <=> \A t \in Turns : PoolEndsAt(t)'
<1>1. PoolJobsOK' <=> \A t \in Turns : PoolJobsAt(t)' BY DEF PoolJobsOK, PoolJobsAt
<1>2. PoolEndsOK' <=> \A t \in Turns : PoolEndsAt(t)' BY DEF PoolEndsOK, PoolEndsAt
<1> QED BY <1>1, <1>2

\* What a step does to the Turns it is not about.
PoolElsewhere(t) ==
  /\ \A u \in Turns \ {t} : callers'[u].pc = callers[u].pc
  /\ \A u \in Turns \ {t} : jobState'[u] = jobState[u]
  /\ \A u \in Turns \ {t} : turnEnds'[u] = turnEnds[u]
  /\ \A g \in Pool!Generations : \A u \in Turns \ {t} :
       /\ Pool!Contains(workers'[g].queue, u) => Pool!Contains(workers[g].queue, u)
       /\ workers'[g].current = u => workers[g].current = u

\* A step about one Turn leaves the others as they are.
LEMMA PoolOthersKept ==
  ASSUME PoolIInv, NEW t \in Turns, PoolElsewhere(t), PoolJobsAt(t)', PoolEndsAt(t)'
  PROVE  PoolJobsOK' /\ PoolEndsOK'
<1>1. \A u \in Turns \ {t} : PoolJobsAt(u)'
  <2>1. \A u \in Turns : PoolJobsAt(u) BY PoolAtAll DEF PoolIInv
  <2> QED BY <2>1 DEF PoolElsewhere, PoolJobsAt
<1>2. \A u \in Turns \ {t} : PoolEndsAt(u)'
  <2>1. \A u \in Turns : PoolEndsAt(u) BY PoolAtAll DEF PoolIInv
  <2> QED BY <2>1 DEF PoolElsewhere, PoolEndsAt
<1> QED BY <1>1, <1>2, PoolAtAllNext

\* A caller that cancels, finalizes or is dropped takes the job from the queue of its
\* worker by its state alone: the worker will find it cancelled.
LEMMA PoolSettledInv ==
  ASSUME Pool!LimitsAssumption, PoolIInv, NEW t \in Turns,
         Pool!ObservesCancellation(t) \/ Pool!FinalizeCancelled(t) \/ Pool!DropCaller(t)
  PROVE  PoolIInv'
<1>0. PoolConstants /\ PoolStateOK BY PoolConstant DEF PoolIInv
<1>a. /\ callers \in [Turns -> PoolCallers] /\ callers[t] \in PoolCallers
      /\ jobState \in [Turns -> PoolStates] /\ turnEnds \in [Turns -> Nat]
      /\ PoolJobsAt(t) /\ PoolEndsAt(t)
  BY <1>0, PoolAtAll DEF PoolStateOK, PoolIInv
<1>1. UNCHANGED <<nextGeneration, workers, bindings, lock>>
  BY DEF Pool!ObservesCancellation, Pool!FinalizeCancelled, Pool!DropCaller
<1>2. /\ callers' \in [Turns -> PoolCallers]
      /\ \A u \in Turns \ {t} : callers'[u] = callers[u]
      /\ callers'[t].worker = callers[t].worker
      /\ callers'[t].pc \in {"sent", "finalizing", "answered", "dropped"}
  <2>1. CASE Pool!ObservesCancellation(t)
    <3>1. callers' = [callers EXCEPT ![t].pc = "finalizing"] \/ callers' = [callers EXCEPT ![t].observing = FALSE]
      BY <2>1 DEF Pool!ObservesCancellation, Pool!GoTo
    <3>2. callers[t].pc = "sent"  BY <2>1 DEF Pool!ObservesCancellation
    <3>3. CASE callers' = [callers EXCEPT ![t].pc = "finalizing"]
      BY <3>3, <1>a DEF PoolCallers, PoolPcs
    <3>4. CASE callers' = [callers EXCEPT ![t].observing = FALSE]
      <4>1. callers'[t].pc = callers[t].pc BY <3>4, <1>a DEF PoolCallers
      <4> QED BY <3>2, <3>4, <4>1, <1>a DEF PoolCallers
    <3> QED BY <3>1, <3>3, <3>4
  <2>2. CASE Pool!FinalizeCancelled(t)
    BY <2>2, <1>a DEF Pool!FinalizeCancelled, Pool!GoTo, PoolCallers, PoolPcs
  <2>3. CASE Pool!DropCaller(t)
    BY <2>3, <1>a DEF Pool!DropCaller, PoolCallers, PoolPcs
  <2> QED BY <2>1, <2>2, <2>3
<1>3. /\ jobState' \in [Turns -> PoolStates] /\ turnEnds' \in [Turns -> Nat] /\ cancelled' \in [Turns -> BOOLEAN]
      /\ \A u \in Turns \ {t} : jobState'[u] = jobState[u]
      /\ \A u \in Turns \ {t} : turnEnds'[u] = turnEnds[u]
  <2>0. cancelled \in [Turns -> BOOLEAN] BY <1>0 DEF PoolStateOK
  <2>1. CASE Pool!ObservesCancellation(t)
    BY <2>0, <2>1, <1>a DEF Pool!ObservesCancellation, PoolStates
  <2>2. CASE Pool!FinalizeCancelled(t)
    BY <2>0, <2>2, <1>a DEF Pool!FinalizeCancelled
  <2>3. CASE Pool!DropCaller(t)
    <3>1. UNCHANGED turnEnds BY <2>3 DEF Pool!DropCaller
    <3>2. jobState' = jobState \/ jobState' = [jobState EXCEPT ![t] = IF @ = "queued" THEN "cancelled" ELSE @]
      BY <2>3 DEF Pool!DropCaller
    <3>3. cancelled' = cancelled \/ cancelled' = [cancelled EXCEPT ![t] = TRUE]
      BY <2>3 DEF Pool!DropCaller
    <3>4. cancelled' \in [Turns -> BOOLEAN] BY <2>0, <3>3
    <3>5. jobState' \in [Turns -> PoolStates] /\ \A u \in Turns \ {t} : jobState'[u] = jobState[u]
      BY <3>2, <1>a DEF PoolStates
    <3> QED BY <3>1, <3>4, <3>5, <1>a
  <2> QED BY <2>1, <2>2, <2>3
<1>4. PoolStateOK'
  <2>1. \A u \in Turns : callers'[u].pc \in {"evict", "send"} => callers'[u].worker \in Pool!Generations
    BY <1>0, <1>2 DEF PoolStateOK
  <2> QED BY <1>0, <1>1, <1>2, <1>3, <2>1 DEF PoolStateOK
<1>5. PoolRelisted BY <1>1 DEF PoolRelisted
<1>6. PoolElsewhere(t) BY <1>1, <1>2, <1>3 DEF PoolElsewhere
<1>7. PoolJobsAt(t)' /\ PoolEndsAt(t)'
  <2>1. CASE Pool!ObservesCancellation(t)
    <3>1. CASE jobState[t] = "queued"
      <4>1. jobState'[t] = "cancelled" /\ callers'[t].pc = "finalizing" /\ turnEnds' = turnEnds
            /\ callers[t].pc = "sent"
        BY <2>1, <3>1, <1>a DEF Pool!ObservesCancellation, Pool!GoTo, PoolCallers
      <4> QED BY <4>1, <3>1, <1>1, <1>a DEF PoolJobsAt, PoolEndsAt
    <3>2. CASE jobState[t] # "queued"
      <4>1. jobState' = jobState /\ callers'[t].pc = callers[t].pc /\ turnEnds' = turnEnds
        BY <2>1, <3>2, <1>a DEF Pool!ObservesCancellation, PoolCallers
      <4> QED BY <4>1, <1>1, <1>a DEF PoolJobsAt, PoolEndsAt
    <3> QED BY <3>1, <3>2
  <2>2. CASE Pool!FinalizeCancelled(t)
    <3>1. jobState' = jobState /\ callers[t].pc = "finalizing" /\ callers'[t].pc = "answered"
          /\ turnEnds'[t] = turnEnds[t] + 1
      BY <2>2, <1>a DEF Pool!FinalizeCancelled, Pool!GoTo, PoolCallers
    <3>2. turnEnds'[t] = 1 BY <3>1, <1>a DEF PoolEndsAt
    <3> QED BY <3>1, <3>2, <1>1, <1>a DEF PoolJobsAt, PoolEndsAt
  <2>3. CASE Pool!DropCaller(t)
    <3>1. turnEnds' = turnEnds /\ callers'[t].pc = "dropped"
      BY <2>3, <1>a DEF Pool!DropCaller, PoolCallers
    <3>2. CASE callers[t].pc = "finalizing"
      <4>1. jobState' = jobState BY <2>3, <3>2 DEF Pool!DropCaller
      <4>2. \A g \in Pool!Generations : Pool!Contains(workers[g].queue, t) => jobState[t] = "cancelled"
        BY <3>2, <1>a DEF PoolJobsAt
      <4> QED BY <3>1, <3>2, <4>1, <4>2, <1>1, <1>a DEF PoolJobsAt, PoolEndsAt
    <3>3. CASE callers[t].pc # "finalizing"
      <4>1. /\ jobState'[t] = (IF jobState[t] = "queued" THEN "cancelled" ELSE jobState[t])
            /\ callers[t].pc \in {"waiting", "sent"}
        BY <2>3, <3>3, <1>a DEF Pool!DropCaller
      <4>2. jobState'[t] # "queued" /\ (jobState'[t] # "cancelled" => jobState'[t] = jobState[t])
        BY <4>1
      <4>3. turnEnds[t] <= 1 /\ turnEnds[t] \in Nat BY <1>a DEF PoolEndsAt
      <4>4. \A g \in Pool!Generations : Pool!Contains(workers[g].queue, t) => jobState'[t] = "cancelled"
        BY <4>1, <1>a DEF PoolJobsAt
      <4>5. \A g \in Pool!Generations : workers[g].current = t => jobState'[t] \in {"running", "executed"}
        BY <4>1, <1>a DEF PoolJobsAt
      <4>6. PoolJobsAt(t)' BY <3>1, <4>4, <4>5, <1>1 DEF PoolJobsAt
      <4>7. jobState'[t] = "running" => turnEnds[t] = 0  BY <4>1, <4>2, <1>a DEF PoolEndsAt
      <4>8. jobState'[t] = "executed" => turnEnds[t] = 1  BY <4>1, <4>2, <1>a DEF PoolEndsAt
      <4>9. PoolEndsAt(t)' BY <3>1, <4>2, <4>3, <4>7, <4>8 DEF PoolEndsAt
      <4> QED BY <4>6, <4>9
    <3> QED BY <3>2, <3>3
  <2> QED BY <2>1, <2>2, <2>3
<1> QED BY <1>4, <1>5, <1>6, <1>7, PoolRelistedKeeps, PoolPlacesKept, PoolLimitsKept, PoolOthersKept DEF PoolIInv

\* Worker g becomes w: what that leaves alone.
LEMMA PoolOneWorker ==
  ASSUME PoolStateOK, NEW g \in Pool!Generations, NEW w, workers' = [workers EXCEPT ![g] = w]
  PROVE  workers'[g] = w /\ \A h \in Pool!Generations \ {g} : workers'[h] = workers[h]
  BY DEF PoolStateOK

\* A job is sent to the end of a queue that accepts it, under the accepting lock.
LEMMA PoolSendInv ==
  ASSUME Pool!LimitsAssumption, PoolIInv, NEW t \in Turns, Pool!SendOrRetry(t)
  PROVE  PoolIInv'
<1>0. PoolConstants /\ PoolStateOK BY PoolConstant DEF PoolIInv
<1>a. callers \in [Turns -> PoolCallers] /\ callers[t] \in PoolCallers BY <1>0 DEF PoolStateOK
<1>1. PICK g \in Pool!Generations : g = callers[t].worker BY <1>0 DEF Pool!SendOrRetry, PoolStateOK
<1>2. /\ callers[t].pc = "send" /\ UNCHANGED <<nextGeneration, bindings, lock, jobState, cancelled, turnEnds>>
  BY DEF Pool!SendOrRetry
<1>3. CASE ~workers[g].accepting
  <2>1. callers' = [callers EXCEPT ![t].pc = "start", ![t].worker = NoOne] /\ UNCHANGED workers
    BY <1>1, <1>3 DEF Pool!SendOrRetry
  <2>2. callers' \in [Turns -> PoolCallers] BY <2>1, <1>a DEF PoolCallers, PoolPcs
  <2>3. \A u \in Turns : callers'[u].pc \in {"evict", "send"} => callers'[u].worker \in Pool!Generations
    BY <1>0, <1>a, <2>1 DEF PoolStateOK, PoolCallers
  <2>4. PoolStateOK' BY <1>0, <1>2, <2>1, <2>2, <2>3 DEF PoolStateOK
  <2>5. \A u \in Turns : \/ callers'[u].pc = callers[u].pc
                         \/ /\ callers[u].pc \in PoolEarly
                            /\ callers'[u].pc \in PoolEarly \cup {"failed", "finalizing"}
    BY <1>a, <1>2, <2>1 DEF PoolEarly
  <2> QED BY <1>2, <2>1, <2>4, <2>5, PoolStayRelisted DEF PoolRelisted
<1>4. CASE workers[g].accepting
  <2>1. PICK q \in Seq(PoolJobs) : q = workers[g].queue BY <1>0 DEF PoolStateOK, PoolWorkers
  <2>2. workers[g] \in PoolWorkers /\ PoolQueueOK(workers[g]) /\ PoolCountOK(workers[g])
    BY <1>0 DEF PoolStateOK, PoolIInv, PoolWorkersOK
  <2>n. PICK n \in Nat : n = workers[g].pending + 1 BY <2>2 DEF PoolWorkers
  <2>r. PICK r \in Seq(PoolJobs) : r = Append(q, t)
    <3>1. Append(q, t) \in Seq(PoolJobs) BY DEF PoolJobs
    <3> QED BY <3>1
  <2> DEFINE w == [workers[g] EXCEPT !.queue = r, !.pending = n]
  <2>3. /\ workers' = [workers EXCEPT ![g] = w]
        /\ callers' = [callers EXCEPT ![t].pc = "sent"]
    <3>1. /\ workers' = [workers EXCEPT ![g].queue = Append(@, t), ![g].pending = @ + 1]
          /\ callers' = [callers EXCEPT ![t].pc = "sent"]
      BY <1>1, <1>4 DEF Pool!SendOrRetry, Pool!GoTo
    <3> QED BY <3>1, <2>1, <2>2, <2>n, <2>r, <1>0 DEF PoolStateOK, PoolWorkers
  <2>4. Append(q, t) \in Seq(PoolJobs) /\ Len(Append(q, t)) = Len(q) + 1 /\ Len(q) \in Nat
        /\ Append(q, t)[Len(q) + 1] = t /\ \A i \in 1..Len(q) : Append(q, t)[i] = q[i]
    BY <2>1 DEF PoolJobs
  <2>5. /\ w \in PoolWorkers /\ w.queue = Append(q, t) /\ w.pending = workers[g].pending + 1
        /\ w.current = workers[g].current /\ w.phase = workers[g].phase
        /\ w.accepting = workers[g].accepting /\ w.listed = workers[g].listed
        /\ w.fingerprint = workers[g].fingerprint
    <3>1. /\ w \in PoolWorkers /\ w.queue = r /\ w.pending = n
          /\ w.current = workers[g].current /\ w.phase = workers[g].phase
          /\ w.accepting = workers[g].accepting /\ w.listed = workers[g].listed
          /\ w.fingerprint = workers[g].fingerprint
      BY <2>2 DEF PoolWorkers
    <3> QED BY <3>1, <2>n, <2>r
  <2> HIDE DEF w
  <2>6. workers'[g] = w /\ \A h \in Pool!Generations \ {g} : workers'[h] = workers[h]
    BY <1>0, <2>3, PoolOneWorker
  <2>7. workers' \in [Pool!Generations -> PoolWorkers] BY <1>0, <2>3, <2>5 DEF PoolStateOK
  <2>8. callers' \in [Turns -> PoolCallers] BY <2>3, <1>a DEF PoolCallers, PoolPcs
  <2>9. PoolStateOK'
    <3>1. \A u \in Turns : callers'[u].pc \in {"evict", "send"} => callers'[u].worker \in Pool!Generations
      BY <1>0, <1>a, <2>3 DEF PoolStateOK, PoolCallers
    <3>2. \A h \in Pool!Generations : workers'[h].phase = workers[h].phase BY <2>5, <2>6
    <3> QED BY <1>0, <1>2, <2>7, <2>8, <3>1, <3>2 DEF PoolStateOK
  <2>10. PoolFewerListed
    BY <2>5, <2>6 DEF PoolFewerListed
  <2>11. \A h \in Pool!Generations : ~Pool!Contains(workers[h].queue, t) /\ workers[h].current # t
    BY <1>2 DEF PoolIInv, PoolJobsOK
  <2>12. \A h \in Pool!Generations, i \in Nat : ~PoolInQueue(h, i, t)
    BY <2>11, PoolContainsIs, <1>0
  <2>13. /\ \A i \in Nat : \A u \in Turns : PoolInQueue(g, i, u)' <=> PoolInQueue(g, i, u) \/ (i = Len(q) + 1 /\ u = t)
         /\ \A h \in Pool!Generations \ {g} : \A i \in Nat : \A u \in Turns : PoolInQueue(h, i, u)' <=> PoolInQueue(h, i, u)
    <3>1. \A i \in Nat : \A u \in Turns : PoolInQueue(g, i, u)' <=> PoolInQueue(g, i, u) \/ (i = Len(q) + 1 /\ u = t)
      <4> SUFFICES ASSUME NEW i \in Nat, NEW u \in Turns
                   PROVE  PoolInQueue(g, i, u)' <=> PoolInQueue(g, i, u) \/ (i = Len(q) + 1 /\ u = t)
        OBVIOUS
      <4>1. PoolInQueue(g, i, u) <=> i \in 1..Len(q) /\ q[i] = u BY <2>1 DEF PoolInQueue
      <4>2. PoolInQueue(g, i, u)' <=> i \in 1..Len(r) /\ r[i] = u BY <2>r, <2>5, <2>6 DEF PoolInQueue
      <4>3. CASE i \in 1..Len(q) BY <2>r, <2>4, <4>1, <4>2, <4>3
      <4>4. CASE i = Len(q) + 1 BY <2>r, <2>4, <4>1, <4>2, <4>4
      <4>5. CASE i \notin 1..Len(q) /\ i # Len(q) + 1 BY <2>r, <2>4, <4>1, <4>2, <4>5
      <4> QED BY <4>3, <4>4, <4>5
    <3>2. \A h \in Pool!Generations \ {g} : \A i \in Nat : \A u \in Turns : PoolInQueue(h, i, u)' <=> PoolInQueue(h, i, u)
      BY <2>6 DEF PoolInQueue
    <3> QED BY <3>1, <3>2
  <2>14. PoolOnePlace'
    <3>1. \A u \in Turns, h \in Pool!Generations, k \in Pool!Generations :
             workers'[h].current = u /\ workers'[k].current = u => h = k
      BY <2>5, <2>6 DEF PoolIInv, PoolOnePlace
    <3>2. ASSUME NEW u \in Turns, NEW h \in Pool!Generations, NEW k \in Pool!Generations, NEW i \in Nat, NEW j \in Nat,
                 PoolInQueue(h, i, u)', PoolInQueue(k, j, u)'
          PROVE  h = k /\ i = j
      <4>1. CASE u = t BY <4>1, <3>2, <2>12, <2>13
      <4>2. CASE u # t
        <5>1. PoolInQueue(h, i, u) /\ PoolInQueue(k, j, u) BY <4>2, <3>2, <2>13
        <5> QED BY <5>1 DEF PoolIInv, PoolOnePlace
      <4> QED BY <4>1, <4>2
    <3> QED BY <3>1, <3>2 DEF PoolOnePlace
  <2>15. PoolWorkersOK'
    <3>1. PoolQueueOK(w)
      <4>1. workers[g].phase = "up" /\ \A i \in 1..Len(q) : q[i] # Pool!Shutdown
        BY <1>4, <2>1, <2>2 DEF PoolQueueOK
      <4>2. \A i \in 1..Len(w.queue) : w.queue[i] # Pool!Shutdown
        BY <4>1, <2>4, <2>5, <1>0 DEF PoolConstants
      <4> QED BY <4>1, <4>2, <2>5 DEF PoolQueueOK
    <3>2. PoolJobsOf(w) = PoolJobsOf(workers[g]) \cup {t}
      <4>1. \A u \in Turns : Pool!Contains(w.queue, u) <=> Pool!Contains(q, u) \/ u = t
        BY <2>4, <2>5 DEF Pool!Contains
      <4> QED BY <4>1, <2>1, <2>5 DEF PoolJobsOf
    <3>3. t \notin PoolJobsOf(workers[g]) BY <2>11 DEF PoolJobsOf
    <3>4. PoolCountOK(w)
      <4>1. PICK S : S = PoolJobsOf(workers[g]) OBVIOUS
      <4>2. Pool!IsFiniteSet(S) /\ t \notin S /\ workers[g].pending = Pool!Cardinality(S) BY <2>2, <3>3, <4>1 DEF PoolCountOK
      <4>3. Pool!IsFiniteSet(S \cup {t}) /\ Pool!Cardinality(S \cup {t}) = Pool!Cardinality(S) + 1 BY <4>2, FS_AddElement, PoolSets
      <4> QED BY <4>1, <4>2, <4>3, <3>2, <2>5 DEF PoolCountOK
    <3>5. ASSUME NEW h \in Pool!Generations PROVE PoolQueueOK(workers'[h]) /\ PoolCountOK(workers'[h])
      <4>1. CASE h = g BY <4>1, <2>6, <3>1, <3>4
      <4>2. CASE h # g BY <4>2, <2>6 DEF PoolIInv, PoolWorkersOK
      <4> QED BY <4>1, <4>2
    <3> QED BY <3>5 DEF PoolWorkersOK
  <2>16. /\ jobState[t] = "queued" /\ turnEnds[t] = 0 /\ callers'[t].pc = "sent"
         /\ \A u \in Turns \ {t} : callers'[u].pc = callers[u].pc
    BY <1>0, <1>a, <1>2, <2>3 DEF PoolIInv, PoolEndsOK, PoolStateOK, PoolStates, PoolCallers
  <2>17. PoolElsewhere(t)
    <3>1. ASSUME NEW h \in Pool!Generations, NEW u \in Turns \ {t}
          PROVE  /\ Pool!Contains(workers'[h].queue, u) => Pool!Contains(workers[h].queue, u)
                 /\ workers'[h].current = u => workers[h].current = u
      <4>1. CASE h = g
        <5>1. Pool!Contains(w.queue, u) => Pool!Contains(q, u)
          BY <2>4, <2>5 DEF Pool!Contains
        <5> QED BY <5>1, <4>1, <2>1, <2>5, <2>6
      <4>2. CASE h # g BY <4>2, <2>6
      <4> QED BY <4>1, <4>2
    <3> QED BY <3>1, <1>2, <2>16 DEF PoolElsewhere
  <2>18. PoolJobsAt(t)' /\ PoolEndsAt(t)'
    <3>1. \A h \in Pool!Generations : workers'[h].current # t BY <2>5, <2>6, <2>11
    <3> QED BY <3>1, <1>2, <2>16 DEF PoolJobsAt, PoolEndsAt
  <2> QED BY <2>9, <2>10, <2>14, <2>15, <2>17, <2>18, PoolLimitsKept, PoolOthersKept DEF PoolIInv
<1> QED BY <1>3, <1>4

\* What a worker tells the callers when it is through with a job.
LEMMA PoolCompletedIs ==
  ASSUME PoolStateOK, NEW g, NEW t \in Turns, Pool!Completed(g, t)
  PROVE  /\ callers' \in [Turns -> PoolCallers]
         /\ \A u \in Turns : callers'[u].worker = callers[u].worker
         /\ \A u \in Turns \ {t} : callers'[u].pc = callers[u].pc
         /\ callers'[t].pc = IF callers[t].pc = "sent" THEN "answered" ELSE callers[t].pc
<1>1. callers \in [Turns -> PoolCallers] BY DEF PoolStateOK
<1>2. PICK cs \in [Turns -> PoolCallers] :
         /\ cs = Pool!NotifyWaiters(callers)
         /\ \A u \in Turns : cs[u].pc = callers[u].pc /\ cs[u].worker = callers[u].worker
  BY <1>1, PoolNotifiedIs
<1>3. callers' = [cs EXCEPT ![t].pc = IF @ = "sent" THEN "answered" ELSE @]
  BY <1>2 DEF Pool!Completed
<1>4. cs[t] \in PoolCallers OBVIOUS
<1>5. PICK p \in PoolPcs : p = IF cs[t].pc = "sent" THEN "answered" ELSE cs[t].pc
  BY <1>4 DEF PoolCallers, PoolPcs
<1>6. callers' = [cs EXCEPT ![t].pc = p] BY <1>3, <1>5
<1>7. callers' \in [Turns -> PoolCallers] BY <1>6 DEF PoolCallers
<1>8. \A u \in Turns : callers'[u].worker = callers[u].worker BY <1>2, <1>6 DEF PoolCallers
<1>9. \A u \in Turns \ {t} : callers'[u].pc = callers[u].pc BY <1>2, <1>6
<1>10. callers'[t].pc = p BY <1>6, <1>4 DEF PoolCallers
<1> QED BY <1>2, <1>5, <1>7, <1>8, <1>9, <1>10

\* The head of a worker's queue is taken off it.
LEMMA PoolShorter ==
  ASSUME PoolConstants, PoolIInv, NEW g \in Pool!Generations, workers[g].queue # <<>>,
         Head(workers[g].queue) # Pool!Shutdown
  PROVE  \E q \in Seq(PoolJobs), r \in Seq(PoolJobs), t \in Turns :
           /\ q = workers[g].queue /\ r = Tail(q) /\ t = Head(q) /\ q[1] = t
           /\ Len(q) \in Nat /\ Len(q) >= 1 /\ Len(r) = Len(q) - 1
           /\ \A i \in 1..Len(r) : r[i] = q[i + 1]
           /\ \A i \in 2..Len(q) : q[i] # t
           /\ \A u : Pool!Contains(r, u) => Pool!Contains(q, u)
           /\ \A u : Pool!Contains(q, u) => Pool!Contains(r, u) \/ u = t
           /\ ~Pool!Contains(r, t) /\ Pool!Contains(q, t)
           /\ \A h \in Pool!Generations \ {g} : ~Pool!Contains(workers[h].queue, t)
<1>1. PICK q \in Seq(PoolJobs) : q = workers[g].queue BY DEF PoolIInv, PoolStateOK, PoolWorkers
<1>2. /\ Len(q) \in Nat /\ Len(q) >= 1 /\ Tail(q) \in Seq(PoolJobs) /\ Len(Tail(q)) = Len(q) - 1
      /\ Head(q) = q[1] /\ \A i \in 1..Len(Tail(q)) : Tail(q)[i] = q[i + 1]
  BY <1>1, HeadTailProperties
<1>3. PICK t \in Turns : t = Head(q)
  BY <1>1, <1>2 DEF PoolJobs
<1>4. PICK r \in Seq(PoolJobs) : r = Tail(q) BY <1>2
<1>5. PoolInQueue(g, 1, t) BY <1>1, <1>2, <1>3 DEF PoolInQueue
<1>6. \A i \in 2..Len(q) : q[i] # t
  <2>1. ASSUME NEW i \in 2..Len(q), q[i] = t PROVE FALSE
    <3>1. PoolInQueue(g, i, t) /\ i \in Nat /\ i # 1 BY <1>1, <1>2, <2>1 DEF PoolInQueue
    <3> QED BY <1>5, <3>1 DEF PoolIInv, PoolOnePlace
  <2> QED BY <2>1
<1>7. Len(r) = Len(q) - 1 /\ \A i \in 1..Len(r) : r[i] = q[i + 1] BY <1>2, <1>4
<1>8. \A u : Pool!Contains(r, u) => Pool!Contains(q, u)
  <2>1. ASSUME NEW u, NEW i \in 1..Len(r), r[i] = u PROVE Pool!Contains(q, u)
    <3>1. i + 1 \in 1..Len(q) /\ q[i + 1] = u BY <1>2, <1>7, <2>1
    <3> QED BY <3>1 DEF Pool!Contains
  <2> QED BY <2>1 DEF Pool!Contains
<1>9. \A u : Pool!Contains(q, u) => Pool!Contains(r, u) \/ u = t
  <2>1. ASSUME NEW u, NEW i \in 1..Len(q), q[i] = u, u # t PROVE Pool!Contains(r, u)
    <3>1. i # 1 BY <1>2, <1>3, <2>1
    <3>2. PICK j \in 1..Len(r) : i = j + 1
      <4>1. i - 1 \in 1..Len(r) /\ i = (i - 1) + 1 BY <1>2, <1>7, <3>1
      <4> QED BY <4>1
    <3> QED BY <1>7, <2>1, <3>2 DEF Pool!Contains
  <2> QED BY <2>1 DEF Pool!Contains
<1>10. ~Pool!Contains(r, t)
  <2>1. ASSUME NEW i \in 1..Len(r), r[i] = t PROVE FALSE
    <3>1. i + 1 \in 2..Len(q) /\ q[i + 1] = t BY <1>2, <1>7, <2>1
    <3> QED BY <1>6, <3>1
  <2> QED BY <2>1 DEF Pool!Contains
<1>11. Pool!Contains(q, t) BY <1>2, <1>3 DEF Pool!Contains
<1>12. \A h \in Pool!Generations \ {g} : ~Pool!Contains(workers[h].queue, t)
  <2>1. ASSUME NEW h \in Pool!Generations \ {g}, Pool!Contains(workers[h].queue, t) PROVE FALSE
    <3>1. PICK j \in Nat : PoolInQueue(h, j, t) BY <2>1, PoolContainsIs DEF PoolIInv
    <3> QED BY <1>5, <3>1 DEF PoolIInv, PoolOnePlace
  <2> QED BY <2>1
<1> QED BY <1>1, <1>2, <1>3, <1>4, <1>6, <1>7, <1>8, <1>9, <1>10, <1>11, <1>12

\* The queue of one worker is shortened: every Turn is still in one place only.
LEMMA PoolShorterPlaces ==
  ASSUME PoolStateOK, PoolOnePlace, NEW g \in Pool!Generations, NEW r \in Seq(PoolJobs), workers'[g].queue = r,
         NEW q \in Seq(PoolJobs), q = workers[g].queue, Len(r) = Len(q) - 1,
         \A i \in 1..Len(r) : r[i] = q[i + 1],
         \A h \in Pool!Generations \ {g} : workers'[h].queue = workers[h].queue,
         \A t \in Turns : \A h, k \in Pool!Generations : workers'[h].current = t /\ workers'[k].current = t => h = k
  PROVE  PoolOnePlace'
<1>1. Len(q) \in Nat /\ Len(r) \in Nat OBVIOUS
<1>2. ASSUME NEW t \in Turns, NEW h \in Pool!Generations, NEW i \in Nat, PoolInQueue(h, i, t)'
      PROVE  PoolInQueue(h, IF h = g THEN i + 1 ELSE i, t)
  <2>1. CASE h = g
    <3>1. i \in 1..Len(r) /\ r[i] = t BY <1>2, <2>1 DEF PoolInQueue
    <3>2. i + 1 \in 1..Len(q) /\ q[i + 1] = t BY <1>1, <3>1
    <3> QED BY <2>1, <3>2 DEF PoolInQueue
  <2>2. CASE h # g
    BY <1>2, <2>2 DEF PoolInQueue
  <2> QED BY <2>1, <2>2
<1>3. ASSUME NEW t \in Turns, NEW h \in Pool!Generations, NEW k \in Pool!Generations, NEW i \in Nat, NEW j \in Nat,
             PoolInQueue(h, i, t)', PoolInQueue(k, j, t)'
      PROVE  h = k /\ i = j
  <2> DEFINE a == IF h = g THEN i + 1 ELSE i
             b == IF k = g THEN j + 1 ELSE j
  <2>1. PoolInQueue(h, a, t) /\ PoolInQueue(k, b, t) /\ a \in Nat /\ b \in Nat BY <1>2, <1>3
  <2>2. h = k /\ a = b BY <2>1 DEF PoolOnePlace
  <2> QED BY <2>2
<1> QED BY <1>3 DEF PoolOnePlace

\* A worker counts down for a job that was cancelled in its queue.
LEMMA PoolTakeCancelledInv ==
  ASSUME Pool!LimitsAssumption, PoolIInv, NEW g \in Pool!Generations, Pool!TakeCancelledJob(g)
  PROVE  PoolIInv'
<1>0. PoolConstants /\ PoolStateOK BY PoolConstant DEF PoolIInv
<1>1. PICK q \in Seq(PoolJobs), r \in Seq(PoolJobs), t \in Turns :
           /\ q = workers[g].queue /\ r = Tail(q) /\ t = Head(q) /\ q[1] = t
           /\ Len(q) \in Nat /\ Len(q) >= 1 /\ Len(r) = Len(q) - 1
           /\ \A i \in 1..Len(r) : r[i] = q[i + 1]
           /\ \A i \in 2..Len(q) : q[i] # t
           /\ \A u : Pool!Contains(r, u) => Pool!Contains(q, u)
           /\ \A u : Pool!Contains(q, u) => Pool!Contains(r, u) \/ u = t
           /\ ~Pool!Contains(r, t) /\ Pool!Contains(q, t)
           /\ \A h \in Pool!Generations \ {g} : ~Pool!Contains(workers[h].queue, t)
  BY <1>0, PoolShorter DEF Pool!TakeCancelledJob
<1>2. workers[g] \in PoolWorkers /\ PoolQueueOK(workers[g]) /\ PoolCountOK(workers[g])
  BY <1>0 DEF PoolStateOK, PoolIInv, PoolWorkersOK
<1>3. /\ workers[g].phase = "up" /\ workers[g].current = NoOne /\ jobState[t] = "cancelled"
      /\ workers' = [workers EXCEPT ![g].queue = Tail(@), ![g].pending = @ - 1]
      /\ Pool!Completed(g, t)
      /\ UNCHANGED <<nextGeneration, bindings, lock, jobState, cancelled, turnEnds>>
  BY <1>1 DEF Pool!TakeCancelledJob
<1>4. PICK S : S = PoolJobsOf(workers[g]) OBVIOUS
<1>5. Pool!IsFiniteSet(S) /\ workers[g].pending = Pool!Cardinality(S) /\ t \in S
  BY <1>1, <1>2, <1>4 DEF PoolCountOK, PoolJobsOf
<1>6. Pool!IsFiniteSet(S \ {t}) /\ Pool!Cardinality(S \ {t}) = Pool!Cardinality(S) - 1 /\ Pool!Cardinality(S \ {t}) \in Nat
  BY <1>5, FS_RemoveElement, FS_CardinalityType, PoolSets
<1>7. PICK n \in Nat : n = workers[g].pending - 1 BY <1>5, <1>6
<1> DEFINE w == [workers[g] EXCEPT !.queue = r, !.pending = n]
<1>8. workers' = [workers EXCEPT ![g] = w]
  BY <1>0, <1>1, <1>2, <1>3, <1>7 DEF PoolStateOK, PoolWorkers
<1>9. /\ w \in PoolWorkers /\ w.queue = r /\ w.pending = n
      /\ w.current = workers[g].current /\ w.phase = workers[g].phase
      /\ w.accepting = workers[g].accepting /\ w.listed = workers[g].listed
      /\ w.fingerprint = workers[g].fingerprint
  BY <1>2 DEF PoolWorkers
<1> HIDE DEF w
<1>10. workers'[g] = w /\ \A h \in Pool!Generations \ {g} : workers'[h] = workers[h]
  BY <1>0, <1>8, PoolOneWorker
<1>11. workers' \in [Pool!Generations -> PoolWorkers] BY <1>0, <1>8, <1>9 DEF PoolStateOK
<1>c. /\ callers' \in [Turns -> PoolCallers]
      /\ \A u \in Turns : callers'[u].worker = callers[u].worker
      /\ \A u \in Turns \ {t} : callers'[u].pc = callers[u].pc
      /\ callers'[t].pc = IF callers[t].pc = "sent" THEN "answered" ELSE callers[t].pc
  BY <1>0, <1>3, PoolCompletedIs
<1>12. jobState[t] = "cancelled" => callers[t].pc \in {"finalizing", "answered", "dropped"}
  BY DEF PoolIInv, PoolEndsOK
<1>13. \A u \in Turns : callers'[u].pc = callers[u].pc BY <1>c, <1>3, <1>12
<1>14. PoolStateOK'
  <2>1. \A h \in Pool!Generations : workers'[h].phase = workers[h].phase BY <1>9, <1>10
  <2> QED BY <1>0, <1>3, <1>11, <1>c, <1>13, <2>1 DEF PoolStateOK
<1>15. PoolFewerListed BY <1>9, <1>10 DEF PoolFewerListed
<1>16. PoolOnePlace'
  <2>1. \A u \in Turns, h \in Pool!Generations, k \in Pool!Generations :
           workers'[h].current = u /\ workers'[k].current = u => h = k
    BY <1>9, <1>10 DEF PoolIInv, PoolOnePlace
  <2>2. PoolOnePlace BY DEF PoolIInv
  <2>3. /\ workers'[g].queue = r /\ q = workers[g].queue /\ Len(r) = Len(q) - 1
        /\ \A i \in 1..Len(r) : r[i] = q[i + 1]
        /\ \A h \in Pool!Generations \ {g} : workers'[h].queue = workers[h].queue
    BY <1>1, <1>9, <1>10
  <2> QED BY <1>0, <2>1, <2>2, <2>3, PoolShorterPlaces
<1>17. PoolQueueOK(w)
  <2>1. \A i \in 1..Len(r) : r[i] = Pool!Shutdown => i = Len(r) /\ ~w.accepting
    <3>1. ASSUME NEW i \in 1..Len(r), r[i] = Pool!Shutdown PROVE i = Len(r) /\ ~w.accepting
      <4>1. i + 1 \in 1..Len(q) /\ q[i + 1] = Pool!Shutdown BY <1>1, <3>1
      <4>2. i + 1 = Len(q) /\ ~workers[g].accepting BY <4>1, <1>1, <1>2 DEF PoolQueueOK
      <4>3. i = Len(r) BY <4>2, <1>1, <3>1
      <4> QED BY <4>2, <4>3, <1>9
    <3> QED BY <3>1
  <2> QED BY <2>1, <1>3, <1>9 DEF PoolQueueOK
<1>18. PoolJobsOf(w) = S \ {t}
  BY <1>0, <1>1, <1>3, <1>4, <1>9 DEF PoolJobsOf, PoolConstants
<1>19. PoolCountOK(w) BY <1>5, <1>6, <1>7, <1>9, <1>18 DEF PoolCountOK
<1>20. PoolWorkersOK'
  <2>1. ASSUME NEW h \in Pool!Generations PROVE PoolQueueOK(workers'[h]) /\ PoolCountOK(workers'[h])
    <3>1. CASE h = g BY <3>1, <1>10, <1>17, <1>19
    <3>2. CASE h # g BY <3>2, <1>10 DEF PoolIInv, PoolWorkersOK
    <3> QED BY <3>1, <3>2
  <2> QED BY <2>1 DEF PoolWorkersOK
<1>21. \A h \in Pool!Generations, u \in Turns :
          /\ Pool!Contains(workers'[h].queue, u) => Pool!Contains(workers[h].queue, u)
          /\ workers'[h].current = workers[h].current
  BY <1>1, <1>9, <1>10
<1>22. PoolElsewhere(t)
  BY <1>3, <1>c, <1>21 DEF PoolElsewhere
<1>23. PoolJobsAt(t)' /\ PoolEndsAt(t)'
  <2>1. PoolJobsAt(t) /\ PoolEndsAt(t) BY PoolAtAll DEF PoolIInv
  <2> QED BY <2>1, <1>3, <1>13, <1>21 DEF PoolJobsAt, PoolEndsAt
<1> QED BY <1>14, <1>15, <1>16, <1>20, <1>22, <1>23, PoolLimitsKept, PoolOthersKept DEF PoolIInv

\* A worker takes the job at the head of its queue.
LEMMA PoolTakeJobInv ==
  ASSUME Pool!LimitsAssumption, PoolIInv, NEW g \in Pool!Generations, Pool!TakeJob(g)
  PROVE  PoolIInv'
<1>0. PoolConstants /\ PoolStateOK BY PoolConstant DEF PoolIInv
<1>1. PICK q \in Seq(PoolJobs), r \in Seq(PoolJobs), t \in Turns :
           /\ q = workers[g].queue /\ r = Tail(q) /\ t = Head(q) /\ q[1] = t
           /\ Len(q) \in Nat /\ Len(q) >= 1 /\ Len(r) = Len(q) - 1
           /\ \A i \in 1..Len(r) : r[i] = q[i + 1]
           /\ \A i \in 2..Len(q) : q[i] # t
           /\ \A u : Pool!Contains(r, u) => Pool!Contains(q, u)
           /\ \A u : Pool!Contains(q, u) => Pool!Contains(r, u) \/ u = t
           /\ ~Pool!Contains(r, t) /\ Pool!Contains(q, t)
           /\ \A h \in Pool!Generations \ {g} : ~Pool!Contains(workers[h].queue, t)
  BY <1>0, PoolShorter DEF Pool!TakeJob
<1>2. workers[g] \in PoolWorkers /\ PoolQueueOK(workers[g]) /\ PoolCountOK(workers[g])
  BY <1>0 DEF PoolStateOK, PoolIInv, PoolWorkersOK
<1> DEFINE w == [workers[g] EXCEPT !.queue = r, !.current = t, !.live = TRUE]
<1>3. /\ workers[g].phase = "up" /\ workers[g].current = NoOne /\ jobState[t] = "queued"
      /\ jobState' = [jobState EXCEPT ![t] = "running"]
      /\ UNCHANGED <<nextGeneration, bindings, lock, callers, cancelled, turnEnds>>
  BY <1>1 DEF Pool!TakeJob
<1>8. workers' = [workers EXCEPT ![g] = w]
  <2>1. workers' = [workers EXCEPT ![g].queue = Tail(@), ![g].current = t, ![g].live = TRUE]
    BY <1>1 DEF Pool!TakeJob
  <2> QED BY <2>1, <1>0, <1>1, <1>2 DEF PoolStateOK, PoolWorkers
<1>9. /\ w \in PoolWorkers /\ w.queue = r /\ w.pending = workers[g].pending
      /\ w.current = t /\ w.phase = workers[g].phase
      /\ w.accepting = workers[g].accepting /\ w.listed = workers[g].listed
      /\ w.fingerprint = workers[g].fingerprint
  BY <1>2 DEF PoolWorkers
<1> HIDE DEF w
<1>10. workers'[g] = w /\ \A h \in Pool!Generations \ {g} : workers'[h] = workers[h]
  BY <1>0, <1>8, PoolOneWorker
<1>11. workers' \in [Pool!Generations -> PoolWorkers] BY <1>0, <1>8, <1>9 DEF PoolStateOK
<1>12. /\ jobState' \in [Turns -> PoolStates] /\ jobState'[t] = "running"
       /\ \A u \in Turns \ {t} : jobState'[u] = jobState[u]
  BY <1>0, <1>3 DEF PoolStateOK, PoolStates
<1>14. PoolStateOK'
  <2>1. \A h \in Pool!Generations : workers'[h].phase = workers[h].phase BY <1>9, <1>10
  <2> QED BY <1>0, <1>3, <1>11, <1>12, <2>1 DEF PoolStateOK
<1>15. PoolFewerListed BY <1>9, <1>10 DEF PoolFewerListed
<1>a. /\ callers[t].pc = "sent" /\ turnEnds[t] = 0
      /\ \A h \in Pool!Generations : workers[h].current # t
  BY <1>1, <1>3 DEF PoolIInv, PoolJobsOK, PoolEndsOK
<1>16. PoolOnePlace'
  <2>1. ASSUME NEW u \in Turns, NEW h \in Pool!Generations, NEW k \in Pool!Generations,
               workers'[h].current = u, workers'[k].current = u
        PROVE  h = k
    <3>1. CASE u = t
      BY <3>1, <2>1, <1>a, <1>9, <1>10
    <3>2. CASE u # t
      <4>1. workers[h].current = u /\ workers[k].current = u
        BY <3>2, <2>1, <1>9, <1>10
      <4> QED BY <4>1 DEF PoolIInv, PoolOnePlace
    <3> QED BY <3>1, <3>2
  <2>2. PoolOnePlace BY DEF PoolIInv
  <2>3. /\ workers'[g].queue = r /\ q = workers[g].queue /\ Len(r) = Len(q) - 1
        /\ \A i \in 1..Len(r) : r[i] = q[i + 1]
        /\ \A h \in Pool!Generations \ {g} : workers'[h].queue = workers[h].queue
    BY <1>1, <1>9, <1>10
  <2> QED BY <1>0, <2>1, <2>2, <2>3, PoolShorterPlaces
<1>17. PoolQueueOK(w)
  <2>1. \A i \in 1..Len(r) : r[i] = Pool!Shutdown => i = Len(r) /\ ~w.accepting
    <3>1. ASSUME NEW i \in 1..Len(r), r[i] = Pool!Shutdown PROVE i = Len(r) /\ ~w.accepting
      <4>1. i + 1 \in 1..Len(q) /\ q[i + 1] = Pool!Shutdown BY <1>1, <3>1
      <4>2. i + 1 = Len(q) /\ ~workers[g].accepting BY <4>1, <1>1, <1>2 DEF PoolQueueOK
      <4>3. i = Len(r) BY <4>2, <1>1, <3>1
      <4> QED BY <4>2, <4>3, <1>9
    <3> QED BY <3>1
  <2> QED BY <2>1, <1>3, <1>9 DEF PoolQueueOK
<1>18. PoolJobsOf(w) = PoolJobsOf(workers[g])
  BY <1>0, <1>1, <1>3, <1>9 DEF PoolJobsOf, PoolConstants
<1>19. PoolCountOK(w) BY <1>2, <1>9, <1>18 DEF PoolCountOK
<1>20. PoolWorkersOK'
  <2>1. ASSUME NEW h \in Pool!Generations PROVE PoolQueueOK(workers'[h]) /\ PoolCountOK(workers'[h])
    <3>1. CASE h = g BY <3>1, <1>10, <1>17, <1>19
    <3>2. CASE h # g BY <3>2, <1>10 DEF PoolIInv, PoolWorkersOK
    <3> QED BY <3>1, <3>2
  <2> QED BY <2>1 DEF PoolWorkersOK
<1>21. \A h \in Pool!Generations : \A u \in Turns \ {t} :
          /\ Pool!Contains(workers'[h].queue, u) => Pool!Contains(workers[h].queue, u)
          /\ workers'[h].current = u => workers[h].current = u
  <2>1. ASSUME NEW h \in Pool!Generations, NEW u \in Turns \ {t}
        PROVE  /\ Pool!Contains(workers'[h].queue, u) => Pool!Contains(workers[h].queue, u)
               /\ workers'[h].current = u => workers[h].current = u
    <3>1. CASE h = g BY <3>1, <1>1, <1>9, <1>10
    <3>2. CASE h # g BY <3>2, <1>10
    <3> QED BY <3>1, <3>2
  <2> QED BY <2>1
<1>22. PoolElsewhere(t)
  BY <1>3, <1>12, <1>21 DEF PoolElsewhere
<1>23. PoolJobsAt(t)' /\ PoolEndsAt(t)'
  <2>1. \A h \in Pool!Generations : ~Pool!Contains(workers'[h].queue, t)
    BY <1>1, <1>9, <1>10
  <2> QED BY <2>1, <1>3, <1>a, <1>12 DEF PoolJobsAt, PoolEndsAt
<1> QED BY <1>14, <1>15, <1>16, <1>20, <1>22, <1>23, PoolLimitsKept, PoolOthersKept DEF PoolIInv

\* The execution ends once, with the turn_end hooks of a Turn that had none.
LEMMA PoolExecuteInv ==
  ASSUME Pool!LimitsAssumption, PoolIInv, NEW g \in Pool!Generations, Pool!Execute(g)
  PROVE  PoolIInv'
<1>0. PoolConstants /\ PoolStateOK BY PoolConstant DEF PoolIInv
<1>1. PICK t \in Turns : t = workers[g].current
  BY <1>0 DEF Pool!Execute, PoolStateOK, PoolWorkers
<1>2. workers[g] \in PoolWorkers /\ PoolQueueOK(workers[g])
  BY <1>0 DEF PoolStateOK, PoolIInv, PoolWorkersOK
<1>3. PICK ok \in BOOLEAN : workers' = [workers EXCEPT ![g].live = ok]
  BY DEF Pool!Execute
<1>4. /\ jobState[t] = "running" /\ jobState' = [jobState EXCEPT ![t] = "executed"]
      /\ turnEnds' = [turnEnds EXCEPT ![t] = @ + 1]
      /\ UNCHANGED <<nextGeneration, bindings, lock, callers, cancelled>>
  BY <1>1 DEF Pool!Execute
<1>5. workers' \in [Pool!Generations -> PoolWorkers] /\ PoolRelisted
  <2>1. PICK w : w = [workers[g] EXCEPT !.live = ok] OBVIOUS
  <2>2. w \in PoolWorkers BY <2>1, <1>2 DEF PoolWorkers
  <2>3. /\ w.queue = workers[g].queue /\ w.current = workers[g].current
        /\ w.pending = workers[g].pending /\ w.phase = workers[g].phase
        /\ w.accepting = workers[g].accepting /\ w.listed = workers[g].listed
        /\ w.fingerprint = workers[g].fingerprint
    BY <2>1, <1>2 DEF PoolWorkers
  <2>4. workers' = [workers EXCEPT ![g] = w] BY <1>3, <2>1
  <2>5. workers'[g] = w /\ \A h \in Pool!Generations : h # g => workers'[h] = workers[h]
    BY <2>4, <1>0 DEF PoolStateOK
  <2>6. workers' \in [Pool!Generations -> PoolWorkers] BY <2>4, <2>2, <1>0 DEF PoolStateOK
  <2>7. ASSUME NEW h \in Pool!Generations
        PROVE  /\ workers'[h].queue = workers[h].queue /\ workers'[h].current = workers[h].current
               /\ workers'[h].pending = workers[h].pending /\ workers'[h].phase = workers[h].phase
               /\ workers'[h].accepting = workers[h].accepting
               /\ workers'[h].listed = workers[h].listed
               /\ workers'[h].fingerprint = workers[h].fingerprint
    <3>1. CASE h = g BY <3>1, <2>3, <2>5
    <3>2. CASE h # g BY <3>2, <2>5
    <3> QED BY <3>1, <3>2
  <2> QED BY <2>6, <2>7 DEF PoolRelisted
<1>6. turnEnds[t] = 0 /\ callers[t].pc \in {"sent", "dropped"}  BY <1>4 DEF PoolIInv, PoolEndsOK
<1>7. /\ jobState' \in [Turns -> PoolStates] /\ jobState'[t] = "executed"
      /\ \A u \in Turns \ {t} : jobState'[u] = jobState[u]
  BY <1>0, <1>4 DEF PoolStateOK, PoolStates
<1>8. /\ turnEnds' \in [Turns -> Nat] /\ turnEnds'[t] = 1
      /\ \A u \in Turns \ {t} : turnEnds'[u] = turnEnds[u]
  BY <1>0, <1>4, <1>6 DEF PoolStateOK
<1>9. PoolStateOK' BY <1>0, <1>4, <1>5, <1>7, <1>8 DEF PoolStateOK, PoolRelisted
<1>10. PoolElsewhere(t) BY <1>4, <1>5, <1>7, <1>8 DEF PoolElsewhere, PoolRelisted
<1>11. PoolJobsAt(t)' /\ PoolEndsAt(t)'
  <2>1. \A h \in Pool!Generations : ~Pool!Contains(workers[h].queue, t) BY <1>4 DEF PoolIInv, PoolJobsOK
  <2> QED BY <2>1, <1>4, <1>5, <1>6, <1>7, <1>8 DEF PoolJobsAt, PoolEndsAt, PoolRelisted
<1> QED BY <1>5, <1>9, <1>10, <1>11, PoolRelistedKeeps, PoolPlacesKept, PoolLimitsKept, PoolOthersKept DEF PoolIInv

\* The worker answers the job it ran, and counts it down.
LEMMA PoolAnswerInv ==
  ASSUME Pool!LimitsAssumption, PoolIInv, NEW g \in Pool!Generations, Pool!AnswerJob(g)
  PROVE  PoolIInv'
<1>0. PoolConstants /\ PoolStateOK BY PoolConstant DEF PoolIInv
<1>1. PICK t \in Turns : t = workers[g].current
  BY <1>0 DEF Pool!AnswerJob, PoolStateOK, PoolWorkers
<1>2. workers[g] \in PoolWorkers /\ PoolQueueOK(workers[g]) /\ PoolCountOK(workers[g])
  BY <1>0 DEF PoolStateOK, PoolIInv, PoolWorkersOK
<1>3. /\ jobState[t] = "executed"
      /\ workers' = [workers EXCEPT ![g].current = NoOne, ![g].pending = @ - 1]
      /\ Pool!Completed(g, t)
      /\ UNCHANGED <<nextGeneration, bindings, lock, jobState, cancelled, turnEnds>>
  BY <1>1 DEF Pool!AnswerJob
<1>4. PICK S : S = PoolJobsOf(workers[g]) OBVIOUS
<1>5. Pool!IsFiniteSet(S) /\ workers[g].pending = Pool!Cardinality(S) /\ t \in S
  BY <1>1, <1>2, <1>4 DEF PoolCountOK, PoolJobsOf
<1>6. Pool!IsFiniteSet(S \ {t}) /\ Pool!Cardinality(S \ {t}) = Pool!Cardinality(S) - 1 /\ Pool!Cardinality(S \ {t}) \in Nat
  BY <1>5, FS_RemoveElement, FS_CardinalityType, PoolSets
<1>7. PICK n \in Nat : n = workers[g].pending - 1 BY <1>5, <1>6
<1> DEFINE w == [workers[g] EXCEPT !.current = NoOne, !.pending = n]
<1>8. workers' = [workers EXCEPT ![g] = w]
  BY <1>0, <1>2, <1>3, <1>7 DEF PoolStateOK, PoolWorkers
<1>9. /\ w \in PoolWorkers /\ w.queue = workers[g].queue /\ w.pending = n
      /\ w.current = NoOne /\ w.phase = workers[g].phase
      /\ w.accepting = workers[g].accepting /\ w.listed = workers[g].listed
      /\ w.fingerprint = workers[g].fingerprint
  BY <1>2 DEF PoolWorkers
<1> HIDE DEF w
<1>10. workers'[g] = w /\ \A h \in Pool!Generations \ {g} : workers'[h] = workers[h]
  BY <1>0, <1>8, PoolOneWorker
<1>11. workers' \in [Pool!Generations -> PoolWorkers] BY <1>0, <1>8, <1>9 DEF PoolStateOK
<1>c. /\ callers' \in [Turns -> PoolCallers]
      /\ \A u \in Turns : callers'[u].worker = callers[u].worker
      /\ \A u \in Turns \ {t} : callers'[u].pc = callers[u].pc
      /\ callers'[t].pc = IF callers[t].pc = "sent" THEN "answered" ELSE callers[t].pc
  BY <1>0, <1>3, PoolCompletedIs
<1>12. callers[t].pc \in {"sent", "dropped"} /\ turnEnds[t] = 1
  BY <1>1, <1>3 DEF PoolIInv, PoolJobsOK, PoolEndsOK
<1>13. callers'[t].pc \in {"answered", "dropped"}  BY <1>c, <1>12
<1>14. PoolStateOK'
  <2>1. \A h \in Pool!Generations : workers'[h].phase = workers[h].phase BY <1>9, <1>10
  <2>2. \A u \in Turns : callers'[u].pc \in {"evict", "send"} => callers'[u].worker \in Pool!Generations
    BY <1>0, <1>c, <1>13 DEF PoolStateOK
  <2> QED BY <1>0, <1>3, <1>11, <1>c, <2>1, <2>2 DEF PoolStateOK
<1>15. PoolFewerListed BY <1>9, <1>10 DEF PoolFewerListed
<1>16. /\ \A h \in Pool!Generations : workers'[h].queue = workers[h].queue
       /\ \A h \in Pool!Generations : workers'[h].current = workers[h].current \/ workers'[h].current = NoOne
  BY <1>9, <1>10
<1>17. PoolOnePlace'
  <2>1. \A h \in Pool!Generations, i \in Nat, u \in Turns : PoolInQueue(h, i, u)' <=> PoolInQueue(h, i, u)
    BY <1>16 DEF PoolInQueue
  <2>2. \A h \in Pool!Generations, u \in Turns : workers'[h].current = u => workers[h].current = u
    BY <1>0, <1>16 DEF PoolConstants
  <2> QED BY <2>1, <2>2 DEF PoolIInv, PoolOnePlace
<1>18. ~Pool!Contains(workers[g].queue, t) BY <1>1 DEF PoolIInv, PoolJobsOK
<1>19. PoolJobsOf(w) = S \ {t}
  BY <1>0, <1>1, <1>4, <1>9, <1>18 DEF PoolJobsOf, PoolConstants
<1>20. PoolCountOK(w) BY <1>5, <1>6, <1>7, <1>9, <1>19 DEF PoolCountOK
<1>21. PoolQueueOK(w) BY <1>2, <1>9 DEF PoolQueueOK
<1>22. PoolWorkersOK'
  <2>1. ASSUME NEW h \in Pool!Generations PROVE PoolQueueOK(workers'[h]) /\ PoolCountOK(workers'[h])
    <3>1. CASE h = g BY <3>1, <1>10, <1>20, <1>21
    <3>2. CASE h # g BY <3>2, <1>10 DEF PoolIInv, PoolWorkersOK
    <3> QED BY <3>1, <3>2
  <2> QED BY <2>1 DEF PoolWorkersOK
<1>23. PoolElsewhere(t)
  BY <1>0, <1>3, <1>c, <1>16 DEF PoolElsewhere, PoolConstants
<1>24. PoolJobsAt(t)' /\ PoolEndsAt(t)'
  <2>1. \A h \in Pool!Generations : ~Pool!Contains(workers'[h].queue, t)
    BY <1>3, <1>16 DEF PoolIInv, PoolJobsOK
  <2>2. \A h \in Pool!Generations : workers'[h].current # t
    <3>1. ASSUME NEW h \in Pool!Generations, workers'[h].current = t PROVE FALSE
      <4>1. workers[h].current = t BY <3>1, <1>0, <1>16 DEF PoolConstants
      <4>2. h = g BY <4>1, <1>1 DEF PoolIInv, PoolOnePlace
      <4> QED BY <4>2, <3>1, <1>0, <1>9, <1>10 DEF PoolConstants
    <3> QED BY <3>1
  <2>3. jobState'[t] = "executed" /\ turnEnds'[t] = 1  BY <1>1, <1>3, <1>12
  <2>4. PoolJobsAt(t)' BY <2>1, <2>2 DEF PoolJobsAt
  <2>5. PoolEndsAt(t)' BY <2>3, <1>13 DEF PoolEndsAt
  <2> QED BY <2>4, <2>5
<1> QED BY <1>14, <1>15, <1>17, <1>22, <1>23, <1>24, PoolLimitsKept, PoolOthersKept DEF PoolIInv

\* A step that changes nothing keeps the invariant.
LEMMA PoolStutterInv ==
  ASSUME Pool!LimitsAssumption, PoolIInv, UNCHANGED Pool!vars PROVE PoolIInv'
<1>1. PoolStateOK' BY DEF PoolIInv, PoolStateOK, Pool!vars
<1>2. PoolRelisted BY DEF PoolRelisted, Pool!vars
<1> QED BY <1>1, <1>2, PoolStayRelisted DEF Pool!vars

\* Every step of the pool keeps the invariant.
LEMMA PoolNextInv ==
  ASSUME Pool!LimitsAssumption, PoolIInv, [Pool!Next]_Pool!vars
  PROVE  PoolIInv'
<1>1. ASSUME NEW t \in Turns, Pool!CallerStep(t) \/ Pool!Cancel(t) \/ Pool!DropCaller(t) PROVE PoolIInv'
  BY <1>1, PoolChoosing, PoolSpawnInv, PoolEvictInv, PoolSendInv, PoolSettledInv DEF Pool!CallerStep
<1>2. ASSUME NEW g \in Pool!Generations, Pool!WorkerStep(g) \/ Pool!EmitEvent(g) \/ Pool!IdleTimeout(g) PROVE PoolIInv'
  BY <1>2, PoolLeaving, PoolTakeCancelledInv, PoolTakeJobInv, PoolExecuteInv, PoolAnswerInv DEF Pool!WorkerStep
<1> QED BY <1>1, <1>2, PoolStutterInv DEF Pool!Next

\* What the invariant says of the workers and the jobs is what the pool promises.
LEMMA PoolInvIsSound ==
  ASSUME Pool!LimitsAssumption, PoolIInv
  PROVE  Pool!TypeOK /\ Pool!PoolLimits /\ Pool!AcceptedJobsAreServed /\ Pool!TurnEndsOnce
<1>1. Pool!TypeOK
  <2>1. ASSUME NEW g \in Pool!Generations
        PROVE  /\ workers[g].phase \in {"none", "up", "leaving", "closing", "gone"}
               /\ workers[g].pending = Pool!Cardinality({t \in Turns : Pool!Contains(workers[g].queue, t) \/ workers[g].current = t})
               /\ Pool!ToSet(workers[g].queue) \subseteq Turns \cup {Pool!Shutdown}
    <3>1. workers[g] \in PoolWorkers BY DEF PoolIInv, PoolStateOK
    <3>2. PoolCountOK(workers[g]) BY DEF PoolIInv, PoolWorkersOK
    <3>3. workers[g].queue \in Seq(PoolJobs) BY <3>1 DEF PoolWorkers
    <3>4. Pool!ToSet(workers[g].queue) \subseteq Turns \cup {Pool!Shutdown}
      <4>1. PICK q \in Seq(PoolJobs) : q = workers[g].queue BY <3>3
      <4>2. Pool!ToSet(q) \subseteq PoolJobs BY DEF Pool!ToSet
      <4> QED BY <4>1, <4>2 DEF PoolJobs
    <3> QED BY <3>1, <3>2, <3>4 DEF PoolWorkers, PoolPhases, PoolCountOK, PoolJobsOf
  <2>2. \A t \in Turns :
          /\ callers[t].pc \in {"start", "try", "evict", "waiting", "send",
                "sent", "finalizing", "answered", "failed", "dropped"}
          /\ callers[t].worker \in Pool!Generations \cup {NoOne}
          /\ jobState[t] \in {"queued", "running", "executed", "cancelled"}
    BY DEF PoolIInv, PoolStateOK, PoolCallers, PoolPcs, PoolStates
  <2> QED BY <2>1, <2>2 DEF PoolIInv, PoolStateOK, Pool!TypeOK
<1>2. Pool!PoolLimits BY DEF PoolIInv, PoolLimitsOK
<1>3. Pool!AcceptedJobsAreServed
  <2>1. ASSUME NEW g \in Pool!Generations, NEW t \in Turns, Pool!Contains(workers[g].queue, t)
        PROVE  workers[g].phase = "up"
    <3>1. workers[g].queue # <<>> BY <2>1 DEF Pool!Contains
    <3> QED BY <3>1 DEF PoolIInv, PoolWorkersOK, PoolQueueOK
  <2> QED BY <2>1 DEF Pool!AcceptedJobsAreServed
<1>4. Pool!TurnEndsOnce BY DEF PoolIInv, PoolEndsOK, Pool!TurnEndsOnce
<1> QED BY <1>1, <1>2, <1>3, <1>4

\* However many callers, evictions and idle timeouts interleave
\* (mews-acp/src/session.rs), for any limits and any fingerprints: the pool keeps its
\* limits, the pending count of a worker is that of its unfinished jobs, a job that was
\* accepted is not left behind by a thread that has gone, and the turn_end hooks of a Turn
\* run once.
THEOREM PoolStaysSound == Pool!LimitsAssumption => (Pool!Spec => []Pool!PoolIsSound)
<1> SUFFICES ASSUME Pool!LimitsAssumption PROVE Pool!Spec => []Pool!PoolIsSound
  OBVIOUS
<1>1. Pool!Init => PoolIInv BY PoolInitInv
<1>2. PoolIInv /\ [Pool!Next]_Pool!vars => PoolIInv' BY PoolNextInv
<1>3. PoolIInv => Pool!PoolIsSound BY PoolInvIsSound DEF Pool!PoolIsSound
<1> QED BY <1>1, <1>2, <1>3, PTL DEF Pool!Spec


--------------------
(* The Turns of a Session in ACP Harnesses (AcpSession).                   *)

CONSTANTS
  Harnesses, Channel, NativeHarness, NoHarness, MaxTurns, MaxSessions,
  MaxChanges, Offers, TelemetryMayFail

VARIABLES
  config, changes, binding, bound, turns, acp_current, run, world

\* A Session that runs its Turns in ACP Harnesses.
Acp == INSTANCE AcpSession WITH current <- acp_current

\* The values of the variables.
AcpStatuses == {"none", "accepted", "completed", "failed", "cancelled", "interrupted"}
AcpAnyConfig == [harness : Harnesses, definition : Nat, context : Nat]
AcpAnyBinding == [acp : Acp!AcpSessions \cup {Acp!NoSession}, harness : Harnesses \cup {NoHarness},
               definition : Nat, context : Nat, dispatched : BOOLEAN]
AcpAnyTurn == [status : AcpStatuses, harness : Harnesses \cup {NativeHarness, NoHarness}]
AcpAnyRun == [at : {"idle", "start", "process", "continue", "bind", "options", "model", "context",
                 "prompt", "await", "ended", "settle", "finish"},
           transition : {"none", "new", "resume", "replace"},
           acp : Acp!AcpSessions \cup {Acp!NoSession}, binds : BOOLEAN, recovers : BOOLEAN,
           resumed : BOOLEAN, cancelled : BOOLEAN, dispatched : BOOLEAN, answered : BOOLEAN,
           uncertain : BOOLEAN, approved : BOOLEAN, starts : Nat, ends : Nat,
           result : {"none", "ok", "failed", "cancelled", "uncertain"},
           effect : {"none", "started", "succeeded", "failed", "uncertain"}]
AcpAnyWorld == [created : BOOLEAN, alive : BOOLEAN, context : Nat, contexts : Nat, seen : SUBSET Acp!Turns]

\* The type of the state.
AcpTyped ==
  /\ config \in AcpAnyConfig /\ binding \in AcpAnyBinding /\ bound \subseteq Acp!Turns
  /\ turns \in [Acp!Turns -> AcpAnyTurn] /\ acp_current \in Acp!Turns \cup {0} /\ run \in AcpAnyRun
  /\ world \in [Acp!AcpSessions -> AcpAnyWorld]

\* Turns are accepted one after the other, and the one that runs is the last.
AcpSequenced ==
  /\ \A k \in Acp!Turns : turns[k].status # "none" => \A j \in 1..k : turns[j].status # "none"
  /\ \A k \in Acp!Turns : turns[k].status = "accepted" <=> k = acp_current
  /\ \A k \in Acp!Turns : acp_current # 0 /\ acp_current < k => turns[k].status = "none"
  /\ \A k \in bound : turns[k].status # "none"
  /\ acp_current # 0 => turns[acp_current].harness = config.harness
  /\ run.at = "idle" <=> acp_current = 0
  /\ acp_current = 0 => run = Acp!NoRun

\* The hooks of the Turn, by the step it is at.
AcpHooks ==
  /\ run.starts <= 1 /\ (run.at = "start" => run.starts = 0)
  /\ run.ends = IF run.at \in {"settle", "finish"} THEN 1 ELSE 0

\* A session that the first prompt gives its context has none before it.
AcpContexts ==
  /\ \A s \in Acp!AcpSessions : world[s].contexts <= 1
  /\ binding.acp # Acp!NoSession => world[binding.acp].created
  /\ run.acp # Acp!NoSession => world[run.acp].created
  /\ run.at \in {"bind", "options", "model", "context", "prompt"} =>
       /\ run.acp # Acp!NoSession
       /\ Acp!CarriesContext => world[run.acp].contexts = 0
  /\ run.at \in {"start", "process", "continue"} => ~run.binds

\* The Turn before the current one ran in the same Harness.
AcpContinues == acp_current > 1 /\ turns[acp_current - 1].harness = config.harness

\* The Turn has its session.
AcpPlaced == run.at \in {"options", "model", "context", "prompt", "await"} \/ run.dispatched

\* The binding, by the step the Turn is at: what resumes continues the Turn before it, and
\* what has its session is bound to it.
AcpBindings ==
  /\ binding = Acp!NoBinding \/ (binding.acp # Acp!NoSession /\ binding.harness \in Harnesses)
  /\ run.at \in {"start", "process", "continue"} /\ run.transition = "resume" =>
       AcpContinues /\ binding.acp # Acp!NoSession
  /\ run.at \in {"start", "process", "continue"} => run.transition # "none"
  /\ run.at \in {"start", "process", "continue", "bind"} => acp_current \notin bound
  /\ run.resumed => AcpContinues
  /\ AcpPlaced => /\ run.acp # Acp!NoSession /\ binding.acp = run.acp
                  /\ acp_current \in bound \/ AcpContinues

\* What the Turn has done, by the step it is at.
AcpEffects ==
  /\ run.at \notin {"await", "ended", "settle", "finish"} => ~run.dispatched /\ ~run.uncertain
  /\ run.at = "await" \/ (run.at \in {"ended", "settle", "finish"} /\ run.result = "ok") =>
       run.dispatched
  /\ run.at \in {"ended", "settle", "finish"} => run.result # "none"
  /\ run.dispatched => acp_current \in world[run.acp].seen

\* The bound session has seen every Turn of an ACP Harness completed since it was bound,
\* and a Turn that completed without binding a session continues the Turn before it.
AcpHistory ==
  \A k \in Acp!Completed : turns[k].harness \in Harnesses =>
    /\ (\A b \in bound : b <= k) => binding.acp # Acp!NoSession /\ k \in world[binding.acp].seen
    /\ k \notin bound => k > 1 /\ turns[k - 1].harness = turns[k].harness

\* The inductive invariant.
AcpIInv ==
  /\ AcpTyped /\ AcpSequenced /\ AcpHooks /\ AcpContexts /\ AcpBindings /\ AcpEffects /\ AcpHistory

\* While the events of hooks persist, what ended for certain is known.
AcpCertain ==
  /\ run.at \in {"ended", "settle"} /\ run.result \in {"ok", "failed"} =>
       (run.dispatched => run.answered) /\ ~run.uncertain
  /\ Acp!CertainEffectsAreKnown

\* Where no context is left to the first prompt, a session has it from the beginning.
AcpGiven == \A s \in Acp!AcpSessions : world[s].created => world[s].contexts = 1
\* Every Harness gets its context when a session is created.
AcpNoFirstPrompt == \A h \in Harnesses : Channel[h] # "FirstPrompt"

--------------------
\* What the provers need of the constants.
LEMMA AcpConstant ==
  ASSUME Acp!ChannelsAssumption
  PROVE  /\ MaxTurns \in Nat /\ MaxSessions \in Nat
         /\ NoHarness \notin Harnesses /\ NativeHarness \notin Harnesses
BY DEF Acp!ChannelsAssumption

\* The initial state.
LEMMA AcpInitSound == ASSUME Acp!ChannelsAssumption, Acp!Init PROVE AcpIInv
<1>1. AcpTyped
  <2>1. config \in AcpAnyConfig BY DEF Acp!Init, AcpAnyConfig
  <2>2. binding \in AcpAnyBinding BY DEF Acp!Init, Acp!NoBinding, AcpAnyBinding, Acp!NoSession
  <2>3. Acp!NoTurn \in AcpAnyTurn BY DEF Acp!NoTurn, AcpAnyTurn, AcpStatuses
  <2>4. Acp!NoRun \in AcpAnyRun BY DEF Acp!NoRun, AcpAnyRun, Acp!NoSession
  <2>5. Acp!NoWorld \in AcpAnyWorld BY DEF Acp!NoWorld, AcpAnyWorld
  <2> QED BY <2>1, <2>2, <2>3, <2>4, <2>5 DEF Acp!Init, AcpTyped
<1>2. \A k \in Acp!Turns : turns[k].status = "none" /\ turns[k].status # "accepted"  BY DEF Acp!Init, Acp!NoTurn
<1>3. AcpSequenced
  <2>1. 0 \notin Acp!Turns BY DEF Acp!Turns
  <2> QED BY <1>2, <2>1 DEF Acp!Init, AcpSequenced, Acp!NoRun
<1>4. AcpHooks BY DEF Acp!Init, AcpHooks, Acp!NoRun
<1>5. AcpContexts BY DEF Acp!Init, AcpContexts, Acp!NoRun, Acp!NoWorld, Acp!NoBinding
<1>6. AcpBindings /\ AcpEffects BY DEF Acp!Init, AcpBindings, AcpEffects, AcpPlaced, Acp!NoRun, Acp!NoBinding
<1>7. AcpHistory BY <1>2 DEF AcpHistory, Acp!Completed
<1> QED BY <1>1, <1>3, <1>4, <1>5, <1>6, <1>7 DEF AcpIInv

--------------------
(* Steps that change nothing but the execution of the Turn.                *)

\* Such a step keeps what is said of the Turns.
LEMMA AcpRunOnly ==
  ASSUME AcpIInv, UNCHANGED <<config, binding, bound, turns, acp_current, world>>,
         acp_current # 0, run' \in AcpAnyRun, run'.at # "idle", AcpHooks', AcpContexts', AcpBindings', AcpEffects'
  PROVE  AcpIInv'
<1>1. AcpTyped' BY DEF AcpIInv, AcpTyped
<1>2. AcpSequenced' BY DEF AcpIInv, AcpSequenced
<1>3. AcpHistory' BY DEF AcpIInv, AcpHistory, Acp!Completed
<1> QED BY <1>1, <1>2, <1>3 DEF AcpIInv

\* One that goes to a step behind the choice of the session, and keeps the session.
LEMMA AcpMoves ==
  ASSUME AcpIInv, NEW x, NEW r, run' = [run EXCEPT !.at = x, !.result = r],
         UNCHANGED <<config, binding, bound, turns, acp_current, world>>, run.at # "idle",
         r \in {"none", "ok", "failed", "cancelled", "uncertain"},
         \/ run.at = "process" /\ x = "continue"
         \/ run.at = "options" /\ x = "model"
         \/ run.at = "model" /\ x \in {"context", "prompt"}
         \/ run.at \notin {"settle", "finish"} /\ x = "ended" /\ r # "none" /\ (r = "ok" => run.dispatched)
  PROVE  AcpIInv'
<1>1. run \in AcpAnyRun /\ acp_current # 0 BY DEF AcpIInv, AcpTyped, AcpSequenced
<1>2. /\ run' \in AcpAnyRun /\ run'.at = x /\ run'.result = r /\ run'.acp = run.acp
      /\ run'.binds = run.binds /\ run'.transition = run.transition /\ run'.resumed = run.resumed
      /\ run'.dispatched = run.dispatched /\ run'.uncertain = run.uncertain
      /\ run'.starts = run.starts /\ run'.ends = run.ends
  BY <1>1 DEF AcpAnyRun
<1>3. AcpHooks' BY <1>2 DEF AcpIInv, AcpHooks
<1>4. AcpContexts' BY <1>2 DEF AcpIInv, AcpContexts, Acp!CarriesContext
<1>5. AcpBindings' BY <1>2 DEF AcpIInv, AcpBindings, AcpPlaced, AcpContinues
<1>6. AcpEffects' BY <1>2 DEF AcpIInv, AcpEffects
<1> QED BY <1>1, <1>2, <1>3, <1>4, <1>5, <1>6, AcpRunOnly

\* The same without a result of its own.
LEMMA AcpGoings ==
  ASSUME AcpIInv, NEW x, Acp!Goes(x),
         UNCHANGED <<config, binding, bound, turns, acp_current, world>>, run.at # "idle",
         \/ run.at = "process" /\ x = "continue"
         \/ run.at = "options" /\ x = "model"
         \/ run.at = "model" /\ x \in {"context", "prompt"}
  PROVE  AcpIInv'
<1>1. run \in AcpAnyRun BY DEF AcpIInv, AcpTyped
<1>2. /\ run' = [run EXCEPT !.at = x, !.result = run.result]
      /\ run.result \in {"none", "ok", "failed", "cancelled", "uncertain"}
  BY <1>1 DEF Acp!Goes, AcpAnyRun
<1> QED BY <1>2, AcpMoves

\* The steps around the attempt.
LEMMA AcpCancelSound == ASSUME AcpIInv, Acp!Cancel PROVE AcpIInv'
<1>1. /\ run \in AcpAnyRun /\ acp_current # 0 /\ run.at # "idle"
      /\ run' = [run EXCEPT !.cancelled = TRUE]
      /\ UNCHANGED <<config, binding, bound, turns, acp_current, world>>
  BY DEF AcpIInv, AcpTyped, AcpSequenced, Acp!Cancel
<1>2. /\ run' \in AcpAnyRun /\ run'.at = run.at /\ run'.result = run.result /\ run'.acp = run.acp
      /\ run'.binds = run.binds /\ run'.transition = run.transition /\ run'.resumed = run.resumed
      /\ run'.dispatched = run.dispatched /\ run'.uncertain = run.uncertain
      /\ run'.starts = run.starts /\ run'.ends = run.ends
  BY <1>1 DEF AcpAnyRun
<1>3. AcpHooks' BY <1>2 DEF AcpIInv, AcpHooks
<1>4. AcpContexts' BY <1>1, <1>2 DEF AcpIInv, AcpContexts, Acp!CarriesContext
<1>5. AcpBindings' BY <1>1, <1>2 DEF AcpIInv, AcpBindings, AcpPlaced, AcpContinues
<1>6. AcpEffects' BY <1>1, <1>2 DEF AcpIInv, AcpEffects
<1> QED BY <1>1, <1>2, <1>3, <1>4, <1>5, <1>6, AcpRunOnly

\* turn_start runs once, and the Turn goes on or ends.
LEMMA AcpTurnStartSound == ASSUME AcpIInv, Acp!TurnStart PROVE AcpIInv'
<1>1. /\ run \in AcpAnyRun /\ acp_current # 0 /\ run.at = "start"
      /\ UNCHANGED <<config, binding, bound, turns, acp_current, world>>
  BY DEF AcpIInv, AcpTyped, AcpSequenced, Acp!TurnStart
<1>2. /\ run'.at \in {"process", "ended"} /\ run'.starts \in {run.starts, run.starts + 1}
      /\ run' \in AcpAnyRun /\ (run'.result \notin {"ok", "none"} \/ run'.at # "ended")
      /\ run'.acp = run.acp
      /\ run'.binds = run.binds /\ run'.transition = run.transition /\ run'.resumed = run.resumed
      /\ run'.dispatched = run.dispatched /\ run'.uncertain = run.uncertain
      /\ run'.ends = run.ends
  <2>1. PICK n \in Nat : n = run.starts + 1 BY <1>1 DEF AcpAnyRun
  <2>2. CASE run' = [run EXCEPT !.at = "ended", !.result = "cancelled"]
    BY <1>1, <2>2 DEF AcpAnyRun
  <2>3. CASE run' = [run EXCEPT !.at = "process", !.starts = n]
    BY <1>1, <2>1, <2>3 DEF AcpAnyRun
  <2>4. CASE run' = [run EXCEPT !.at = "ended", !.starts = n, !.result = "failed"]
    BY <1>1, <2>1, <2>4 DEF AcpAnyRun
  <2> QED BY <2>1, <2>2, <2>3, <2>4 DEF Acp!TurnStart, Acp!Ends
<1>3. AcpHooks'
  <2>1. run.starts = 0 /\ run.ends = 0 BY <1>1 DEF AcpIInv, AcpHooks
  <2> QED BY <1>2, <2>1 DEF AcpHooks
<1>4. AcpContexts' BY <1>1, <1>2 DEF AcpIInv, AcpContexts, Acp!CarriesContext
<1>5. AcpBindings' BY <1>1, <1>2 DEF AcpIInv, AcpBindings, AcpPlaced, AcpContinues
<1>6. AcpEffects' BY <1>1, <1>2 DEF AcpIInv, AcpEffects
<1> QED BY <1>1, <1>2, <1>3, <1>4, <1>5, <1>6, AcpRunOnly

\* What fails before the prompt has dispatched nothing.
LEMMA AcpFailsBeforePromptSound == ASSUME AcpIInv, Acp!FailsBeforePrompt PROVE AcpIInv'
<1>1. PICK r \in {"cancelled", "failed"} : run' = [run EXCEPT !.at = "ended", !.result = r]
  BY DEF Acp!FailsBeforePrompt, Acp!Ends
<1> QED BY <1>1, AcpMoves DEF Acp!FailsBeforePrompt

\* A resumed session is the bound one.
LEMMA AcpResumeSessionSound == ASSUME AcpIInv, Acp!ResumeSession PROVE AcpIInv'
<1>1. /\ run \in AcpAnyRun /\ acp_current # 0 /\ run.at = "continue" /\ run.transition = "resume"
      /\ run' = [run EXCEPT !.at = "options", !.acp = binding.acp, !.resumed = TRUE]
      /\ UNCHANGED <<config, binding, bound, turns, acp_current, world>>
      /\ binding.acp \in Acp!AcpSessions \cup {Acp!NoSession}
  BY DEF AcpIInv, AcpTyped, AcpSequenced, Acp!ResumeSession, AcpAnyBinding
<1>2. /\ run' \in AcpAnyRun /\ run'.at = "options" /\ run'.acp = binding.acp
      /\ run'.binds = run.binds /\ run'.dispatched = run.dispatched
      /\ run'.uncertain = run.uncertain /\ run'.starts = run.starts /\ run'.ends = run.ends
  BY <1>1 DEF AcpAnyRun
<1>3. AcpHooks' BY <1>1, <1>2 DEF AcpIInv, AcpHooks
<1>4. AcpContexts'
  <2>1. binding.acp # Acp!NoSession BY <1>1 DEF AcpIInv, AcpBindings
  <2>2. ~run.binds BY <1>1 DEF AcpIInv, AcpContexts
  <2> QED BY <1>1, <1>2, <2>1, <2>2 DEF AcpIInv, AcpContexts, Acp!CarriesContext
<1>5. AcpBindings' BY <1>1, <1>2 DEF AcpIInv, AcpBindings, AcpPlaced, AcpContinues
<1>6. AcpEffects' BY <1>1, <1>2 DEF AcpIInv, AcpEffects
<1> QED BY <1>1, <1>2, <1>3, <1>4, <1>5, <1>6, AcpRunOnly

\* The steps of the attempt that keep the session.
LEMMA AcpGoingsSound ==
  ASSUME AcpIInv, Acp!StartProcess \/ Acp!ApplyOptions \/ Acp!BeforeModel
  PROVE  AcpIInv'
<1>1. CASE Acp!StartProcess BY <1>1, AcpGoings DEF Acp!StartProcess
<1>2. CASE Acp!ApplyOptions BY <1>2, AcpGoings DEF Acp!ApplyOptions
<1>3. CASE Acp!BeforeModel
  <2>1. PICK x \in {"context", "prompt"} : Acp!Goes(x)  BY <1>3 DEF Acp!BeforeModel
  <2> QED BY <1>3, <2>1, AcpGoings DEF Acp!BeforeModel
<1> QED BY <1>1, <1>2, <1>3

\* A prompt that is not written or not answered has no result but an uncertain one, or
\* the cancellation.
LEMMA AcpEndingsSound ==
  ASSUME AcpIInv, Acp!PromptIsNotWritten \/ Acp!PromptNotAnswered
  PROVE  AcpIInv'
<1>1. PICK r \in {"cancelled", "uncertain"} : run' = [run EXCEPT !.at = "ended", !.result = r]
  BY DEF Acp!PromptIsNotWritten, Acp!PromptNotAnswered, Acp!Ends
<1> QED BY <1>1, AcpMoves DEF Acp!PromptIsNotWritten, Acp!PromptNotAnswered

\* What happens while the answer is awaited.
LEMMA AcpAwaitsSound ==
  ASSUME AcpIInv, Acp!McpEffectUncertain \/ \E offered \in Offers : Acp!RequestPermission(offered)
  PROVE  AcpIInv'
<1>1. /\ run \in AcpAnyRun /\ acp_current # 0 /\ run.at = "await"
      /\ UNCHANGED <<config, binding, bound, turns, acp_current, world>>
  BY DEF AcpIInv, AcpTyped, AcpSequenced, Acp!McpEffectUncertain, Acp!RequestPermission
<1>2. PICK u \in BOOLEAN, a \in BOOLEAN : run' = [run EXCEPT !.uncertain = u, !.approved = a]
  <2>1. CASE Acp!McpEffectUncertain
    <3>1. run' = [run EXCEPT !.uncertain = TRUE, !.approved = run.approved]
      BY <1>1, <2>1 DEF Acp!McpEffectUncertain, AcpAnyRun
    <3>2. run.approved \in BOOLEAN BY <1>1 DEF AcpAnyRun
    <3> QED BY <3>1, <3>2
  <2>2. CASE \E offered \in Offers : Acp!RequestPermission(offered)
    <3>1. PICK a \in BOOLEAN : run' = [run EXCEPT !.approved = a]
      BY <1>1, <2>2 DEF Acp!RequestPermission, Acp!Allowed, AcpAnyRun
    <3>2. run.uncertain \in BOOLEAN BY <1>1 DEF AcpAnyRun
    <3>3. run' = [run EXCEPT !.uncertain = run.uncertain, !.approved = a]
      BY <1>1, <3>1 DEF AcpAnyRun
    <3> QED BY <3>2, <3>3
  <2> QED BY <2>1, <2>2
<1>3. /\ run' \in AcpAnyRun /\ run'.at = run.at /\ run'.result = run.result /\ run'.acp = run.acp
      /\ run'.binds = run.binds /\ run'.transition = run.transition /\ run'.resumed = run.resumed
      /\ run'.dispatched = run.dispatched /\ run'.starts = run.starts /\ run'.ends = run.ends
  BY <1>1, <1>2 DEF AcpAnyRun
<1>4. AcpHooks' BY <1>3 DEF AcpIInv, AcpHooks
<1>5. AcpContexts' BY <1>1, <1>3 DEF AcpIInv, AcpContexts, Acp!CarriesContext
<1>6. AcpBindings' BY <1>1, <1>3 DEF AcpIInv, AcpBindings, AcpPlaced, AcpContinues
<1>7. AcpEffects' BY <1>1, <1>3 DEF AcpIInv, AcpEffects
<1> QED BY <1>1, <1>3, <1>4, <1>5, <1>6, <1>7, AcpRunOnly

\* Only what was dispatched is answered.
LEMMA AcpPromptAnsweredSound == ASSUME AcpIInv, Acp!PromptAnswered PROVE AcpIInv'
<1>1. /\ run \in AcpAnyRun /\ acp_current # 0 /\ run.at = "await"
      /\ UNCHANGED <<config, binding, bound, turns, acp_current, world>>
  BY DEF AcpIInv, AcpTyped, AcpSequenced, Acp!PromptAnswered
<1>2. PICK r \in {"ok", "cancelled", "failed", "uncertain"} :
        run' = [run EXCEPT !.at = "ended", !.answered = TRUE, !.result = r]
  BY DEF Acp!PromptAnswered
<1>3. /\ run' \in AcpAnyRun /\ run'.at = "ended" /\ run'.acp = run.acp /\ run'.result = r
      /\ run'.binds = run.binds /\ run'.transition = run.transition /\ run'.resumed = run.resumed
      /\ run'.dispatched = run.dispatched /\ run'.starts = run.starts /\ run'.ends = run.ends
  BY <1>1, <1>2 DEF AcpAnyRun
<1>4. AcpHooks' BY <1>1, <1>3 DEF AcpIInv, AcpHooks
<1>5. AcpContexts' BY <1>1, <1>3 DEF AcpIInv, AcpContexts, Acp!CarriesContext
<1>6. AcpBindings' BY <1>1, <1>3 DEF AcpIInv, AcpBindings, AcpPlaced, AcpContinues
<1>7. AcpEffects' BY <1>1, <1>3 DEF AcpIInv, AcpEffects
<1> QED BY <1>1, <1>3, <1>4, <1>5, <1>6, <1>7, AcpRunOnly

\* turn_end runs once.
LEMMA AcpFinalizeTurnHooksSound == ASSUME AcpIInv, Acp!FinalizeTurnHooks PROVE AcpIInv'
<1>1. /\ run \in AcpAnyRun /\ acp_current # 0 /\ run.at = "ended" /\ run.ends = 0
      /\ UNCHANGED <<config, binding, bound, turns, acp_current, world>>
  BY DEF AcpIInv, AcpTyped, AcpSequenced, AcpHooks, Acp!FinalizeTurnHooks
<1>2. PICK r \in {run.result, "failed"} :
        run' = [run EXCEPT !.at = "settle", !.ends = 1, !.result = r]
  <2>1. CASE run' = [run EXCEPT !.at = "settle", !.ends = @ + 1]
    <3>1. run' = [run EXCEPT !.at = "settle", !.ends = 1]  BY <1>1, <2>1
    <3>2. run' = [run EXCEPT !.at = "settle", !.ends = 1, !.result = run.result]
      BY <1>1, <3>1 DEF AcpAnyRun
    <3> QED BY <3>2
  <2>2. CASE run' = [run EXCEPT !.at = "settle", !.ends = @ + 1, !.result = "failed"]
    BY <1>1, <2>2
  <2> QED BY <2>1, <2>2 DEF Acp!FinalizeTurnHooks
<1>3. /\ run' \in AcpAnyRun /\ run'.at = "settle" /\ run'.acp = run.acp /\ run'.ends = 1
      /\ run'.result \in {run.result, "failed"}
      /\ run'.binds = run.binds /\ run'.transition = run.transition /\ run'.resumed = run.resumed
      /\ run'.dispatched = run.dispatched /\ run'.starts = run.starts
  <2>1. r \in {"none", "ok", "failed", "cancelled", "uncertain"}  BY <1>1 DEF AcpAnyRun
  <2> QED BY <1>1, <1>2, <2>1 DEF AcpAnyRun
<1>4. AcpHooks' BY <1>1, <1>3 DEF AcpIInv, AcpHooks
<1>5. AcpContexts' BY <1>1, <1>3 DEF AcpIInv, AcpContexts, Acp!CarriesContext
<1>6. AcpBindings' BY <1>1, <1>3 DEF AcpIInv, AcpBindings, AcpPlaced, AcpContinues
<1>7. AcpEffects' BY <1>1, <1>3 DEF AcpIInv, AcpEffects
<1> QED BY <1>1, <1>3, <1>4, <1>5, <1>6, <1>7, AcpRunOnly

\* The effect follows the result.
LEMMA AcpFinishEffectSound == ASSUME AcpIInv, Acp!FinishEffect PROVE AcpIInv'
<1>1. /\ run \in AcpAnyRun /\ acp_current # 0 /\ run.at = "settle"
      /\ UNCHANGED <<config, binding, bound, turns, acp_current, world>>
  BY DEF AcpIInv, AcpTyped, AcpSequenced, Acp!FinishEffect
<1>2. PICK e \in {"succeeded", "failed", "uncertain"} :
        run' = [run EXCEPT !.at = "finish", !.effect = e]
  <2>1. run.result # "none"  BY <1>1 DEF AcpIInv, AcpEffects
  <2>2. Acp!AcpEffectOutcome(run.result, run.cancelled) \in {"succeeded", "failed", "uncertain"}
    BY <1>1, <2>1 DEF AcpAnyRun, Acp!AcpEffectOutcome
  <2> QED BY <2>2 DEF Acp!FinishEffect
<1>3. /\ run' \in AcpAnyRun /\ run'.at = "finish" /\ run'.acp = run.acp /\ run'.ends = run.ends
      /\ run'.result = run.result
      /\ run'.binds = run.binds /\ run'.transition = run.transition /\ run'.resumed = run.resumed
      /\ run'.dispatched = run.dispatched /\ run'.starts = run.starts
  BY <1>1, <1>2 DEF AcpAnyRun
<1>4. AcpHooks' BY <1>1, <1>3 DEF AcpIInv, AcpHooks
<1>5. AcpContexts' BY <1>1, <1>3 DEF AcpIInv, AcpContexts, Acp!CarriesContext
<1>6. AcpBindings' BY <1>1, <1>3 DEF AcpIInv, AcpBindings, AcpPlaced, AcpContinues
<1>7. AcpEffects' BY <1>1, <1>3 DEF AcpIInv, AcpEffects
<1> QED BY <1>1, <1>3, <1>4, <1>5, <1>6, <1>7, AcpRunOnly

--------------------
(* Steps that change the session, the binding or the Turns.                *)

\* A new session takes the place of no session that is known.
LEMMA AcpNewSessionSound ==
  ASSUME AcpIInv, Acp!ChannelsAssumption, run.at = "continue", NEW x \in {"new", "replace"}, Acp!NewSession(x)
  PROVE  AcpIInv'
<1>1. PICK s \in Acp!AcpSessions : /\ ~world[s].created
        /\ world' = [world EXCEPT ![s] =
              [created |-> TRUE, alive |-> TRUE, seen |-> {}, context |-> config.context,
               contexts |-> IF Channel[config.harness] = "FirstPrompt" THEN 0 ELSE 1]]
        /\ run' = [run EXCEPT !.at = "bind", !.acp = s, !.binds = TRUE,
                              !.transition = x, !.recovers = x = "replace"]
  BY DEF Acp!NewSession, Acp!Existing
<1>2. /\ run \in AcpAnyRun /\ acp_current # 0 /\ world \in [Acp!AcpSessions -> AcpAnyWorld]
      /\ config.context \in Nat /\ s # Acp!NoSession /\ binding.acp # s
      /\ binding.acp \in Acp!AcpSessions \cup {Acp!NoSession}
      /\ UNCHANGED <<config, binding, bound, turns, acp_current>>
  <2>1. s # Acp!NoSession BY DEF Acp!AcpSessions, Acp!NoSession
  <2>2. binding.acp # s BY <1>1, <2>1 DEF AcpIInv, AcpContexts
  <2> QED BY <2>1, <2>2 DEF AcpIInv, AcpTyped, AcpSequenced, Acp!NewSession, AcpAnyConfig, AcpAnyBinding
<1>3. /\ run' \in AcpAnyRun /\ run'.at = "bind" /\ run'.acp = s /\ run'.binds = TRUE
      /\ run'.resumed = run.resumed /\ run'.dispatched = run.dispatched
      /\ run'.uncertain = run.uncertain /\ run'.starts = run.starts /\ run'.ends = run.ends
  BY <1>1, <1>2 DEF AcpAnyRun
<1>4. PICK n \in {0, 1} : /\ n = IF Channel[config.harness] = "FirstPrompt" THEN 0 ELSE 1
        /\ world' = [world EXCEPT ![s] =
              [created |-> TRUE, alive |-> TRUE, seen |-> {}, context |-> config.context,
               contexts |-> n]]
  BY <1>1
<1>5. /\ world' \in [Acp!AcpSessions -> AcpAnyWorld]
      /\ world'[s].created /\ world'[s].contexts = n
      /\ \A r \in Acp!AcpSessions : r # s => world'[r] = world[r]
  <2>1. [created |-> TRUE, alive |-> TRUE, seen |-> {}, context |-> config.context,
         contexts |-> n] \in AcpAnyWorld
    BY <1>2 DEF AcpAnyWorld
  <2> QED BY <1>2, <1>4, <2>1
<1>6. AcpTyped' BY <1>2, <1>3, <1>5 DEF AcpIInv, AcpTyped
<1>7. AcpSequenced' BY <1>2, <1>3 DEF AcpIInv, AcpSequenced
<1>8. AcpHooks' BY <1>3 DEF AcpIInv, AcpHooks
<1>9. AcpContexts'
  <2>1. \A r \in Acp!AcpSessions : world'[r].contexts <= 1
    BY <1>5 DEF AcpIInv, AcpContexts
  <2>2. binding'.acp # Acp!NoSession => world'[binding'.acp].created
    BY <1>2, <1>5 DEF AcpIInv, AcpContexts
  <2>3. Acp!CarriesContext' => n = 0 BY <1>2, <1>4 DEF Acp!CarriesContext
  <2> QED BY <1>2, <1>3, <1>5, <2>1, <2>2, <2>3 DEF AcpContexts
<1>10. AcpBindings'
  <2>1. ~run.dispatched BY DEF AcpIInv, AcpEffects
  <2> QED BY <1>2, <1>3, <2>1 DEF AcpIInv, AcpBindings, AcpPlaced, AcpContinues
<1>11. AcpEffects' BY <1>2, <1>3 DEF AcpIInv, AcpEffects
<1>12. AcpHistory'
  BY <1>2, <1>5 DEF AcpIInv, AcpHistory, Acp!Completed
<1> QED BY <1>6, <1>7, <1>8, <1>9, <1>10, <1>11, <1>12 DEF AcpIInv

\* Both steps that create a session.
LEMMA AcpSessionsSound ==
  ASSUME AcpIInv, Acp!ChannelsAssumption, Acp!CreateSession \/ Acp!ResumeFindsNothing
  PROVE  AcpIInv'
<1>1. CASE Acp!CreateSession
  <2>1. run.transition \in {"new", "replace"}
    BY <1>1 DEF AcpIInv, AcpBindings, AcpTyped, AcpAnyRun, Acp!CreateSession
  <2> QED BY <1>1, <2>1, AcpNewSessionSound DEF Acp!CreateSession
<1>2. CASE Acp!ResumeFindsNothing /\ Channel[config.harness] # "CodexDeveloper"
  BY <1>2, AcpNewSessionSound DEF Acp!ResumeFindsNothing
<1>3. CASE Acp!ResumeFindsNothing /\ Channel[config.harness] = "CodexDeveloper"
  <2>1. /\ run \in AcpAnyRun /\ acp_current # 0 /\ run.at = "continue"
        /\ run' = [run EXCEPT !.at = "process", !.transition = "replace"]
        /\ UNCHANGED <<config, binding, bound, turns, acp_current, world>>
    BY <1>3 DEF AcpIInv, AcpTyped, AcpSequenced, Acp!ResumeFindsNothing
  <2>2. /\ run' \in AcpAnyRun /\ run'.at = "process" /\ run'.transition = "replace"
        /\ run'.acp = run.acp /\ run'.binds = run.binds
        /\ run'.resumed = run.resumed /\ run'.dispatched = run.dispatched
        /\ run'.uncertain = run.uncertain /\ run'.starts = run.starts /\ run'.ends = run.ends
    BY <2>1 DEF AcpAnyRun
  <2>3. AcpHooks' BY <2>1, <2>2 DEF AcpIInv, AcpHooks
  <2>4. AcpContexts' BY <2>1, <2>2 DEF AcpIInv, AcpContexts, Acp!CarriesContext
  <2>5. AcpBindings' BY <2>1, <2>2 DEF AcpIInv, AcpBindings, AcpPlaced, AcpContinues
  <2>6. AcpEffects' BY <2>1, <2>2 DEF AcpIInv, AcpEffects
  <2> QED BY <2>1, <2>2, <2>3, <2>4, <2>5, <2>6, AcpRunOnly
<1> QED BY <1>1, <1>2, <1>3

\* The binding of the Turn, from which the history counts.
LEMMA AcpBindSessionSound == ASSUME AcpIInv, Acp!ChannelsAssumption, Acp!BindSession PROVE AcpIInv'
<1>1. /\ run \in AcpAnyRun /\ acp_current # 0 /\ acp_current \in Acp!Turns /\ run.at = "bind"
      /\ bound' = bound \cup {acp_current} /\ binding' = Acp!Decided
      /\ run' = [run EXCEPT !.at = "options"] /\ run.acp \in Acp!AcpSessions
      /\ UNCHANGED <<config, turns, acp_current, world>> /\ config \in AcpAnyConfig
  <2>1. run.at = "bind" /\ acp_current \notin bound /\ run.acp # Acp!NoSession
    BY DEF AcpIInv, AcpBindings, AcpContexts, Acp!BindSession
  <2> QED BY <2>1 DEF AcpIInv, AcpTyped, AcpSequenced, Acp!BindSession, Acp!Goes, AcpAnyRun
<1>2. /\ run' \in AcpAnyRun /\ run'.at = "options" /\ run'.acp = run.acp
      /\ run'.binds = run.binds /\ run'.transition = run.transition
      /\ run'.resumed = run.resumed /\ run'.dispatched = run.dispatched
      /\ run'.uncertain = run.uncertain /\ run'.starts = run.starts /\ run'.ends = run.ends
  BY <1>1 DEF AcpAnyRun
<1>3. binding' \in AcpAnyBinding /\ binding'.acp = run.acp /\ binding'.harness \in Harnesses
      /\ run.acp # Acp!NoSession
  <2>1. (Channel[config.harness] # "FirstPrompt") \in BOOLEAN  OBVIOUS
  <2>2. config.harness \in Harnesses /\ config.definition \in Nat /\ config.context \in Nat
    BY <1>1 DEF AcpAnyConfig
  <2>3. run.acp # Acp!NoSession BY <1>1 DEF Acp!AcpSessions, Acp!NoSession
  <2> QED BY <1>1, <2>1, <2>2, <2>3 DEF Acp!Decided, AcpAnyBinding
<1>4. AcpTyped' BY <1>1, <1>2, <1>3 DEF AcpIInv, AcpTyped
<1>5. AcpSequenced' BY <1>1, <1>2 DEF AcpIInv, AcpSequenced
<1>6. AcpHooks' BY <1>1, <1>2 DEF AcpIInv, AcpHooks
<1>7. AcpContexts' BY <1>1, <1>2, <1>3 DEF AcpIInv, AcpContexts, Acp!CarriesContext
<1>8. AcpBindings' BY <1>1, <1>2, <1>3 DEF AcpIInv, AcpBindings, AcpPlaced, AcpContinues
<1>9. AcpEffects' BY <1>1, <1>2 DEF AcpIInv, AcpEffects
<1>10. AcpHistory'
  <2>1. ASSUME NEW k \in Acp!Completed PROVE k \in Acp!Turns /\ k < acp_current
    <3>1. k # acp_current /\ ~(acp_current < k) BY <1>1, <2>1 DEF AcpIInv, AcpSequenced, Acp!Completed
    <3> QED BY <1>1, <2>1, <3>1 DEF Acp!Completed, Acp!Turns
  <2>2. \A k \in Acp!Completed : ~(\A b \in bound' : b <= k)
    <3>1. \A k \in Acp!Completed : acp_current \in bound' /\ ~(acp_current <= k)
      BY <1>1, <2>1 DEF Acp!Turns
    <3> QED BY <3>1
  <2>3. Acp!Completed' = Acp!Completed BY <1>1 DEF Acp!Completed
  <2> QED BY <1>1, <2>2, <2>3 DEF AcpIInv, AcpHistory
<1> QED BY <1>4, <1>5, <1>6, <1>7, <1>8, <1>9, <1>10 DEF AcpIInv

\* The mark keeps the binding.
LEMMA AcpMarkContextDispatchedSound ==
  ASSUME AcpIInv, Acp!ChannelsAssumption, Acp!MarkContextDispatched
  PROVE  AcpIInv'
<1>1. /\ run \in AcpAnyRun /\ acp_current # 0 /\ run.at = "context"
      /\ binding' = [binding EXCEPT !.dispatched = TRUE]
      /\ run' = [run EXCEPT !.at = "prompt"] /\ binding \in AcpAnyBinding
      /\ UNCHANGED <<config, bound, turns, acp_current, world>>
  BY DEF AcpIInv, AcpTyped, AcpSequenced, Acp!MarkContextDispatched, Acp!Goes
<1>2. /\ run' \in AcpAnyRun /\ run'.at = "prompt" /\ run'.acp = run.acp
      /\ run'.binds = run.binds /\ run'.transition = run.transition
      /\ run'.resumed = run.resumed /\ run'.dispatched = run.dispatched
      /\ run'.uncertain = run.uncertain /\ run'.starts = run.starts /\ run'.ends = run.ends
  BY <1>1 DEF AcpAnyRun
<1>3. /\ binding' \in AcpAnyBinding /\ binding'.acp = binding.acp
      /\ binding'.harness = binding.harness /\ binding.acp # Acp!NoSession
      /\ binding.harness \in Harnesses
  <2>1. binding.acp # Acp!NoSession BY <1>1 DEF AcpIInv, AcpBindings, AcpPlaced
  <2>2. binding.harness \in Harnesses
    BY <2>1 DEF AcpIInv, AcpBindings, Acp!NoBinding
  <2> QED BY <1>1, <2>1, <2>2 DEF AcpAnyBinding
<1>4. AcpTyped' BY <1>1, <1>2, <1>3 DEF AcpIInv, AcpTyped
<1>5. AcpSequenced' BY <1>1, <1>2 DEF AcpIInv, AcpSequenced
<1>6. AcpHooks' BY <1>1, <1>2 DEF AcpIInv, AcpHooks
<1>7. AcpContexts' BY <1>1, <1>2, <1>3 DEF AcpIInv, AcpContexts, Acp!CarriesContext
<1>8. AcpBindings' BY <1>1, <1>2, <1>3 DEF AcpIInv, AcpBindings, AcpPlaced, AcpContinues
<1>9. AcpEffects' BY <1>1, <1>2 DEF AcpIInv, AcpEffects
<1>10. AcpHistory' BY <1>1, <1>3 DEF AcpIInv, AcpHistory, Acp!Completed
<1> QED BY <1>4, <1>5, <1>6, <1>7, <1>8, <1>9, <1>10 DEF AcpIInv

\* The prompt shows the session this Turn, or all Turns up to it.
LEMMA AcpWritePromptSound == ASSUME AcpIInv, Acp!ChannelsAssumption, Acp!WritePrompt PROVE AcpIInv'
<1>1. /\ run \in AcpAnyRun /\ acp_current # 0 /\ acp_current \in Acp!Turns /\ run.at = "prompt"
      /\ run.acp \in Acp!AcpSessions /\ run.acp # Acp!NoSession /\ binding.acp = run.acp
      /\ world \in [Acp!AcpSessions -> AcpAnyWorld]
      /\ run' = [run EXCEPT !.at = "await", !.dispatched = TRUE]
      /\ UNCHANGED <<config, binding, bound, turns, acp_current>>
  <2>1. run.at = "prompt" /\ run.acp # Acp!NoSession /\ binding.acp = run.acp
    BY DEF AcpIInv, AcpBindings, AcpPlaced, Acp!WritePrompt
  <2> QED BY <2>1 DEF AcpIInv, AcpTyped, AcpSequenced, Acp!WritePrompt, AcpAnyRun
<1>2. /\ run' \in AcpAnyRun /\ run'.at = "await" /\ run'.acp = run.acp /\ run'.dispatched
      /\ run'.binds = run.binds /\ run'.transition = run.transition
      /\ run'.resumed = run.resumed
      /\ run'.uncertain = run.uncertain /\ run'.starts = run.starts /\ run'.ends = run.ends
  BY <1>1 DEF AcpAnyRun
<1>3. PICK seen \in SUBSET Acp!Turns, n \in Nat :
        /\ seen = IF run.recovers THEN 1..acp_current ELSE world[run.acp].seen \cup {acp_current}
        /\ n = IF Acp!CarriesContext THEN world[run.acp].contexts + 1 ELSE world[run.acp].contexts
  <2>1. 1..acp_current \in SUBSET Acp!Turns /\ world[run.acp].seen \cup {acp_current} \in SUBSET Acp!Turns
    BY <1>1, AcpConstant DEF Acp!Turns, AcpAnyWorld
  <2>2. world[run.acp].contexts \in Nat BY <1>1 DEF AcpAnyWorld
  <2> DEFINE s == IF run.recovers THEN 1..acp_current ELSE world[run.acp].seen \cup {acp_current}
             c == IF Acp!CarriesContext THEN world[run.acp].contexts + 1 ELSE world[run.acp].contexts
  <2>3. s \in SUBSET Acp!Turns BY <2>1
  <2>4. c \in Nat BY <2>2
  <2> QED BY <2>3, <2>4
<1>4. world' = [world EXCEPT ![run.acp].seen = seen, ![run.acp].contexts = n]
  BY <1>1, <1>3 DEF Acp!WritePrompt
<1>5. /\ world' \in [Acp!AcpSessions -> AcpAnyWorld]
      /\ world'[run.acp].created = world[run.acp].created
      /\ world'[run.acp].seen = seen /\ world'[run.acp].contexts = n
      /\ \A r \in Acp!AcpSessions : r # run.acp => world'[r] = world[r]
  <2>1. world[run.acp] \in AcpAnyWorld BY <1>1
  <2>2. [world[run.acp] EXCEPT !.seen = seen, !.contexts = n] \in AcpAnyWorld
    BY <1>3, <2>1 DEF AcpAnyWorld
  <2>3. world' = [world EXCEPT ![run.acp] = [world[run.acp] EXCEPT !.seen = seen, !.contexts = n]]
    BY <1>1, <1>4, <2>1 DEF AcpAnyWorld
  <2>4. world'[run.acp] = [world[run.acp] EXCEPT !.seen = seen, !.contexts = n]
    BY <1>1, <2>3
  <2> QED BY <1>1, <2>1, <2>2, <2>3, <2>4 DEF AcpAnyWorld
<1>6. AcpTyped' BY <1>1, <1>2, <1>5 DEF AcpIInv, AcpTyped
<1>7. AcpSequenced' BY <1>1, <1>2 DEF AcpIInv, AcpSequenced
<1>8. AcpHooks' BY <1>1, <1>2 DEF AcpIInv, AcpHooks
<1>9. AcpContexts'
  <2>1. n <= 1
    <3>1. Acp!CarriesContext => world[run.acp].contexts = 0 BY <1>1 DEF AcpIInv, AcpContexts
    <3>2. world[run.acp].contexts <= 1 BY <1>1 DEF AcpIInv, AcpContexts
    <3> QED BY <1>3, <3>1, <3>2
  <2>2. \A r \in Acp!AcpSessions : world'[r].contexts <= 1
    BY <1>5, <2>1 DEF AcpIInv, AcpContexts
  <2> QED BY <1>1, <1>2, <1>5, <2>2 DEF AcpIInv, AcpContexts
<1>10. AcpBindings' BY <1>1, <1>2 DEF AcpIInv, AcpBindings, AcpPlaced, AcpContinues
<1>11. AcpEffects'
  <2>1. acp_current \in seen BY <1>1, <1>3 DEF Acp!Turns
  <2> QED BY <1>1, <1>2, <1>5, <2>1 DEF AcpIInv, AcpEffects
<1>12. AcpHistory'
  <2>1. Acp!Completed' = Acp!Completed BY <1>1 DEF Acp!Completed
  <2>2. ASSUME NEW k \in Acp!Completed, k \in world[run.acp].seen PROVE k \in seen
    <3>1. k \in Acp!Turns /\ ~(acp_current < k) BY <1>1, <2>2 DEF AcpIInv, AcpSequenced, Acp!Completed
    <3>2. k \in 1..acp_current BY <1>1, <3>1 DEF Acp!Turns
    <3> QED BY <1>3, <2>2, <3>2
  <2> QED BY <1>1, <1>5, <2>1, <2>2 DEF AcpIInv, AcpHistory
<1> QED BY <1>6, <1>7, <1>8, <1>9, <1>10, <1>11, <1>12 DEF AcpIInv

\* The current Turn ends; it is completed only when the bound session has seen it.
LEMMA AcpOver ==
  ASSUME AcpIInv, Acp!ChannelsAssumption, acp_current # 0,
         NEW st \in {"completed", "failed", "cancelled", "interrupted"},
         turns' = [turns EXCEPT ![acp_current].status = st],
         st = "completed" => run.dispatched,
         acp_current' = 0, run' = Acp!NoRun, UNCHANGED <<config, binding, bound, world>>
  PROVE  AcpIInv'
<1>1. acp_current \in Acp!Turns /\ turns \in [Acp!Turns -> AcpAnyTurn] /\ 0 \notin Acp!Turns
  BY DEF AcpIInv, AcpTyped, Acp!Turns
<1>2. /\ turns' \in [Acp!Turns -> AcpAnyTurn]
      /\ turns'[acp_current].status = st
      /\ \A k \in Acp!Turns : turns'[k].harness = turns[k].harness
      /\ \A k \in Acp!Turns : k # acp_current => turns'[k] = turns[k]
  <2>1. turns[acp_current] \in AcpAnyTurn BY <1>1
  <2>2. [turns[acp_current] EXCEPT !.status = st] \in AcpAnyTurn BY <2>1 DEF AcpAnyTurn, AcpStatuses
  <2>3. turns' = [turns EXCEPT ![acp_current] = [turns[acp_current] EXCEPT !.status = st]]
    BY <1>1, <2>1 DEF AcpAnyTurn
  <2>4. turns'[acp_current] = [turns[acp_current] EXCEPT !.status = st] BY <1>1, <2>3
  <2> QED BY <1>1, <2>1, <2>2, <2>3, <2>4 DEF AcpAnyTurn
<1>3. Acp!NoRun \in AcpAnyRun BY DEF Acp!NoRun, AcpAnyRun, Acp!NoSession
<1>4. AcpTyped' BY <1>2, <1>3 DEF AcpIInv, AcpTyped
<1>5. AcpSequenced'
  <2>1. \A k \in Acp!Turns : turns'[k].status = "none" <=> turns[k].status = "none"
    BY <1>1, <1>2 DEF AcpIInv, AcpSequenced
  <2>2. \A k \in Acp!Turns : turns'[k].status # "accepted"
    BY <1>1, <1>2 DEF AcpIInv, AcpSequenced
  <2>3. \A k \in Acp!Turns : turns'[k].status # "none" => \A j \in 1..k : turns'[j].status # "none"
    <3>1. \A k \in Acp!Turns : \A j \in 1..k : j \in Acp!Turns BY AcpConstant DEF Acp!Turns
    <3> QED BY <2>1, <3>1 DEF AcpIInv, AcpSequenced
  <2>4. \A k \in bound' : turns'[k].status # "none"  BY <2>1 DEF AcpIInv, AcpTyped, AcpSequenced
  <2> QED BY <1>1, <2>2, <2>3, <2>4 DEF AcpSequenced, Acp!NoRun
<1>6. AcpHooks' BY DEF AcpHooks, Acp!NoRun
<1>7. AcpContexts' BY DEF AcpIInv, AcpContexts, Acp!NoRun
<1>8. AcpBindings' BY DEF AcpIInv, AcpBindings, AcpPlaced, Acp!NoRun
<1>9. AcpEffects' BY DEF AcpEffects, Acp!NoRun
<1>10. AcpHistory'
  <2>1. ASSUME NEW k \in Acp!Completed', turns'[k].harness \in Harnesses
        PROVE  /\ (\A b \in bound' : b <= k) => binding'.acp # Acp!NoSession /\ k \in world'[binding'.acp].seen
               /\ k \notin bound' => k > 1 /\ turns'[k - 1].harness = turns'[k].harness
    <3>1. k \in Acp!Turns /\ turns'[k].status = "completed"  BY <2>1 DEF Acp!Completed
    <3>2. ASSUME k > 1 PROVE turns'[k - 1].harness = turns[k - 1].harness
      <4>1. k - 1 \in Acp!Turns BY <3>1, <3>2, AcpConstant DEF Acp!Turns
      <4> QED BY <1>2, <4>1
    <3>3. CASE k # acp_current
      <4>1. k \in Acp!Completed /\ turns[k].harness \in Harnesses
        BY <1>2, <2>1, <3>1, <3>3 DEF Acp!Completed
      <4> QED BY <1>2, <3>1, <3>2, <4>1 DEF AcpIInv, AcpHistory
    <3>4. CASE k = acp_current
      <4>1. run.dispatched /\ binding.acp = run.acp /\ run.acp # Acp!NoSession /\ k \in world[run.acp].seen
            /\ (k \in bound \/ AcpContinues)
        BY <1>2, <3>1, <3>4 DEF AcpIInv, AcpBindings, AcpEffects, AcpPlaced
      <4>2. turns'[k].harness = config.harness BY <1>2, <3>1, <3>4 DEF AcpIInv, AcpSequenced
      <4> QED BY <3>2, <3>4, <4>1, <4>2 DEF AcpContinues
    <3> QED BY <3>3, <3>4
  <2> QED BY <2>1 DEF AcpHistory
<1> QED BY <1>4, <1>5, <1>6, <1>7, <1>8, <1>9, <1>10 DEF AcpIInv

\* Both ends of a Turn.
LEMMA AcpEndsSound == ASSUME AcpIInv, Acp!ChannelsAssumption, Acp!Crash \/ Acp!FinishAcpTurn PROVE AcpIInv'
<1>1. CASE Acp!Crash BY <1>1, AcpOver DEF Acp!Crash
<1>2. CASE Acp!FinishAcpTurn
  <2>1. acp_current # 0 /\ run.at = "finish"  BY <1>2 DEF AcpIInv, AcpSequenced, Acp!FinishAcpTurn
  <2>2. PICK st \in {"completed", "failed", "cancelled", "interrupted"} :
          /\ turns' = [turns EXCEPT ![acp_current].status = st]
          /\ st = "completed" => run.result = "ok"
    <3> DEFINE st == CASE run.result = "ok" /\ binding.acp = run.acp -> "completed"
                       [] run.result = "ok" /\ binding.acp # run.acp -> "failed"
                       [] run.result = "cancelled" -> "cancelled"
                       [] OTHER -> "failed"
    <3>1. st \in {"completed", "failed", "cancelled"} /\ (st = "completed" => run.result = "ok")
      BY DEF Acp!FinishAcpTurn
    <3>2. turns' = [turns EXCEPT ![acp_current].status = st] BY <1>2 DEF Acp!FinishAcpTurn
    <3> HIDE DEF st
    <3> QED BY <3>1, <3>2
  <2>3. st = "completed" => run.dispatched  BY <2>1, <2>2 DEF AcpIInv, AcpEffects
  <2>4. acp_current' = 0 /\ run' = Acp!NoRun /\ UNCHANGED <<config, binding, bound, world>>
    BY <1>2 DEF Acp!FinishAcpTurn
  <2> QED BY <2>1, <2>2, <2>3, <2>4, AcpOver
<1> QED BY <1>1, <1>2

\* What the Harness forgets and what the next Turn is to run change nothing that was said.
LEMMA AcpAroundSound ==
  ASSUME AcpIInv, Acp!ChannelsAssumption, Acp!ChangeConfig \/ \E s \in Acp!AcpSessions : Acp!Forget(s)
  PROVE  AcpIInv'
<1>1. CASE Acp!ChangeConfig
  <2>1. config' \in AcpAnyConfig
    <3>1. config \in AcpAnyConfig BY DEF AcpIInv, AcpTyped
    <3>2. config.definition + 1 \in Nat /\ config.context + 1 \in Nat BY <3>1 DEF AcpAnyConfig
    <3>3. CASE \E h \in Harnesses : config' = [config EXCEPT !.harness = h]
      BY <3>1, <3>3 DEF AcpAnyConfig
    <3>4. PICK d \in Nat, c \in Nat : d = config.definition + 1 /\ c = config.context + 1 BY <3>2
    <3>5. CASE config' = [config EXCEPT !.definition = d] BY <3>1, <3>5 DEF AcpAnyConfig
    <3>6. CASE config' = [config EXCEPT !.context = c] BY <3>1, <3>6 DEF AcpAnyConfig
    <3> QED BY <1>1, <3>3, <3>4, <3>5, <3>6 DEF Acp!ChangeConfig
  <2>2. /\ acp_current = 0 /\ UNCHANGED <<binding, bound, turns, acp_current, run, world>>
        /\ run = Acp!NoRun
    BY <1>1 DEF AcpIInv, AcpSequenced, Acp!ChangeConfig
  <2>3. AcpTyped' BY <2>1, <2>2 DEF AcpIInv, AcpTyped
  <2>4. AcpSequenced' BY <2>2 DEF AcpIInv, AcpSequenced
  <2>5. AcpHooks' /\ AcpEffects' BY <2>2 DEF AcpHooks, AcpEffects, Acp!NoRun
  <2>6. AcpContexts' BY <2>2 DEF AcpIInv, AcpContexts, Acp!NoRun
  <2>7. AcpBindings' BY <2>2 DEF AcpIInv, AcpBindings, AcpPlaced, Acp!NoRun
  <2>8. AcpHistory' BY <2>2 DEF AcpIInv, AcpHistory, Acp!Completed
  <2> QED BY <2>3, <2>4, <2>5, <2>6, <2>7, <2>8 DEF AcpIInv
<1>2. CASE \E s \in Acp!AcpSessions : Acp!Forget(s)
  <2>1. PICK s \in Acp!AcpSessions : Acp!Forget(s) BY <1>2
  <2>2. /\ world' = [world EXCEPT ![s].alive = FALSE] /\ world \in [Acp!AcpSessions -> AcpAnyWorld]
        /\ UNCHANGED <<config, binding, bound, turns, acp_current, run>>
    BY <2>1 DEF AcpIInv, AcpTyped, Acp!Forget
  <2>3. /\ world' \in [Acp!AcpSessions -> AcpAnyWorld]
        /\ \A r \in Acp!AcpSessions : /\ world'[r].created = world[r].created
                                      /\ world'[r].contexts = world[r].contexts
                                      /\ world'[r].seen = world[r].seen
    <3>1. world[s] \in AcpAnyWorld BY <2>2
    <3>2. [world[s] EXCEPT !.alive = FALSE] \in AcpAnyWorld BY <3>1 DEF AcpAnyWorld
    <3>3. world' = [world EXCEPT ![s] = [world[s] EXCEPT !.alive = FALSE]]
      BY <2>2, <3>1 DEF AcpAnyWorld
    <3>4. world'[s] = [world[s] EXCEPT !.alive = FALSE] /\ \A r \in Acp!AcpSessions : r # s => world'[r] = world[r]
      BY <2>2, <3>3
    <3> QED BY <2>2, <3>1, <3>2, <3>3, <3>4 DEF AcpAnyWorld
  <2>4. AcpTyped' BY <2>2, <2>3 DEF AcpIInv, AcpTyped
  <2>5. AcpSequenced' BY <2>2 DEF AcpIInv, AcpSequenced
  <2>6. AcpHooks' BY <2>2 DEF AcpIInv, AcpHooks
  <2>7. binding.acp \in Acp!AcpSessions \cup {Acp!NoSession} /\ run.acp \in Acp!AcpSessions \cup {Acp!NoSession}
    BY DEF AcpIInv, AcpTyped, AcpAnyBinding, AcpAnyRun
  <2>8. AcpContexts' BY <2>2, <2>3, <2>7 DEF AcpIInv, AcpContexts, Acp!CarriesContext
  <2>9. AcpBindings' BY <2>2 DEF AcpIInv, AcpBindings, AcpPlaced, AcpContinues
  <2>10. AcpEffects'
    <3>1. run.dispatched => run.acp \in Acp!AcpSessions BY <2>7 DEF AcpIInv, AcpBindings, AcpPlaced
    <3> QED BY <2>2, <2>3, <3>1 DEF AcpIInv, AcpEffects
  <2>11. AcpHistory' BY <2>2, <2>3, <2>7 DEF AcpIInv, AcpHistory, Acp!Completed
  <2> QED BY <2>4, <2>5, <2>6, <2>8, <2>9, <2>10, <2>11 DEF AcpIInv
<1> QED BY <1>1, <1>2

\* A new Turn comes behind all others.
LEMMA AcpAccepting ==
  ASSUME AcpIInv, Acp!ChannelsAssumption, NEW k \in Acp!Turns, Acp!IsNext(k), NEW x \in AcpAnyTurn,
         x.status \in {"accepted", "failed", "completed"},
         x.status = "completed" => x.harness = NativeHarness,
         turns' = [turns EXCEPT ![k] = x],
         UNCHANGED <<config, binding, bound, world>>,
         \/ x.status # "accepted" /\ UNCHANGED <<acp_current, run>>
         \/ /\ x = [status |-> "accepted", harness |-> config.harness] /\ acp_current' = k
            /\ \E transition \in {"new", "resume", "replace"} :
                 /\ run' = [Acp!NoRun EXCEPT !.at = "start", !.effect = "started", !.transition = transition]
                 /\ transition = "resume" =>
                      binding.acp # Acp!NoSession /\ k > 1 /\ turns[k - 1].harness = config.harness
  PROVE  AcpIInv'
<1>1. /\ turns \in [Acp!Turns -> AcpAnyTurn] /\ acp_current = 0 /\ run = Acp!NoRun /\ 0 \notin Acp!Turns
      /\ turns[k].status = "none" /\ k \in Nat /\ k >= 1
      /\ \A j \in Acp!Turns : turns[j].status # "none" <=> j < k
      /\ \A j \in 1..k : j \in Acp!Turns
  <2>1. \A j \in Acp!Turns : turns[j].status # "none" <=> j \in 1..(k - 1)
    BY DEF Acp!IsNext, Acp!Accepted
  <2>2. \A j \in Acp!Turns : j \in Nat /\ j >= 1 BY AcpConstant DEF Acp!Turns
  <2>3. \A j \in Acp!Turns : j \in 1..(k - 1) <=> j < k BY <2>2
  <2>4. \A j \in 1..k : j \in Acp!Turns BY AcpConstant DEF Acp!Turns
  <2> QED BY <2>1, <2>2, <2>3, <2>4 DEF AcpIInv, AcpTyped, AcpSequenced, Acp!IsNext, Acp!Turns
<1>2. /\ turns' \in [Acp!Turns -> AcpAnyTurn] /\ turns'[k] = x
      /\ \A j \in Acp!Turns : j # k => turns'[j] = turns[j]
  BY <1>1
<1>3. /\ \A j \in Acp!Turns : turns'[j].status # "none" => \A i \in 1..j : turns'[i].status # "none"
      /\ \A j \in bound' : turns'[j].status # "none" /\ j < k
      /\ \A j \in Acp!Turns : k < j => turns'[j].status = "none"
  <2>1. ASSUME NEW j \in Acp!Turns, turns'[j].status # "none", NEW i \in 1..j
        PROVE  turns'[i].status # "none"
    <3>1. j <= k /\ j \in Nat BY <1>1, <1>2, <2>1 DEF Acp!Turns
    <3>2. i \in Acp!Turns /\ (i = k \/ i < k) BY <1>1, <2>1, <3>1
    <3> QED BY <1>1, <1>2, <3>2
  <2>2. \A j \in bound' : turns'[j].status # "none" /\ j < k
    BY <1>1, <1>2 DEF AcpIInv, AcpTyped, AcpSequenced
  <2>3. \A j \in Acp!Turns : k < j => turns'[j].status = "none"
    <3>1. \A j \in Acp!Turns : k < j => ~(j < k) /\ j # k BY <1>1 DEF Acp!Turns
    <3> QED BY <1>1, <1>2, <3>1
  <2> QED BY <2>1, <2>2, <2>3
<1>4. AcpHistory'
  <2>1. ASSUME NEW j \in Acp!Completed', turns'[j].harness \in Harnesses
        PROVE  /\ (\A b \in bound' : b <= j) => binding'.acp # Acp!NoSession /\ j \in world'[binding'.acp].seen
               /\ j \notin bound' => j > 1 /\ turns'[j - 1].harness = turns'[j].harness
    <3>1. j \in Acp!Turns /\ turns'[j].status = "completed" /\ j # k
      BY <1>2, <2>1, AcpConstant DEF Acp!Completed
    <3>2. j \in Acp!Completed /\ turns[j].harness \in Harnesses /\ j < k /\ j \in Nat
      <4>1. turns'[j] = turns[j] /\ j \in Nat BY <1>2, <3>1 DEF Acp!Turns
      <4>2. j < k BY <1>1, <3>1, <4>1
      <4> QED BY <2>1, <3>1, <4>1, <4>2 DEF Acp!Completed
    <3>3. ASSUME j > 1 PROVE turns'[j - 1].harness = turns[j - 1].harness
      <4>1. j - 1 \in 1..k /\ j - 1 # k BY <1>1, <3>2, <3>3
      <4> QED BY <1>1, <1>2, <4>1
    <3> QED BY <1>2, <3>1, <3>2, <3>3 DEF AcpIInv, AcpHistory
  <2> QED BY <2>1 DEF AcpHistory
<1>5. CASE x.status # "accepted" /\ UNCHANGED <<acp_current, run>>
  <2>1. AcpTyped' BY <1>2, <1>5 DEF AcpIInv, AcpTyped
  <2>2. \A j \in Acp!Turns : turns'[j].status # "accepted"
    BY <1>1, <1>2, <1>5 DEF AcpIInv, AcpSequenced
  <2>3. AcpSequenced' BY <1>1, <1>3, <1>5, <2>2 DEF AcpSequenced, Acp!NoRun
  <2>4. AcpHooks' /\ AcpEffects' BY <1>1, <1>5 DEF AcpHooks, AcpEffects, Acp!NoRun
  <2>5. AcpContexts' BY <1>1, <1>5 DEF AcpIInv, AcpContexts, Acp!NoRun
  <2>6. AcpBindings' BY <1>1, <1>5 DEF AcpIInv, AcpBindings, AcpPlaced, Acp!NoRun
  <2> QED BY <1>4, <2>1, <2>3, <2>4, <2>5, <2>6 DEF AcpIInv
<1>6. ASSUME x = [status |-> "accepted", harness |-> config.harness], acp_current' = k,
             NEW t \in {"new", "resume", "replace"},
             run' = [Acp!NoRun EXCEPT !.at = "start", !.effect = "started", !.transition = t],
             t = "resume" => binding.acp # Acp!NoSession /\ k > 1 /\ turns[k - 1].harness = config.harness
      PROVE  AcpIInv'
  <2>1. /\ run' \in AcpAnyRun /\ run'.at = "start" /\ run'.transition = t /\ run'.acp = Acp!NoSession
        /\ ~run'.binds /\ ~run'.resumed /\ ~run'.dispatched /\ ~run'.uncertain
        /\ run'.starts = 0 /\ run'.ends = 0
    <3>1. Acp!NoRun \in AcpAnyRun BY DEF Acp!NoRun, AcpAnyRun, Acp!NoSession
    <3> QED BY <1>6, <3>1 DEF AcpAnyRun, Acp!NoRun
  <2>2. AcpTyped' BY <1>2, <1>6, <2>1 DEF AcpIInv, AcpTyped
  <2>3. \A j \in Acp!Turns : turns'[j].status = "accepted" <=> j = k
    BY <1>1, <1>2, <1>6 DEF AcpIInv, AcpSequenced
  <2>4. k # 0 /\ turns'[k].harness = config.harness BY <1>1, <1>2, <1>6
  <2>5. AcpSequenced' BY <1>3, <1>6, <2>1, <2>3, <2>4 DEF AcpSequenced
  <2>6. AcpHooks' BY <2>1 DEF AcpHooks
  <2>7. AcpContexts' BY <2>1 DEF AcpIInv, AcpContexts
  <2>8. AcpBindings'
    <3>1. ASSUME k > 1 PROVE turns'[k - 1] = turns[k - 1]
      <4>1. k - 1 \in 1..k /\ k - 1 # k BY <1>1, <3>1
      <4> QED BY <1>1, <1>2, <4>1
    <3>2. k \notin bound' BY <1>1, <1>3
    <3> QED BY <1>6, <2>1, <3>1, <3>2 DEF AcpIInv, AcpBindings, AcpPlaced, AcpContinues
  <2>9. AcpEffects' BY <2>1 DEF AcpEffects
  <2> QED BY <1>4, <2>2, <2>5, <2>6, <2>7, <2>8, <2>9 DEF AcpIInv
<1> QED BY <1>5, <1>6

\* A Turn resumes only what the Turn before it has left.
LEMMA AcpStartTurnSound == ASSUME AcpIInv, Acp!ChannelsAssumption, Acp!StartTurn PROVE AcpIInv'
<1>1. PICK k \in Acp!Turns : /\ Acp!IsNext(k) /\ acp_current' = k
        /\ turns' = [turns EXCEPT ![k] = [status |-> "accepted", harness |-> config.harness]]
        /\ run' = [Acp!NoRun EXCEPT !.at = "start", !.effect = "started",
                                !.transition = Acp!CheckedAcpBinding(k)]
  BY DEF Acp!StartTurn
<1> DEFINE x == [status |-> "accepted", harness |-> config.harness]
<1>2. x \in AcpAnyTurn /\ config.harness \in Harnesses
  BY DEF AcpIInv, AcpTyped, AcpAnyConfig, AcpAnyTurn, AcpStatuses
<1>3. PICK t \in {"new", "resume", "replace"} :
        /\ t = Acp!CheckedAcpBinding(k)
        /\ t = "resume" => binding # Acp!NoBinding /\ Acp!Previous(k) = config.harness
  <2>1. /\ Acp!CheckedAcpBinding(k) \in {"new", "resume", "replace"}
        /\ Acp!CheckedAcpBinding(k) = "resume" => binding # Acp!NoBinding /\ Acp!Previous(k) = config.harness
    BY DEF Acp!CheckedAcpBinding
  <2> QED BY <2>1
<1>4. t = "resume" => binding.acp # Acp!NoSession /\ k > 1 /\ turns[k - 1].harness = config.harness
  <2>1. binding # Acp!NoBinding => binding.acp # Acp!NoSession BY DEF AcpIInv, AcpBindings
  <2>2. Acp!Previous(k) = config.harness => k # 1 /\ turns[k - 1].harness = config.harness
    BY <1>2, AcpConstant DEF Acp!Previous
  <2>3. k # 1 => k > 1 BY DEF Acp!Turns
  <2> QED BY <1>3, <2>1, <2>2, <2>3
<1>5. UNCHANGED <<config, binding, bound, world>> BY DEF Acp!StartTurn
<1>6. run' = [Acp!NoRun EXCEPT !.at = "start", !.effect = "started", !.transition = t]  BY <1>1, <1>3
<1>7. turns' = [turns EXCEPT ![k] = x] BY <1>1
<1>8. x.status = "accepted"  OBVIOUS
<1> HIDE DEF x
<1>9. x = [status |-> "accepted", harness |-> config.harness]  BY DEF x
<1> QED BY <1>1, <1>2, <1>4, <1>5, <1>6, <1>7, <1>8, <1>9, AcpAccepting

\* A Turn that no ACP Harness runs.
LEMMA AcpSkipsSound ==
  ASSUME AcpIInv, Acp!ChannelsAssumption, Acp!StartFails \/ Acp!EndsUnrecorded \/ Acp!NativeTurn
  PROVE  AcpIInv'
<1>1. UNCHANGED <<config, binding, bound, acp_current, run, world>>
  BY DEF Acp!StartFails, Acp!EndsUnrecorded, Acp!NativeTurn
<1>2. turns \in [Acp!Turns -> AcpAnyTurn] /\ config.harness \in Harnesses
  BY DEF AcpIInv, AcpTyped, AcpAnyConfig
<1>3. PICK k \in Acp!Turns, x \in AcpAnyTurn :
        /\ Acp!IsNext(k) /\ turns' = [turns EXCEPT ![k] = x]
        /\ x.status \in {"failed", "completed"}
        /\ x.status = "completed" => x.harness = NativeHarness
  <2>1. CASE Acp!StartFails
    <3>1. PICK k \in Acp!Turns : /\ Acp!IsNext(k)
            /\ turns' = [turns EXCEPT ![k] = [status |-> "failed", harness |-> config.harness]]
      BY <2>1 DEF Acp!StartFails
    <3>2. [status |-> "failed", harness |-> config.harness] \in AcpAnyTurn
      BY <1>2 DEF AcpAnyTurn, AcpStatuses
    <3> QED BY <3>1, <3>2
  <2>2. CASE Acp!EndsUnrecorded
    <3>1. PICK k \in Acp!Turns : Acp!IsNext(k) /\ turns' = [turns EXCEPT ![k].status = "failed"]
      BY <2>2 DEF Acp!EndsUnrecorded
    <3> DEFINE x == [turns[k] EXCEPT !.status = "failed"]
    <3>2. turns[k] \in AcpAnyTurn BY <1>2
    <3>3. x \in AcpAnyTurn /\ x.status = "failed"  BY <3>2 DEF AcpAnyTurn, AcpStatuses
    <3>4. turns' = [turns EXCEPT ![k] = x] BY <1>2, <3>1, <3>2 DEF AcpAnyTurn
    <3> HIDE DEF x
    <3> QED BY <3>1, <3>3, <3>4
  <2>3. CASE Acp!NativeTurn
    <3>1. PICK k \in Acp!Turns, st \in {"completed", "failed"} : /\ Acp!IsNext(k)
            /\ turns' = [turns EXCEPT ![k] = [status |-> st, harness |-> NativeHarness]]
      BY <2>3 DEF Acp!NativeTurn
    <3>2. [status |-> st, harness |-> NativeHarness] \in AcpAnyTurn
      BY DEF AcpAnyTurn, AcpStatuses
    <3> QED BY <3>1, <3>2
  <2> QED BY <2>1, <2>2, <2>3
<1> QED BY <1>1, <1>3, AcpAccepting

--------------------
(* The properties.                                                         *)

\* Every step keeps the invariant.
LEMMA AcpStepSound == ASSUME AcpIInv, Acp!ChannelsAssumption, [Acp!Next]_Acp!vars PROVE AcpIInv'
<1>1. CASE UNCHANGED Acp!vars
  <2>1. UNCHANGED <<config, binding, bound, turns, acp_current, run, world>> BY <1>1 DEF Acp!vars
  <2>2. AcpTyped' /\ AcpSequenced' /\ AcpHooks' /\ AcpHistory'
    BY <2>1 DEF AcpIInv, AcpTyped, AcpSequenced, AcpHooks, AcpHistory, Acp!Completed
  <2>3. AcpContexts' /\ AcpBindings' /\ AcpEffects'
    BY <2>1 DEF AcpIInv, AcpContexts, Acp!CarriesContext, AcpBindings, AcpPlaced, AcpContinues, AcpEffects
  <2> QED BY <2>2, <2>3 DEF AcpIInv
<1>2. CASE Acp!ChangeConfig \/ \E s \in Acp!AcpSessions : Acp!Forget(s) BY <1>2, AcpAroundSound
<1>3. CASE Acp!StartTurn BY <1>3, AcpStartTurnSound
<1>4. CASE Acp!StartFails \/ Acp!EndsUnrecorded \/ Acp!NativeTurn BY <1>4, AcpSkipsSound
<1>5. CASE Acp!Cancel BY <1>5, AcpCancelSound
<1>6. CASE Acp!Crash \/ Acp!FinishAcpTurn BY <1>6, AcpEndsSound
<1>7. CASE Acp!TurnStart BY <1>7, AcpTurnStartSound
<1>8. CASE Acp!FailsBeforePrompt BY <1>8, AcpFailsBeforePromptSound
<1>9. CASE Acp!StartProcess \/ Acp!ApplyOptions \/ Acp!BeforeModel BY <1>9, AcpGoingsSound
<1>10. CASE Acp!ResumeSession BY <1>10, AcpResumeSessionSound
<1>11. CASE Acp!CreateSession \/ Acp!ResumeFindsNothing BY <1>11, AcpSessionsSound
<1>12. CASE Acp!BindSession BY <1>12, AcpBindSessionSound
<1>13. CASE Acp!MarkContextDispatched BY <1>13, AcpMarkContextDispatchedSound
<1>14. CASE Acp!WritePrompt BY <1>14, AcpWritePromptSound
<1>15. CASE Acp!PromptIsNotWritten \/ Acp!PromptNotAnswered BY <1>15, AcpEndingsSound
<1>16. CASE Acp!McpEffectUncertain \/ \E offered \in Offers : Acp!RequestPermission(offered)
  BY <1>16, AcpAwaitsSound
<1>17. CASE Acp!PromptAnswered BY <1>17, AcpPromptAnsweredSound
<1>18. CASE Acp!FinalizeTurnHooks BY <1>18, AcpFinalizeTurnHooksSound
<1>19. CASE Acp!FinishEffect BY <1>19, AcpFinishEffectSound
<1> QED
  BY <1>1, <1>2, <1>3, <1>4, <1>5, <1>6, <1>7, <1>8, <1>9, <1>10, <1>11, <1>12, <1>13, <1>14,
     <1>15, <1>16, <1>17, <1>18, <1>19 DEF Acp!Next

\* Behind k the first Turn of the Harness h comes after one that is not of it.
LEMMA AcpFirstOf ==
  ASSUME Acp!ChannelsAssumption, NEW h, NEW k \in Acp!Turns, NEW n \in Acp!Turns, k < n,
         turns[k].harness # h, turns[n].harness = h
  PROVE  \E j \in (k + 1)..n : turns[j - 1].harness # h /\ turns[j].harness = h
<1> DEFINE T == {j \in Nat : k < j /\ j <= n /\ turns[j].harness = h}
<1>1. k \in Nat /\ n \in Nat BY DEF Acp!Turns
<1>2. T \subseteq Nat /\ n \in T BY <1>1
<1>3. PICK x \in T : \A y \in T : ~(<<y, x>> \in OpToRel(<, Nat))
  BY <1>2, NatLessThanWellFounded, WFMin, Zenon
<1>4. \A y \in T : ~(y < x) BY <1>3 DEF OpToRel
<1>5. /\ x \in Nat /\ k < x /\ x <= n /\ turns[x].harness = h
  OBVIOUS
<1>6. turns[x - 1].harness # h
  <2>1. CASE x - 1 = k BY <2>1
  <2>2. CASE x - 1 # k
    <3>1. x - 1 \in Nat /\ k < x - 1 /\ x - 1 <= n /\ x - 1 < x BY <1>1, <1>5, <2>2
    <3>2. x - 1 \notin T BY <1>4, <3>1
    <3> QED BY <3>1, <3>2
  <2> QED BY <2>1, <2>2
<1>7. x \in (k + 1)..n BY <1>1, <1>5
<1> QED BY <1>5, <1>6, <1>7

\* What a resumed session has not seen is of another Harness, and a Turn that would have
\* replaced the session for it has ended early.
LEMMA AcpHistoryIsContinuous == ASSUME AcpIInv, Acp!ChannelsAssumption PROVE Acp!ResumedHistoryIsContinuous
<1> SUFFICES ASSUME run.at = "prompt", run.resumed, NEW k \in Acp!Completed, \A b \in bound : b <= k
             PROVE  \/ k \in world[run.acp].seen
                    \/ /\ turns[k].harness # config.harness
                       /\ \E j \in (k + 1)..(acp_current - 1) :
                             /\ turns[j - 1].harness # config.harness
                             /\ turns[j].harness = config.harness /\ j \notin Acp!Completed
  BY DEF Acp!ResumedHistoryIsContinuous
<1>1. /\ acp_current \in Acp!Turns /\ acp_current > 1 /\ turns[acp_current - 1].harness = config.harness
      /\ binding.acp = run.acp /\ config.harness \in Harnesses /\ k \in Acp!Turns
  BY DEF AcpIInv, AcpTyped, AcpSequenced, AcpBindings, AcpPlaced, AcpContinues, AcpAnyConfig, Acp!Completed
<1>2. CASE turns[k].harness = config.harness
  BY <1>1, <1>2 DEF AcpIInv, AcpHistory
<1>3. CASE turns[k].harness # config.harness
  <2>1. acp_current - 1 \in Acp!Turns /\ acp_current \in Nat /\ k \in Nat /\ k < acp_current - 1
    <3>1. k # acp_current /\ ~(acp_current < k) BY <1>1 DEF AcpIInv, AcpSequenced, Acp!Completed
    <3>2. acp_current \in Nat /\ k \in Nat /\ acp_current - 1 \in Acp!Turns BY <1>1, AcpConstant DEF Acp!Turns
    <3>3. k # acp_current - 1 BY <1>1, <1>3
    <3> QED BY <3>1, <3>2, <3>3
  <2>2. PICK j \in (k + 1)..(acp_current - 1) :
          turns[j - 1].harness # config.harness /\ turns[j].harness = config.harness
    BY <1>1, <1>3, <2>1, AcpFirstOf
  <2>3. j \notin bound BY <2>1
  <2>4. j \notin Acp!Completed BY <1>1, <2>2, <2>3 DEF AcpIInv, AcpHistory
  <2> QED BY <1>3, <2>2, <2>4
<1> QED BY <1>2, <1>3

\* What the invariant says of the properties.
LEMMA AcpProperties ==
  ASSUME AcpIInv, Acp!ChannelsAssumption
  PROVE  Acp!TypeOK /\ Acp!ContextGivenOnce /\ Acp!PromptsGoToTheBinding /\ Acp!HooksArePaired
<1>1. Acp!TypeOK
  <2>1. binding.acp \in Acp!AcpSessions \cup {Acp!NoSession} /\ (binding # Acp!NoBinding => binding.harness \in Harnesses)
    BY DEF AcpIInv, AcpTyped, AcpAnyBinding, AcpBindings
  <2>2. bound \subseteq Acp!Accepted BY DEF AcpIInv, AcpTyped, AcpSequenced, Acp!Accepted
  <2>3. acp_current \in {0} \cup Acp!Accepted
    <3>1. acp_current # 0 => acp_current \in Acp!Turns /\ turns[acp_current].status = "accepted"
      BY DEF AcpIInv, AcpTyped, AcpSequenced
    <3> QED BY <3>1 DEF Acp!Accepted
  <2>4. run.effect \in {"none", "started", "succeeded", "failed", "uncertain"}
    BY DEF AcpIInv, AcpTyped, AcpAnyRun
  <2>5. \A k \in Acp!Turns : turns[k].status \in AcpStatuses BY DEF AcpIInv, AcpTyped, AcpAnyTurn
  <2> QED BY <2>1, <2>2, <2>3, <2>4, <2>5 DEF Acp!TypeOK, AcpIInv, AcpSequenced, AcpStatuses
<1>2. Acp!ContextGivenOnce BY DEF AcpIInv, AcpContexts, Acp!ContextGivenOnce
<1>3. Acp!PromptsGoToTheBinding BY DEF AcpIInv, AcpBindings, AcpPlaced, Acp!PromptsGoToTheBinding
<1>4. Acp!HooksArePaired BY DEF AcpIInv, AcpHooks, Acp!HooksArePaired
<1> QED BY <1>1, <1>2, <1>3, <1>4

\* While the events of hooks persist, what is settled for certain is known.
LEMMA AcpCertainStep ==
  ASSUME AcpIInv, AcpCertain, ~TelemetryMayFail, [Acp!Next]_Acp!vars
  PROVE  AcpCertain'
<1>1. run \in AcpAnyRun BY DEF AcpIInv, AcpTyped
<1>2. ASSUME run'.at \notin {"ended", "settle", "finish"} PROVE AcpCertain'
  BY <1>2 DEF AcpCertain, Acp!CertainEffectsAreKnown, Acp!Settled
<1>3. CASE UNCHANGED run BY <1>3 DEF AcpCertain, Acp!CertainEffectsAreKnown, Acp!Settled
<1>4. CASE Acp!Cancel
  <2>1. run' = [run EXCEPT !.cancelled = TRUE] BY <1>4 DEF Acp!Cancel
  <2>2. /\ run'.at = run.at /\ run'.result = run.result /\ run'.effect = run.effect
        /\ run'.dispatched = run.dispatched /\ run'.answered = run.answered
        /\ run'.uncertain = run.uncertain
    BY <1>1, <2>1 DEF AcpAnyRun
  <2> QED BY <2>2 DEF AcpCertain, Acp!CertainEffectsAreKnown, Acp!Settled
<1>5. CASE run' = Acp!NoRun BY <1>2, <1>5 DEF Acp!NoRun
<1>6. CASE Acp!TurnStart \/ Acp!FailsBeforePrompt \/ Acp!PromptIsNotWritten
  <2>1. ~run.dispatched /\ ~run.uncertain
    BY <1>6 DEF AcpIInv, AcpEffects, Acp!TurnStart, Acp!FailsBeforePrompt, Acp!PromptIsNotWritten
  <2>2. /\ run'.at \in {"process", "ended"} /\ run'.dispatched = run.dispatched
        /\ run'.uncertain = run.uncertain
    BY <1>1, <1>6 DEF AcpAnyRun, Acp!TurnStart, Acp!FailsBeforePrompt, Acp!PromptIsNotWritten, Acp!Ends
  <2> QED BY <2>1, <2>2 DEF AcpCertain, Acp!CertainEffectsAreKnown, Acp!Settled
<1>7. CASE Acp!PromptNotAnswered
  <2>1. run'.at = "ended" /\ run'.result \in {"cancelled", "uncertain"}
    BY <1>1, <1>7 DEF AcpAnyRun, Acp!PromptNotAnswered, Acp!Ends
  <2> QED BY <2>1 DEF AcpCertain, Acp!CertainEffectsAreKnown, Acp!Settled
<1>8. CASE Acp!PromptAnswered
  <2>1. /\ run'.at = "ended" /\ run'.answered /\ run'.uncertain = run.uncertain
        /\ run.uncertain => run'.result = "uncertain"
    BY <1>1, <1>8 DEF AcpAnyRun, Acp!PromptAnswered
  <2> QED BY <2>1 DEF AcpCertain, Acp!CertainEffectsAreKnown, Acp!Settled
<1>9. CASE Acp!FinalizeTurnHooks
  <2>1. run' = [run EXCEPT !.at = "settle", !.ends = @ + 1] /\ run.at = "ended"
    BY <1>9 DEF Acp!FinalizeTurnHooks
  <2>2. /\ run'.at = "settle" /\ run'.result = run.result
        /\ run'.dispatched = run.dispatched /\ run'.answered = run.answered
        /\ run'.uncertain = run.uncertain
    BY <1>1, <2>1 DEF AcpAnyRun
  <2> QED BY <2>1, <2>2 DEF AcpCertain, Acp!CertainEffectsAreKnown, Acp!Settled
<1>10. CASE Acp!FinishEffect
  <2>1. /\ run.at = "settle"
        /\ run' = [run EXCEPT !.at = "finish", !.effect = Acp!AcpEffectOutcome(run.result, run.cancelled)]
    BY <1>10 DEF Acp!FinishEffect
  <2>2. /\ run'.at = "finish" /\ run'.effect = Acp!AcpEffectOutcome(run.result, run.cancelled)
        /\ run'.dispatched = run.dispatched /\ run'.answered = run.answered
        /\ run'.uncertain = run.uncertain
    BY <1>1, <2>1 DEF AcpAnyRun
  <2>3. run.result # "none"  BY <2>1 DEF AcpIInv, AcpEffects
  <2>4. Acp!AcpEffectOutcome(run.result, run.cancelled) \in {"succeeded", "failed"} =>
          run.result \in {"ok", "failed"}
    BY <1>1, <2>3 DEF AcpAnyRun, Acp!AcpEffectOutcome
  <2> QED BY <2>1, <2>2, <2>4 DEF AcpCertain, Acp!CertainEffectsAreKnown, Acp!Settled
<1>11. ASSUME Acp!StartTurn \/ Acp!StartProcess \/ Acp!ResumeSession \/ Acp!CreateSession \/ Acp!ResumeFindsNothing
              \/ Acp!BindSession \/ Acp!ApplyOptions \/ Acp!BeforeModel \/ Acp!MarkContextDispatched \/ Acp!WritePrompt
       PROVE  run'.at \notin {"ended", "settle", "finish"}
  <2>1. CASE Acp!StartTurn BY <2>1 DEF Acp!StartTurn, Acp!NoRun
  <2>2. CASE Acp!StartProcess \/ Acp!BindSession \/ Acp!ApplyOptions \/ Acp!BeforeModel \/ Acp!MarkContextDispatched
    BY <1>1, <2>2 DEF AcpAnyRun, Acp!StartProcess, Acp!BindSession, Acp!ApplyOptions, Acp!BeforeModel,
                      Acp!MarkContextDispatched, Acp!Goes
  <2>3. CASE Acp!ResumeSession \/ Acp!WritePrompt BY <1>1, <2>3 DEF AcpAnyRun, Acp!ResumeSession, Acp!WritePrompt
  <2>4. CASE Acp!CreateSession \/ Acp!ResumeFindsNothing
    BY <1>1, <2>4 DEF AcpAnyRun, Acp!CreateSession, Acp!ResumeFindsNothing, Acp!NewSession
  <2> QED BY <1>11, <2>1, <2>2, <2>3, <2>4
<1>12. ASSUME Acp!McpEffectUncertain \/ \E offered \in Offers : Acp!RequestPermission(offered)
       PROVE  run'.at \notin {"ended", "settle", "finish"}
  BY <1>1, <1>12 DEF AcpAnyRun, Acp!McpEffectUncertain, Acp!RequestPermission
<1>13. ASSUME \/ Acp!ChangeConfig \/ Acp!StartFails \/ Acp!EndsUnrecorded \/ Acp!NativeTurn
              \/ \E s \in Acp!AcpSessions : Acp!Forget(s)
              \/ UNCHANGED Acp!vars
       PROVE  UNCHANGED run
  BY <1>13 DEF Acp!ChangeConfig, Acp!StartFails, Acp!EndsUnrecorded, Acp!NativeTurn, Acp!Forget, Acp!vars
<1>14. ASSUME Acp!Crash \/ Acp!FinishAcpTurn PROVE run' = Acp!NoRun
  BY <1>14 DEF Acp!Crash, Acp!FinishAcpTurn
<1> QED BY <1>2, <1>3, <1>4, <1>5, <1>6, <1>7, <1>8, <1>9, <1>10, <1>11, <1>12, <1>13, <1>14 DEF Acp!Next

\* Where no context is left to the first prompt, every session has it.
LEMMA AcpGivenStep ==
  ASSUME AcpIInv, Acp!ChannelsAssumption, AcpGiven, AcpNoFirstPrompt, [Acp!Next]_Acp!vars
  PROVE  AcpGiven'
<1>1. world \in [Acp!AcpSessions -> AcpAnyWorld] /\ Channel[config.harness] # "FirstPrompt"
  BY DEF AcpIInv, AcpTyped, AcpAnyConfig, AcpNoFirstPrompt
<1>2. CASE UNCHANGED world BY <1>2 DEF AcpGiven
<1>3. CASE Acp!CreateSession \/ Acp!ResumeFindsNothing
  <2>1. CASE UNCHANGED world BY <1>2, <2>1
  <2>2. CASE \E x \in {run.transition, "replace"} : Acp!NewSession(x)
    <3>1. PICK s \in Acp!AcpSessions : world' = [world EXCEPT ![s] =
              [created |-> TRUE, alive |-> TRUE, seen |-> {}, context |-> config.context,
               contexts |-> 1]]
      BY <1>1, <2>2 DEF Acp!NewSession, Acp!Existing
    <3>2. world'[s].contexts = 1 /\ \A r \in Acp!AcpSessions : r # s => world'[r] = world[r]
      BY <1>1, <3>1
    <3> QED BY <3>2 DEF AcpGiven
  <2> QED BY <1>3, <2>1, <2>2 DEF Acp!CreateSession, Acp!ResumeFindsNothing
<1>4. CASE Acp!WritePrompt
  <2>1. ~Acp!CarriesContext BY <1>1 DEF Acp!CarriesContext
  <2>2. run.acp \in Acp!AcpSessions
    <3>1. run.acp # Acp!NoSession BY <1>4 DEF AcpIInv, AcpContexts, Acp!WritePrompt
    <3> QED BY <3>1 DEF AcpIInv, AcpTyped, AcpAnyRun
  <2>3. PICK seen : world' = [world EXCEPT ![run.acp].seen = seen, ![run.acp].contexts = @]
    BY <1>4, <2>1 DEF Acp!WritePrompt
  <2>4. \A r \in Acp!AcpSessions : world'[r].created = world[r].created /\ world'[r].contexts = world[r].contexts
    BY <1>1, <2>2, <2>3 DEF AcpAnyWorld
  <2> QED BY <2>4 DEF AcpGiven
<1>5. CASE \E s \in Acp!AcpSessions : Acp!Forget(s)
  <2>1. PICK s \in Acp!AcpSessions : world' = [world EXCEPT ![s].alive = FALSE]
    BY <1>5 DEF Acp!Forget
  <2>2. \A r \in Acp!AcpSessions : world'[r].created = world[r].created /\ world'[r].contexts = world[r].contexts
    BY <1>1, <2>1 DEF AcpAnyWorld
  <2> QED BY <2>2 DEF AcpGiven
<1>6. ASSUME \/ Acp!ChangeConfig \/ Acp!StartTurn \/ Acp!StartFails \/ Acp!EndsUnrecorded \/ Acp!NativeTurn
             \/ Acp!Cancel \/ Acp!Crash \/ Acp!TurnStart \/ Acp!FailsBeforePrompt \/ Acp!StartProcess
             \/ Acp!ResumeSession \/ Acp!BindSession \/ Acp!ApplyOptions \/ Acp!BeforeModel
             \/ Acp!MarkContextDispatched \/ Acp!PromptIsNotWritten
             \/ (\E offered \in Offers : Acp!RequestPermission(offered))
             \/ Acp!McpEffectUncertain \/ Acp!PromptAnswered \/ Acp!PromptNotAnswered
             \/ Acp!FinalizeTurnHooks \/ Acp!FinishEffect \/ Acp!FinishAcpTurn \/ UNCHANGED Acp!vars
      PROVE  UNCHANGED world
  BY <1>6 DEF Acp!ChangeConfig, Acp!StartTurn, Acp!StartFails, Acp!EndsUnrecorded, Acp!NativeTurn, Acp!Cancel, Acp!Crash,
     Acp!TurnStart, Acp!FailsBeforePrompt, Acp!StartProcess, Acp!ResumeSession, Acp!BindSession, Acp!ApplyOptions,
     Acp!BeforeModel, Acp!MarkContextDispatched, Acp!PromptIsNotWritten, Acp!RequestPermission,
     Acp!McpEffectUncertain, Acp!PromptAnswered, Acp!PromptNotAnswered, Acp!FinalizeTurnHooks, Acp!FinishEffect,
     Acp!FinishAcpTurn, Acp!vars
<1> QED BY <1>2, <1>3, <1>4, <1>5, <1>6 DEF Acp!Next

\* The initial state knows what it says for certain, and no session.
LEMMA AcpInitParts == ASSUME Acp!Init PROVE AcpCertain /\ AcpGiven
<1>1. AcpCertain BY DEF Acp!Init, AcpCertain, Acp!CertainEffectsAreKnown, Acp!Settled, Acp!NoRun
<1>2. AcpGiven BY DEF Acp!Init, AcpGiven, Acp!NoWorld
<1> QED BY <1>1, <1>2

\* A Session's binding, its Turns and what the Harness has seen stay in step through Turns
\* of every Harness, changes, lost sessions and crashes (mews-acp/src/session.rs,
\* mews/src/app/acp.rs).
THEOREM SessionsContinue ==
  ASSUME Acp!ChannelsAssumption
  PROVE  Acp!Spec => [](Acp!TypeOK /\ Acp!ContextGivenOnce /\ Acp!PromptsGoToTheBinding
                        /\ Acp!HooksArePaired /\ Acp!ResumedHistoryIsContinuous)
<1>1. Acp!Init => AcpIInv BY AcpInitSound
<1>2. AcpIInv /\ [Acp!Next]_Acp!vars => AcpIInv' BY AcpStepSound
<1>3. AcpIInv => (Acp!TypeOK /\ Acp!ContextGivenOnce /\ Acp!PromptsGoToTheBinding /\ Acp!HooksArePaired
               /\ Acp!ResumedHistoryIsContinuous)
  BY AcpProperties, AcpHistoryIsContinuous
<1> QED BY <1>1, <1>2, <1>3, PTL DEF Acp!Spec

\* While the events of hooks persist, an effect that is settled as succeeded or failed really
\* is settled (mews/src/app/turns.rs); and a session that is resumed has its context where
\* none is left to the first prompt (mews-acp/src/session.rs).
THEOREM CertaintyAndContext ==
  ASSUME Acp!ChannelsAssumption
  PROVE  Acp!Spec => []((~TelemetryMayFail => Acp!CertainEffectsAreKnown)
                        /\ (AcpNoFirstPrompt => Acp!ResumedSessionsHaveTheirContext))
<1> DEFINE Both == (~TelemetryMayFail => AcpCertain) /\ (AcpNoFirstPrompt => AcpGiven)
<1>1. Acp!Init => AcpIInv /\ Both BY AcpInitSound, AcpInitParts
<1>2. AcpIInv /\ Both /\ [Acp!Next]_Acp!vars => AcpIInv' /\ Both' BY AcpStepSound, AcpCertainStep, AcpGivenStep
<1>3. AcpIInv /\ Both => (/\ ~TelemetryMayFail => Acp!CertainEffectsAreKnown
                          /\ AcpNoFirstPrompt => Acp!ResumedSessionsHaveTheirContext)
  <2>1. AcpCertain => Acp!CertainEffectsAreKnown BY DEF AcpCertain
  <2>2. ASSUME AcpIInv, AcpGiven, run.at = "prompt" PROVE world[run.acp].contexts > 0
    <3>1. run.acp # Acp!NoSession BY <2>2 DEF AcpIInv, AcpContexts
    <3>2. run.acp \in Acp!AcpSessions /\ world[run.acp].created
      BY <2>2, <3>1 DEF AcpIInv, AcpTyped, AcpAnyRun, AcpContexts
    <3>3. world[run.acp].contexts = 1 BY <2>2, <3>2 DEF AcpGiven
    <3> QED BY <3>3
  <2> QED BY <2>1, <2>2 DEF Acp!ResumedSessionsHaveTheirContext
<1> HIDE DEF Both
<1> QED BY <1>1, <1>2, <1>3, PTL DEF Acp!Spec

=============================================================================
