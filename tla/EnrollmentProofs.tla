--------------------------- MODULE EnrollmentProofs ---------------------------
(***************************************************************************)
(* Proofs about Enrollment, for any machines, names and invitations and    *)
(* any number of faults and moves: an invitation enrolls one machine, and  *)
(* a machine that has joined is a Host of whichever Hub serves.  Neither   *)
(* is inductive: the first needs that rows of hosts and used invitations   *)
(* belong together, the second what the answers on their way say, and both *)
(* that the copy a move takes along is the table of the fenced Hub.        *)
(*                                                                         *)
(* They are followed by the proofs about AgentSync and SessionLog, reached *)
(* through instances of their own (Sync, Log).                             *)
(***************************************************************************)
EXTENDS Enrollment, FiniteSetTheorems, SequenceTheorems, WellFoundedInduction, TLAPS

\* The rows of hosts: the first is the Hub's, and no two have the same invitation,
\* which is used.
Rows ==
    /\ hosts # <<>> /\ hosts[1].machine = Hub
    /\ \A k \in DOMAIN hosts :
         hosts[k].invitation # None => invitation[hosts[k].invitation] = "used"
    /\ \A j, k \in DOMAIN hosts :
         (hosts[j].invitation = hosts[k].invitation /\ hosts[j].invitation # None) => j = k

\* Host k is machine m.
Is(k, m) == k \in DOMAIN hosts /\ hosts[k].machine = m

\* What a listener has learned of the machine that asked, and of its row.
Asked(i) ==
    /\ listener[i].pc \in {"asked", "enrolled"} =>
         listener[i].machine \in Machines /\ listener[i].name \in Names
    /\ listener[i].pc = "enrolled" => Is(listener[i].id, listener[i].machine)

\* What a machine has learned from an answer.
Told(m) ==
    /\ machine[m].id # None => Is(machine[m].id, m)
    /\ machine[m].pc = "joined" => machine[m].id # None

\* Nothing of the table changes while the Hub is fenced.
CopyIsExact == moving => copy = hosts

IInv ==
    /\ TypeOK /\ Rows /\ CopyIsExact
    /\ \A i \in Invitations : Asked(i)
    /\ \A m \in Machines : Told(m)

--------------------

\* Step by step, the table is left alone, gets a row, or loses a Host's membership.
SameTable == UNCHANGED <<hosts, invitation>>

\* Every row stays where it is, the same machine's and of the same invitation, and
\* a removed Host stays removed.
Grows ==
    \A k \in DOMAIN hosts :
        /\ k \in DOMAIN hosts'
        /\ hosts'[k].machine = hosts[k].machine
        /\ hosts'[k].invitation = hosts[k].invitation
        /\ hosts'[k].name = hosts[k].name
        /\ hosts[k].revoked => hosts'[k].revoked

\* The domain of the table, and the type of its rows.
LEMMA RowType ==
  ASSUME TypeOK, NEW k \in DOMAIN hosts
  PROVE  /\ DOMAIN hosts = 1 .. Len(hosts) /\ Len(hosts) \in Nat
         /\ hosts[k] \in Host
BY DEF TypeOK

\* The row of a listener that was asked.
LEMMA RowOfListener ==
  ASSUME IInv, NEW i \in Invitations, listener[i].pc = "asked"
  PROVE  /\ Row(i) \in Host
         /\ Row(i).machine = listener[i].machine /\ Row(i).invitation = i
BY EnrollmentAssumption DEF IInv, Asked, Row, Host

\* A listener that stops is a listener still.
LEMMA StoppedIs ==
  ASSUME NEW l \in Listener
  PROVE  Stopped(l) \in Listener /\ Stopped(l).pc = "stopped"
BY DEF Listener, Stopped

\* The identifiers of Hosts start with the Hub's.
LEMMA FirstId == 1 \in Ids
<1>1. Cardinality(Invitations) \in Nat
  BY EnrollmentAssumption, FS_CardinalityType
<1>. QED BY <1>1 DEF Ids

\* A new process of the Hub keeps types, and lets every listener end.
LEMMA FreshHubKeeps ==
  ASSUME IInv, FreshHub(hosts)
  PROVE  /\ listener' \in [Invitations -> Listener]
         /\ \A i \in Invitations : listener'[i].pc \in {"none", "stopped"}
         /\ link' \in [Ids -> {"none", "retry", "checked", "listed"}] /\ link'[1] = "none"
         /\ listed' \cup removing' \subseteq Ids
<1>1. /\ Quiet \in Listener /\ Quiet.pc = "none"
      /\ \A l \in Listener : Stopped(l) \in Listener /\ Stopped(l).pc = "stopped"
  BY DEF Quiet, Listener, Stopped
<1>2. listener \in [Invitations -> Listener]
  BY DEF IInv, TypeOK
<1>3. /\ listener' \in [Invitations -> Listener]
      /\ \A i \in Invitations : listener'[i].pc \in {"none", "stopped"}
  <2>. HIDE DEF Quiet, Stopped, Listener
  <2>. QED BY <1>1, <1>2 DEF FreshHub
<1>4. link' \in [Ids -> {"none", "retry", "checked", "listed"}]
  BY DEF FreshHub
<1>5. link'[1] = "none"
  BY FirstId DEF FreshHub, IInv, Rows
<1>. QED BY <1>3, <1>4, <1>5 DEF FreshHub

\* The initial state: one Host, the Hub's own.
LEMMA InitialInvariant == ASSUME Init PROVE IInv
<1>1. hosts \in Seq(Host) /\ Len(hosts) = 1 /\ hosts[1].machine = Hub /\ hosts[1].invitation = None
  <2>. DEFINE first == [machine |-> Hub, name |-> HubName, invitation |-> None, revoked |-> FALSE]
  <2>1. first \in Host
    BY EnrollmentAssumption DEF Host
  <2>2. hosts = <<first>> /\ first.machine = Hub /\ first.invitation = None
    BY DEF Init
  <2>. HIDE DEF first
  <2>3. \A x \in Host : <<x>> \in Seq(Host) /\ Len(<<x>>) = 1 /\ <<x>>[1] = x
    OBVIOUS
  <2>. QED BY <2>1, <2>2, <2>3
<1>2. copy \in Seq(Host)
  BY DEF Init
<1>3. listener \in [Invitations -> Listener] /\ \A i \in Invitations : listener[i].pc = "none"
  BY DEF Init, Listener, Quiet
<1>4. machine \in [Machines -> Joining] /\ \A m \in Machines : machine[m] = Idle
  BY DEF Init, Joining, Idle
<1>5. TypeOK
  <2>1. invitation \in [Invitations -> {"none", "open", "used"}]
    BY DEF Init
  <2>2. link \in [Ids -> {"none", "retry", "checked", "listed"}] /\ link[1] = "none"
    BY FirstId DEF Init
  <2>3. /\ expired \subseteq Invitations /\ listed \cup removing \subseteq Ids
        /\ {faults, moves} \subseteq Nat
    BY DEF Init
  <2>4. moving \in BOOLEAN
    BY DEF Init
  <2>. QED BY <1>1, <1>2, <1>3, <1>4, <2>1, <2>2, <2>3, <2>4 DEF TypeOK
<1>6. Rows
  BY <1>1 DEF Rows
<1>7. \A i \in Invitations : Asked(i)
  BY <1>3 DEF Asked
<1>8. \A m \in Machines : Told(m)
  BY <1>4 DEF Told, Idle
<1>. QED BY <1>5, <1>6, <1>7, <1>8 DEF IInv, CopyIsExact, Init
--------------------
(* The table.                                                              *)

\* A row is appended for a machine that asked.
LEMMA EnrollRows ==
  ASSUME IInv, NEW i \in Invitations, listener[i].pc = "asked", Consumable(i),
         hosts' = Enrolled(i), invitation' = [invitation EXCEPT ![i] = "used"]
  PROVE  /\ hosts' \in Seq(Host) /\ Rows' /\ Grows
         /\ hosts'[Len(hosts) + 1].machine = listener[i].machine
         /\ Len(hosts) + 1 \in DOMAIN hosts'
<1>. DEFINE r == Row(i)
<1>1. r \in Host /\ r.machine = listener[i].machine /\ r.invitation = i
  BY RowOfListener
<1>2. hosts \in Seq(Host) /\ hosts' = Append(hosts, r)
  BY DEF IInv, TypeOK, Enrolled
<1>. HIDE DEF r
<1>3. /\ hosts' \in Seq(Host) /\ Len(hosts') = Len(hosts) + 1
      /\ \A k \in DOMAIN hosts : k \in DOMAIN hosts' /\ hosts'[k] = hosts[k]
      /\ hosts'[Len(hosts) + 1] = r /\ Len(hosts) + 1 \in DOMAIN hosts'
      /\ \A k \in DOMAIN hosts' : k \in DOMAIN hosts \/ k = Len(hosts) + 1
      /\ 1 \in DOMAIN hosts
  BY <1>1, <1>2 DEF IInv, Rows
<1>4. \A k \in DOMAIN hosts : hosts[k].invitation # i
  BY EnrollmentAssumption DEF IInv, Rows, Consumable
<1>5. invitation \in [Invitations -> {"none", "open", "used"}]
  BY DEF IInv, TypeOK
<1>6. \A k \in DOMAIN hosts : hosts[k].invitation \in {None} \cup Invitations
  <2>1. \A k \in DOMAIN hosts : hosts[k] \in Host
    BY RowType DEF IInv
  <2>2. \A h \in Host : h.invitation \in {None} \cup Invitations
    BY DEF Host
  <2>. QED BY <2>1, <2>2
<1>7. \A k \in DOMAIN hosts' :
        hosts'[k].invitation # None => invitation'[hosts'[k].invitation] = "used"
  <2>. SUFFICES ASSUME NEW k \in DOMAIN hosts', hosts'[k].invitation # None
                PROVE  invitation'[hosts'[k].invitation] = "used"
    OBVIOUS
  <2>1. CASE k \in DOMAIN hosts
    <3>1. hosts'[k].invitation = hosts[k].invitation
      BY <1>3, <2>1
    <3>2. hosts[k].invitation \in Invitations /\ invitation[hosts[k].invitation] = "used"
      BY <1>6, <2>1, <3>1 DEF IInv, Rows
    <3>. QED BY <1>5, <3>1, <3>2
  <2>2. CASE k = Len(hosts) + 1
    BY <1>1, <1>3, <1>5, <2>2
  <2>. QED BY <1>3, <2>1, <2>2
<1>8. \A j, k \in DOMAIN hosts' :
        (hosts'[j].invitation = hosts'[k].invitation /\ hosts'[j].invitation # None) => j = k
  <2>. SUFFICES ASSUME NEW j \in DOMAIN hosts', NEW k \in DOMAIN hosts',
                       hosts'[j].invitation = hosts'[k].invitation, hosts'[j].invitation # None
                PROVE  j = k
    OBVIOUS
  <2>1. CASE j \in DOMAIN hosts /\ k \in DOMAIN hosts
    BY <1>3, <2>1 DEF IInv, Rows
  <2>2. CASE j \notin DOMAIN hosts \/ k \notin DOMAIN hosts
    <3>1. \A n \in DOMAIN hosts : hosts'[n].invitation # i
      BY <1>3, <1>4
    <3>2. \A n \in DOMAIN hosts' : n \notin DOMAIN hosts => hosts'[n].invitation = i /\ n = Len(hosts) + 1
      BY <1>1, <1>3
    <3>. QED BY <2>2, <3>1, <3>2
  <2>. QED BY <2>1, <2>2
<1>9. hosts' # <<>> /\ hosts'[1].machine = Hub
  BY <1>3 DEF IInv, Rows
<1>. QED BY <1>1, <1>3, <1>7, <1>8, <1>9 DEF Rows, Grows

\* A Host that is revoked keeps its row.
LEMMA RevokeRows ==
  ASSUME IInv, NEW k \in DOMAIN hosts, hosts' = [hosts EXCEPT ![k].revoked = TRUE],
         invitation' = invitation
  PROVE  hosts' \in Seq(Host) /\ Rows' /\ Grows
<1>1. hosts \in Seq(Host)
  BY DEF IInv, TypeOK
<1>2. \A j \in DOMAIN hosts : hosts[j] \in Host
  BY <1>1
<1>3. [hosts[k] EXCEPT !.revoked = TRUE] \in Host
  BY <1>2 DEF Host
<1>4. hosts' \in Seq(Host) /\ DOMAIN hosts' = DOMAIN hosts
  BY <1>1, <1>3
<1>5. \A j \in DOMAIN hosts :
        /\ hosts'[j].machine = hosts[j].machine /\ hosts'[j].name = hosts[j].name
        /\ hosts'[j].invitation = hosts[j].invitation
        /\ hosts[j].revoked => hosts'[j].revoked
  BY <1>1, <1>2 DEF Host
<1>6. hosts # <<>> /\ hosts' # <<>> /\ 1 \in DOMAIN hosts
  BY <1>1, <1>4 DEF IInv, Rows
<1>7. Rows'
  BY <1>4, <1>5, <1>6 DEF IInv, Rows
<1>. QED BY <1>4, <1>5, <1>7 DEF Grows
--------------------
(* Steps.                                                                  *)

\* What a machine and a listener know of a row stays true.
LEMMA IsKept ==
  ASSUME Grows, NEW k, NEW m, Is(k, m)
  PROVE  Is(k, m)'
BY DEF Grows, Is

\* A table that stays as it is loses no row.
LEMMA GrowsTrivially == ASSUME UNCHANGED hosts PROVE Grows
BY DEF Grows

\* A listener that does not change, or that ends, claims no more than before.
LEMMA AskedKept ==
  ASSUME Grows, NEW i \in Invitations, Asked(i),
         listener'[i] = listener[i] \/ listener'[i].pc \in {"none", "waiting", "stopped"}
  PROVE  Asked(i)'
BY IsKept DEF Asked

\* Nor does a machine that learns nothing.
LEMMA ToldKept ==
  ASSUME Grows, NEW m \in Machines, Told(m),
         machine'[m] = machine[m] \/ machine'[m] = Idle
  PROVE  Told(m)'
BY IsKept DEF Told, Idle

\* A step that leaves listeners or machines alone.
LEMMA SameListeners ==
  ASSUME IInv, Grows, UNCHANGED listener
  PROVE  \A i \in Invitations : Asked(i)'
BY AskedKept DEF IInv

\* The same for the machines.
LEMMA SameMachines ==
  ASSUME IInv, Grows, UNCHANGED machine
  PROVE  \A m \in Machines : Told(m)'
BY ToldKept DEF IInv

\* A step of the invitations, the links and the removals.
LEMMA ListenerSteps ==
  ASSUME IInv, NEW i \in Invitations, CreateInvitation(i) \/ AnswerFails(i)
  PROVE  IInv' /\ Grows
<1>. USE DEF db, move
<1>0. /\ listener \in [Invitations -> Listener] /\ invitation \in [Invitations -> {"none", "open", "used"}]
      /\ faults \in Nat
  BY DEF IInv, TypeOK
<1>1. Grows
  BY GrowsTrivially DEF CreateInvitation, AnswerFails
<1>2. /\ listener' \in [Invitations -> Listener]
      /\ \A j \in Invitations :
           listener'[j] = listener[j] \/ listener'[j].pc \in {"waiting", "stopped"}
  <2>1. CASE listener' = [listener EXCEPT ![i].pc = "waiting"]
    BY <1>0, <2>1 DEF Listener
  <2>2. CASE listener' = [listener EXCEPT ![i] = Stopped(@)]
    BY <1>0, <2>2, StoppedIs
  <2>. QED BY <2>1, <2>2 DEF CreateInvitation, AnswerFails
<1>3. invitation' \in [Invitations -> {"none", "open", "used"}]
  BY <1>0 DEF CreateInvitation, AnswerFails
<1>4. \A j \in Invitations : invitation[j] = "used" => invitation'[j] = "used"
  BY <1>0 DEF CreateInvitation, AnswerFails
<1>5. faults' \in Nat
  BY <1>0 DEF CreateInvitation, AnswerFails
<1>6. TypeOK'
  BY <1>2, <1>3, <1>5 DEF IInv, TypeOK, CreateInvitation, AnswerFails, move
<1>7. \A k \in DOMAIN hosts : hosts[k] \in Host
  BY RowType DEF IInv
<1>8. \A h \in Host : h.invitation \in {None} \cup Invitations
  BY DEF Host
<1>9. Rows'
  BY <1>4, <1>7, <1>8 DEF IInv, Rows, CreateInvitation, AnswerFails
<1>10. \A j \in Invitations : Asked(j)'
  BY <1>1, <1>2, AskedKept DEF IInv
<1>11. \A m \in Machines : Told(m)'
  BY <1>1, SameMachines DEF CreateInvitation, AnswerFails
<1>. QED BY <1>1, <1>6, <1>9, <1>10, <1>11 DEF IInv, CopyIsExact, CreateInvitation, AnswerFails, move

\* The listener commits the Host, or refuses the machine.
LEMMA EnrollStep ==
  ASSUME IInv, NEW i \in Invitations, Enroll(i)
  PROVE  IInv' /\ Grows
<1>. USE DEF db, move
<1>0. /\ listener \in [Invitations -> Listener] /\ invitation \in [Invitations -> {"none", "open", "used"}]
      /\ hosts \in Seq(Host) /\ listener[i].pc = "asked" /\ Len(hosts) \in Nat
  BY DEF IInv, TypeOK, Enroll
<1>1. CASE ~ moving /\ Consumable(i)
  <2>1. /\ hosts' = Enrolled(i) /\ invitation' = [invitation EXCEPT ![i] = "used"]
        /\ listener' = [listener EXCEPT ![i].pc = "enrolled", ![i].id = Len(hosts) + 1]
    BY <1>1 DEF Enroll
  <2>2. /\ hosts' \in Seq(Host) /\ Rows' /\ Grows
        /\ Len(hosts) + 1 \in DOMAIN hosts'
        /\ hosts'[Len(hosts) + 1].machine = listener[i].machine
    BY <1>0, <1>1, <2>1, EnrollRows
  <2>3. /\ listener' \in [Invitations -> Listener]
        /\ listener'[i].machine = listener[i].machine /\ listener'[i].name = listener[i].name
        /\ listener'[i].id = Len(hosts) + 1
        /\ \A j \in Invitations \ {i} : listener'[j] = listener[j]
    <3>. DEFINE l == [listener[i] EXCEPT !.pc = "enrolled", !.id = Len(hosts) + 1]
    <3>1. listener[i] \in Listener /\ Len(hosts) + 1 \in Nat
      BY <1>0
    <3>2. l \in Listener /\ l.machine = listener[i].machine /\ l.name = listener[i].name
          /\ l.id = Len(hosts) + 1
      BY <3>1 DEF Listener
    <3>3. listener' = [listener EXCEPT ![i] = l]
      BY <1>0, <2>1 DEF Listener
    <3>. HIDE DEF l
    <3>. QED BY <1>0, <3>2, <3>3
  <2>4. TypeOK'
    BY <1>0, <2>1, <2>2, <2>3 DEF IInv, TypeOK, Enroll, move
  <2>5. Asked(i)'
    BY <1>0, <2>2, <2>3 DEF IInv, Asked, Is
  <2>6. \A j \in Invitations : Asked(j)'
    BY <2>2, <2>3, <2>5, AskedKept DEF IInv
  <2>7. \A m \in Machines : Told(m)'
    BY <2>2, SameMachines DEF Enroll
  <2>. QED BY <1>1, <2>2, <2>4, <2>6, <2>7 DEF IInv, CopyIsExact, Enroll, move
<1>2. CASE ~ (~ moving /\ Consumable(i))
  <2>1. listener' = [listener EXCEPT ![i] = Stopped(@)] /\ UNCHANGED db
    BY <1>2 DEF Enroll
  <2>2. Grows
    BY <2>1, GrowsTrivially DEF db
  <2>3. /\ listener' \in [Invitations -> Listener]
        /\ \A j \in Invitations : listener'[j] = listener[j] \/ listener'[j].pc = "stopped"
    BY <1>0, <2>1, StoppedIs
  <2>4. \A j \in Invitations : Asked(j)'
    BY <2>2, <2>3, AskedKept DEF IInv
  <2>5. \A m \in Machines : Told(m)'
    BY <2>2, SameMachines DEF Enroll
  <2>. QED BY <2>1, <2>2, <2>3, <2>4, <2>5 DEF IInv, TypeOK, Rows, CopyIsExact, Enroll, db, move
<1>. QED BY <1>1, <1>2
\* A machine asks, its connection is lost, or it is refused.
LEMMA MachineSteps ==
  ASSUME IInv, NEW m \in Machines,
         (\E i \in Invitations, n \in Names : Join(m, i, n)) \/ JoinFails(m) \/ Refused(m)
  PROVE  IInv' /\ Grows
<1>. USE DEF db, hub, move
<1>0. /\ listener \in [Invitations -> Listener] /\ machine \in [Machines -> Joining] /\ faults \in Nat
  BY DEF IInv, TypeOK
<1>1. CASE \E i \in Invitations, n \in Names : Join(m, i, n)
  <2>1. PICK i \in Invitations, n \in Names : Join(m, i, n)
    BY <1>1
  <2>. DEFINE l == [pc |-> "asked", machine |-> m, name |-> n, id |-> None]
              k == [pc |-> "sent", invitation |-> i, id |-> None]
  <2>2. l \in Listener /\ l.pc = "asked" /\ l.machine = m /\ l.name = n
    BY DEF Listener
  <2>3. k \in Joining /\ k.pc = "sent" /\ k.id = None
    BY DEF Joining
  <2>4. listener' = [listener EXCEPT ![i] = l] /\ machine' = [machine EXCEPT ![m] = k]
    BY <2>1 DEF Join
  <2>. HIDE DEF l, k
  <2>5. Grows
    BY <2>1, GrowsTrivially DEF Join
  <2>6. Asked(i)'
    BY <1>0, <2>2, <2>4 DEF Asked
  <2>7. \A j \in Invitations \ {i} : Asked(j)'
    BY <1>0, <2>4, <2>5, AskedKept DEF IInv
  <2>8. Told(m)'
    BY <1>0, <2>3, <2>4 DEF Told
  <2>9. \A n1 \in Machines \ {m} : Told(n1)'
    BY <1>0, <2>4, <2>5, ToldKept DEF IInv
  <2>10. TypeOK'
    BY <1>0, <2>1, <2>2, <2>3, <2>4 DEF IInv, TypeOK, Join
  <2>. QED BY <2>1, <2>5, <2>6, <2>7, <2>8, <2>9, <2>10 DEF IInv, Rows, CopyIsExact, Join
<1>2. CASE JoinFails(m) \/ Refused(m)
  <2>1. machine' = [machine EXCEPT ![m] = Idle] /\ UNCHANGED <<hosts, invitation, listener>>
    BY <1>2 DEF JoinFails, Refused
  <2>2. Grows
    BY <2>1, GrowsTrivially
  <2>3. Idle \in Joining
    BY DEF Idle, Joining
  <2>4. TypeOK'
    BY <1>0, <1>2, <2>1, <2>3 DEF IInv, TypeOK, JoinFails, Refused
  <2>5. \A n \in Machines : Told(n)'
    BY <1>0, <2>1, <2>2, ToldKept DEF IInv
  <2>6. \A i \in Invitations : Asked(i)'
    BY <2>1, <2>2, SameListeners
  <2>. QED BY <1>2, <2>1, <2>2, <2>4, <2>5, <2>6 DEF IInv, Rows, CopyIsExact, JoinFails, Refused
<1>. QED BY <1>1, <1>2

\* hub.json is written when the answer was for this machine's keys.
LEMMA SaveStateStep ==
  ASSUME IInv, NEW m \in Machines, SaveState(m)
  PROVE  IInv' /\ Grows
<1>. USE DEF db, hub, move
<1>0. machine \in [Machines -> Joining] /\ machine[m] \in Joining
  BY DEF IInv, TypeOK
<1>. DEFINE k == [machine[m] EXCEPT !.pc = "joined"]
<1>1. k \in Joining /\ k.pc = "joined" /\ k.id = machine[m].id
  BY <1>0 DEF Joining
<1>2. machine' = [machine EXCEPT ![m] = k]
  BY <1>0 DEF SaveState
<1>. HIDE DEF k
<1>3. Grows
  BY GrowsTrivially DEF SaveState
<1>4. Told(m)'
  BY <1>0, <1>1, <1>2, <1>3, IsKept DEF SaveState, Told, IInv
<1>5. \A n \in Machines : Told(n)'
  BY <1>0, <1>2, <1>3, <1>4, ToldKept DEF IInv
<1>6. \A i \in Invitations : Asked(i)'
  BY <1>3, SameListeners DEF SaveState
<1>7. TypeOK'
  BY <1>0, <1>1, <1>2 DEF IInv, TypeOK, SaveState
<1>. QED BY <1>3, <1>5, <1>6, <1>7 DEF IInv, Rows, CopyIsExact, SaveState

\* The answer tells the machine that waits for it its identifier.
LEMMA AnswerStep ==
  ASSUME IInv, NEW i \in Invitations, Answer(i)
  PROVE  IInv' /\ Grows
<1>. USE DEF db, move
<1>0. /\ machine \in [Machines -> Joining] /\ listener \in [Invitations -> Listener]
      /\ link \in [Ids -> {"none", "retry", "checked", "listed"}] /\ link[1] = "none"
      /\ listener[i].pc = "enrolled" /\ listener[i].machine \in Machines
      /\ listener[i].id \in DOMAIN hosts /\ hosts[listener[i].id].machine = listener[i].machine
      /\ hosts[1].machine = Hub /\ DOMAIN hosts = 1 .. Len(hosts) /\ Len(hosts) \in Nat
  BY DEF IInv, TypeOK, Asked, Answer, Is, Rows
<1>. DEFINE m == listener[i].machine
            n == listener[i].id
<1>1. Grows
  BY GrowsTrivially DEF Answer
<1>2. /\ listener' \in [Invitations -> Listener]
      /\ \A j \in Invitations : listener'[j] = listener[j] \/ listener'[j].pc = "stopped"
  BY <1>0, StoppedIs DEF Answer
<1>3. link' = [link EXCEPT ![n] = "retry"] /\ n # 1
  BY <1>0, EnrollmentAssumption DEF Answer
<1>4. link' \in [Ids -> {"none", "retry", "checked", "listed"}] /\ link'[1] = "none"
  BY <1>0, <1>3, FirstId
<1>5. /\ machine' \in [Machines -> Joining]
      /\ \A p \in Machines : Told(p)'
  <2>1. CASE UNCHANGED machine
    BY <1>0, <1>1, <2>1, SameMachines
  <2>2. CASE Waits(i) /\ machine' = [machine EXCEPT ![m].id = n]
    <3>. DEFINE k == [machine[m] EXCEPT !.id = n]
    <3>1. k \in Joining /\ k.id = n /\ k.pc = machine[m].pc
      BY <1>0 DEF Joining
    <3>2. machine' = [machine EXCEPT ![m] = k]
      BY <1>0, <2>2 DEF Joining
    <3>. HIDE DEF k
    <3>3. machine[m].pc = "sent"
      BY <2>2 DEF Waits
    <3>4. m \in Machines /\ n \in DOMAIN hosts /\ hosts[n].machine = m /\ UNCHANGED hosts
      BY <1>0 DEF Answer
    <3>. HIDE DEF m, n
    <3>5. machine'[m] = k /\ machine' \in [Machines -> Joining]
          /\ \A p \in Machines \ {m} : machine'[p] = machine[p]
      BY <1>0, <3>1, <3>2, <3>4
    <3>6. machine'[m].id = n /\ machine'[m].pc = "sent"
      BY <3>1, <3>3, <3>5
    <3>7. \A p \in Machines : p = m => Told(p)'
      BY <1>0, <3>4, <3>6 DEF Told, Is
    <3>8. \A p \in Machines : p # m => Told(p)'
      BY <1>1, <3>5, ToldKept DEF IInv
    <3>. QED BY <3>5, <3>7, <3>8
  <2>. QED BY <2>1, <2>2 DEF Answer
<1>6. TypeOK'
  BY <1>2, <1>4, <1>5 DEF IInv, TypeOK, Answer
<1>7. \A j \in Invitations : Asked(j)'
  BY <1>1, <1>2, AskedKept DEF IInv
<1>. QED BY <1>1, <1>5, <1>6, <1>7 DEF IInv, Rows, CopyIsExact, Answer

\* Links and connections come and go beside the table.
LEMMA LinkSteps ==
  ASSUME IInv, NEW k \in Ids,
         CheckHost(k) \/ Connect(k) \/ ConnectTimesOut(k) \/ Disconnect(k) \/ DropConnection(k)
  PROVE  IInv' /\ Grows
<1>. USE DEF db, move, CheckHost, Connect, ConnectTimesOut, Disconnect, DropConnection
<1>0. /\ link \in [Ids -> {"none", "retry", "checked", "listed"}] /\ link[1] = "none"
      /\ listed \cup removing \subseteq Ids /\ faults \in Nat
  BY DEF IInv, TypeOK
<1>1. UNCHANGED <<hosts, invitation, listener, machine, moving, copy, expired, moves>>
  OBVIOUS
<1>2. link' \in [Ids -> {"none", "retry", "checked", "listed"}] /\ link'[1] = "none"
  BY <1>0, FirstId
<1>3. listed' \cup removing' \subseteq Ids /\ faults' \in Nat
  BY <1>0
<1>4. TypeOK'
  BY <1>1, <1>2, <1>3 DEF IInv, TypeOK
<1>5. Grows
  BY <1>1, GrowsTrivially
<1>6. (\A i \in Invitations : Asked(i)') /\ (\A m \in Machines : Told(m)')
  BY <1>1, <1>5, SameListeners, SameMachines
<1>. QED BY <1>1, <1>4, <1>5, <1>6 DEF IInv, Rows, CopyIsExact
\* A Host is removed.
LEMMA RevokeStep ==
  ASSUME IInv, NEW k \in Ids, RevokeHost(k)
  PROVE  IInv' /\ Grows
<1>. USE DEF move, RevokeHost
<1>0. k \in DOMAIN hosts /\ removing' \subseteq Ids /\ ~ moving
  BY DEF Known, IInv, TypeOK
<1>1. hosts' \in Seq(Host) /\ Rows' /\ Grows
  BY <1>0, RevokeRows
<1>2. TypeOK'
  BY <1>0, <1>1 DEF IInv, TypeOK
<1>3. (\A i \in Invitations : Asked(i)') /\ (\A m \in Machines : Told(m)')
  BY <1>1, SameListeners, SameMachines
<1>. QED BY <1>0, <1>1, <1>2, <1>3 DEF IInv, CopyIsExact

\* Another process of the Hub serves the same table: after a crash its own, after a
\* move the copy.
LEMMA HubSteps ==
  ASSUME IInv, Crash \/ Fence \/ Unfence \/ TakeOver
  PROVE  IInv' /\ Grows
<1>. USE DEF db, hub, move
<1>1. UNCHANGED <<hosts, invitation, machine, expired>>
  BY DEF IInv, CopyIsExact, Crash, Fence, Unfence, TakeOver
<1>2. Grows
  BY <1>1, GrowsTrivially
<1>3. CopyIsExact'
  BY <1>1 DEF IInv, CopyIsExact, Crash, Fence, Unfence, TakeOver
<1>4. CASE Crash \/ TakeOver
  <2>1. /\ listener' \in [Invitations -> Listener]
        /\ \A i \in Invitations : listener'[i].pc \in {"none", "stopped"}
        /\ link' \in [Ids -> {"none", "retry", "checked", "listed"}] /\ link'[1] = "none"
        /\ listed' \cup removing' \subseteq Ids
    BY <1>4, FreshHubKeeps DEF IInv, CopyIsExact, Crash, TakeOver
  <2>2. copy' = copy /\ moving' \in BOOLEAN /\ {faults', moves'} \subseteq Nat
    <3>0. moving \in BOOLEAN /\ faults \in Nat /\ moves \in Nat
      BY DEF IInv, TypeOK
    <3>1. CASE Crash
      BY <3>0, <3>1 DEF Crash
    <3>2. CASE TakeOver
      BY <3>0, <3>2 DEF TakeOver
    <3>. QED BY <1>4, <3>1, <3>2
  <2>3. TypeOK'
    BY <1>1, <2>1, <2>2 DEF IInv, TypeOK
  <2>4. \A i \in Invitations : Asked(i)'
    BY <1>2, <2>1, AskedKept DEF IInv
  <2>. QED BY <1>1, <1>2, <1>3, <2>3, <2>4, SameMachines DEF IInv, Rows
<1>5. CASE Fence \/ Unfence
  <2>1. TypeOK'
    <3>1. /\ {hosts', copy'} \subseteq Seq(Host) /\ moving' \in BOOLEAN /\ {faults', moves'} \subseteq Nat
          /\ UNCHANGED <<listener, link, listed, removing>>
      <4>0. /\ moving \in BOOLEAN /\ faults \in Nat /\ moves \in Nat
            /\ hosts \in Seq(Host) /\ copy \in Seq(Host)
        BY DEF IInv, TypeOK
      <4>1. CASE Fence
        BY <4>0, <4>1 DEF Fence
      <4>2. CASE Unfence
        BY <4>0, <4>2 DEF Unfence
      <4>. QED BY <1>5, <4>1, <4>2
    <3>. QED BY <1>1, <3>1 DEF IInv, TypeOK
  <2>2. \A i \in Invitations : Asked(i)'
    BY <1>2, <1>5, SameListeners DEF Fence, Unfence
  <2>. QED BY <1>1, <1>2, <1>3, <2>1, <2>2, SameMachines DEF IInv, Rows
<1>. QED BY <1>4, <1>5

\* The time of an invitation passes.
LEMMA ExpireStep ==
  ASSUME IInv, NEW i \in Invitations, Expire(i)
  PROVE  IInv' /\ Grows
<1>. USE DEF db, hub, move, Expire
<1>1. Grows
  BY GrowsTrivially
<1>2. TypeOK'
  BY DEF IInv, TypeOK
<1>3. (\A j \in Invitations : Asked(j)') /\ (\A m \in Machines : Told(m)')
  BY <1>1, SameListeners, SameMachines
<1>. QED BY <1>1, <1>2, <1>3 DEF IInv, Rows, CopyIsExact

\* IInv is inductive: one lemma for each kind of step.
LEMMA InvariantStep ==
  ASSUME IInv, [Next]_vars
  PROVE  IInv' /\ Grows
<1>1. CASE UNCHANGED vars
  <2>1. UNCHANGED <<hosts, invitation, expired, listener, link, listed, removing, machine,
                    moving, copy, moves, faults>>
    BY <1>1 DEF vars, db, hub, move
  <2>2. Grows
    BY <2>1, GrowsTrivially
  <2>3. TypeOK' /\ Rows' /\ CopyIsExact'
    BY <2>1 DEF IInv, TypeOK, Rows, CopyIsExact
  <2>. QED BY <2>1, <2>2, <2>3, SameListeners, SameMachines DEF IInv
<1>2. CASE Next
  BY <1>2, ListenerSteps, ExpireStep, EnrollStep, AnswerStep, MachineSteps, SaveStateStep,
     LinkSteps, RevokeStep, HubSteps DEF Next
<1>. QED BY <1>1, <1>2

\* The invariant of an installation and the machines that join it.
THEOREM InvariantHolds == Spec => []IInv
<1>1. Init => IInv
  BY InitialInvariant
<1>2. IInv /\ [Next]_vars => IInv'
  BY InvariantStep
<1>. QED BY <1>1, <1>2, PTL DEF Spec

\* Every variable of the enrollment keeps its type (Enrollment!TypeOK), and the Hub never
\* has a link to itself.
THEOREM TypeCorrect == Spec => []TypeOK
BY InvariantHolds, PTL DEF IInv

\* Rows that are exact are of one Host to an invitation.
LEMMA RowsEnrollOnce == Rows => InvitationEnrollsOnce
<1>. SUFFICES ASSUME Rows, NEW i \in Invitations
              PROVE  LET rows == {k \in DOMAIN hosts : hosts[k].invitation = i}
                     IN  Cardinality(rows) <= 1 /\ (rows # {} => invitation[i] = "used")
  BY DEF InvitationEnrollsOnce
<1>. DEFINE rows == {k \in DOMAIN hosts : hosts[k].invitation = i}
<1>1. \A j, k \in rows : j = k /\ invitation[i] = "used"
  BY EnrollmentAssumption DEF Rows
<1>2. CASE rows = {}
  BY <1>2, FS_EmptySet
<1>3. CASE rows # {}
  <2>1. PICK k \in rows : rows = {k}
    BY <1>1, <1>3
  <2>2. Cardinality({k}) = 1
    BY FS_Singleton
  <2>3. Cardinality(rows) = 1
    BY <2>1, <2>2
  <2>. QED BY <1>1, <1>3, <2>3
<1>. QED BY <1>2, <1>3

\* consume_invitation (mews-store/src/hosts.rs): an invitation enrolls at most one Host and
\* is then used up, for any number of machines, crashes and moves.
THEOREM OneHostPerInvitation == Spec => []InvitationEnrollsOnce
BY InvariantHolds, RowsEnrollOnce, PTL DEF IInv

\* join_host (mews/src/enrollment): a machine that has written hub.json is that Host in the
\* database of whichever Hub serves, after any crashes and moves.
THEOREM JoinedMachinesAreHosts == Spec => []JoinedIsEnrolled
<1>1. IInv => JoinedIsEnrolled
  BY DEF IInv, Told, Is, JoinedIsEnrolled, Known
<1>. QED BY <1>1, InvariantHolds, PTL

\* What the run of the fleet checks of an enrollment, as one invariant.
THEOREM EnrollmentStaysExact == Spec => []EnrollmentIsExact
BY TypeCorrect, OneHostPerInvitation, JoinedMachinesAreHosts, PTL DEF EnrollmentIsExact

\* hosts is never shortened and a row never changes hands (mews-store/src/hosts.rs), and
\* no step, a move's taking over the copy included, undoes a removal.
THEOREM HostsAreNeverForgotten == Spec => [][Grows]_vars
<1>1. IInv /\ [Next]_vars => [Grows]_vars
  BY InvariantStep
<1>. QED BY <1>1, InvariantHolds, PTL DEF Spec

--------------------
(* The definition of an Agent and its copies (AgentSync). *)

CONSTANTS
  Flows, MaxEdits, EditPlaces, MaxCrashes, MaxDamage, sync_None

VARIABLES
  revs, dir, aside, flow, parent, replaced, owned, edits, crashes, damage

Sync == INSTANCE AgentSync WITH
  None <- sync_None

\* AgentSync has its own copy of the operators of FiniteSets.
LEMMA SyncSets ==
  /\ \A S : Sync!Cardinality(S) = Cardinality(S)
  /\ \A S : Sync!IsFiniteSet(S) <=> IsFiniteSet(S)
<1>1. \A S : Sync!Cardinality(S) = Cardinality(S)
  BY Zenon DEF Sync!Cardinality, Cardinality
<1>2. \A S : Sync!IsFiniteSet(S) <=> IsFiniteSet(S)
  BY Zenon DEF Sync!IsFiniteSet, IsFiniteSet
<1> QED BY <1>1, <1>2

SyncAnyDir == [def : Nat, rev : Nat \cup {sync_None}, complete : BOOLEAN, res : BOOLEAN,
               kept : SUBSET ((Nat \cup {sync_None}) \X Nat)]
SyncAnyFlow == [at : {"idle", "read", "decide", "send"}, seen : Nat, send : Nat,
            expected : SyncAnyDir \cup {sync_None}]

\* The revisions rs with the authors' starting points pa, after n edits: a revision is
\* made of the one before it, and so is newer than all before.
SyncRevsOK(rs, pa, n) ==
  /\ rs \in Seq(Nat) /\ Len(rs) > 0 /\ rs[1] = 0 /\ rs[Len(rs)] <= n
  /\ \A i \in 1..Len(rs) : i - 1 <= rs[i] /\ rs[i] <= rs[Len(rs)]
  /\ \A i \in 2..Len(rs) : pa[rs[i]] = rs[i - 1]

\* An edit of the current revision is one that started from it.
SyncBased(rs, pa, n, d) ==
  d.rev = Len(rs) /\ d.def # rs[Len(rs)] =>
    d.def \in 1..n /\ pa[d.def] = rs[Len(rs)]

\* A directory at p carries the marker of a revision there is, but for the Hub's, which
\* may have lost it.
SyncDirOK(rs, pa, n, p, d) ==
  d # sync_None => /\ d.def <= n
                   /\ d.rev \in 1..Len(rs) \/ (d.rev = sync_None /\ p = "hub")
                   /\ SyncBased(rs, pa, n, d)

\* What a task has read is such a directory, and what it sends there replaces nothing
\* that is not a revision.
SyncFlowOK(rs, pa, n, k) ==
  /\ k.at # "idle" => k.seen \in 1..Len(rs)
  /\ k.at = "send" => k.send \in 1..Len(rs)
  /\ k.at = "send" /\ k.expected # sync_None => k.expected.rev \in 1..k.send
  /\ k.at = "decide" => SyncDirOK(rs, pa, n, "host", k.expected)
  /\ k.at = "send" /\ k.expected # sync_None => \E r \in 1..Len(rs) : rs[r] = k.expected.def

SyncTyped ==
  /\ edits \in 0..MaxEdits /\ crashes \in Nat
  /\ parent \in [1..MaxEdits -> Nat]
  /\ dir \in [Sync!Places -> SyncAnyDir \cup {sync_None}]
  /\ aside \in [Sync!Places -> Seq(SUBSET Sync!Definitions)]
  /\ flow \in [Flows -> SyncAnyFlow]
  /\ replaced \subseteq 0..edits
  /\ owned \subseteq Sync!Places

SyncParents == \A e \in 1..edits : parent[e] < e
SyncCarried == crashes = 0 => \A p \in owned : dir[p] # sync_None /\ dir[p].res

SyncRevision(rs, e) == \E r \in 1..Len(rs) : rs[r] = e
SyncOvertaken(rs, pa, e) == \E r \in 2..Len(rs) : pa[rs[r]] = pa[e]

\* The conflict files of a directory hold its own definition, or one that its author has
\* edited again.
SyncKept(rp, d) == d # sync_None => \A k \in d.kept : k[2] = d.def \/ k[2] \in rp

\* An edit of the Hub's copy that is not yet a revision is only there.
SyncApart(rs, di, fl) ==
  di["hub"] # sync_None /\ ~SyncRevision(rs, di["hub"].def) =>
    /\ di["host"] # sync_None => di["host"].def # di["hub"].def
    /\ \A f \in Flows : fl[f].at = "decide" /\ fl[f].expected # sync_None =>
                          fl[f].expected.def # di["hub"].def

\* Without a crash, what the Hub's copy holds is the revision of its marker, or an edit
\* that started from it and is not yet a revision.
SyncMarked(rs, pa, d) ==
  d # sync_None /\ d.rev # sync_None /\ d.def # rs[d.rev] =>
    pa[d.def] = rs[d.rev] /\ ~SyncRevision(rs, d.def)

SyncTaken(rs, pa, rp, di, n) ==
  \A e \in 1..n : \/ SyncRevision(rs, e) \/ e \in rp \/ SyncOvertaken(rs, pa, e)
                  \/ \E p \in Sync!Places : di[p] # sync_None /\ di[p].def = e

SyncHistory ==
  /\ \A p \in Sync!Places : SyncKept(replaced, dir[p])
  /\ SyncApart(revs, dir, flow)
  /\ crashes = 0 => SyncMarked(revs, parent, dir["hub"]) /\ SyncTaken(revs, parent, replaced, dir, edits)

SyncIInv ==
  /\ SyncTyped /\ SyncParents
  /\ SyncRevsOK(revs, parent, edits)
  /\ \A p \in Sync!Places : SyncDirOK(revs, parent, edits, p, dir[p])
  /\ \A f \in Flows : SyncFlowOK(revs, parent, edits, flow[f])
  /\ SyncCarried
  /\ SyncHistory

--------------------
\* What the provers need of the constants.
LEMMA SyncConstant ==
  ASSUME Sync!BoundsAreNat
  PROVE  MaxEdits \in Nat /\ MaxCrashes \in Nat /\ MaxDamage \in Nat
         /\ sync_None \notin Nat /\ sync_None \notin SyncAnyDir
<1>1. MaxEdits \in {MaxEdits, MaxCrashes, MaxDamage} /\ MaxCrashes \in {MaxEdits, MaxCrashes, MaxDamage}
      /\ MaxDamage \in {MaxEdits, MaxCrashes, MaxDamage}
  OBVIOUS
<1> QED BY <1>1 DEF Sync!BoundsAreNat, SyncAnyDir

\* The revisions as they are used: there is a current one, and each is a number.
LEMMA SyncRevsAre ==
  ASSUME NEW rs, NEW pa, NEW n, SyncRevsOK(rs, pa, n)
  PROVE  /\ Len(rs) \in Nat \ {0} /\ Len(rs) \in 1..Len(rs)
         /\ \A i \in 1..Len(rs) : rs[i] \in Nat
  BY DEF SyncRevsOK

\* One more revision, made of the current one.
LEMMA SyncAppendRevs ==
  ASSUME NEW rs, NEW pa, NEW n \in Nat, NEW def \in 1..n, SyncRevsOK(rs, pa, n), pa[def] = rs[Len(rs)],
         pa[def] < def
  PROVE  /\ SyncRevsOK(Append(rs, def), pa, n)
         /\ Len(Append(rs, def)) = Len(rs) + 1 /\ Append(rs, def)[Len(rs) + 1] = def
         /\ \A i \in 1..Len(rs) : Append(rs, def)[i] = rs[i]
<1>1. rs \in Seq(Nat) /\ def \in Nat /\ Len(rs) \in Nat \ {0} BY DEF SyncRevsOK
<1>2. PICK r : r = Append(rs, def) OBVIOUS
<1>3. /\ r \in Seq(Nat) /\ Len(r) = Len(rs) + 1 /\ r[Len(rs) + 1] = def
      /\ \A i \in 1..Len(rs) : r[i] = rs[i]
  BY <1>1, <1>2
<1>4. \A i \in 1..Len(rs) : rs[i] \in Nat /\ i - 1 <= rs[i] /\ rs[i] <= rs[Len(rs)]
  BY <1>1 DEF SyncRevsOK
<1>5. rs[Len(rs)] < def /\ rs[Len(rs)] \in Nat /\ Len(rs) - 1 <= rs[Len(rs)] BY <1>1, <1>4
<1>6. \A i \in 1..Len(r) : i - 1 <= r[i] /\ r[i] <= r[Len(r)]
  <2>1. ASSUME NEW i \in 1..Len(r) PROVE i - 1 <= r[i] /\ r[i] <= r[Len(r)]
    <3>1. CASE i = Len(rs) + 1 BY <3>1, <1>1, <1>3, <1>5
    <3>2. CASE i \in 1..Len(rs) BY <3>2, <1>1, <1>3, <1>4, <1>5
    <3> QED BY <3>1, <3>2, <1>1, <1>3
  <2> QED BY <2>1
<1>7. \A i \in 2..Len(r) : pa[r[i]] = r[i - 1]
  <2>1. ASSUME NEW i \in 2..Len(r) PROVE pa[r[i]] = r[i - 1]
    <3>1. CASE i = Len(rs) + 1
      <4>1. r[i] = def /\ r[i - 1] = rs[Len(rs)] BY <3>1, <1>1, <1>3
      <4> QED BY <4>1
    <3>2. CASE i \in 2..Len(rs)
      <4>0. i \in 1..Len(rs) /\ i - 1 \in 1..Len(rs) BY <3>2, <1>1
      <4>1. r[i] = rs[i] /\ r[i - 1] = rs[i - 1] BY <4>0, <1>3
      <4> QED BY <3>2, <4>1 DEF SyncRevsOK
    <3> QED BY <3>1, <3>2, <1>1, <1>3
  <2> QED BY <2>1
<1>8. r[1] = 0 /\ r[Len(r)] <= n BY <1>1, <1>3 DEF SyncRevsOK
<1> QED BY <1>2, <1>3, <1>6, <1>7, <1>8 DEF SyncRevsOK

\* A directory or a task of before is one after a further revision.
LEMMA SyncAppendKeeps ==
  ASSUME NEW rs, NEW pa, NEW n \in Nat, NEW def \in 1..n, SyncRevsOK(rs, pa, n), pa[def] = rs[Len(rs)],
         pa[def] < def, Sync!BoundsAreNat
  PROVE  /\ \A p, d : SyncDirOK(rs, pa, n, p, d) => SyncDirOK(Append(rs, def), pa, n, p, d)
         /\ \A k : SyncFlowOK(rs, pa, n, k) => SyncFlowOK(Append(rs, def), pa, n, k)
<1>1. PICK r : r = Append(rs, def) OBVIOUS
<1>2. /\ Len(rs) \in Nat \ {0} /\ Len(r) = Len(rs) + 1
      /\ \A i \in 1..Len(rs) : r[i] = rs[i] /\ i \in 1..Len(r)
  BY <1>1, SyncAppendRevs, SyncRevsAre
<1>3. sync_None # Len(r) BY <1>2, SyncConstant
<1>4. \A p, d : SyncDirOK(rs, pa, n, p, d) => SyncDirOK(r, pa, n, p, d)
  BY <1>2, <1>3 DEF SyncDirOK, SyncBased
<1>5. \A k : SyncFlowOK(rs, pa, n, k) => SyncFlowOK(r, pa, n, k)
  BY <1>2, <1>4 DEF SyncFlowOK
<1> QED BY <1>1, <1>4, <1>5

\* A directory that was published carries its revision.
LEMMA SyncDirectoryIs ==
  ASSUME Sync!BoundsAreNat, NEW rs, NEW pa, NEW n \in Nat, SyncRevsOK(rs, pa, n), NEW r \in 1..Len(rs),
         NEW res \in BOOLEAN
  PROVE  LET d == Sync!Directory(rs[r], r, res) IN
         /\ d \in SyncAnyDir /\ d # sync_None /\ d.def = rs[r] /\ d.rev = r /\ d.res = res /\ d.kept = {}
         /\ \A p : SyncDirOK(rs, pa, n, p, d)
<1> DEFINE d == Sync!Directory(rs[r], r, res)
<1>1. rs[r] \in Nat /\ r \in Nat /\ rs[r] <= n /\ Len(rs) \in Nat BY SyncRevsAre DEF SyncRevsOK
<1>2. d \in SyncAnyDir /\ d.def = rs[r] /\ d.rev = r /\ d.res = res /\ d.kept = {} BY <1>1 DEF Sync!Directory, SyncAnyDir
<1>3. d # sync_None BY <1>2, SyncConstant
<1>4. \A p : SyncDirOK(rs, pa, n, p, d) BY <1>1, <1>2 DEF SyncDirOK, SyncBased
<1> QED BY <1>2, <1>3, <1>4

\* The task at rest.
LEMMA SyncIdleIs == Sync!BoundsAreNat => Sync!Idle \in SyncAnyFlow /\ \A rs, pa, n : SyncFlowOK(rs, pa, n, Sync!Idle)
  BY DEF Sync!Idle, SyncAnyFlow, SyncFlowOK

--------------------
\* What holds at first.
LEMMA SyncInitInv == ASSUME Sync!BoundsAreNat, Sync!Init PROVE SyncIInv
<1>0. MaxEdits \in Nat /\ sync_None \notin Nat /\ sync_None \notin SyncAnyDir BY SyncConstant
<1>1. revs = <<0>> /\ edits = 0 /\ crashes = 0 BY DEF Sync!Init
<1>2. SyncRevsOK(revs, parent, edits) BY <1>1 DEF SyncRevsOK
<1>3. \A res \in BOOLEAN : LET d == Sync!Directory(0, 1, res) IN
         d \in SyncAnyDir /\ d.def = 0 /\ d.rev = 1 /\ d.kept = {} /\ \A p : SyncDirOK(revs, parent, edits, p, d)
  <2>1. revs[1] = 0 /\ 1 \in 1..Len(revs) BY <1>1
  <2> QED BY <2>1, <1>1, <1>2, SyncDirectoryIs
<1>4. \A p \in Sync!Places : dir[p] \in {sync_None, Sync!Directory(0, 1, TRUE), Sync!Directory(0, 1, FALSE)}
  BY DEF Sync!Init
<1>5. \A p \in Sync!Places : dir[p] \in SyncAnyDir \cup {sync_None} /\ SyncDirOK(revs, parent, edits, p, dir[p])
  <2>1. ASSUME NEW p \in Sync!Places
        PROVE  dir[p] \in SyncAnyDir \cup {sync_None} /\ SyncDirOK(revs, parent, edits, p, dir[p])
    <3>1. CASE dir[p] = sync_None BY <3>1 DEF SyncDirOK
    <3>2. CASE dir[p] = Sync!Directory(0, 1, TRUE) BY <3>2, <1>3
    <3>3. CASE dir[p] = Sync!Directory(0, 1, FALSE) BY <3>3, <1>3
    <3> QED BY <1>4, <3>1, <3>2, <3>3
  <2> QED BY <2>1
<1>6. SyncTyped
  <2>1. dir \in [Sync!Places -> SyncAnyDir \cup {sync_None}] BY <1>5 DEF Sync!Init
  <2>2. flow \in [Flows -> SyncAnyFlow] BY SyncIdleIs DEF Sync!Init
  <2>3. parent \in [1..MaxEdits -> Nat] BY DEF Sync!Init
  <2>4. owned \subseteq Sync!Places BY DEF Sync!Init
  <2>5. replaced \subseteq 0..edits BY DEF Sync!Init
  <2>6. aside \in [Sync!Places -> Seq(SUBSET Sync!Definitions)]
    <3>1. << >> \in Seq(SUBSET Sync!Definitions) OBVIOUS
    <3> QED BY <3>1 DEF Sync!Init
  <2> QED BY <1>0, <1>1, <2>1, <2>2, <2>3, <2>4, <2>5, <2>6 DEF SyncTyped
<1>7. \A f \in Flows : SyncFlowOK(revs, parent, edits, flow[f]) BY SyncIdleIs DEF Sync!Init
<1>8. SyncParents BY <1>1 DEF SyncParents
<1>9. SyncCarried BY DEF Sync!Init, SyncCarried
<1>10. \A p \in Sync!Places : dir[p] # sync_None => dir[p].def = revs[1] /\ dir[p].rev = 1 /\ dir[p].kept = {}
  <2>1. revs[1] = 0 BY <1>1
  <2> QED BY <1>3, <1>4, <2>1
<1>11. SyncHistory
  <2>1. "hub" \in Sync!Places /\ 1 \in 1..Len(revs) /\ 1..edits = {}  BY <1>1 DEF Sync!Places
  <2>2. \A p \in Sync!Places : SyncKept(replaced, dir[p]) BY <1>10 DEF SyncKept
  <2>3. SyncApart(revs, dir, flow) BY <1>10, <2>1 DEF SyncApart, SyncRevision
  <2>4. SyncMarked(revs, parent, dir["hub"])  BY <1>10, <2>1 DEF SyncMarked
  <2>5. SyncTaken(revs, parent, replaced, dir, edits) BY <2>1 DEF SyncTaken
  <2> QED BY <2>2, <2>3, <2>4, <2>5 DEF SyncHistory
<1> QED BY <1>2, <1>5, <1>6, <1>7, <1>8, <1>9, <1>11 DEF SyncIInv

\* What a step that makes no edit may do to the definitions in the directories: one that
\* comes is a revision, one that goes was taken up or overtaken, and with the marker
\* comes the revision it names.
SyncMoves ==
  /\ \A p \in Sync!Places : dir'[p] # sync_None =>
        \/ dir[p] # sync_None /\ dir'[p].def = dir[p].def
        \/ SyncRevision(revs', dir'[p].def)
  /\ \A p \in Sync!Places : dir'[p] # sync_None => \A k \in dir'[p].kept :
        \/ dir[p] # sync_None /\ dir'[p].def = dir[p].def /\ k \in dir[p].kept
        \/ k[2] = dir'[p].def
  /\ \A f \in Flows : flow'[f].at = "decide" =>
        \/ flow[f].at = "decide" /\ flow'[f].expected = flow[f].expected
        \/ flow'[f].expected = dir["host"]
  /\ crashes' = 0 =>
       /\ \A p \in Sync!Places : dir[p] # sync_None =>
             \/ dir'[p] # sync_None /\ dir'[p].def = dir[p].def
             \/ SyncRevision(revs', dir[p].def) \/ SyncOvertaken(revs', parent, dir[p].def)
       /\ dir'["hub"] # sync_None /\ dir'["hub"].rev # sync_None =>
             \/ dir'["hub"].def = revs'[dir'["hub"].rev]
             \/ /\ dir["hub"] # sync_None /\ dir["hub"].rev = dir'["hub"].rev
                /\ dir["hub"].def = dir'["hub"].def
                /\ SyncRevision(revs', dir["hub"].def) => SyncRevision(revs, dir["hub"].def)

\* The revisions are as before, or there is one more.
LEMMA SyncRevsGrow ==
  ASSUME Sync!BoundsAreNat, SyncIInv,
         \/ revs' = revs
         \/ \E def \in 1..edits : parent[def] = revs[Sync!Current] /\ revs' = Append(revs, def)
  PROVE  /\ SyncRevsOK(revs', parent, edits)
         /\ Len(revs') \in Nat /\ Len(revs) \in Nat /\ Len(revs) <= Len(revs')
         /\ \A r \in 1..Len(revs) : revs'[r] = revs[r] /\ r \in 1..Len(revs')
         /\ \A r \in 2..Len(revs) : revs'[r] = revs[r] /\ r \in 2..Len(revs')
<1>0. SyncRevsOK(revs, parent, edits) /\ edits \in Nat /\ Len(revs) \in Nat \ {0}
  BY SyncRevsAre, SyncConstant DEF SyncIInv, SyncTyped
<1>1. CASE revs' = revs BY <1>0, <1>1
<1>2. CASE revs' # revs
  <2>1. PICK def \in 1..edits : parent[def] = revs[Sync!Current] /\ revs' = Append(revs, def)
    BY <1>2
  <2>2. parent[def] < def BY DEF SyncIInv, SyncParents
  <2>3. SyncRevsOK(revs', parent, edits) /\ Len(revs') = Len(revs) + 1 /\ \A i \in 1..Len(revs) : revs'[i] = revs[i]
    BY <1>0, <2>1, <2>2, SyncAppendRevs DEF Sync!Current
  <2> QED BY <1>0, <2>3
<1> QED BY <1>1, <1>2

\* The part of the invariant about the definitions is kept by such a step.
LEMMA SyncHistoryKept ==
  ASSUME Sync!BoundsAreNat, SyncIInv, UNCHANGED <<parent, replaced, edits>>,
         \/ revs' = revs
         \/ \E def \in 1..edits : parent[def] = revs[Sync!Current] /\ revs' = Append(revs, def),
         \A p \in Sync!Places : SyncDirOK(revs, parent, edits, p, dir[p]),
         crashes' = 0 => crashes = 0, SyncMoves
  PROVE  SyncHistory'
<1>1. /\ \A e : SyncRevision(revs, e) => SyncRevision(revs', e)
      /\ \A e : SyncOvertaken(revs, parent, e) => SyncOvertaken(revs', parent, e)
  BY SyncRevsGrow DEF SyncRevision, SyncOvertaken
<1>2. "hub" \in Sync!Places /\ "host" \in Sync!Places  BY DEF Sync!Places
<1>3. \A p \in Sync!Places : SyncKept(replaced, dir'[p])
  BY DEF SyncMoves, SyncIInv, SyncHistory, SyncKept
<1>4. SyncApart(revs', dir', flow')
  <2>1. SUFFICES ASSUME dir'["hub"] # sync_None, ~SyncRevision(revs', dir'["hub"].def)
                 PROVE  /\ dir'["host"] # sync_None => dir'["host"].def # dir'["hub"].def
                        /\ \A f \in Flows : flow'[f].at = "decide" /\ flow'[f].expected # sync_None =>
                                              flow'[f].expected.def # dir'["hub"].def
    BY DEF SyncApart
  <2>2. dir["hub"] # sync_None /\ dir'["hub"].def = dir["hub"].def  BY <1>2, <2>1 DEF SyncMoves
  <2>3. /\ dir["host"] # sync_None => dir["host"].def # dir["hub"].def
        /\ \A f \in Flows : flow[f].at = "decide" /\ flow[f].expected # sync_None =>
                              flow[f].expected.def # dir["hub"].def
    BY <1>1, <2>1, <2>2 DEF SyncIInv, SyncHistory, SyncApart
  <2>4. dir'["host"] # sync_None => dir'["host"].def # dir'["hub"].def
    BY <1>2, <2>1, <2>2, <2>3 DEF SyncMoves
  <2>5. \A f \in Flows : flow'[f].at = "decide" /\ flow'[f].expected # sync_None =>
                           flow'[f].expected.def # dir'["hub"].def
    BY <2>2, <2>3 DEF SyncMoves
  <2> QED BY <2>4, <2>5
<1>5. ASSUME crashes' = 0
      PROVE  SyncMarked(revs', parent, dir'["hub"]) /\ SyncTaken(revs', parent, replaced, dir', edits)
  <2>1. crashes = 0 /\ SyncMarked(revs, parent, dir["hub"]) /\ SyncTaken(revs, parent, replaced, dir, edits)
    BY <1>5 DEF SyncIInv, SyncHistory
  <2>2. SyncMarked(revs', parent, dir'["hub"])
    <3>1. SUFFICES ASSUME dir'["hub"] # sync_None, dir'["hub"].rev # sync_None,
                          dir'["hub"].def # revs'[dir'["hub"].rev]
                   PROVE  parent[dir'["hub"].def] = revs'[dir'["hub"].rev] /\ ~SyncRevision(revs', dir'["hub"].def)
      BY DEF SyncMarked
    <3>2. /\ dir["hub"] # sync_None /\ dir["hub"].rev = dir'["hub"].rev /\ dir["hub"].def = dir'["hub"].def
          /\ SyncRevision(revs', dir["hub"].def) => SyncRevision(revs, dir["hub"].def)
      BY <1>5, <3>1 DEF SyncMoves
    <3>3. dir["hub"].rev \in 1..Len(revs)  BY <1>2, <3>1, <3>2 DEF SyncDirOK
    <3>4. revs'[dir["hub"].rev] = revs[dir["hub"].rev]  BY <3>3, SyncRevsGrow
    <3> QED BY <2>1, <3>1, <3>2, <3>4 DEF SyncMarked
  <2>3. SyncTaken(revs', parent, replaced, dir', edits)
    <3>1. ASSUME NEW e \in 1..edits
          PROVE  \/ SyncRevision(revs', e) \/ e \in replaced \/ SyncOvertaken(revs', parent, e)
                 \/ \E p \in Sync!Places : dir'[p] # sync_None /\ dir'[p].def = e
      <4>1. \/ SyncRevision(revs, e) \/ e \in replaced \/ SyncOvertaken(revs, parent, e)
            \/ \E p \in Sync!Places : dir[p] # sync_None /\ dir[p].def = e
        BY <2>1 DEF SyncTaken
      <4>2. CASE \E p \in Sync!Places : dir[p] # sync_None /\ dir[p].def = e
        BY <1>5, <4>2 DEF SyncMoves
      <4> QED BY <1>1, <4>1, <4>2
    <3> QED BY <3>1 DEF SyncTaken
  <2> QED BY <2>2, <2>3
<1> QED BY <1>3, <1>4, <1>5 DEF SyncHistory

\* A step that makes no edit, with the same revisions or one more of which the edit it
\* is made of started from the current one.
LEMMA SyncStepKeeps ==
  ASSUME Sync!BoundsAreNat, SyncIInv, UNCHANGED <<parent, replaced, owned, edits>>,
         \/ revs' = revs
         \/ \E def \in 1..edits : parent[def] = revs[Sync!Current] /\ revs' = Append(revs, def),
         dir' \in [Sync!Places -> SyncAnyDir \cup {sync_None}],
         \A p \in Sync!Places : SyncDirOK(revs', parent, edits, p, dir'[p]),
         aside' \in [Sync!Places -> Seq(SUBSET Sync!Definitions)],
         flow' \in [Flows -> SyncAnyFlow],
         \A f \in Flows : SyncFlowOK(revs', parent, edits, flow'[f]),
         crashes' \in Nat /\ (crashes' = 0 => crashes = 0), SyncMoves,
         crashes' = 0 => \A p \in Sync!Places : dir[p] # sync_None /\ dir[p].res =>
                            dir'[p] # sync_None /\ dir'[p].res
  PROVE  SyncIInv'
<1>1. SyncRevsOK(revs', parent, edits) BY SyncRevsGrow
<1>2. SyncTyped' /\ SyncParents' BY DEF SyncIInv, SyncTyped, SyncParents
<1>3. SyncCarried' BY DEF SyncIInv, SyncCarried, SyncTyped
<1>4. /\ \A p \in Sync!Places : SyncDirOK(revs, parent, edits, p, dir[p])'
      /\ \A f \in Flows : SyncFlowOK(revs, parent, edits, flow[f])'
      /\ SyncRevsOK(revs, parent, edits)'
  BY <1>1 DEF SyncDirOK, SyncFlowOK, SyncRevsOK, SyncBased
<1>5. SyncHistory'
  <2>1. \A p \in Sync!Places : SyncDirOK(revs, parent, edits, p, dir[p]) BY DEF SyncIInv
  <2> QED BY <2>1, SyncHistoryKept
<1> QED BY <1>2, <1>3, <1>4, <1>5 DEF SyncIInv

\* A step that leaves the directories and what was moved aside alone.
LEMMA SyncRestsMoves ==
  ASSUME Sync!BoundsAreNat, SyncIInv, dir' = dir, crashes' = crashes, revs' = revs,
         \A f \in Flows : flow'[f].at = "decide" =>
            flow'[f] = flow[f] \/ flow'[f].expected = dir["host"]
  PROVE  SyncMoves
<1>1. CASE crashes' = 0
  <2>1. SyncMarked(revs, parent, dir["hub"])  BY <1>1 DEF SyncIInv, SyncHistory
  <2> QED BY <1>1, <2>1 DEF SyncMoves, SyncMarked
<1>2. CASE crashes' # 0 BY <1>2 DEF SyncMoves
<1> QED BY <1>1, <1>2

--------------------
\* The actions of the users and of the tasks keep it.

\* What the invariant says of the variables, as the steps below use it.
LEMMA SyncFacts ==
  ASSUME Sync!BoundsAreNat, SyncIInv
  PROVE  /\ edits \in Nat /\ crashes \in Nat /\ Sync!Current \in Nat \ {0} /\ Sync!Current \in 1..Sync!Current
         /\ SyncRevsOK(revs, parent, edits)
         /\ \A i \in 1..Sync!Current : revs[i] \in Nat /\ revs[i] <= edits
         /\ \A p \in Sync!Places : /\ dir[p] \in SyncAnyDir \cup {sync_None}
                                   /\ SyncDirOK(revs, parent, edits, p, dir[p])
         /\ \A p \in Sync!Places : dir[p] # sync_None =>
              /\ dir[p].def \in 0..edits /\ dir[p].res \in BOOLEAN
              /\ dir[p].rev \in 1..Sync!Current \/ (dir[p].rev = sync_None /\ p = "hub")
         /\ "hub" \in Sync!Places /\ "host" \in Sync!Places /\ sync_None \notin Nat /\ sync_None \notin SyncAnyDir
<1>1. edits \in Nat /\ crashes \in Nat /\ MaxEdits \in Nat /\ sync_None \notin Nat /\ sync_None \notin SyncAnyDir
  BY SyncConstant DEF SyncIInv, SyncTyped
<1>2. SyncRevsOK(revs, parent, edits) BY DEF SyncIInv
<1>3. Sync!Current \in Nat \ {0} /\ Sync!Current \in 1..Sync!Current /\ \A i \in 1..Sync!Current : revs[i] \in Nat
  BY <1>2, SyncRevsAre DEF Sync!Current
<1>4. \A i \in 1..Sync!Current : revs[i] <= edits
  <2>1. revs[Sync!Current] <= edits /\ \A i \in 1..Sync!Current : revs[i] <= revs[Sync!Current]
    BY <1>2 DEF SyncRevsOK, Sync!Current
  <2> QED BY <2>1, <1>1, <1>3
<1>5. \A p \in Sync!Places : dir[p] \in SyncAnyDir \cup {sync_None} /\ SyncDirOK(revs, parent, edits, p, dir[p])
  BY DEF SyncIInv, SyncTyped
<1>6. \A p \in Sync!Places : dir[p] # sync_None =>
         /\ dir[p].def \in 0..edits /\ dir[p].res \in BOOLEAN
         /\ dir[p].rev \in 1..Sync!Current \/ (dir[p].rev = sync_None /\ p = "hub")
  <2>1. ASSUME NEW p \in Sync!Places, dir[p] # sync_None
        PROVE  /\ dir[p].def \in 0..edits /\ dir[p].res \in BOOLEAN
               /\ dir[p].rev \in 1..Sync!Current \/ (dir[p].rev = sync_None /\ p = "hub")
    <3>1. dir[p].def \in Nat /\ dir[p].res \in BOOLEAN BY <2>1, <1>5 DEF SyncAnyDir
    <3> QED BY <2>1, <3>1, <1>1, <1>5 DEF SyncDirOK, Sync!Current
  <2> QED BY <2>1
<1> QED BY <1>1, <1>2, <1>3, <1>4, <1>5, <1>6 DEF Sync!Places

\* A task that stops, and one that has brought the Hub's copy to revision r.
LEMMA SyncFlowKeeps ==
  ASSUME Sync!BoundsAreNat, NEW rs, NEW pa, NEW n, flow \in [Flows -> SyncAnyFlow], NEW f \in Flows,
         \A g \in Flows : SyncFlowOK(rs, pa, n, flow[g]),
         Sync!Stop(f) \/ \E r \in 1..Len(rs) : r \in Nat /\ Sync!Synchronized(f, r)
  PROVE  /\ flow' \in [Flows -> SyncAnyFlow] /\ \A g \in Flows : SyncFlowOK(rs, pa, n, flow'[g])
         /\ \A g \in Flows : flow'[g].at = "decide" => flow'[g] = flow[g]
<1>1. CASE Sync!Stop(f)
  <2>1. Sync!Idle.at = "idle"  BY DEF Sync!Idle
  <2> QED BY <1>1, <2>1, SyncIdleIs DEF Sync!Stop
<1>2. CASE \E r \in 1..Len(rs) : r \in Nat /\ Sync!Synchronized(f, r)
  <2>1. PICK r \in 1..Len(rs) : r \in Nat /\ Sync!Synchronized(f, r) BY <1>2
  <2>2. PICK k : k = [Sync!Idle EXCEPT !.at = "read", !.seen = r]  OBVIOUS
  <2>3. k.at = "read" /\ k.seen = r  BY <2>2 DEF Sync!Idle
  <2>4. k \in SyncAnyFlow BY <2>1, <2>2 DEF Sync!Idle, SyncAnyFlow
  <2>5. SyncFlowOK(rs, pa, n, k) BY <2>3 DEF SyncFlowOK
  <2> QED BY <2>1, <2>2, <2>3, <2>4, <2>5 DEF Sync!Synchronized
<1> QED BY <1>1, <1>2

\* A directory with new conflict files is the directory, and holds what it held but for
\* what they replace.
LEMMA SyncPreservedIs ==
  ASSUME Sync!BoundsAreNat, NEW x \in SyncAnyDir
  PROVE  /\ Sync!Preserved(x) \in SyncAnyDir /\ Sync!Preserved(x) # sync_None
         /\ Sync!Preserved(x).def = x.def /\ Sync!Preserved(x).rev = x.rev /\ Sync!Preserved(x).res = x.res
         /\ \A k \in Sync!Preserved(x).kept : k \in x.kept \/ k[2] = x.def
         /\ \A k \in x.kept : k \in Sync!Preserved(x).kept \/ k[1] = x.rev
<1> DEFINE K == {k \in x.kept : k[1] # x.rev} \cup {<<x.rev, x.def>>}
<1>1. K \in SUBSET ((Nat \cup {sync_None}) \X Nat) BY DEF SyncAnyDir
<1>2. /\ \A k \in K : k \in x.kept \/ k[2] = x.def
      /\ \A k \in x.kept : k \in K \/ k[1] = x.rev
  OBVIOUS
<1> HIDE DEF K
<1>3. PICK d : d = [x EXCEPT !.kept = K] OBVIOUS
<1>4. d \in SyncAnyDir /\ d.def = x.def /\ d.rev = x.rev /\ d.res = x.res /\ d.kept = K
  BY <1>1, <1>3 DEF SyncAnyDir
<1>5. Sync!Preserved(x) = d BY <1>3 DEF Sync!Preserved, K
<1> QED BY <1>2, <1>4, <1>5, SyncConstant

\* d is the directory x, perhaps with new conflict files.
SyncSame(x, d) == d = x \/ (x # sync_None /\ d = Sync!Preserved(x))

LEMMA SyncSameIs ==
  ASSUME Sync!BoundsAreNat, SyncIInv, NEW p \in Sync!Places, NEW d, SyncSame(dir[p], d)
  PROVE  /\ d \in SyncAnyDir \cup {sync_None} /\ (d = sync_None <=> dir[p] = sync_None)
         /\ d # sync_None => /\ d.def = dir[p].def /\ d.rev = dir[p].rev /\ d.res = dir[p].res
                             /\ \A k \in d.kept : k \in dir[p].kept \/ k[2] = d.def
         /\ SyncDirOK(revs, parent, edits, p, d)
         /\ Sync!Contents(d) \in SUBSET Sync!Definitions
         /\ \A e \in Sync!Contents(dir[p]) : e \in Sync!Contents(d) \/ e \in replaced
<1>1. /\ dir[p] \in SyncAnyDir \cup {sync_None} /\ SyncDirOK(revs, parent, edits, p, dir[p])
      /\ sync_None \notin SyncAnyDir /\ SyncKept(replaced, dir[p])
      /\ replaced \subseteq 0..edits /\ edits \in 0..MaxEdits /\ MaxEdits \in Nat
      /\ dir[p] # sync_None => dir[p].def \in 0..edits
  BY SyncFacts, SyncConstant DEF SyncIInv, SyncTyped, SyncHistory
<1>2. CASE dir[p] = sync_None
  <2>1. d = sync_None BY <1>2 DEF SyncSame
  <2> QED BY <1>1, <1>2, <2>1 DEF Sync!Contents, SyncDirOK
<1>3. CASE dir[p] # sync_None
  <2>1. /\ d \in SyncAnyDir /\ d # sync_None /\ d.def = dir[p].def /\ d.rev = dir[p].rev /\ d.res = dir[p].res
        /\ \A k \in d.kept : k \in dir[p].kept \/ k[2] = dir[p].def
        /\ \A k \in dir[p].kept : k \in d.kept \/ k[1] = dir[p].rev
    BY <1>1, <1>3, SyncPreservedIs DEF SyncSame
  <2>2. \A k \in d.kept : k[2] = d.def \/ k[2] \in replaced
    BY <1>1, <1>3, <2>1 DEF SyncKept
  <2>3. Sync!Contents(d) \in SUBSET Sync!Definitions
    <3>1. d.def \in Sync!Definitions /\ replaced \subseteq Sync!Definitions BY <1>1, <1>3, <2>1 DEF Sync!Definitions
    <3> QED BY <2>1, <2>2, <3>1 DEF Sync!Contents
  <2>4. \A e \in Sync!Contents(dir[p]) : e \in Sync!Contents(d) \/ e \in replaced
    <3>1. \A k \in dir[p].kept : k[2] = d.def \/ k[2] \in replaced BY <1>1, <1>3, <2>1 DEF SyncKept
    <3> QED BY <1>3, <2>1, <3>1 DEF Sync!Contents
  <2>5. SyncDirOK(revs, parent, edits, p, d) BY <1>1, <1>3, <2>1 DEF SyncDirOK, SyncBased
  <2> QED BY <1>1, <1>3, <2>1, <2>3, <2>4, <2>5
<1> QED BY <1>2, <1>3

\* Of the directories moved aside one is retained, the one of this publication.
LEMMA SyncAsideIs ==
  ASSUME Sync!BoundsAreNat, SyncIInv, NEW p \in Sync!Places, NEW d, Sync!Contents(d) \in SUBSET Sync!Definitions
  PROVE  LET s == Sync!MovedAside(p, d) IN
         /\ s \in Seq(SUBSET Sync!Definitions) /\ Sync!Retained(s) \in Seq(SUBSET Sync!Definitions)
         /\ Sync!Contents(d) # {} => /\ s # <<>> /\ s[Len(s)] = Sync!Contents(d)
                                     /\ Sync!Retained(s) # <<>>
                                     /\ Sync!Retained(s)[Len(Sync!Retained(s))] = Sync!Contents(d)
<1>1. PICK T : T = SUBSET Sync!Definitions OBVIOUS
<1>2. PICK c \in T : c = Sync!Contents(d) BY <1>1
<1>3. PICK a \in Seq(T) : a = aside[p] BY <1>1 DEF SyncIInv, SyncTyped
<1>4. PICK s : s = Sync!MovedAside(p, d) OBVIOUS
<1>5. s = IF p = "host" /\ d = sync_None THEN a ELSE Append(a, c)  BY <1>2, <1>3, <1>4 DEF Sync!MovedAside
<1>6. s \in Seq(T) BY <1>2, <1>3, <1>5
<1>7. c # {} => s # <<>> /\ s[Len(s)] = c
  <2>1. d = sync_None => c = {} BY <1>2 DEF Sync!Contents
  <2>2. Append(a, c) # <<>> /\ Append(a, c)[Len(Append(a, c))] = c BY <1>2, <1>3
  <2> QED BY <1>5, <2>1, <2>2
<1>8. s # <<>> => s[Len(s)] \in T BY <1>6
<1>9. PICK r : r = Sync!Retained(s) OBVIOUS
<1>10. r \in Seq(T) /\ (s # <<>> => r # <<>> /\ r[Len(r)] = s[Len(s)])
  <2>1. CASE s = <<>> BY <1>6, <1>9, <2>1 DEF Sync!Retained
  <2>2. CASE s # <<>>
    <3>1. PICK l \in T : l = s[Len(s)] BY <1>8, <2>2
    <3>2. r = <<l>> BY <1>9, <2>2, <3>1 DEF Sync!Retained
    <3> QED BY <3>1, <3>2
  <2> QED BY <2>1, <2>2
<1> QED BY <1>1, <1>2, <1>4, <1>6, <1>7, <1>9, <1>10

\* What is moved aside, or was edited again, is not lost.
SyncMovedAside(p) ==
  \A e \in Sync!Contents(dir[p]) :
    \/ e \in Sync!Contents(dir'[p]) \/ e \in replaced
    \/ aside'[p] # <<>> /\ e \in aside'[p][Len(aside'[p])]

\* A directory that comes into place, be it of the Hub or of the Host, or that does not.
LEMMA SyncSwapKeeps ==
  ASSUME Sync!BoundsAreNat, SyncIInv, NEW p \in Sync!Places, NEW r \in 1..Sync!Current,
         NEW d, SyncSame(dir[p], d),
         \/ Sync!Materialize(p, d, r) /\ crashes' = crashes
         \/ Sync!SwapFails(p, d) /\ crashes' = crashes
         \/ Sync!SwapCrashes(p, d, r)
  PROVE  /\ dir' \in [Sync!Places -> SyncAnyDir \cup {sync_None}]
         /\ \A q \in Sync!Places : SyncDirOK(revs, parent, edits, q, dir'[q])
         /\ \A q \in Sync!Places : q # p => dir'[q] = dir[q] /\ aside'[q] = aside[q]
         /\ aside' \in [Sync!Places -> Seq(SUBSET Sync!Definitions)]
         /\ crashes' \in Nat /\ (crashes' = 0 => crashes = 0)
         /\ dir'[p] # sync_None =>
              \/ dir'[p].def = revs[r] /\ dir'[p].rev = r /\ dir'[p].kept = {}
              \/ /\ dir[p] # sync_None /\ dir'[p].def = dir[p].def /\ dir'[p].rev = dir[p].rev
                 /\ \A k \in dir'[p].kept : k \in dir[p].kept \/ k[2] = dir'[p].def
         /\ SyncMovedAside(p)
         /\ crashes' = 0 => \A q \in Sync!Places : dir[q] # sync_None /\ dir[q].res =>
                               dir'[q] # sync_None /\ dir'[q].res
<1>0. /\ dir \in [Sync!Places -> SyncAnyDir \cup {sync_None}]
      /\ aside \in [Sync!Places -> Seq(SUBSET Sync!Definitions)] /\ crashes \in Nat
      /\ \A q \in Sync!Places : SyncDirOK(revs, parent, edits, q, dir[q])
  BY DEF SyncIInv, SyncTyped
<1>s. PICK s : s = Sync!MovedAside(p, d) OBVIOUS
<1>2. /\ d \in SyncAnyDir \cup {sync_None} /\ (d = sync_None <=> dir[p] = sync_None)
      /\ d # sync_None => /\ d.def = dir[p].def /\ d.rev = dir[p].rev /\ d.res = dir[p].res
                          /\ \A k \in d.kept : k \in dir[p].kept \/ k[2] = d.def
      /\ SyncDirOK(revs, parent, edits, p, d)
      /\ Sync!Contents(d) \in SUBSET Sync!Definitions
      /\ \A e \in Sync!Contents(dir[p]) : e \in Sync!Contents(d) \/ e \in replaced
  BY SyncSameIs
<1>3. /\ s \in Seq(SUBSET Sync!Definitions) /\ Sync!Retained(s) \in Seq(SUBSET Sync!Definitions)
      /\ Sync!Contents(d) # {} => /\ s # <<>> /\ s[Len(s)] = Sync!Contents(d)
                                  /\ Sync!Retained(s) # <<>>
                                  /\ Sync!Retained(s)[Len(Sync!Retained(s))] = Sync!Contents(d)
  BY <1>s, <1>2, SyncAsideIs
<1>4. PICK n : n = Sync!Directory(revs[r], r, dir[p] # sync_None /\ dir[p].res) OBVIOUS
<1>5. /\ n \in SyncAnyDir /\ n # sync_None /\ n.def = revs[r] /\ n.rev = r /\ n.kept = {}
      /\ n.res = (dir[p] # sync_None /\ dir[p].res)
      /\ SyncDirOK(revs, parent, edits, p, n)
  <2>1. PICK res \in BOOLEAN : res = (dir[p] # sync_None /\ dir[p].res) BY SyncFacts
  <2>2. edits \in Nat /\ SyncRevsOK(revs, parent, edits) /\ r \in 1..Len(revs) BY SyncFacts DEF Sync!Current
  <2>3. n = Sync!Directory(revs[r], r, res) BY <1>4, <2>1
  <2>4. /\ n \in SyncAnyDir /\ n # sync_None /\ n.def = revs[r] /\ n.rev = r /\ n.res = res /\ n.kept = {}
        /\ \A q : SyncDirOK(revs, parent, edits, q, n)
    BY <2>2, <2>3, SyncDirectoryIs
  <2> QED BY <2>1, <2>4
<1>6. PICK x, a : /\ dir' = [dir EXCEPT ![p] = x] /\ aside' = [aside EXCEPT ![p] = a]
                  /\ \/ x = n /\ a \in {s, Sync!Retained(s)}
                     \/ x = d /\ a = aside[p]
                     \/ x = sync_None /\ a = s /\ crashes' # 0
                  /\ crashes' \in Nat /\ (crashes' = 0 => crashes = 0)
  <2>0. aside = [aside EXCEPT ![p] = aside[p]] BY <1>0
  <2>1. Sync!Published(p, r) = [dir EXCEPT ![p] = n] BY <1>4 DEF Sync!Published
  <2>2. CASE Sync!Materialize(p, d, r) /\ crashes' = crashes
    <3>1. dir' = [dir EXCEPT ![p] = n] /\ aside' = [aside EXCEPT ![p] = Sync!Retained(s)]
      BY <1>s, <2>1, <2>2 DEF Sync!Materialize
    <3> QED BY <1>0, <2>2, <3>1
  <2>3. CASE Sync!SwapFails(p, d) /\ crashes' = crashes
    <3>1. dir' = [dir EXCEPT ![p] = d] /\ aside' = [aside EXCEPT ![p] = aside[p]]
      BY <2>0, <2>3 DEF Sync!SwapFails
    <3> QED BY <1>0, <2>3, <3>1
  <2>4. CASE Sync!SwapCrashes(p, d, r)
    <3>1. crashes' = crashes + 1 /\ crashes' \in Nat /\ crashes' # 0 BY <1>0, <2>4 DEF Sync!SwapCrashes
    <3>2. \/ dir' = [dir EXCEPT ![p] = d] /\ aside' = [aside EXCEPT ![p] = aside[p]]
          \/ dir' = [dir EXCEPT ![p] = sync_None] /\ aside' = [aside EXCEPT ![p] = s]
          \/ dir' = [dir EXCEPT ![p] = n] /\ aside' = [aside EXCEPT ![p] = s]
      BY <1>s, <2>0, <2>1, <2>4 DEF Sync!SwapCrashes
    <3> QED BY <3>1, <3>2
  <2> QED BY <2>2, <2>3, <2>4
<1>7. /\ dir'[p] = x /\ aside'[p] = a
      /\ \A q \in Sync!Places : q # p => dir'[q] = dir[q] /\ aside'[q] = aside[q]
  BY <1>0, <1>6
<1>8. x \in SyncAnyDir \cup {sync_None} /\ SyncDirOK(revs, parent, edits, p, x)
  BY <1>2, <1>5, <1>6 DEF SyncDirOK
<1>9. a \in Seq(SUBSET Sync!Definitions) BY <1>0, <1>3, <1>6
<1>10. dir' \in [Sync!Places -> SyncAnyDir \cup {sync_None}]
       /\ aside' \in [Sync!Places -> Seq(SUBSET Sync!Definitions)]
  BY <1>0, <1>6, <1>8, <1>9
<1>11. \A q \in Sync!Places : SyncDirOK(revs, parent, edits, q, dir'[q]) BY <1>0, <1>7, <1>8
<1>12. x # sync_None =>
         \/ x.def = revs[r] /\ x.rev = r /\ x.kept = {}
         \/ /\ dir[p] # sync_None /\ x.def = dir[p].def /\ x.rev = dir[p].rev
            /\ \A k \in x.kept : k \in dir[p].kept \/ k[2] = x.def
  BY <1>2, <1>5, <1>6
<1>13. SyncMovedAside(p)
  <2>1. CASE x = d BY <1>2, <1>7, <2>1 DEF SyncMovedAside
  <2>2. CASE a \in {s, Sync!Retained(s)}
    <3>1. ASSUME NEW e \in Sync!Contents(dir[p]), e \notin replaced
          PROVE  a # <<>> /\ e \in a[Len(a)]
      <4>1. e \in Sync!Contents(d) BY <1>2, <3>1
      <4> QED BY <1>3, <2>2, <4>1
    <3> QED BY <1>7, <3>1 DEF SyncMovedAside
  <2> QED BY <1>6, <2>1, <2>2
<1>14. crashes' = 0 => \A q \in Sync!Places : dir[q] # sync_None /\ dir[q].res =>
                          dir'[q] # sync_None /\ dir'[q].res
  BY <1>2, <1>5, <1>6, <1>7
<1> QED BY <1>6, <1>7, <1>10, <1>11, <1>12, <1>13, <1>14

\* Such a step moves the definitions as it should, if what was in the directory was the
\* revision it replaces, another one, or overtaken.
LEMMA SyncSwapMoves ==
  ASSUME Sync!BoundsAreNat, SyncIInv, NEW p \in Sync!Places, NEW r \in 1..Sync!Current,
         NEW d, SyncSame(dir[p], d),
         \/ Sync!Materialize(p, d, r) /\ crashes' = crashes
         \/ Sync!SwapFails(p, d) /\ crashes' = crashes
         \/ Sync!SwapCrashes(p, d, r),
         revs' = revs,
         \A f \in Flows : flow'[f].at = "decide" => flow'[f] = flow[f],
         crashes' = 0 /\ dir[p] # sync_None =>
            SyncRevision(revs, dir[p].def) \/ SyncOvertaken(revs, parent, dir[p].def)
  PROVE  SyncMoves
<1>1. /\ \A q \in Sync!Places : q # p => dir'[q] = dir[q]
      /\ dir'[p] # sync_None =>
           \/ dir'[p].def = revs[r] /\ dir'[p].rev = r /\ dir'[p].kept = {}
           \/ /\ dir[p] # sync_None /\ dir'[p].def = dir[p].def /\ dir'[p].rev = dir[p].rev
              /\ \A k \in dir'[p].kept : k \in dir[p].kept \/ k[2] = dir'[p].def
  BY SyncSwapKeeps
<1>2. SyncRevision(revs, revs[r]) BY DEF SyncRevision, Sync!Current
<1>3. "hub" \in Sync!Places  BY DEF Sync!Places
<1>4. dir'["hub"] # sync_None =>
        \/ dir'["hub"].def = revs[dir'["hub"].rev]
        \/ dir["hub"] # sync_None /\ dir'["hub"].def = dir["hub"].def /\ dir'["hub"].rev = dir["hub"].rev
  BY <1>1, <1>3
<1> QED BY <1>1, <1>2, <1>4 DEF SyncMoves

\* synchronize_agent, where a file or the marker is missing.
LEMMA SyncIncompleteKeeps ==
  ASSUME Sync!BoundsAreNat, SyncIInv, NEW f \in Flows, Sync!Incomplete(f), UNCHANGED <<parent, replaced, owned, edits>>
  PROVE  SyncIInv'
<1>1. /\ revs' = revs /\ flow \in [Flows -> SyncAnyFlow]
      /\ \A g \in Flows : SyncFlowOK(revs, parent, edits, flow[g])
      /\ dir \in [Sync!Places -> SyncAnyDir \cup {sync_None}]
      /\ aside \in [Sync!Places -> Seq(SUBSET Sync!Definitions)]
  BY DEF Sync!Incomplete, SyncIInv, SyncTyped
<1>2. /\ flow' \in [Flows -> SyncAnyFlow] /\ \A g \in Flows : SyncFlowOK(revs', parent, edits, flow'[g])
      /\ \A g \in Flows : flow'[g].at = "decide" => flow'[g] = flow[g]
  <2>1. Sync!Stop(f) \/ \E r \in 1..Len(revs) : r \in Nat /\ Sync!Synchronized(f, r)
    BY SyncFacts DEF Sync!Incomplete, Sync!Current
  <2> QED BY <1>1, <2>1, SyncFlowKeeps
<1>3. CASE Sync!SurvivingEdit
  <2>1. dir' = dir /\ aside' = aside /\ crashes' = crashes BY <1>3 DEF Sync!Incomplete
  <2>2. SyncMoves BY <1>1, <1>2, <2>1, SyncRestsMoves
  <2> QED BY <1>1, <1>2, <2>1, <2>2, SyncFacts, SyncStepKeeps
<1>4. CASE ~Sync!SurvivingEdit
  <2>1. \/ Sync!Materialize("hub", dir["hub"], Sync!Current) /\ crashes' = crashes
        \/ Sync!SwapFails("hub", dir["hub"]) /\ crashes' = crashes
    BY <1>4 DEF Sync!Incomplete, Sync!HubDir
  <2>2. /\ dir' \in [Sync!Places -> SyncAnyDir \cup {sync_None}]
        /\ \A q \in Sync!Places : SyncDirOK(revs, parent, edits, q, dir'[q])
        /\ aside' \in [Sync!Places -> Seq(SUBSET Sync!Definitions)]
        /\ crashes' \in Nat /\ (crashes' = 0 => crashes = 0)
        /\ crashes' = 0 => \A q \in Sync!Places : dir[q] # sync_None /\ dir[q].res =>
                              dir'[q] # sync_None /\ dir'[q].res
    BY <2>1, SyncFacts, SyncSwapKeeps DEF SyncSame
  <2>3. dir["hub"] # sync_None => SyncRevision(revs, dir["hub"].def)
    <3>1. dir["hub"] # sync_None => dir["hub"].def = revs[Sync!Current]
      BY <1>4 DEF Sync!Incomplete, Sync!SurvivingEdit, Sync!Whole, Sync!HubDir
    <3> QED BY <3>1, SyncFacts DEF SyncRevision, Sync!Current
  <2>4. SyncMoves BY <1>1, <1>2, <2>1, <2>3, SyncFacts, SyncSwapMoves DEF SyncSame
  <2> QED BY <1>1, <1>2, <2>2, <2>4, SyncStepKeeps
<1> QED BY <1>3, <1>4

\* The Hub's copy with another marker keeps its definition.
LEMMA SyncMarkerKeeps ==
  ASSUME Sync!BoundsAreNat, SyncIInv, NEW r \in Nat, dir["hub"] # sync_None, dir' = [dir EXCEPT !["hub"].rev = r]
  PROVE  /\ dir' \in [Sync!Places -> SyncAnyDir \cup {sync_None}]
         /\ \A q \in Sync!Places : q # "hub" => dir'[q] = dir[q]
         /\ dir'["hub"] # sync_None /\ dir'["hub"].rev = r
         /\ dir'["hub"].def = dir["hub"].def /\ dir'["hub"].res = dir["hub"].res
         /\ dir'["hub"].kept = dir["hub"].kept
<1>1. dir \in [Sync!Places -> SyncAnyDir \cup {sync_None}] /\ "hub" \in Sync!Places /\ dir["hub"] \in SyncAnyDir /\ sync_None \notin SyncAnyDir
  BY SyncFacts DEF SyncIInv, SyncTyped
<1>2. PICK d : d = [dir["hub"] EXCEPT !.rev = r]  OBVIOUS
<1>3. d \in SyncAnyDir /\ d.rev = r /\ d.def = dir["hub"].def /\ d.res = dir["hub"].res /\ d.kept = dir["hub"].kept
  BY <1>1, <1>2 DEF SyncAnyDir
<1>4. dir' = [dir EXCEPT !["hub"] = d]  BY <1>2
<1> QED BY <1>1, <1>3, <1>4

\* synchronize_agent, where the marker is missing.
LEMMA SyncNoMarkerKeeps ==
  ASSUME Sync!BoundsAreNat, SyncIInv, NEW f \in Flows, Sync!NoMarker(f), UNCHANGED <<parent, replaced, owned, edits>>
  PROVE  SyncIInv'
<1>1. /\ revs' = revs /\ crashes' = crashes /\ aside' = aside /\ flow \in [Flows -> SyncAnyFlow]
      /\ \A g \in Flows : SyncFlowOK(revs, parent, edits, flow[g])
      /\ dir \in [Sync!Places -> SyncAnyDir \cup {sync_None}] /\ dir["hub"] # sync_None
      /\ dir["hub"].rev = sync_None
      /\ aside \in [Sync!Places -> Seq(SUBSET Sync!Definitions)]
  BY DEF Sync!NoMarker, SyncIInv, SyncTyped, Sync!Whole, Sync!HubDir
<1>2. /\ flow' \in [Flows -> SyncAnyFlow] /\ \A g \in Flows : SyncFlowOK(revs', parent, edits, flow'[g])
      /\ \A g \in Flows : flow'[g].at = "decide" => flow'[g] = flow[g]
  <2>1. Sync!Stop(f) \/ \E r \in 1..Len(revs) : r \in Nat /\ Sync!Synchronized(f, r)
    BY SyncFacts DEF Sync!NoMarker, Sync!Current
  <2> QED BY <1>1, <2>1, SyncFlowKeeps
<1>3. CASE Sync!HubDir.def = revs[Sync!Current]
  <2>1. dir' = [dir EXCEPT !["hub"].rev = Sync!Current]  BY <1>3 DEF Sync!NoMarker
  <2>2. /\ dir' \in [Sync!Places -> SyncAnyDir \cup {sync_None}]
        /\ \A q \in Sync!Places : q # "hub" => dir'[q] = dir[q]
        /\ dir'["hub"] # sync_None /\ dir'["hub"].rev = Sync!Current
        /\ dir'["hub"].def = dir["hub"].def /\ dir'["hub"].res = dir["hub"].res
        /\ dir'["hub"].kept = dir["hub"].kept
    BY <1>1, <2>1, SyncFacts, SyncMarkerKeeps
  <2>3. SyncDirOK(revs, parent, edits, "hub", dir'["hub"])
    BY <1>3, <2>2, SyncFacts DEF SyncDirOK, SyncBased, Sync!Current, Sync!HubDir
  <2>4. \A q \in Sync!Places : SyncDirOK(revs', parent, edits, q, dir'[q]) BY <1>1, <2>2, <2>3, SyncFacts
  <2>5. dir'["hub"].def = revs'[dir'["hub"].rev]  BY <1>1, <1>3, <2>2 DEF Sync!HubDir
  <2>6. SyncMoves BY <1>1, <1>2, <2>2, <2>5 DEF SyncMoves
  <2> QED BY <1>1, <1>2, <2>2, <2>4, <2>6, SyncFacts, SyncStepKeeps
<1>4. CASE Sync!HubDir.def # revs[Sync!Current]
  <2>1. PICK d : d = Sync!Preserved(dir["hub"])  OBVIOUS
  <2>2. /\ d \in SyncAnyDir /\ d # sync_None /\ d.def = dir["hub"].def /\ d.rev = dir["hub"].rev
        /\ d.res = dir["hub"].res /\ SyncDirOK(revs, parent, edits, "hub", d)
        /\ \A k \in d.kept : k \in dir["hub"].kept \/ k[2] = d.def
    BY <1>1, <2>1, SyncFacts, SyncSameIs DEF SyncSame
  <2>3. dir' = [dir EXCEPT !["hub"] = d]  BY <1>4, <2>1 DEF Sync!NoMarker, Sync!HubDir
  <2>4. /\ dir' \in [Sync!Places -> SyncAnyDir \cup {sync_None}] /\ dir'["hub"] = d
        /\ \A q \in Sync!Places : q # "hub" => dir'[q] = dir[q]
    BY <1>1, <2>2, <2>3, SyncFacts
  <2>5. \A q \in Sync!Places : SyncDirOK(revs', parent, edits, q, dir'[q]) BY <1>1, <2>2, <2>4, SyncFacts
  <2>6. SyncMoves BY <1>1, <1>2, <2>2, <2>4 DEF SyncMoves
  <2> QED BY <1>1, <1>2, <2>2, <2>4, <2>5, <2>6, SyncFacts, SyncStepKeeps
<1> QED BY <1>3, <1>4

\* What is replaced in an outdated directory is the revision of its marker, or an edit of
\* it that another one overtook.
LEMMA SyncOutdatedIs ==
  ASSUME Sync!BoundsAreNat, SyncIInv, crashes = 0, Sync!HasMarker, Sync!HubDir.rev < Sync!Current
  PROVE  SyncRevision(revs, dir["hub"].def) \/ SyncOvertaken(revs, parent, dir["hub"].def)
<1>1. dir["hub"] # sync_None /\ dir["hub"].rev # sync_None  BY DEF Sync!HasMarker, Sync!Whole, Sync!HubDir
<1>2. dir["hub"].rev \in 1..Sync!Current /\ Sync!Current \in Nat /\ SyncRevsOK(revs, parent, edits)  BY <1>1, SyncFacts
<1>3. CASE dir["hub"].def = revs[dir["hub"].rev]  BY <1>2, <1>3 DEF SyncRevision, Sync!Current
<1>4. CASE dir["hub"].def # revs[dir["hub"].rev]
  <2>1. parent[dir["hub"].def] = revs[dir["hub"].rev]
    BY <1>1, <1>4 DEF SyncIInv, SyncHistory, SyncMarked
  <2>2. PICK m \in 1..Sync!Current : m = dir["hub"].rev /\ m < Sync!Current  BY <1>2 DEF Sync!HubDir
  <2>3. m + 1 \in 2..Len(revs) /\ (m + 1) - 1 = m BY <1>2, <2>2 DEF Sync!Current
  <2>4. parent[revs[m + 1]] = revs[m] BY <1>2, <2>3 DEF SyncRevsOK
  <2> QED BY <2>1, <2>2, <2>3, <2>4 DEF SyncOvertaken
<1> QED BY <1>3, <1>4

\* What is written before the directory is replaced does not change it otherwise.
LEMMA SyncReplaceableIs == SyncSame(dir["hub"], Sync!Replaceable)
  BY DEF SyncSame, Sync!Replaceable, Sync!Conflicting, Sync!HasMarker, Sync!Whole, Sync!HubDir

\* synchronize_agent, where the copy is of an older revision.
LEMMA SyncOutdatedKeeps ==
  ASSUME Sync!BoundsAreNat, SyncIInv, NEW f \in Flows, Sync!Outdated(f), UNCHANGED <<parent, replaced, owned, edits>>
  PROVE  SyncIInv'
<1>1. /\ revs' = revs /\ flow \in [Flows -> SyncAnyFlow]
      /\ \A g \in Flows : SyncFlowOK(revs, parent, edits, flow[g])
      /\ Sync!HasMarker /\ Sync!HubDir.rev < Sync!Current
  BY DEF Sync!Outdated, SyncIInv, SyncTyped
<1>2. /\ flow' \in [Flows -> SyncAnyFlow] /\ \A g \in Flows : SyncFlowOK(revs', parent, edits, flow'[g])
      /\ \A g \in Flows : flow'[g].at = "decide" => flow'[g] = flow[g]
  <2>1. Sync!Stop(f) \/ \E r \in 1..Len(revs) : r \in Nat /\ Sync!Synchronized(f, r)
    BY SyncFacts DEF Sync!Outdated, Sync!Current
  <2> QED BY <1>1, <2>1, SyncFlowKeeps
<1>3. PICK d : d = Sync!Replaceable OBVIOUS
<1>4. /\ \/ Sync!Materialize("hub", d, Sync!Current) /\ crashes' = crashes
         \/ Sync!SwapFails("hub", d) /\ crashes' = crashes
      /\ SyncSame(dir["hub"], d)
  BY <1>3, SyncReplaceableIs DEF Sync!Outdated
<1>5. /\ dir' \in [Sync!Places -> SyncAnyDir \cup {sync_None}]
      /\ \A q \in Sync!Places : SyncDirOK(revs, parent, edits, q, dir'[q])
      /\ aside' \in [Sync!Places -> Seq(SUBSET Sync!Definitions)]
      /\ crashes' \in Nat /\ (crashes' = 0 => crashes = 0)
      /\ crashes' = 0 => \A q \in Sync!Places : dir[q] # sync_None /\ dir[q].res =>
                            dir'[q] # sync_None /\ dir'[q].res
  BY <1>4, SyncFacts, SyncSwapKeeps
<1>6. crashes' = 0 => SyncRevision(revs, dir["hub"].def) \/ SyncOvertaken(revs, parent, dir["hub"].def)
  BY <1>1, <1>5, SyncOutdatedIs
<1>7. SyncMoves BY <1>1, <1>2, <1>4, <1>6, SyncFacts, SyncSwapMoves
<1> QED BY <1>1, <1>2, <1>5, <1>7, SyncStepKeeps

\* A directory or a copy of the current revision that was edited is taken up.
LEMMA SyncUpdateKeeps ==
  ASSUME Sync!BoundsAreNat, SyncIInv, NEW p, NEW d, SyncDirOK(revs, parent, edits, p, d), d # sync_None,
         d.rev = Sync!Current, d.def # revs[Sync!Current], Sync!UpdateAgent(d.def, Sync!Current)
  PROVE  /\ d.def \in 1..edits /\ parent[d.def] = revs[Sync!Current] /\ revs' = Append(revs, d.def)
         /\ Len(revs') = Sync!Current + 1 /\ revs'[Sync!Current + 1] = d.def
         /\ SyncRevsOK(revs', parent, edits)
         /\ SyncRevision(revs', d.def)
         /\ \A e : SyncRevision(revs', e) => SyncRevision(revs, e) \/ e = d.def
         /\ \A q \in Sync!Places : SyncDirOK(revs', parent, edits, q, dir[q])
         /\ \A g \in Flows : SyncFlowOK(revs', parent, edits, flow[g])
<1>1. edits \in Nat /\ SyncRevsOK(revs, parent, edits) BY SyncFacts
<1>2. d.def \in 1..edits /\ parent[d.def] = revs[Len(revs)] /\ revs' = Append(revs, d.def)
  BY DEF SyncDirOK, SyncBased, Sync!UpdateAgent, Sync!Current
<1>3. parent[d.def] < d.def BY <1>2 DEF SyncIInv, SyncParents
<1>4. PICK def \in 1..edits : def = d.def BY <1>2
<1>5. /\ SyncRevsOK(revs', parent, edits) /\ Len(revs') = Len(revs) + 1
      /\ revs'[Len(revs) + 1] = d.def
  BY <1>1, <1>2, <1>3, <1>4, SyncAppendRevs
<1>6. /\ \A q, x : SyncDirOK(revs, parent, edits, q, x) => SyncDirOK(revs', parent, edits, q, x)
      /\ \A k : SyncFlowOK(revs, parent, edits, k) => SyncFlowOK(revs', parent, edits, k)
  BY <1>1, <1>2, <1>3, <1>4, SyncAppendKeeps
<1>7. \A i \in 1..Len(revs') : i = Len(revs') \/ (i \in 1..Len(revs) /\ revs'[i] = revs[i])
  <2>1. Len(revs) \in Nat /\ \A i \in 1..Len(revs) : revs'[i] = revs[i]
    BY <1>1, <1>2, <1>3, <1>4, SyncAppendRevs, SyncRevsAre
  <2> QED BY <1>5, <2>1
<1>8. SyncRevision(revs', d.def) /\ \A e : SyncRevision(revs', e) => SyncRevision(revs, e) \/ e = d.def
  <2>1. Len(revs) + 1 \in 1..Len(revs') BY <1>1, <1>5, SyncRevsAre
  <2> QED BY <1>5, <1>7, <2>1 DEF SyncRevision
<1> QED BY <1>2, <1>5, <1>6, <1>8 DEF SyncIInv, Sync!Current

\* synchronize_agent, where the copy is of the current revision.
LEMMA SyncUpToDateKeeps ==
  ASSUME Sync!BoundsAreNat, SyncIInv, NEW f \in Flows, Sync!UpToDate(f), UNCHANGED <<parent, replaced, owned, edits>>
  PROVE  SyncIInv'
<1>1. /\ aside' = aside /\ crashes' = crashes /\ flow \in [Flows -> SyncAnyFlow]
      /\ \A g \in Flows : SyncFlowOK(revs, parent, edits, flow[g])
      /\ dir \in [Sync!Places -> SyncAnyDir \cup {sync_None}] /\ aside \in [Sync!Places -> Seq(SUBSET Sync!Definitions)]
      /\ dir["hub"] # sync_None /\ dir["hub"].rev = Sync!Current
  BY DEF Sync!UpToDate, SyncIInv, SyncTyped, Sync!HasMarker, Sync!Whole, Sync!HubDir
<1>2. CASE Sync!HubDir.def # revs[Sync!Current]
  <2>1. /\ Sync!UpdateAgent(Sync!HubDir.def, Sync!Current) /\ Sync!Synchronized(f, Sync!Current + 1)
        /\ dir' = [dir EXCEPT !["hub"].rev = Sync!Current + 1]
    BY <1>2 DEF Sync!UpToDate
  <2>2. PICK d : d = dir["hub"]  OBVIOUS
  <2>3. d # sync_None /\ d.rev = Sync!Current /\ d.def # revs[Sync!Current] /\ SyncDirOK(revs, parent, edits, "hub", d)
        /\ Sync!UpdateAgent(d.def, Sync!Current)
    BY <1>1, <1>2, <2>1, <2>2, SyncFacts DEF Sync!HubDir
  <2>4. /\ d.def \in 1..edits /\ parent[d.def] = revs[Sync!Current] /\ revs' = Append(revs, d.def)
        /\ Len(revs') = Sync!Current + 1 /\ revs'[Sync!Current + 1] = d.def
        /\ SyncRevsOK(revs', parent, edits) /\ SyncRevision(revs', d.def)
        /\ \A q \in Sync!Places : SyncDirOK(revs', parent, edits, q, dir[q])
        /\ \A g \in Flows : SyncFlowOK(revs', parent, edits, flow[g])
    BY <2>3, SyncUpdateKeeps
  <2>5. Sync!Current + 1 \in Nat /\ Sync!Current + 1 \in 1..Len(revs') BY <2>4, SyncFacts
  <2>6. /\ dir' \in [Sync!Places -> SyncAnyDir \cup {sync_None}]
        /\ \A q \in Sync!Places : q # "hub" => dir'[q] = dir[q]
        /\ dir'["hub"] # sync_None /\ dir'["hub"].rev = Sync!Current + 1
        /\ dir'["hub"].def = dir["hub"].def /\ dir'["hub"].res = dir["hub"].res
        /\ dir'["hub"].kept = dir["hub"].kept
    BY <1>1, <2>1, <2>5, SyncMarkerKeeps
  <2>7. SyncDirOK(revs', parent, edits, "hub", dir'["hub"])
    BY <2>2, <2>4, <2>5, <2>6, SyncFacts DEF SyncDirOK, SyncBased
  <2>8. \A q \in Sync!Places : SyncDirOK(revs', parent, edits, q, dir'[q]) BY <2>4, <2>6, <2>7
  <2>9. /\ flow' \in [Flows -> SyncAnyFlow] /\ \A g \in Flows : SyncFlowOK(revs', parent, edits, flow'[g])
        /\ \A g \in Flows : flow'[g].at = "decide" => flow'[g] = flow[g]
    BY <1>1, <2>1, <2>4, <2>5, SyncFlowKeeps
  <2>10. \A p \in Sync!Places : dir[p] # sync_None => dir'[p] # sync_None /\ dir'[p].def = dir[p].def /\ dir'[p].res = dir[p].res
    BY <2>6
  <2>11. SyncMoves
    <3>1. dir'["hub"].def = revs'[dir'["hub"].rev]  BY <2>2, <2>4, <2>6
    <3> QED BY <1>1, <2>6, <2>9, <3>1 DEF SyncMoves
  <2> QED BY <1>1, <2>4, <2>6, <2>8, <2>9, <2>10, <2>11, SyncFacts, SyncStepKeeps
<1>3. CASE Sync!HubDir.def = revs[Sync!Current]
  <2>1. revs' = revs /\ dir' = dir /\ Sync!Synchronized(f, Sync!Current) BY <1>3 DEF Sync!UpToDate
  <2>2. /\ flow' \in [Flows -> SyncAnyFlow] /\ \A g \in Flows : SyncFlowOK(revs', parent, edits, flow'[g])
        /\ \A g \in Flows : flow'[g].at = "decide" => flow'[g] = flow[g]
    <3>1. Sync!Current \in 1..Len(revs) /\ Sync!Current \in Nat BY SyncFacts DEF Sync!Current
    <3> QED BY <1>1, <2>1, <3>1, SyncFlowKeeps
  <2>3. SyncMoves BY <1>1, <2>1, <2>2, SyncRestsMoves
  <2> QED BY <1>1, <2>1, <2>2, <2>3, SyncFacts, SyncStepKeeps
<1> QED BY <1>2, <1>3

\* The Hub stops within a synchronisation.
LEMMA SyncHubCrashKeeps == ASSUME Sync!BoundsAreNat, SyncIInv, Sync!HubCrash PROVE SyncIInv'
<1>1. /\ UNCHANGED <<parent, replaced, owned, edits>> /\ flow' = [f \in Flows |-> Sync!Idle]
      /\ \/ /\ Sync!HasMarker /\ Sync!HubDir.rev = Sync!Current /\ Sync!HubDir.def # revs[Sync!Current]
            /\ Sync!UpdateAgent(Sync!HubDir.def, Sync!Current)
            /\ crashes' = crashes + 1 /\ UNCHANGED <<dir, aside>>
         \/ Sync!SwapCrashes("hub", Sync!Replaceable, Sync!Current) /\ UNCHANGED revs
  BY DEF Sync!HubCrash
<1>2. /\ flow' \in [Flows -> SyncAnyFlow] /\ \A rs : \A g \in Flows : SyncFlowOK(rs, parent, edits, flow'[g])
      /\ \A g \in Flows : flow'[g].at # "decide"
      /\ dir \in [Sync!Places -> SyncAnyDir \cup {sync_None}]
      /\ aside \in [Sync!Places -> Seq(SUBSET Sync!Definitions)]
  <2>1. Sync!Idle.at = "idle"  BY DEF Sync!Idle
  <2> QED BY <1>1, <2>1, SyncIdleIs DEF SyncIInv, SyncTyped
<1>3. CASE /\ Sync!HasMarker /\ Sync!HubDir.rev = Sync!Current /\ Sync!HubDir.def # revs[Sync!Current]
           /\ Sync!UpdateAgent(Sync!HubDir.def, Sync!Current)
           /\ crashes' = crashes + 1 /\ UNCHANGED <<dir, aside>>
  <2>1. PICK d : d = dir["hub"]  OBVIOUS
  <2>2. d # sync_None /\ d.rev = Sync!Current /\ d.def # revs[Sync!Current] /\ SyncDirOK(revs, parent, edits, "hub", d)
        /\ Sync!UpdateAgent(d.def, Sync!Current)
    BY <1>3, <2>1, SyncFacts DEF Sync!HubDir, Sync!HasMarker, Sync!Whole
  <2>3. /\ d.def \in 1..edits /\ parent[d.def] = revs[Sync!Current] /\ revs' = Append(revs, d.def)
        /\ \A q \in Sync!Places : SyncDirOK(revs', parent, edits, q, dir[q])
    BY <2>2, SyncUpdateKeeps
  <2>4. crashes' \in Nat /\ crashes' # 0 /\ dir' = dir /\ aside' = aside BY <1>3, SyncFacts
  <2>5. SyncMoves BY <1>2, <2>4 DEF SyncMoves
  <2> QED BY <1>1, <1>2, <2>3, <2>4, <2>5, SyncFacts, SyncStepKeeps
<1>4. CASE Sync!SwapCrashes("hub", Sync!Replaceable, Sync!Current) /\ UNCHANGED revs
  <2>1. PICK d : d = Sync!Replaceable OBVIOUS
  <2>2. SyncSame(dir["hub"], d) /\ Sync!SwapCrashes("hub", d, Sync!Current)
    BY <1>4, <2>1, SyncReplaceableIs
  <2>3. /\ dir' \in [Sync!Places -> SyncAnyDir \cup {sync_None}]
        /\ \A q \in Sync!Places : SyncDirOK(revs, parent, edits, q, dir'[q])
        /\ aside' \in [Sync!Places -> Seq(SUBSET Sync!Definitions)]
        /\ crashes' \in Nat /\ crashes' # 0
    <3>1. crashes' # 0 BY <2>2, SyncFacts DEF Sync!SwapCrashes
    <3> QED BY <2>2, <3>1, SyncFacts, SyncSwapKeeps
  <2>4. SyncMoves BY <1>2, <1>4, <2>2, <2>3, SyncFacts, SyncSwapMoves
  <2> QED BY <1>1, <1>2, <1>4, <2>3, <2>4, SyncStepKeeps
<1> QED BY <1>1, <1>3, <1>4

\* Someone loses a file of the Hub's copy.
LEMMA SyncDamageKeeps == ASSUME Sync!BoundsAreNat, SyncIInv, Sync!Damage PROVE SyncIInv'
<1>1. /\ UNCHANGED <<revs, aside, flow, parent, replaced, owned, edits, crashes>>
      /\ dir["hub"] # sync_None
      /\ \/ dir' = [dir EXCEPT !["hub"].complete = FALSE]
         \/ dir' = [dir EXCEPT !["hub"].rev = sync_None]
  BY DEF Sync!Damage
<1>2. /\ flow \in [Flows -> SyncAnyFlow] /\ \A g \in Flows : SyncFlowOK(revs, parent, edits, flow[g])
      /\ dir \in [Sync!Places -> SyncAnyDir \cup {sync_None}] /\ aside \in [Sync!Places -> Seq(SUBSET Sync!Definitions)]
  BY DEF SyncIInv, SyncTyped
<1>4. PICK x : /\ x = [dir["hub"] EXCEPT !.complete = FALSE] \/ x = [dir["hub"] EXCEPT !.rev = sync_None]
               /\ dir' = [dir EXCEPT !["hub"] = x]
  BY <1>1
<1>5. dir["hub"] \in SyncAnyDir  BY <1>1, SyncFacts
<1>6. x \in SyncAnyDir /\ x.def = dir["hub"].def /\ x.res = dir["hub"].res /\ x.rev \in {dir["hub"].rev, sync_None}
      /\ x.kept = dir["hub"].kept
  <2>1. CASE x = [dir["hub"] EXCEPT !.complete = FALSE]  BY <1>5, <2>1 DEF SyncAnyDir
  <2>2. CASE x = [dir["hub"] EXCEPT !.rev = sync_None]  BY <1>5, <2>2 DEF SyncAnyDir
  <2> QED BY <1>4, <2>1, <2>2
<1>7. dir' \in [Sync!Places -> SyncAnyDir \cup {sync_None}] /\ dir'["hub"] = x /\ x # sync_None
      /\ \A q \in Sync!Places : q # "hub" => dir'[q] = dir[q]
  BY <1>2, <1>4, <1>6, SyncFacts
<1>8. SyncDirOK(revs, parent, edits, "hub", x)
  <2>1. SyncDirOK(revs, parent, edits, "hub", dir["hub"]) /\ Len(revs) \in Nat /\ sync_None \notin Nat
    BY SyncFacts DEF Sync!Current
  <2> QED BY <1>1, <1>6, <2>1 DEF SyncDirOK, SyncBased
<1>9. \A q \in Sync!Places : SyncDirOK(revs', parent, edits, q, dir'[q]) BY <1>1, <1>7, <1>8, SyncFacts
<1>10. \A p \in Sync!Places : dir[p] # sync_None =>
          dir'[p] # sync_None /\ dir'[p].def = dir[p].def /\ dir'[p].res = dir[p].res
  BY <1>6, <1>7
<1>11. SyncMoves BY <1>1, <1>6, <1>7 DEF SyncMoves
<1> QED BY <1>1, <1>2, <1>7, <1>9, <1>10, <1>11, SyncFacts, SyncStepKeeps

\* synchronize_agent_on: a task reads the Host's copy.
LEMMA SyncReadKeeps == ASSUME Sync!BoundsAreNat, SyncIInv, NEW f \in Flows, Sync!ReadAgentReplica(f) PROVE SyncIInv'
<1>1. /\ UNCHANGED <<revs, dir, aside, parent, replaced, owned, edits, crashes>>
      /\ flow[f].at = "read"
      /\ flow' = [flow EXCEPT ![f].at = "decide", ![f].expected = dir["host"]]
  BY DEF Sync!ReadAgentReplica
<1>2. /\ flow \in [Flows -> SyncAnyFlow] /\ \A g \in Flows : SyncFlowOK(revs, parent, edits, flow[g])
      /\ dir \in [Sync!Places -> SyncAnyDir \cup {sync_None}] /\ aside \in [Sync!Places -> Seq(SUBSET Sync!Definitions)]
  BY DEF SyncIInv, SyncTyped
<1>3. PICK k : k = [flow[f] EXCEPT !.at = "decide", !.expected = dir["host"]]  OBVIOUS
<1>4. k \in SyncAnyFlow /\ k.at = "decide" /\ k.seen = flow[f].seen /\ k.expected = dir["host"]
  <2>1. flow[f] \in SyncAnyFlow /\ dir["host"] \in SyncAnyDir \cup {sync_None}  BY <1>2, SyncFacts
  <2> QED BY <1>3, <2>1 DEF SyncAnyFlow
<1>5. SyncFlowOK(revs, parent, edits, k)
  <2>1. SyncDirOK(revs, parent, edits, "host", dir["host"])  BY SyncFacts
  <2> QED BY <1>1, <1>2, <1>4, <2>1 DEF SyncFlowOK
<1>6. flow' = [flow EXCEPT ![f] = k] BY <1>1, <1>2, <1>3
<1>7. flow' \in [Flows -> SyncAnyFlow] /\ \A g \in Flows : SyncFlowOK(revs', parent, edits, flow'[g])
  BY <1>1, <1>2, <1>4, <1>5, <1>6
<1>8. SyncMoves
  <2>1. \A g \in Flows : flow'[g] = flow[g] \/ flow'[g].expected = dir["host"]  BY <1>2, <1>4, <1>6
  <2> QED BY <1>1, <2>1, SyncRestsMoves
<1> QED BY <1>1, <1>2, <1>7, <1>8, SyncFacts, SyncStepKeeps

\* A task that goes on to send revision r to the Host.
LEMMA SyncSendKeeps ==
  ASSUME Sync!BoundsAreNat, NEW rs, NEW pa, NEW n, flow \in [Flows -> SyncAnyFlow], NEW f \in Flows,
         \A g \in Flows : SyncFlowOK(rs, pa, n, flow[g]),
         NEW r \in 1..Len(rs), r \in Nat, flow[f].seen \in 1..Len(rs),
         flow[f].expected # sync_None => \E i \in 1..Len(rs) : rs[i] = flow[f].expected.def,
         flow[f].expected # sync_None => flow[f].expected.rev \in 1..r,
         flow' = [flow EXCEPT ![f].at = "send", ![f].send = r]
  PROVE  /\ flow' \in [Flows -> SyncAnyFlow] /\ \A g \in Flows : SyncFlowOK(rs, pa, n, flow'[g])
         /\ \A g \in Flows : flow'[g].at = "decide" => flow'[g] = flow[g]
<1>1. PICK k : k = [flow[f] EXCEPT !.at = "send", !.send = r]  OBVIOUS
<1>2. k \in SyncAnyFlow /\ k.at = "send" /\ k.send = r /\ k.seen = flow[f].seen
      /\ k.expected = flow[f].expected
  <2>1. flow[f] \in SyncAnyFlow OBVIOUS
  <2> QED BY <1>1, <2>1 DEF SyncAnyFlow
<1>3. SyncFlowOK(rs, pa, n, k) BY <1>2 DEF SyncFlowOK
<1>4. flow' = [flow EXCEPT ![f] = k] BY <1>1
<1> QED BY <1>2, <1>3, <1>4

\* It takes up the edit it read there, sends what the Hub has, or stops.
LEMMA SyncDecideKeeps == ASSUME Sync!BoundsAreNat, SyncIInv, NEW f \in Flows, Sync!Decide(f) PROVE SyncIInv'
<1> DEFINE x == flow[f].expected
<1>1. /\ UNCHANGED <<dir, aside, parent, replaced, owned, edits, crashes>>
      /\ flow[f].at = "decide"
  BY DEF Sync!Decide
<1>2. /\ flow \in [Flows -> SyncAnyFlow] /\ \A g \in Flows : SyncFlowOK(revs, parent, edits, flow[g])
      /\ dir \in [Sync!Places -> SyncAnyDir \cup {sync_None}] /\ aside \in [Sync!Places -> Seq(SUBSET Sync!Definitions)]
  BY DEF SyncIInv, SyncTyped
<1>3. flow[f].seen \in 1..Sync!Current /\ SyncDirOK(revs, parent, edits, "host", x)
  BY <1>1, <1>2 DEF SyncFlowOK, Sync!Current
<1>4. CASE /\ Sync!EditedAtBase(f) /\ x.rev = flow[f].seen /\ Sync!UpdateAgent(x.def, flow[f].seen)
           /\ flow' = [flow EXCEPT ![f].at = "send", ![f].send = Len(revs')]
  <2>1. PICK d : d = x OBVIOUS
  <2>2. Sync!Current = flow[f].seen BY <1>4 DEF Sync!UpdateAgent
  <2>3. d # sync_None /\ d.rev = Sync!Current /\ d.def # revs[Sync!Current] /\ SyncDirOK(revs, parent, edits, "host", d)
        /\ Sync!UpdateAgent(d.def, Sync!Current)
    BY <1>3, <1>4, <2>1, <2>2 DEF Sync!EditedAtBase
  <2>4. /\ d.def \in 1..edits /\ parent[d.def] = revs[Sync!Current] /\ revs' = Append(revs, d.def)
        /\ Len(revs') = Sync!Current + 1 /\ revs'[Sync!Current + 1] = d.def
        /\ \A e : SyncRevision(revs', e) => SyncRevision(revs, e) \/ e = d.def
        /\ \A q \in Sync!Places : SyncDirOK(revs', parent, edits, q, dir[q])
        /\ \A g \in Flows : SyncFlowOK(revs', parent, edits, flow[g])
    BY <2>3, SyncUpdateKeeps
  <2>5. PICK r : r = Len(revs') OBVIOUS
  <2>6. r \in Nat /\ r \in 1..Len(revs') /\ revs'[r] = x.def /\ flow[f].seen \in 1..Len(revs')
        /\ x.rev \in 1..r
    BY <1>3, <2>1, <2>3, <2>4, <2>5, SyncFacts
  <2>7. flow' = [flow EXCEPT ![f].at = "send", ![f].send = r]  BY <1>4, <2>5
  <2>8. /\ flow' \in [Flows -> SyncAnyFlow] /\ \A g \in Flows : SyncFlowOK(revs', parent, edits, flow'[g])
        /\ \A g \in Flows : flow'[g].at = "decide" => flow'[g] = flow[g]
    BY <1>2, <2>4, <2>6, <2>7, SyncSendKeeps
  <2>9. SyncMoves
    <3>1. dir["hub"] # sync_None /\ SyncRevision(revs', dir["hub"].def) => SyncRevision(revs, dir["hub"].def)
      <4>1. dir["hub"] # sync_None /\ ~SyncRevision(revs, dir["hub"].def) => d.def # dir["hub"].def
        BY <1>1, <2>1, <2>3 DEF SyncIInv, SyncHistory, SyncApart
      <4> QED BY <2>4, <4>1
    <3> QED BY <1>1, <2>8, <3>1 DEF SyncMoves
  <2> QED BY <1>1, <1>2, <2>4, <2>8, <2>9, SyncFacts, SyncStepKeeps
<1>5. CASE Sync!Stop(f) /\ UNCHANGED revs
  <2>1. /\ flow' \in [Flows -> SyncAnyFlow] /\ \A g \in Flows : SyncFlowOK(revs', parent, edits, flow'[g])
        /\ \A g \in Flows : flow'[g].at = "decide" => flow'[g] = flow[g]
    BY <1>2, <1>5, SyncFlowKeeps
  <2>2. SyncMoves BY <1>1, <1>5, <2>1, SyncRestsMoves
  <2> QED BY <1>1, <1>2, <1>5, <2>1, <2>2, SyncFacts, SyncStepKeeps
<1>6. CASE /\ ~Sync!Newer(f) /\ ~Sync!EditedAtBase(f) /\ UNCHANGED revs
           /\ flow' = [flow EXCEPT ![f].at = "send", ![f].send = flow[f].seen]
  <2>1. PICK r : r = flow[f].seen OBVIOUS
  <2>2. r \in 1..Len(revs) /\ r \in Nat /\ flow[f].seen \in 1..Len(revs)
    BY <1>3, <2>1, SyncFacts DEF Sync!Current
  <2>3. x # sync_None => \E i \in 1..Len(revs) : revs[i] = x.def
    BY <1>3, <1>6 DEF Sync!EditedAtBase, SyncDirOK
  <2>5. x # sync_None => x.rev \in 1..r
    BY <1>3, <1>6, <2>1, SyncFacts DEF Sync!Newer, SyncDirOK
  <2>4. /\ flow' \in [Flows -> SyncAnyFlow] /\ \A g \in Flows : SyncFlowOK(revs, parent, edits, flow'[g])
        /\ \A g \in Flows : flow'[g].at = "decide" => flow'[g] = flow[g]
    BY <1>2, <1>6, <2>1, <2>2, <2>3, <2>5, SyncSendKeeps
  <2>6. SyncMoves BY <1>1, <1>6, <2>4, SyncRestsMoves
  <2> QED BY <1>1, <1>2, <1>6, <2>4, <2>6, SyncFacts, SyncStepKeeps
<1> QED BY <1>4, <1>5, <1>6 DEF Sync!Decide

\* The Host's copy is replaced, unless it is no longer the one that was read.
LEMMA SyncMaterializeKeeps == ASSUME Sync!BoundsAreNat, SyncIInv, NEW f \in Flows, Sync!MaterializeAgent(f) PROVE SyncIInv'
<1>1. /\ UNCHANGED <<revs, parent, replaced, owned, edits>>
      /\ flow[f].at = "send" /\ Sync!Stop(f)
  BY DEF Sync!MaterializeAgent
<1>2. /\ flow \in [Flows -> SyncAnyFlow] /\ \A g \in Flows : SyncFlowOK(revs, parent, edits, flow[g])
      /\ dir \in [Sync!Places -> SyncAnyDir \cup {sync_None}]
      /\ aside \in [Sync!Places -> Seq(SUBSET Sync!Definitions)]
  BY DEF SyncIInv, SyncTyped
<1>3. /\ flow' \in [Flows -> SyncAnyFlow] /\ \A g \in Flows : SyncFlowOK(revs', parent, edits, flow'[g])
      /\ \A g \in Flows : flow'[g].at = "decide" => flow'[g] = flow[g]
  BY <1>1, <1>2, SyncFlowKeeps
<1>4. CASE dir' = dir /\ aside' = aside /\ crashes' = crashes
  <2>1. SyncMoves BY <1>1, <1>3, <1>4, SyncRestsMoves
  <2> QED BY <1>1, <1>2, <1>3, <1>4, <2>1, SyncFacts, SyncStepKeeps
<1>5. CASE /\ Sync!Unchanged(f)
           /\ \/ Sync!Materialize("host", dir["host"], flow[f].send) /\ crashes' = crashes
              \/ Sync!SwapFails("host", dir["host"]) /\ crashes' = crashes
              \/ Sync!SwapCrashes("host", dir["host"], flow[f].send)
  <2>1. flow[f].send \in 1..Sync!Current BY <1>1, <1>2 DEF SyncFlowOK, Sync!Current
  <2>2. /\ dir' \in [Sync!Places -> SyncAnyDir \cup {sync_None}]
        /\ \A q \in Sync!Places : SyncDirOK(revs, parent, edits, q, dir'[q])
        /\ aside' \in [Sync!Places -> Seq(SUBSET Sync!Definitions)]
        /\ crashes' \in Nat /\ (crashes' = 0 => crashes = 0)
        /\ crashes' = 0 => \A q \in Sync!Places : dir[q] # sync_None /\ dir[q].res =>
                              dir'[q] # sync_None /\ dir'[q].res
    BY <1>5, <2>1, SyncFacts, SyncSwapKeeps DEF SyncSame
  <2>3. dir["host"] # sync_None => SyncRevision(revs, dir["host"].def)
    BY <1>1, <1>2, <1>5 DEF SyncFlowOK, Sync!Unchanged, SyncRevision
  <2>4. SyncMoves BY <1>1, <1>3, <1>5, <2>1, <2>3, SyncFacts, SyncSwapMoves DEF SyncSame
  <2> QED BY <1>1, <1>2, <1>3, <2>2, <2>4, SyncStepKeeps
<1> QED BY <1>4, <1>5 DEF Sync!MaterializeAgent

\* A user edits a copy: the new definition is newer than all there is.
LEMMA SyncEditKeeps == ASSUME Sync!BoundsAreNat, SyncIInv, NEW p \in Sync!Places, Sync!Edit(p) PROVE SyncIInv'
<1> DEFINE n == edits + 1
           from == IF \E r \in 1..Sync!Current : revs[r] = dir[p].def THEN dir[p].def
                                                                 ELSE parent[dir[p].def]
<1>1. /\ UNCHANGED <<revs, aside, flow, owned, crashes>> /\ edits < MaxEdits
      /\ dir[p] # sync_None /\ edits' = n /\ dir' = [dir EXCEPT ![p].def = n]
      /\ parent' = [parent EXCEPT ![n] = from] /\ replaced' = replaced \cup {dir[p].def}
  BY DEF Sync!Edit
<1>2. /\ edits \in Nat /\ MaxEdits \in Nat /\ n \in 1..MaxEdits /\ n \notin 1..edits
      /\ 1..n = (1..edits) \cup {n}
      /\ parent \in [1..MaxEdits -> Nat] /\ \A e \in 1..edits : parent[e] < e
      /\ flow \in [Flows -> SyncAnyFlow] /\ \A g \in Flows : SyncFlowOK(revs, parent, edits, flow[g])
      /\ dir \in [Sync!Places -> SyncAnyDir \cup {sync_None}] /\ aside \in [Sync!Places -> Seq(SUBSET Sync!Definitions)]
      /\ replaced \subseteq 0..edits /\ owned \subseteq Sync!Places
  <2>1. /\ edits \in Nat /\ MaxEdits \in Nat /\ parent \in [1..MaxEdits -> Nat] /\ \A e \in 1..edits : parent[e] < e
        /\ flow \in [Flows -> SyncAnyFlow] /\ \A g \in Flows : SyncFlowOK(revs, parent, edits, flow[g])
        /\ dir \in [Sync!Places -> SyncAnyDir \cup {sync_None}] /\ aside \in [Sync!Places -> Seq(SUBSET Sync!Definitions)]
        /\ replaced \subseteq 0..edits /\ owned \subseteq Sync!Places
    BY SyncConstant, SyncFacts DEF SyncIInv, SyncTyped, SyncParents
  <2>2. n \in 1..MaxEdits /\ n \notin 1..edits /\ 1..n = (1..edits) \cup {n} BY <1>1, <2>1
  <2> QED BY <2>1, <2>2
<1>3. dir[p] \in SyncAnyDir /\ dir[p].def \in 0..edits BY <1>1, SyncFacts
<1>4. revs[1] = 0 /\ 1 \in 1..Sync!Current BY SyncFacts DEF SyncRevsOK, Sync!Current
<1>5. from \in 0..edits
  <2>1. CASE \E r \in 1..Sync!Current : revs[r] = dir[p].def BY <1>3, <2>1
  <2>2. CASE ~ \E r \in 1..Sync!Current : revs[r] = dir[p].def
    <3>1. dir[p].def \in 1..edits BY <1>3, <1>4, <2>2
    <3>2. parent[dir[p].def] \in Nat /\ parent[dir[p].def] < dir[p].def BY <1>2, <3>1
    <3> QED BY <1>2, <2>2, <3>1, <3>2
  <2> QED BY <2>1, <2>2
<1>6. dir[p].rev = Sync!Current => from = revs[Sync!Current]
  <2>1. SUFFICES ASSUME dir[p].rev = Sync!Current PROVE from = revs[Sync!Current]
    OBVIOUS
  <2>2. CASE dir[p].def = revs[Sync!Current] BY <2>2, SyncFacts
  <2>3. CASE dir[p].def # revs[Sync!Current]
    <3>1. dir[p].def \in 1..edits /\ parent[dir[p].def] = revs[Sync!Current]
      BY <1>1, <2>1, <2>3, SyncFacts DEF SyncDirOK, SyncBased, Sync!Current
    <3>2. ASSUME NEW r \in 1..Sync!Current, revs[r] = dir[p].def PROVE FALSE
      <4>1. revs[r] <= revs[Sync!Current] /\ revs[r] \in Nat /\ revs[Sync!Current] \in Nat
        BY SyncFacts DEF SyncRevsOK, Sync!Current
      <4>2. parent[dir[p].def] < dir[p].def BY <1>2, <3>1
      <4> QED BY <3>1, <3>2, <4>1, <4>2
    <3> QED BY <3>1, <3>2
  <2> QED BY <2>2, <2>3
<1> HIDE DEF from
<1>7. parent' \in [1..MaxEdits -> Nat] /\ parent'[n] = from
      /\ \A e \in 1..edits : parent'[e] = parent[e] /\ e \in 1..n
  <2>1. \A e \in 1..edits : e \in 1..MaxEdits /\ e # n /\ e \in 1..n BY <1>1, <1>2
  <2> QED BY <1>1, <1>2, <1>5, <2>1
<1>8. SyncParents' BY <1>1, <1>2, <1>5, <1>7 DEF SyncParents
<1>9. SyncRevsOK(revs', parent', n)
  <2>1. SyncRevsOK(revs, parent, edits) BY SyncFacts
  <2>2. \A i \in 2..Len(revs) : parent'[revs[i]] = revs[i - 1]
    <3>1. ASSUME NEW i \in 2..Len(revs) PROVE parent'[revs[i]] = revs[i - 1]
      <4>1. Sync!Current \in Nat /\ i \in 1..Sync!Current /\ i - 1 <= revs[i] BY <2>1, SyncFacts DEF SyncRevsOK, Sync!Current
      <4>2. revs[i] \in Nat /\ revs[i] <= edits BY <4>1, SyncFacts
      <4>3. revs[i] \in 1..edits BY <4>1, <4>2, <1>2
      <4>4. parent[revs[i]] = revs[i - 1] BY <2>1 DEF SyncRevsOK
      <4> QED BY <1>7, <4>3, <4>4
    <3> QED BY <3>1
  <2>3. revs[Len(revs)] \in Nat /\ revs[Len(revs)] <= n BY <1>2, SyncFacts DEF Sync!Current
  <2> QED BY <1>1, <2>1, <2>2, <2>3 DEF SyncRevsOK
<1>10. \A q, d : d \in SyncAnyDir \cup {sync_None} /\ SyncDirOK(revs, parent, edits, q, d) => SyncDirOK(revs, parent', n, q, d)
  <2>1. ASSUME NEW q, NEW d \in SyncAnyDir \cup {sync_None}, SyncDirOK(revs, parent, edits, q, d), d # sync_None
        PROVE  SyncDirOK(revs, parent', n, q, d)
    <3>1. d.def \in Nat /\ d.def <= n BY <1>2, <2>1 DEF SyncAnyDir, SyncDirOK
    <3>2. SyncBased(revs, parent', n, d) BY <1>7, <2>1 DEF SyncDirOK, SyncBased
    <3> QED BY <2>1, <3>1, <3>2 DEF SyncDirOK
  <2> QED BY <2>1 DEF SyncDirOK
<1>11. PICK x : x = [dir[p] EXCEPT !.def = n] OBVIOUS
<1>12. x \in SyncAnyDir /\ x.def = n /\ x.rev = dir[p].rev /\ x.res = dir[p].res /\ x.kept = dir[p].kept
  <2>1. PICK m \in Nat : m = n BY <1>2
  <2>2. x = [dir[p] EXCEPT !.def = m] BY <1>11, <2>1
  <2> QED BY <1>3, <2>1, <2>2 DEF SyncAnyDir
<1>13. dir' \in [Sync!Places -> SyncAnyDir \cup {sync_None}] /\ dir'[p] = x /\ x # sync_None
       /\ \A q \in Sync!Places : q # p => dir'[q] = dir[q]
  <2>1. dir' = [dir EXCEPT ![p] = x] BY <1>1, <1>11
  <2> QED BY <1>2, <1>12, <2>1, SyncFacts
<1>14. SyncDirOK(revs, parent', n, p, x)
  <2>1. x.rev \in 1..Len(revs) \/ (x.rev = sync_None /\ p = "hub")  BY <1>1, <1>12, SyncFacts DEF Sync!Current
  <2>2. SyncBased(revs, parent', n, x) BY <1>2, <1>6, <1>7, <1>12 DEF SyncBased, Sync!Current
  <2> QED BY <1>2, <1>12, <2>1, <2>2 DEF SyncDirOK
<1>15. \A q \in Sync!Places : SyncDirOK(revs', parent', edits', q, dir'[q])
  BY <1>1, <1>10, <1>13, <1>14, SyncFacts
<1>16. \A g \in Flows : SyncFlowOK(revs', parent', edits', flow'[g])
  <2>1. ASSUME NEW g \in Flows PROVE SyncFlowOK(revs, parent', n, flow[g])
    <3>1. SyncFlowOK(revs, parent, edits, flow[g]) /\ flow[g].expected \in SyncAnyDir \cup {sync_None}
      BY <1>2 DEF SyncAnyFlow
    <3> QED BY <1>10, <3>1 DEF SyncFlowOK
  <2> QED BY <1>1, <2>1
<1>17. SyncTyped'
  <2>1. replaced' \subseteq 0..edits' BY <1>1, <1>2, <1>3
  <2>2. edits' \in 0..MaxEdits BY <1>1, <1>2
  <2> QED BY <1>1, <1>2, <1>7, <1>13, <2>1, <2>2, SyncFacts DEF SyncTyped
<1>18. SyncCarried' BY <1>1, <1>12, <1>13, <1>2 DEF SyncIInv, SyncCarried
<1>19. SyncHistory'
  <2>1. \A q \in Sync!Places : SyncKept(replaced', dir'[q])
    <3>1. \A q \in Sync!Places : SyncKept(replaced, dir[q]) BY DEF SyncIInv, SyncHistory
    <3>2. SyncKept(replaced', x) BY <1>1, <1>12, <3>1 DEF SyncKept
    <3> QED BY <1>1, <1>13, <3>1, <3>2 DEF SyncKept
  <2>2. /\ \A g \in Flows : flow[g].at = "decide" /\ flow[g].expected # sync_None => flow[g].expected.def # n
        /\ \A q \in Sync!Places : dir[q] # sync_None => dir[q].def # n
        /\ ~SyncRevision(revs, n)
    <3>1. \A g \in Flows : flow[g].at = "decide" /\ flow[g].expected # sync_None =>
             flow[g].expected.def \in Nat /\ flow[g].expected.def <= edits
      BY <1>2 DEF SyncFlowOK, SyncDirOK, SyncAnyFlow, SyncAnyDir
    <3>2. \A q \in Sync!Places : dir[q] # sync_None => dir[q].def \in 0..edits BY SyncFacts
    <3>3. \A i \in 1..Len(revs) : revs[i] \in Nat /\ revs[i] <= edits BY SyncFacts DEF Sync!Current
    <3> QED BY <1>2, <3>1, <3>2, <3>3 DEF SyncRevision
  <2>3. SyncApart(revs', dir', flow')
    <3>1. SyncApart(revs, dir, flow) BY DEF SyncIInv, SyncHistory
    <3>2. "hub" \in Sync!Places /\ "host" \in Sync!Places  BY SyncFacts
    <3>3. CASE p = "hub"
      <4>1. dir'["hub"].def = n /\ dir'["host"] = dir["host"]  BY <1>12, <1>13, <3>2, <3>3
      <4> QED BY <1>1, <2>2, <3>2, <4>1 DEF SyncApart
    <3>4. CASE p # "hub"
      <4>1. dir'["hub"] = dir["hub"] /\ p = "host" /\ dir'["host"].def = n
        BY <1>12, <1>13, <3>2, <3>4 DEF Sync!Places
      <4> QED BY <1>1, <2>2, <3>1, <3>2, <4>1 DEF SyncApart
    <3> QED BY <3>3, <3>4
  <2>4. ASSUME crashes' = 0
        PROVE  SyncMarked(revs', parent', dir'["hub"])
    <3>1. SyncMarked(revs, parent, dir["hub"])  BY <1>1, <2>4 DEF SyncIInv, SyncHistory
    <3>2. "hub" \in Sync!Places  BY SyncFacts
    <3>3. CASE p = "hub"
      <4>1. SUFFICES ASSUME x.rev # sync_None  PROVE parent'[x.def] = revs[x.rev] /\ ~SyncRevision(revs, x.def)
        BY <1>1, <1>13, <3>2, <3>3 DEF SyncMarked
      <4>2. dir[p].rev \in 1..Len(revs) BY <1>1, <1>12, <4>1, SyncFacts DEF Sync!Current
      <4>3. from = revs[dir[p].rev]
        <5>1. CASE dir[p].def = revs[dir[p].rev]
          <6>1. from = dir[p].def BY <4>2, <5>1 DEF from, Sync!Current
          <6> QED BY <5>1, <6>1
        <5>2. CASE dir[p].def # revs[dir[p].rev]
          <6>1. parent[dir[p].def] = revs[dir[p].rev] /\ ~SyncRevision(revs, dir[p].def)
            BY <1>1, <1>12, <3>1, <3>3, <4>1, <5>2 DEF SyncMarked
          <6>2. from = parent[dir[p].def] BY <6>1 DEF from, Sync!Current, SyncRevision
          <6> QED BY <6>1, <6>2
        <5> QED BY <5>1, <5>2
      <4> QED BY <1>7, <1>12, <2>2, <4>3
    <3>4. CASE p # "hub"
      <4>1. dir'["hub"] = dir["hub"]  BY <1>13, <3>2, <3>4
      <4>2. SUFFICES ASSUME dir["hub"] # sync_None, dir["hub"].rev # sync_None,
                            dir["hub"].def # revs[dir["hub"].rev]
                     PROVE  parent'[dir["hub"].def] = revs[dir["hub"].rev] /\ ~SyncRevision(revs, dir["hub"].def)
        BY <1>1, <4>1 DEF SyncMarked
      <4>3. parent[dir["hub"].def] = revs[dir["hub"].rev] /\ ~SyncRevision(revs, dir["hub"].def)
        BY <3>1, <4>2 DEF SyncMarked
      <4>4. dir["hub"].def \in 1..edits  BY <1>4, <4>2, <4>3, <1>2, SyncFacts DEF SyncRevision, Sync!Current
      <4> QED BY <1>7, <4>3, <4>4
    <3> QED BY <3>3, <3>4
  <2>5. ASSUME crashes' = 0
        PROVE  SyncTaken(revs', parent', replaced', dir', edits')
    <3>0. SyncTaken(revs, parent, replaced, dir, edits) BY <1>1, <2>5 DEF SyncIInv, SyncHistory
    <3>1. ASSUME NEW e \in 1..n
          PROVE  \/ SyncRevision(revs, e) \/ e \in replaced' \/ SyncOvertaken(revs, parent', e)
                 \/ \E q \in Sync!Places : dir'[q] # sync_None /\ dir'[q].def = e
      <4>1. CASE e = n BY <1>12, <1>13, <4>1
      <4>2. CASE e \in 1..edits
        <5>1. \/ SyncRevision(revs, e) \/ e \in replaced \/ SyncOvertaken(revs, parent, e)
              \/ \E q \in Sync!Places : dir[q] # sync_None /\ dir[q].def = e
          BY <3>0, <4>2 DEF SyncTaken
        <5>2. CASE SyncOvertaken(revs, parent, e)
          <6>1. PICK r \in 2..Len(revs) : parent[revs[r]] = parent[e] BY <5>2 DEF SyncOvertaken
          <6>2. revs[r] \in 1..edits
            <7>1. r \in 1..Len(revs) /\ r - 1 <= revs[r] /\ revs[r] \in Nat /\ revs[r] <= edits /\ r >= 2
              BY SyncFacts DEF SyncRevsOK, Sync!Current
            <7> QED BY <1>2, <7>1
          <6> QED BY <1>7, <4>2, <6>1, <6>2 DEF SyncOvertaken
        <5>3. CASE \E q \in Sync!Places : dir[q] # sync_None /\ dir[q].def = e
          <6>1. PICK q \in Sync!Places : dir[q] # sync_None /\ dir[q].def = e BY <5>3
          <6>2. CASE q = p BY <1>1, <6>1, <6>2
          <6>3. CASE q # p BY <1>13, <6>1, <6>3
          <6> QED BY <6>2, <6>3
        <5> QED BY <1>1, <5>1, <5>2, <5>3
      <4> QED BY <1>2, <4>1, <4>2
    <3> QED BY <1>1, <3>1 DEF SyncTaken
  <2> QED BY <2>1, <2>3, <2>4, <2>5 DEF SyncHistory
<1> QED BY <1>1, <1>8, <1>9, <1>15, <1>16, <1>17, <1>18, <1>19 DEF SyncIInv

\* Every step keeps the invariant.
LEMMA SyncNextInv == ASSUME Sync!BoundsAreNat, SyncIInv, [Sync!Next]_Sync!vars PROVE SyncIInv'
<1>1. ASSUME NEW p \in Sync!Places, Sync!Edit(p) PROVE SyncIInv' BY <1>1, SyncEditKeeps
<1>2. CASE Sync!Damage BY <1>2, SyncDamageKeeps
<1>3. CASE Sync!HubCrash BY <1>3, SyncHubCrashKeeps
<1>4. ASSUME NEW f \in Flows, Sync!SynchronizeAgent(f) PROVE SyncIInv'
  BY <1>4, SyncIncompleteKeeps, SyncNoMarkerKeeps, SyncOutdatedKeeps, SyncUpToDateKeeps DEF Sync!SynchronizeAgent
<1>5. ASSUME NEW f \in Flows, Sync!ReadAgentReplica(f) PROVE SyncIInv' BY <1>5, SyncReadKeeps
<1>6. ASSUME NEW f \in Flows, Sync!Decide(f) PROVE SyncIInv' BY <1>6, SyncDecideKeeps
<1>7. ASSUME NEW f \in Flows, Sync!MaterializeAgent(f) PROVE SyncIInv' BY <1>7, SyncMaterializeKeeps
<1>8. CASE UNCHANGED Sync!vars
  <2>1. UNCHANGED <<parent, replaced, owned, edits>> /\ revs' = revs /\ dir' = dir /\ flow' = flow
        /\ aside' = aside /\ crashes' = crashes
    BY <1>8 DEF Sync!vars
  <2>2. /\ flow \in [Flows -> SyncAnyFlow] /\ \A g \in Flows : SyncFlowOK(revs, parent, edits, flow[g])
        /\ dir \in [Sync!Places -> SyncAnyDir \cup {sync_None}] /\ aside \in [Sync!Places -> Seq(SUBSET Sync!Definitions)]
    BY DEF SyncIInv, SyncTyped
  <2>3. SyncMoves BY <2>1, SyncRestsMoves
  <2> QED BY <2>1, <2>2, <2>3, SyncFacts, SyncStepKeeps
<1> QED BY <1>1, <1>2, <1>3, <1>4, <1>5, <1>6, <1>7, <1>8 DEF Sync!Next

\* What the invariant says of the revisions and the directories.
LEMMA SyncInvKept ==
  ASSUME Sync!BoundsAreNat, SyncIInv
  PROVE  Sync!TypeOK /\ Sync!NoLostUpdate /\ (crashes = 0 => Sync!ResourcesCarried /\ Sync!EditsAreTakenUp)
<1>1. edits \in 0..MaxEdits /\ MaxEdits \in Nat /\ aside \in [Sync!Places -> Seq(SUBSET Sync!Definitions)]
      /\ flow \in [Flows -> SyncAnyFlow] /\ owned \subseteq Sync!Places
  BY SyncConstant DEF SyncIInv, SyncTyped
<1>2. Sync!Current \in 1..(MaxEdits + 1)
  <2>1. Sync!Current - 1 <= revs[Sync!Current] BY SyncFacts DEF SyncRevsOK, Sync!Current
  <2> QED BY <1>1, <2>1, SyncFacts
<1>3. revs \in Seq(Sync!Definitions)
  <2>1. revs \in Seq(Nat) BY SyncFacts DEF SyncRevsOK
  <2>2. \A i \in 1..Len(revs) : revs[i] \in Sync!Definitions BY <1>1, SyncFacts DEF Sync!Current, Sync!Definitions
  <2>3. Len(revs) \in Nat /\ revs \in [1..Len(revs) -> Sync!Definitions] BY <2>1, <2>2
  <2> QED BY <2>3, SeqDef
<1>4. Sync!TypeOK
  <2>1. \A p \in Sync!Places : dir[p] # sync_None =>
           dir[p].rev = sync_None \/ Sync!Known(dir[p].rev)
    BY SyncFacts DEF Sync!Known
  <2>2. \A f \in Flows : flow[f].at \in {"idle", "read", "decide", "send"}  BY <1>1 DEF SyncAnyFlow
  <2>3. \A p \in Sync!Places : Sync!Contents(dir[p]) \in SUBSET Sync!Definitions /\ aside[p] \in Seq(SUBSET Sync!Definitions)
    BY <1>1, SyncSameIs DEF SyncSame
  <2> QED BY <1>2, <1>3, <2>1, <2>2, <2>3 DEF Sync!TypeOK
<1>5. Sync!NoLostUpdate BY SyncFacts DEF SyncRevsOK, Sync!NoLostUpdate, Sync!Current
<1>6. crashes = 0 => Sync!ResourcesCarried BY <1>1 DEF SyncIInv, SyncCarried, Sync!ResourcesCarried
<1>7. crashes = 0 => Sync!EditsAreTakenUp
  BY DEF SyncIInv, SyncHistory, SyncTaken, SyncRevision, SyncOvertaken, Sync!EditsAreTakenUp,
         Sync!IsRevision, Sync!Overtaken, Sync!Current
<1> QED BY <1>4, <1>5, <1>6, <1>7

--------------------
\* No step takes a copy back, or overwrites what it holds.

LEMMA SyncForwardIs ==
  ASSUME Sync!BoundsAreNat, SyncIInv, NEW p \in Sync!Places, UNCHANGED replaced, SyncMovedAside(p),
         dir[p] # sync_None /\ dir'[p] # sync_None /\ dir[p].rev # sync_None /\ dir'[p].rev # sync_None =>
            dir[p].rev <= dir'[p].rev
  PROVE  Sync!NeverGoesBack(p) /\ Sync!NothingOverwritten(p)
<1>1. Sync!NeverGoesBack(p) BY DEF Sync!NeverGoesBack
<1>2. Sync!NothingOverwritten(p) BY DEF SyncMovedAside, Sync!NothingOverwritten
<1> QED BY <1>1, <1>2

\* A directory that keeps its definition and its conflict files.
LEMMA SyncStaysForward ==
  ASSUME Sync!BoundsAreNat, SyncIInv, NEW p \in Sync!Places,
         dir[p] # sync_None =>
           /\ dir'[p] # sync_None /\ dir'[p].kept = dir[p].kept
           /\ dir'[p].def = dir[p].def \/ dir[p].def \in replaced'
           /\ \/ dir'[p].rev \in {dir[p].rev, sync_None} \/ dir[p].rev = sync_None
              \/ dir[p].rev <= dir'[p].rev
  PROVE  Sync!NeverGoesBack(p) /\ Sync!NothingOverwritten(p)
<1>1. CASE dir[p] = sync_None BY <1>1 DEF Sync!NeverGoesBack, Sync!NothingOverwritten, Sync!Contents
<1>2. CASE dir[p] # sync_None
  <2>1. dir[p].rev = sync_None \/ dir[p].rev \in Nat BY <1>2, SyncFacts
  <2>2. Sync!NeverGoesBack(p) BY <1>2, <2>1 DEF Sync!NeverGoesBack
  <2>3. Sync!NothingOverwritten(p) BY <1>2 DEF Sync!NothingOverwritten, Sync!Contents
  <2> QED BY <2>2, <2>3
<1> QED BY <1>1, <1>2

\* A publication, of a revision not older than the marker it replaces.
LEMMA SyncSwapForward ==
  ASSUME Sync!BoundsAreNat, SyncIInv, NEW p \in Sync!Places, NEW r \in 1..Sync!Current,
         NEW d, SyncSame(dir[p], d), UNCHANGED replaced,
         \/ Sync!Materialize(p, d, r) /\ crashes' = crashes
         \/ Sync!SwapFails(p, d) /\ crashes' = crashes
         \/ Sync!SwapCrashes(p, d, r),
         dir[p] # sync_None /\ dir[p].rev # sync_None => dir[p].rev <= r
  PROVE  \A q \in Sync!Places : Sync!NeverGoesBack(q) /\ Sync!NothingOverwritten(q)
<1>1. /\ \A q \in Sync!Places : q # p => dir'[q] = dir[q] /\ aside'[q] = aside[q]
      /\ dir'[p] # sync_None =>
           \/ dir'[p].def = revs[r] /\ dir'[p].rev = r /\ dir'[p].kept = {}
           \/ /\ dir[p] # sync_None /\ dir'[p].def = dir[p].def /\ dir'[p].rev = dir[p].rev
              /\ \A k \in dir'[p].kept : k \in dir[p].kept \/ k[2] = dir'[p].def
      /\ SyncMovedAside(p)
  BY SyncSwapKeeps
<1>2. dir[p] # sync_None /\ dir[p].rev # sync_None => dir[p].rev \in Nat BY SyncFacts
<1>3. dir[p] # sync_None /\ dir'[p] # sync_None /\ dir[p].rev # sync_None /\ dir'[p].rev # sync_None =>
        dir[p].rev <= dir'[p].rev
  BY <1>1, <1>2
<1>4. Sync!NeverGoesBack(p) /\ Sync!NothingOverwritten(p) BY <1>1, <1>3, SyncForwardIs
<1>5. ASSUME NEW q \in Sync!Places, q # p PROVE Sync!NeverGoesBack(q) /\ Sync!NothingOverwritten(q)
  BY <1>1, <1>5, SyncStaysForward
<1> QED BY <1>4, <1>5

\* synchronize_agent.
LEMMA SyncHubForward ==
  ASSUME Sync!BoundsAreNat, SyncIInv, NEW f \in Flows, Sync!SynchronizeAgent(f)
  PROVE  \A q \in Sync!Places : Sync!NeverGoesBack(q) /\ Sync!NothingOverwritten(q)
<1>1. /\ replaced' = replaced /\ "hub" \in Sync!Places /\ Sync!Current \in 1..Sync!Current
      /\ dir \in [Sync!Places -> SyncAnyDir \cup {sync_None}] /\ Sync!Current \in Nat
      /\ dir["hub"] # sync_None /\ dir["hub"].rev # sync_None => dir["hub"].rev <= Sync!Current
  BY SyncFacts DEF Sync!SynchronizeAgent, SyncIInv, SyncTyped
<1>2. CASE dir' = dir BY <1>2, SyncStaysForward
<1>3. CASE Sync!Incomplete(f) /\ dir' # dir
  <2>1. \/ Sync!Materialize("hub", dir["hub"], Sync!Current) /\ crashes' = crashes
        \/ Sync!SwapFails("hub", dir["hub"]) /\ crashes' = crashes
    BY <1>3 DEF Sync!Incomplete, Sync!HubDir
  <2> QED BY <1>1, <2>1, SyncSwapForward DEF SyncSame
<1>4. CASE Sync!Outdated(f)
  <2>1. PICK d : d = Sync!Replaceable OBVIOUS
  <2>2. /\ \/ Sync!Materialize("hub", d, Sync!Current) /\ crashes' = crashes
           \/ Sync!SwapFails("hub", d) /\ crashes' = crashes
        /\ SyncSame(dir["hub"], d)
    BY <1>4, <2>1, SyncReplaceableIs DEF Sync!Outdated
  <2> QED BY <1>1, <2>2, SyncSwapForward
<1>5. CASE Sync!UpToDate(f) /\ dir' # dir
  <2>1. dir' = [dir EXCEPT !["hub"].rev = Sync!Current + 1] /\ dir["hub"] # sync_None
        /\ dir["hub"].rev = Sync!Current
    BY <1>5 DEF Sync!UpToDate, Sync!HasMarker, Sync!Whole, Sync!HubDir
  <2>2. PICK r \in Nat : r = Sync!Current + 1 /\ Sync!Current <= r BY <1>1
  <2>3. /\ \A q \in Sync!Places : q # "hub" => dir'[q] = dir[q]
        /\ dir'["hub"] # sync_None /\ dir'["hub"].rev = r /\ dir'["hub"].def = dir["hub"].def
        /\ dir'["hub"].kept = dir["hub"].kept
    BY <2>1, <2>2, SyncMarkerKeeps
  <2> QED BY <1>1, <2>1, <2>2, <2>3, SyncStaysForward
<1>6. CASE Sync!NoMarker(f)
  <2>0. dir["hub"] # sync_None /\ dir["hub"].rev = sync_None  BY <1>6 DEF Sync!NoMarker, Sync!Whole, Sync!HubDir
  <2>1. CASE Sync!HubDir.def = revs[Sync!Current]
    <3>1. dir' = [dir EXCEPT !["hub"].rev = Sync!Current]  BY <1>6, <2>1 DEF Sync!NoMarker
    <3>2. /\ \A q \in Sync!Places : q # "hub" => dir'[q] = dir[q]
          /\ dir'["hub"] # sync_None /\ dir'["hub"].def = dir["hub"].def /\ dir'["hub"].kept = dir["hub"].kept
      BY <1>1, <2>0, <3>1, SyncMarkerKeeps
    <3> QED BY <2>0, <3>2, SyncStaysForward
  <2>2. CASE Sync!HubDir.def # revs[Sync!Current]
    <3>1. PICK d : d = Sync!Preserved(dir["hub"])  OBVIOUS
    <3>2. dir' = [dir EXCEPT !["hub"] = d]  BY <1>6, <2>2, <3>1 DEF Sync!NoMarker, Sync!HubDir
    <3>3. \A e \in Sync!Contents(dir["hub"]) : e \in Sync!Contents(d) \/ e \in replaced
      BY <1>1, <2>0, <3>1, SyncSameIs DEF SyncSame
    <3>4. dir'["hub"] = d /\ \A q \in Sync!Places : q # "hub" => dir'[q] = dir[q]  BY <1>1, <3>2
    <3>5. Sync!NeverGoesBack("hub") /\ Sync!NothingOverwritten("hub")
      BY <1>1, <2>0, <3>3, <3>4, SyncForwardIs DEF SyncMovedAside
    <3> QED BY <3>4, <3>5, SyncStaysForward
  <2> QED BY <2>1, <2>2
<1> QED BY <1>2, <1>3, <1>4, <1>5, <1>6 DEF Sync!SynchronizeAgent

\* materialize_agent: what a task sends is not older than the copy it read, and the copy
\* is still the one it read.
LEMMA SyncHostForward ==
  ASSUME Sync!BoundsAreNat, SyncIInv, NEW f \in Flows, Sync!MaterializeAgent(f)
  PROVE  \A q \in Sync!Places : Sync!NeverGoesBack(q) /\ Sync!NothingOverwritten(q)
<1>1. CASE dir' = dir BY <1>1, SyncStaysForward
<1>2. CASE dir' # dir
  <2>1. /\ flow[f].at = "send" /\ dir["host"] = flow[f].expected /\ replaced' = replaced
        /\ \/ Sync!Materialize("host", dir["host"], flow[f].send) /\ crashes' = crashes
           \/ Sync!SwapFails("host", dir["host"]) /\ crashes' = crashes
           \/ Sync!SwapCrashes("host", dir["host"], flow[f].send)
    BY <1>2 DEF Sync!MaterializeAgent, Sync!Unchanged
  <2>2. SyncFlowOK(revs, parent, edits, flow[f]) BY DEF SyncIInv
  <2>3. flow[f].send \in 1..Sync!Current /\ (dir["host"] # sync_None => dir["host"].rev \in 1..flow[f].send)
    BY <2>1, <2>2 DEF SyncFlowOK, Sync!Current
  <2>4. dir["host"] # sync_None => dir["host"].rev <= flow[f].send  BY <2>3, SyncFacts
  <2> QED BY <2>1, <2>3, <2>4, SyncFacts, SyncSwapForward DEF SyncSame
<1> QED BY <1>1, <1>2

\* Every step.
LEMMA SyncNextForward ==
  ASSUME Sync!BoundsAreNat, SyncIInv, [Sync!Next]_Sync!vars
  PROVE  \A q \in Sync!Places : Sync!NeverGoesBack(q) /\ Sync!NothingOverwritten(q)
<1>0. dir \in [Sync!Places -> SyncAnyDir \cup {sync_None}] /\ "hub" \in Sync!Places /\ sync_None \notin SyncAnyDir
  BY SyncFacts DEF SyncIInv, SyncTyped
<1>1. CASE dir' = dir BY <1>1, SyncStaysForward
<1>2. ASSUME NEW p \in Sync!Places, Sync!Edit(p)
      PROVE  \A q \in Sync!Places : Sync!NeverGoesBack(q) /\ Sync!NothingOverwritten(q)
  <2>1. PICK n \in Nat : n = edits + 1 BY SyncFacts
  <2>2. dir' = [dir EXCEPT ![p].def = n] /\ dir[p].def \in replaced' /\ dir[p] # sync_None
    BY <1>2, <2>1 DEF Sync!Edit
  <2>3. PICK x : x = [dir[p] EXCEPT !.def = n] OBVIOUS
  <2>4. x \in SyncAnyDir /\ x.kept = dir[p].kept /\ x.rev = dir[p].rev BY <1>0, <2>2, <2>3 DEF SyncAnyDir
  <2>5. dir'[p] = x /\ \A q \in Sync!Places : q # p => dir'[q] = dir[q] BY <1>0, <2>2, <2>3
  <2> QED BY <1>0, <2>2, <2>4, <2>5, SyncStaysForward
<1>3. CASE Sync!Damage
  <2>1. PICK x : /\ x = [dir["hub"] EXCEPT !.complete = FALSE] \/ x = [dir["hub"] EXCEPT !.rev = sync_None]
                 /\ dir' = [dir EXCEPT !["hub"] = x] /\ dir["hub"] # sync_None
    BY <1>3 DEF Sync!Damage
  <2>2. /\ x \in SyncAnyDir /\ x.kept = dir["hub"].kept /\ x.def = dir["hub"].def
        /\ x.rev \in {dir["hub"].rev, sync_None}
    <3>1. dir["hub"] \in SyncAnyDir  BY <1>0, <2>1
    <3>2. CASE x = [dir["hub"] EXCEPT !.complete = FALSE]  BY <3>1, <3>2 DEF SyncAnyDir
    <3>3. CASE x = [dir["hub"] EXCEPT !.rev = sync_None]  BY <3>1, <3>3 DEF SyncAnyDir
    <3> QED BY <2>1, <3>2, <3>3
  <2>3. dir'["hub"] = x /\ \A q \in Sync!Places : q # "hub" => dir'[q] = dir[q]  BY <1>0, <2>1
  <2> QED BY <1>0, <2>2, <2>3, SyncStaysForward
<1>4. CASE Sync!HubCrash /\ dir' # dir
  <2>1. PICK d : d = Sync!Replaceable OBVIOUS
  <2>2. Sync!SwapCrashes("hub", d, Sync!Current) /\ SyncSame(dir["hub"], d) /\ replaced' = replaced
    BY <1>4, <2>1, SyncReplaceableIs DEF Sync!HubCrash
  <2>3. /\ Sync!Current \in 1..Sync!Current
        /\ dir["hub"] # sync_None /\ dir["hub"].rev # sync_None => dir["hub"].rev <= Sync!Current
    BY SyncFacts
  <2> QED BY <1>0, <2>2, <2>3, SyncSwapForward
<1>5. ASSUME NEW f \in Flows, Sync!ReadAgentReplica(f) \/ Sync!Decide(f)  PROVE dir' = dir
  BY <1>5 DEF Sync!ReadAgentReplica, Sync!Decide
<1>6. CASE UNCHANGED Sync!vars BY <1>1, <1>6 DEF Sync!vars
<1> QED BY <1>1, <1>2, <1>3, <1>4, <1>5, <1>6, SyncHubForward, SyncHostForward DEF Sync!Next

\* With any number of tasks, edits and crashes (synchronize_agent, synchronize_agent_on,
\* materialize_agent): a revision is made of the one before it, a copy is never taken back
\* to an older one, and what it held stays, was edited again by its author or is moved
\* aside; while nothing has crashed a directory keeps its skills and extensions, and an
\* edit leaves a directory only as a revision or because another edit overtook it.
THEOREM AgentEditsAreKept ==
  Sync!BoundsAreNat =>
    (Sync!Spec => /\ [](Sync!TypeOK /\ Sync!NoLostUpdate /\ (crashes = 0 => Sync!ResourcesCarried /\ Sync!EditsAreTakenUp))
                  /\ Sync!CopiesMoveForward)
<1> SUFFICES ASSUME Sync!BoundsAreNat
             PROVE  Sync!Spec => /\ [](Sync!TypeOK /\ Sync!NoLostUpdate /\ (crashes = 0 => Sync!ResourcesCarried /\ Sync!EditsAreTakenUp))
                                 /\ Sync!CopiesMoveForward
  OBVIOUS
<1>1. Sync!Init => SyncIInv BY SyncInitInv
<1>2. SyncIInv /\ [Sync!Next]_Sync!vars => SyncIInv' BY SyncNextInv
<1>3. SyncIInv => Sync!TypeOK /\ Sync!NoLostUpdate /\ (crashes = 0 => Sync!ResourcesCarried /\ Sync!EditsAreTakenUp)
  BY SyncInvKept
<1>4. SyncIInv /\ [Sync!Next]_Sync!vars =>
        [\A p \in Sync!Places : Sync!NeverGoesBack(p) /\ Sync!NothingOverwritten(p)]_Sync!vars
  BY SyncNextForward
<1> QED BY <1>1, <1>2, <1>3, <1>4, PTL DEF Sync!Spec, Sync!CopiesMoveForward

--------------------
(* The timeline of a Session (SessionLog).                                 *)

CONSTANTS
  MaxEntries, MaxTurns, Keys, Limit, Readers, log_None

VARIABLES
  entries, leaf, turn, running, intent, refused, page, history

\* A Session and the clients that read its entries.
Log == INSTANCE SessionLog WITH None <- log_None

\* SessionLog has its own copy of the operators of FiniteSets.
LEMMA LogSets ==
  /\ \A S : Log!Cardinality(S) = Cardinality(S)
  /\ \A S : Log!IsFiniteSet(S) <=> IsFiniteSet(S)
<1>1. \A S : Log!Cardinality(S) = Cardinality(S)
  BY Zenon DEF Log!Cardinality, Cardinality
<1>2. \A S : Log!IsFiniteSet(S) <=> IsFiniteSet(S)
  BY Zenon DEF Log!IsFiniteSet, IsFiniteSet
<1> QED BY <1>1, <1>2

\* The types; those of the reader of the active messages are in LogFollowed.
LogTyped ==
  /\ entries \in Seq(Log!Entry) /\ leaf \in 0..Len(entries) /\ Len(entries) <= MaxEntries
  /\ turn \in 0..MaxTurns /\ running \in BOOLEAN /\ (running => turn > 0)
  /\ intent \in [op : {"none", "message", "compaction"}, at : 0..MaxEntries]
  /\ page \in [after : Nat, seen : Seq(Nat), done : BOOLEAN]

\* The client that reads the entries has seen those up to its cursor.
LogPaged ==
  /\ Log!EntryPagesAreComplete
  /\ ~page.done => page.after = Len(page.seen) /\ page.after <= Len(entries)

\* The inductive invariant of the timeline: what the client that reads the entries has seen,
\* and the types, besides the properties themselves.
LogIInv == LogTyped /\ Log!BranchesAreContextual /\ Log!RepeatedObservationsAccepted /\ LogPaged

--------------------
(* The branch of an entry.                                                 *)

\* What the branches of the entries up to n are.
LogUps(es, n, g) ==
  /\ g \in [0..n -> SUBSET (0..n)]
  /\ \A i \in 0..n : g[i] = IF i = 0 THEN {} ELSE {i} \cup g[es[i].parent]

\* In a timeline whose parents come before their children every entry has a branch.
LEMMA LogUpsExist ==
  ASSUME NEW es, NEW n \in Nat, \A i \in 1..n : es[i].parent \in 0..(i - 1)
  PROVE  \E g : LogUps(es, n, g)
<1> DEFINE T == {m \in 0..n : ~\E g : LogUps(es, m, g)}
<1>1. SUFFICES ASSUME T # {} PROVE FALSE
  <2>1. T = {} => n \notin T OBVIOUS
  <2> QED BY <1>1, <2>1
<1>2. PICK m \in T : \A y \in T : ~(<<y, m>> \in OpToRel(<, Nat))
  <2>1. T \subseteq Nat OBVIOUS
  <2> QED BY <1>1, <2>1, NatLessThanWellFounded, WFMin, Zenon
<1>3. m \in 0..n /\ ~\E g : LogUps(es, m, g) BY <1>2
<1>4. \A y \in T : ~(y < m)
  <2>1. SUFFICES ASSUME NEW y \in T, y < m PROVE FALSE OBVIOUS
  <2>2. y \in Nat /\ m \in Nat
    <3>1. \A z \in T : z \in 0..n OBVIOUS
    <3> QED BY <2>1, <1>3, <3>1
  <2> HIDE DEF T
  <2>3. <<y, m>> \in OpToRel(<, Nat) BY <2>1, <2>2 DEF OpToRel
  <2> QED BY <1>2, <2>1, <2>3
<1>5. CASE m = 0
  <2>1. LogUps(es, 0, [i \in 0..0 |-> {}]) BY DEF LogUps
  <2> QED BY <1>3, <1>5, <2>1
<1>6. CASE m # 0
  <2>1. m - 1 \in 0..n /\ m - 1 < m BY <1>3, <1>6
  <2>2. PICK g : LogUps(es, m - 1, g) BY <1>4, <2>1
  <2> DEFINE h == [i \in 0..m |-> IF i = m THEN {m} \cup g[es[m].parent] ELSE g[i]]
  <2>3. es[m].parent \in 0..(m - 1) BY <1>3, <1>6
  <2>4. \A i \in 0..(m - 1) : g[i] \in SUBSET (0..m) BY <1>3, <2>2 DEF LogUps
  <2>5. h \in [0..m -> SUBSET (0..m)]
    <3>1. \A i \in 0..m : i # m => i \in 0..(m - 1) BY <1>3
    <3>2. m \in 0..m BY <1>3
    <3> QED BY <2>3, <2>4, <3>1, <3>2
  <2>6. ASSUME NEW i \in 0..m PROVE h[i] = IF i = 0 THEN {} ELSE {i} \cup h[es[i].parent]
    <3>1. CASE i = m
      <4>1. es[m].parent # m /\ es[m].parent \in 0..m BY <1>3, <2>3
      <4> QED BY <1>6, <3>1, <4>1
    <3>2. CASE i # m
      <4>1. i \in 0..(m - 1) /\ i # m BY <1>3, <3>2
      <4>2. h[i] = g[i] BY <3>2
      <4>3. CASE i = 0 BY <2>2, <4>1, <4>2, <4>3 DEF LogUps
      <4>4. CASE i # 0
        <5>1. es[i].parent \in 0..(i - 1) BY <1>3, <4>1, <4>4
        <5>2. es[i].parent \in 0..m /\ es[i].parent # m BY <1>3, <4>1, <5>1
        <5>3. h[es[i].parent] = g[es[i].parent] BY <5>2
        <5> QED BY <2>2, <4>1, <4>2, <4>4, <5>3 DEF LogUps
      <4> QED BY <4>3, <4>4
    <3> QED BY <3>1, <3>2
  <2>7. LogUps(es, m, h)
    <3> HIDE DEF h
    <3> QED BY <2>5, <2>6 DEF LogUps
  <2> QED BY <1>3, <2>7
<1> QED BY <1>5, <1>6

\* The branch of an entry is the entry and the branch of its parent.
LEMMA LogBranchIs ==
  ASSUME NEW es, Len(es) \in Nat, \A i \in 1..Len(es) : es[i].parent \in 0..(i - 1)
  PROVE  /\ Log!Branch(es, 0) = {}
         /\ \A i \in 1..Len(es) : Log!Branch(es, i) = {i} \cup Log!Branch(es, es[i].parent)
<1> DEFINE n == Len(es)
           up == CHOOSE g : g = [i \in 0..n |-> IF i = 0 THEN {} ELSE {i} \cup g[es[i].parent]]
<1>1. \A e : Log!Branch(es, e) = up[e] BY DEF Log!Branch
<1>2. PICK g : LogUps(es, n, g) BY LogUpsExist
<1>3. g = [i \in 0..n |-> IF i = 0 THEN {} ELSE {i} \cup g[es[i].parent]]
  BY <1>2 DEF LogUps
<1>4. up = [i \in 0..n |-> IF i = 0 THEN {} ELSE {i} \cup up[es[i].parent]]
  <2>1. \E f : f = [i \in 0..n |-> IF i = 0 THEN {} ELSE {i} \cup f[es[i].parent]] BY <1>3
  <2> QED BY <2>1
<1> HIDE DEF up
<1>5. \A i \in 0..n : up[i] = IF i = 0 THEN {} ELSE {i} \cup up[es[i].parent] BY <1>4
<1>6. Log!Branch(es, 0) = {}
  <2>1. 0 \in 0..n OBVIOUS
  <2> QED BY <1>1, <1>5, <2>1
<1>7. ASSUME NEW i \in 1..Len(es) PROVE Log!Branch(es, i) = {i} \cup Log!Branch(es, es[i].parent)
  <2>1. i \in 0..n /\ i # 0 OBVIOUS
  <2>2. up[i] = {i} \cup up[es[i].parent] BY <1>5, <2>1
  <2>3. Log!Branch(es, i) = up[i] /\ Log!Branch(es, es[i].parent) = up[es[i].parent] BY <1>1
  <2> QED BY <2>2, <2>3
<1> QED BY <1>6, <1>7

\* A contextual entry is on its own branch, and so is its parent.
LEMMA LogParentOnBranch ==
  ASSUME NEW es, Len(es) \in Nat, \A i \in 1..Len(es) : es[i].parent \in 0..(i - 1),
         NEW i \in 1..Len(es)
  PROVE  es[i].parent \in Log!Branch(es, i) \cup {0}
<1>1. Log!Branch(es, i) = {i} \cup Log!Branch(es, es[i].parent) BY LogBranchIs
<1>2. CASE es[i].parent = 0 BY <1>2
<1>3. CASE es[i].parent # 0
  <2> DEFINE p == es[i].parent
  <2>1. p \in 1..Len(es)
    <3>1. p \in 0..(i - 1) OBVIOUS
    <3> QED BY <1>3, <3>1
  <2>2. Log!Branch(es, p) = {p} \cup Log!Branch(es, es[p].parent) BY LogBranchIs, <2>1
  <2> QED BY <1>1, <2>2
<1> QED BY <1>2, <1>3

--------------------
(* Growing the timeline.                                                   *)

\* Parents come first and are contextual.
LogTree(es) ==
  \A i \in 1..Len(es) :
    es[i].parent # 0 => es[i].parent < i /\ es[es[i].parent].kind \in Log!Contextual

\* The entry at p is a place where an entry can hang.
LogPlace(es, p) == p \in 0..Len(es) /\ (p # 0 => es[p].kind \in Log!Contextual)

\* What one more entry e makes of the timeline es.
LogGrown(es, e, new) ==
  /\ new \in Seq(Log!Entry) /\ Len(new) = Len(es) + 1 /\ LogTree(new)
  /\ \A i \in 1..Len(es) : new[i] = es[i]
  /\ new[Len(es) + 1] = e

\* One more entry in the right place keeps the tree.
LEMMA LogGrows ==
  ASSUME Log!BoundsAssumption, NEW es \in Seq(Log!Entry), LogTree(es),
         NEW e \in Log!Entry, LogPlace(es, e.parent)
  PROVE  LogGrown(es, e, Append(es, e))
<1> DEFINE new == Append(es, e)
           p == e.parent
           id == Len(es) + 1
<1>0. Len(es) \in Nat OBVIOUS
<1>1. new = Append(es, e) OBVIOUS
<1> HIDE DEF new
<1>4. new \in Seq(Log!Entry) /\ Len(new) = id BY <1>1
<1>5. \A i \in 1..Len(es) : new[i] = es[i] BY <1>1
<1>6. new[id] = e BY <1>1
<1>7. ASSUME NEW i \in 1..Len(new), new[i].parent # 0
      PROVE  new[i].parent < i /\ new[new[i].parent].kind \in Log!Contextual
  <2>1. CASE i = id
    <3>1. new[i].parent = p BY <1>6, <2>1
    <3>2. p \in 1..Len(es) /\ es[p].kind \in Log!Contextual BY <3>1, <1>7, <1>0 DEF LogPlace
    <3> QED BY <3>1, <3>2, <2>1, <1>0, <1>5
  <2>2. CASE i # id
    <3>1. i \in 1..Len(es) BY <2>2, <1>4, <1>0
    <3>2. new[i] = es[i] /\ es[i] \in Log!Entry BY <3>1, <1>5
    <3>3. es[i].parent \in Nat BY <3>2 DEF Log!Entry, Log!BoundsAssumption
    <3>4. es[i].parent < i /\ es[es[i].parent].kind \in Log!Contextual
      BY <3>1, <3>2, <1>7 DEF LogTree
    <3>5. es[i].parent \in 1..Len(es) BY <3>1, <3>2, <3>3, <3>4, <1>7, <1>0
    <3> QED BY <3>2, <3>4, <3>5, <1>5
  <2> QED BY <2>1, <2>2
<1>8. LogTree(new) BY <1>7 DEF LogTree
<1> QED BY <1>4, <1>5, <1>6, <1>8 DEF new, LogGrown

\* The entry that With appends is one.
LEMMA LogWithAppends ==
  ASSUME Log!BoundsAssumption, NEW es, NEW p \in 0..MaxEntries,
         NEW kind \in Log!Contextual \cup Log!Side, NEW t \in 0..MaxTurns,
         NEW key \in Keys \cup Log!TurnKey \cup {log_None}, NEW kept \in 0..MaxEntries
  PROVE  \E e \in Log!Entry : /\ Log!With(es, p, kind, t, key, kept) = Append(es, e)
                              /\ e.kind = kind /\ e.parent = p
<1> DEFINE e == [kind |-> kind, parent |-> p, turn |-> t, key |-> key, kept |-> kept]
<1>1. e \in Log!Entry BY DEF Log!Entry
<1>2. Log!With(es, p, kind, t, key, kept) = Append(es, e) BY DEF Log!With
<1>3. e.kind = kind /\ e.parent = p OBVIOUS
<1> HIDE DEF e
<1> QED BY <1>1, <1>2, <1>3

\* The timeline and its leaf.
LogTimeline ==
  entries \in Seq(Log!Entry) /\ Len(entries) <= MaxEntries
  /\ leaf \in 0..Len(entries) /\ Log!BranchesAreContextual

\* What a step may do to the timeline: a leaf that moves in a step that appends moves to
\* an entry whose parent is the leaf it leaves.
LogContinues ==
  leaf' # leaf /\ Len(entries') > Len(entries)
    => leaf' \in 1..Len(entries') /\ entries'[leaf'].parent = leaf

\* A timeline of contextual branches is a tree whose leaf is contextual.
LEMMA LogTreeOf ==
  Log!BranchesAreContextual <=> LogTree(entries) /\ (leaf # 0 => entries[leaf].kind \in Log!Contextual)
BY DEF Log!BranchesAreContextual, LogTree

\* An appended entry keeps the timeline.
LEMMA LogAppends ==
  ASSUME Log!BoundsAssumption, LogTimeline,
         NEW kind \in Log!Contextual \cup Log!Side, NEW t \in 0..MaxTurns,
         NEW key \in Keys \cup Log!TurnKey \cup {log_None}, NEW kept \in 0..MaxEntries,
         Log!AppendEntry(kind, t, key, kept)
  PROVE  LogTimeline' /\ LogContinues /\ Len(entries') = Len(entries) + 1
<1> DEFINE id == Len(entries) + 1
<1>0. entries \in Seq(Log!Entry) /\ Len(entries) \in Nat /\ leaf \in 0..Len(entries)
  BY DEF LogTimeline
<1>1. LogTree(entries) /\ LogPlace(entries, leaf) BY LogTreeOf, <1>0 DEF LogTimeline, LogPlace
<1>2. id <= MaxEntries /\ entries' = Log!With(entries, leaf, kind, t, key, kept)
      /\ leaf' = IF kind \in Log!Contextual THEN id ELSE leaf
  BY DEF Log!AppendEntry, Log!Room, Log!NewLeaf
<1>3. /\ entries' \in Seq(Log!Entry) /\ Len(entries') = id /\ LogTree(entries')
      /\ \A i \in 1..Len(entries) : entries'[i] = entries[i]
      /\ entries'[id].kind = kind /\ entries'[id].parent = leaf
  <2>1. leaf \in 0..MaxEntries BY <1>0, <1>2 DEF Log!BoundsAssumption
  <2>2. PICK e \in Log!Entry : entries' = Append(entries, e) /\ e.kind = kind /\ e.parent = leaf
    <3>1. \E e \in Log!Entry : /\ Log!With(entries, leaf, kind, t, key, kept) = Append(entries, e)
                               /\ e.kind = kind /\ e.parent = leaf
      BY <2>1, LogWithAppends
    <3> QED BY <1>2, <3>1
  <2>3. LogGrown(entries, e, entries') BY <1>0, <1>1, <2>2, LogGrows
  <2> QED BY <2>2, <2>3 DEF LogGrown
<1>4. leaf' \in 0..id BY <1>0, <1>2
<1>5. leaf' # 0 => entries'[leaf'].kind \in Log!Contextual
  <2>1. CASE kind \in Log!Contextual BY <2>1, <1>2, <1>3
  <2>2. CASE kind \notin Log!Contextual
    <3>1. leaf' = leaf BY <2>2, <1>2
    <3>2. leaf # 0 => leaf \in 1..Len(entries) /\ entries[leaf].kind \in Log!Contextual
      BY <1>0, <1>1 DEF LogPlace
    <3> QED BY <3>1, <3>2, <1>3
  <2> QED BY <2>1, <2>2
<1>6. Log!BranchesAreContextual' BY <1>3, <1>5 DEF Log!BranchesAreContextual, LogTree
<1>7. LogTimeline' BY <1>2, <1>3, <1>4, <1>6 DEF LogTimeline
<1>8. LogContinues
  <2>1. leaf' # leaf => leaf' = id BY <1>2
  <2> QED BY <2>1, <1>0, <1>3 DEF LogContinues
<1> QED BY <1>3, <1>7, <1>8

--------------------
(* The steps.                                                              *)

\* A step that leaves the timeline or appends to it.
LogKept ==
  /\ LogTimeline' /\ LogContinues /\ Len(entries') >= Len(entries)
  /\ turn' \in 0..MaxTurns /\ running' \in BOOLEAN /\ (running' => turn' > 0)

\* What such a step needs besides, to keep the invariant.
LEMMA LogTogether ==
  ASSUME Log!BoundsAssumption, LogIInv, LogKept, Log!RepeatedObservationsAccepted', UNCHANGED page,
         intent' \in [op : {"none", "message", "compaction"}, at : 0..MaxEntries]
  PROVE  LogIInv' /\ LogContinues
<1>0. Len(entries) \in Nat /\ page \in [after : Nat, seen : Seq(Nat), done : BOOLEAN]
  BY DEF LogIInv, LogTyped
<1>1. Len(entries') \in Nat BY DEF LogKept, LogTimeline
<1>2. LogTyped' BY <1>0 DEF LogTyped, LogKept, LogTimeline
<1>3. LogPaged'
  <2>1. Log!EntryPagesAreComplete' BY DEF LogIInv, LogPaged, Log!EntryPagesAreComplete
  <2>2. page.after \in Nat BY <1>0
  <2> QED BY <1>0, <1>1, <2>1, <2>2 DEF LogIInv, LogPaged, LogKept
<1> QED BY <1>2, <1>3 DEF LogIInv, LogKept, LogTimeline

\* The invariant gives the timeline.
LEMMA LogHasTimeline ==
  ASSUME LogIInv PROVE LogTimeline
BY DEF LogIInv, LogTyped, LogTimeline

\* The steps of a Turn.
LEMMA LogTurnSteps ==
  ASSUME Log!BoundsAssumption, LogIInv,
         \/ Log!AcceptTurn \/ Log!TurnStarted \/ Log!AppendToolRequested \/ Log!AppendToolResult \/ Log!TurnEnded
  PROVE  LogIInv' /\ LogContinues
<1>0. LogTimeline /\ turn \in 0..MaxTurns /\ running \in BOOLEAN /\ (running => turn > 0)
      /\ MaxTurns \in Nat /\ MaxEntries \in Nat
  BY LogHasTimeline DEF LogIInv, LogTyped, Log!BoundsAssumption
<1>1. 0 \in 0..MaxTurns /\ 0 \in 0..MaxEntries /\ log_None \in Keys \cup Log!TurnKey \cup {log_None}
  BY <1>0
<1>2. {"user", "turn_started", "tool_started", "tool_result", "turn_ended"}
        \subseteq Log!Contextual \cup Log!Side
  BY DEF Log!Contextual, Log!Side
<1>3. PICK kind \in Log!Contextual \cup Log!Side, t \in 0..MaxTurns : Log!AppendEntry(kind, t, log_None, 0)
  <2>1. CASE Log!AcceptTurn BY <2>1, <1>1, <1>2 DEF Log!AcceptTurn
  <2>2. CASE Log!TurnStarted BY <2>2, <1>0, <1>2 DEF Log!TurnStarted
  <2>3. CASE Log!AppendToolRequested BY <2>3, <1>0, <1>2 DEF Log!AppendToolRequested
  <2>4. CASE Log!AppendToolResult BY <2>4, <1>0, <1>2 DEF Log!AppendToolResult
  <2>5. CASE Log!TurnEnded BY <2>5, <1>0, <1>2 DEF Log!TurnEnded
  <2> QED BY <2>1, <2>2, <2>3, <2>4, <2>5
<1>4. LogTimeline' /\ LogContinues /\ Len(entries') = Len(entries) + 1
  BY <1>0, <1>1, <1>3, LogAppends
<1>5. turn' \in 0..MaxTurns /\ running' \in BOOLEAN /\ (running' => turn' > 0)
  <2>1. CASE Log!AcceptTurn BY <2>1, <1>0 DEF Log!AcceptTurn
  <2>2. CASE ~Log!AcceptTurn
    <3>1. turn' = turn /\ (running' = running \/ running' = FALSE)
      BY <2>2 DEF Log!TurnStarted, Log!AppendToolRequested, Log!AppendToolResult, Log!TurnEnded
    <3>2. running' \in BOOLEAN BY <3>1, <1>0
    <3>3. running' => running BY <3>1
    <3> QED BY <3>1, <3>2, <3>3, <1>0
  <2> QED BY <2>1, <2>2
<1>6. UNCHANGED <<intent, refused, page>>
  BY DEF Log!AcceptTurn, Log!TurnStarted, Log!AppendToolRequested, Log!AppendToolResult, Log!TurnEnded
<1>7. LogKept
  <2>1. Len(entries) \in Nat BY <1>0 DEF LogTimeline
  <2> QED BY <1>4, <1>5, <2>1 DEF LogKept
<1>8. Log!RepeatedObservationsAccepted' BY <1>6 DEF LogIInv, Log!RepeatedObservationsAccepted
<1>9. intent' \in [op : {"none", "message", "compaction"}, at : 0..MaxEntries]
  BY <1>6 DEF LogIInv, LogTyped
<1> QED BY <1>6, <1>7, <1>8, <1>9, LogTogether

\* A response appends one entry, or two.
LEMMA LogResponseStep ==
  ASSUME Log!BoundsAssumption, LogIInv, NEW calls \in 0..1, Log!AppendAssistantResponse(calls)
  PROVE  LogIInv' /\ LogContinues
<1> DEFINE id == Len(entries) + 1
           first == Log!With(entries, leaf, "assistant", turn, log_None, 0)
           second == Log!With(first, id, "tool_started", turn, log_None, 0)
<1>0. /\ LogTimeline /\ turn \in 0..MaxTurns /\ MaxTurns \in Nat /\ MaxEntries \in Nat
      /\ entries \in Seq(Log!Entry) /\ Len(entries) \in Nat /\ leaf \in 0..Len(entries)
  BY LogHasTimeline DEF LogIInv, LogTyped, Log!BoundsAssumption
<1>1. LogTree(entries) /\ LogPlace(entries, leaf) BY LogTreeOf, <1>0 DEF LogTimeline, LogPlace
<1>2. 0 \in 0..MaxEntries /\ log_None \in Keys \cup Log!TurnKey \cup {log_None}
      /\ {"assistant", "tool_started"} \subseteq Log!Contextual \cup Log!Side
      /\ "assistant" \in Log!Contextual
  BY <1>0 DEF Log!Contextual, Log!Side
<1>3. /\ running /\ id + calls <= MaxEntries
      /\ entries' = IF calls = 0 THEN first ELSE second
      /\ leaf' = id
  BY <1>0 DEF Log!AppendAssistantResponse, Log!Room
<1>4. /\ first \in Seq(Log!Entry) /\ Len(first) = id /\ LogTree(first)
      /\ first[id].kind = "assistant" /\ first[id].parent = leaf
  <2>1. leaf \in 0..MaxEntries BY <1>0, <1>3
  <2>2. PICK e \in Log!Entry : /\ first = Append(entries, e)
                          /\ e.kind = "assistant" /\ e.parent = leaf
    <3> DEFINE e == [kind |-> "assistant", parent |-> leaf, turn |-> turn,
                     key |-> log_None, kept |-> 0]
    <3>1. e \in Log!Entry BY <2>1, <1>0, <1>2 DEF Log!Entry
    <3>2. first = Append(entries, e) BY DEF Log!With
    <3>3. e.kind = "assistant" /\ e.parent = leaf  OBVIOUS
    <3> HIDE DEF e, first
    <3> QED BY <3>1, <3>2, <3>3
  <2> HIDE DEF first
  <2>3. LogGrown(entries, e, first) BY <1>0, <1>1, <2>2, LogGrows
  <2> QED BY <2>2, <2>3 DEF LogGrown
<1> HIDE DEF first
<1>5. LogTimeline' /\ LogContinues /\ Len(entries') >= Len(entries)
  <2>1. CASE calls = 0
    <3>1. entries' = first BY <2>1, <1>3
    <3>2. Len(entries') = id /\ id <= MaxEntries /\ leaf' \in 0..id BY <3>1, <1>0, <1>3, <1>4
    <3>3. Log!BranchesAreContextual'
      BY <3>1, <1>2, <1>3, <1>4 DEF Log!BranchesAreContextual, LogTree
    <3>4. LogTimeline' BY <3>1, <3>2, <3>3, <1>4 DEF LogTimeline
    <3>5. LogContinues BY <3>1, <3>2, <1>0, <1>3, <1>4 DEF LogContinues
    <3> QED BY <3>2, <3>4, <3>5, <1>0
  <2>2. CASE calls = 1
    <3>1. entries' = second BY <2>2, <1>3
    <3>2. LogPlace(first, id) /\ id \in 1..Len(first) BY <1>0, <1>2, <1>4 DEF LogPlace
    <3>3. Len(first) + 1 <= MaxEntries BY <1>0, <1>3, <1>4, <2>2
    <3>4. /\ second \in Seq(Log!Entry) /\ Len(second) = Len(first) + 1 /\ LogTree(second)
          /\ \A i \in 1..Len(first) : second[i] = first[i]
      <4>1. id \in 0..MaxEntries BY <3>2, <3>3, <1>0, <1>4
      <4>2. PICK e \in Log!Entry : /\ second = Append(first, e)
                              /\ e.kind = "tool_started" /\ e.parent = id
        <5> DEFINE e == [kind |-> "tool_started", parent |-> id, turn |-> turn,
                         key |-> log_None, kept |-> 0]
        <5>1. e \in Log!Entry BY <4>1, <1>0, <1>2 DEF Log!Entry
        <5>2. second = Append(first, e) BY DEF Log!With
        <5>3. e.kind = "tool_started" /\ e.parent = id  OBVIOUS
        <5> HIDE DEF e, second
        <5> QED BY <5>1, <5>2, <5>3
      <4> HIDE DEF second
      <4>3. LogGrown(first, e, second) BY <1>4, <3>2, <4>2, LogGrows
      <4> QED BY <4>2, <4>3 DEF LogGrown
    <3> HIDE DEF second
    <3>5. second[id] = first[id] BY <3>2, <3>4
    <3>6. Len(entries') = id + 1 /\ id + 1 <= MaxEntries /\ leaf' \in 0..(id + 1)
      BY <3>1, <3>3, <3>4, <1>0, <1>3, <1>4
    <3>7. Log!BranchesAreContextual'
      BY <3>1, <3>4, <3>5, <1>2, <1>3, <1>4 DEF Log!BranchesAreContextual, LogTree
    <3>8. LogTimeline' BY <3>1, <3>4, <3>6, <3>7 DEF LogTimeline
    <3>9. LogContinues BY <3>1, <3>5, <3>6, <1>0, <1>3, <1>4 DEF LogContinues
    <3> QED BY <3>6, <3>8, <3>9, <1>0
  <2> QED BY <2>1, <2>2
<1>6. UNCHANGED <<turn, running, intent, refused, page>> BY DEF Log!AppendAssistantResponse
<1>7. LogKept BY <1>5, <1>6, <1>0 DEF LogKept, LogIInv, LogTyped
<1>8. Log!RepeatedObservationsAccepted' BY <1>6 DEF LogIInv, Log!RepeatedObservationsAccepted
<1>9. intent' \in [op : {"none", "message", "compaction"}, at : 0..MaxEntries]
  BY <1>6 DEF LogIInv, LogTyped
<1> QED BY <1>6, <1>7, <1>8, <1>9, LogTogether

\* A key is accepted whether it is new or not, and without a key nothing is refused by one.
LEMMA LogObservationStep ==
  ASSUME Log!BoundsAssumption, LogIInv, turn > 0,
         NEW kind \in {"reasoning", "observation"}, NEW key \in Keys \cup {log_None},
         Log!RecordObservation(kind, key)
  PROVE  LogIInv' /\ LogContinues
<1>0. /\ LogTimeline /\ turn \in 0..MaxTurns /\ running \in BOOLEAN /\ (running => turn > 0)
      /\ MaxTurns \in Nat /\ MaxEntries \in Nat /\ Len(entries) \in Nat
  BY LogHasTimeline DEF LogIInv, LogTyped, Log!BoundsAssumption
<1>1. UNCHANGED <<turn, running, intent, page>> BY DEF Log!RecordObservation
<1>2. kind \in Log!Contextual \cup Log!Side BY DEF Log!Side
<1>3. CASE Log!KeyFree(Log!CorrelationId(key, turn))
  <2> DEFINE c == Log!CorrelationId(key, turn)
  <2>1. Log!AppendEntry(kind, turn, c, 0) /\ refused' = refused BY <1>3 DEF Log!RecordObservation
  <2>2. c \in Keys \cup Log!TurnKey \cup {log_None}
    <3>1. turn \in 1..MaxTurns BY <1>0
    <3>2. <<"turn", turn>> \in Log!TurnKey  BY <3>1 DEF Log!TurnKey
    <3> QED BY <3>2 DEF Log!CorrelationId
  <2>3. 0 \in 0..MaxEntries BY <1>0
  <2> HIDE DEF c
  <2>4. LogTimeline' /\ LogContinues /\ Len(entries') = Len(entries) + 1
    BY <1>0, <1>2, <2>1, <2>2, <2>3, LogAppends
  <2>5. LogKept BY <1>0, <1>1, <2>4 DEF LogKept
  <2>6. Log!RepeatedObservationsAccepted' BY <2>1 DEF LogIInv, Log!RepeatedObservationsAccepted
  <2>7. intent' \in [op : {"none", "message", "compaction"}, at : 0..MaxEntries]
    BY <1>1 DEF LogIInv, LogTyped
  <2> QED BY <1>1, <2>5, <2>6, <2>7, LogTogether
<1>4. CASE ~Log!KeyFree(Log!CorrelationId(key, turn))
  <2>1. refused' = refused \cup {key} /\ UNCHANGED <<entries, leaf>> /\ ~Log!ObservationExists(key)
    BY <1>4 DEF Log!RecordObservation
  <2>2. key = log_None
    <3>1. SUFFICES ASSUME key # log_None PROVE FALSE OBVIOUS
    <3>2. Log!KeyFree(key) BY <2>1, <3>1 DEF Log!ObservationExists, Log!KeyFree
    <3>3. Log!CorrelationId(key, turn) = key BY <3>1 DEF Log!CorrelationId
    <3> QED BY <1>4, <3>2, <3>3
  <2>3. Log!RepeatedObservationsAccepted'
    BY <2>1, <2>2 DEF LogIInv, Log!RepeatedObservationsAccepted
  <2>4. LogTimeline' BY <1>0, <2>1 DEF LogTimeline, Log!BranchesAreContextual
  <2>5. LogContinues BY <2>1 DEF LogContinues
  <2>6. LogKept BY <1>0, <1>1, <2>1, <2>4, <2>5 DEF LogKept
  <2>7. intent' \in [op : {"none", "message", "compaction"}, at : 0..MaxEntries]
    BY <1>1 DEF LogIInv, LogTyped
  <2> QED BY <1>1, <2>3, <2>6, <2>7, LogTogether
<1> QED BY <1>3, <1>4

\* Reading the leaf or the boundary before a transaction.
LEMMA LogReadSteps ==
  ASSUME Log!BoundsAssumption, LogIInv, Log!ReadLeaf \/ \E kept \in Log!Ids : Log!CheckBoundary(kept)
  PROVE  LogIInv' /\ LogContinues
<1>0. LogTimeline /\ turn \in 0..MaxTurns /\ running \in BOOLEAN /\ (running => turn > 0)
      /\ MaxEntries \in Nat /\ Len(entries) \in Nat
  BY LogHasTimeline DEF LogIInv, LogTyped, Log!BoundsAssumption
<1>1. UNCHANGED <<entries, leaf, turn, running, refused, page>>
  BY DEF Log!ReadLeaf, Log!CheckBoundary, Log!log
<1>2. intent' \in [op : {"none", "message", "compaction"}, at : 0..MaxEntries]
  <2>1. CASE Log!ReadLeaf
    <3>1. leaf \in 0..MaxEntries BY <1>0 DEF LogTimeline
    <3> QED BY <2>1, <3>1 DEF Log!ReadLeaf
  <2>2. ASSUME NEW kept \in Log!Ids, Log!CheckBoundary(kept)
        PROVE  intent' \in [op : {"none", "message", "compaction"}, at : 0..MaxEntries]
    <3>1. kept \in 0..MaxEntries BY <1>0 DEF Log!Ids
    <3> QED BY <2>2, <3>1 DEF Log!CheckBoundary
  <2> QED BY <2>1, <2>2
<1>3. LogTimeline' BY <1>0, <1>1 DEF LogTimeline, Log!BranchesAreContextual
<1>4. LogKept BY <1>0, <1>1, <1>3 DEF LogKept, LogContinues
<1>5. Log!RepeatedObservationsAccepted' BY <1>1 DEF LogIInv, Log!RepeatedObservationsAccepted
<1>6. LogContinues BY <1>1 DEF LogContinues
<1> QED BY <1>1, <1>2, <1>4, <1>5, LogTogether

\* The transactions of append_message and append_context_compaction.
LEMMA LogWriteSteps ==
  ASSUME Log!BoundsAssumption, LogIInv, Log!AppendMessageChecked \/ Log!AppendContextCompaction
  PROVE  LogIInv' /\ LogContinues
<1>0. /\ LogTimeline /\ turn \in 0..MaxTurns /\ running \in BOOLEAN /\ (running => turn > 0)
      /\ MaxTurns \in Nat /\ MaxEntries \in Nat /\ Len(entries) \in Nat
      /\ intent.at \in 0..MaxEntries
  BY LogHasTimeline DEF LogIInv, LogTyped, Log!BoundsAssumption
<1>1. UNCHANGED <<turn, running, refused, page>> /\ intent' = Log!Idle
  BY DEF Log!AppendMessageChecked, Log!AppendContextCompaction
<1>2. LogTimeline' /\ LogContinues /\ Len(entries') >= Len(entries)
  <2>1. CASE UNCHANGED <<entries, leaf>>
    <3>1. LogTimeline' BY <1>0, <2>1 DEF LogTimeline, Log!BranchesAreContextual
    <3> QED BY <1>0, <2>1, <3>1 DEF LogContinues
  <2>2. ASSUME NEW kind \in {"user", "compaction"}, NEW kept \in 0..MaxEntries,
               Log!AppendEntry(kind, 0, log_None, kept)
        PROVE  LogTimeline' /\ LogContinues /\ Len(entries') >= Len(entries)
    <3>1. kind \in Log!Contextual \cup Log!Side BY DEF Log!Contextual
    <3>2. 0 \in 0..MaxTurns /\ log_None \in Keys \cup Log!TurnKey \cup {log_None} BY <1>0
    <3>3. LogTimeline' /\ LogContinues /\ Len(entries') = Len(entries) + 1
      BY <1>0, <2>2, <3>1, <3>2, LogAppends
    <3> QED BY <1>0, <3>3
  <2>3. 0 \in 0..MaxEntries BY <1>0
  <2>4. CASE Log!AppendMessageChecked BY <2>1, <2>2, <2>3, <2>4 DEF Log!AppendMessageChecked
  <2>5. CASE Log!AppendContextCompaction BY <1>0, <2>2, <2>5 DEF Log!AppendContextCompaction
  <2> QED BY <2>4, <2>5
<1>3. LogKept BY <1>0, <1>1, <1>2 DEF LogKept
<1>4. Log!RepeatedObservationsAccepted' BY <1>1 DEF LogIInv, Log!RepeatedObservationsAccepted
<1>5. intent' \in [op : {"none", "message", "compaction"}, at : 0..MaxEntries]
  BY <1>0, <1>1 DEF Log!Idle
<1> QED BY <1>1, <1>2, <1>3, <1>4, <1>5, LogTogether

\* A branch is changed to an entry that is contextual, or to none.
LEMMA LogLeafStep ==
  ASSUME Log!BoundsAssumption, LogIInv, NEW new \in 0..MaxEntries, Log!SetSessionLeaf(new)
  PROVE  LogIInv' /\ LogContinues
<1>0. /\ LogTimeline /\ turn \in 0..MaxTurns /\ running \in BOOLEAN /\ (running => turn > 0)
      /\ Len(entries) \in Nat
  BY LogHasTimeline DEF LogIInv, LogTyped, Log!BoundsAssumption
<1>1. UNCHANGED <<entries, turn, running, intent, refused, page>> /\ leaf' = new
      /\ (new = 0 \/ (new \in 1..Len(entries) /\ entries[new].kind \in Log!Contextual))
  BY DEF Log!SetSessionLeaf
<1>2. Log!BranchesAreContextual'
  <2>1. LogTree(entries) BY <1>0, LogTreeOf DEF LogTimeline
  <2> QED BY <1>1, <2>1 DEF Log!BranchesAreContextual, LogTree
<1>3. LogTimeline'
  <2>1. leaf' \in 0..Len(entries) BY <1>0, <1>1
  <2> QED BY <1>0, <1>1, <1>2, <2>1 DEF LogTimeline
<1>4. LogContinues BY <1>0, <1>1 DEF LogContinues
<1>5. LogKept BY <1>0, <1>1, <1>3, <1>4 DEF LogKept
<1>6. Log!RepeatedObservationsAccepted' BY <1>1 DEF LogIInv, Log!RepeatedObservationsAccepted
<1>7. intent' \in [op : {"none", "message", "compaction"}, at : 0..MaxEntries]
  BY <1>1 DEF LogIInv, LogTyped
<1> QED BY <1>1, <1>4, <1>5, <1>6, <1>7, LogTogether

\* The smaller of two numbers.
LEMMA LogMinOfTwo ==
  ASSUME NEW a \in Nat, NEW b \in Nat
  PROVE  Log!Min({a, b}) \in Nat /\ Log!Min({a, b}) <= a /\ Log!Min({a, b}) <= b
<1> DEFINE m == IF a <= b THEN a ELSE b
<1>1. m \in {a, b} /\ \A y \in {a, b} : m <= y OBVIOUS
<1>2. Log!Min({a, b}) \in {a, b} /\ \A y \in {a, b} : Log!Min({a, b}) <= y
  <2> HIDE DEF m
  <2> QED BY <1>1 DEF Log!Min
<1> QED BY <1>2

\* A page of entries continues what the client has seen.
LEMMA LogPageStep ==
  ASSUME Log!BoundsAssumption, LogIInv, NEW n \in 0..Limit, Log!SessionEntriesPage(n)
  PROVE  LogIInv' /\ LogContinues
<1> DEFINE len == Len(entries) - page.after
           rest == [i \in 1..len |-> page.after + i]
           some == SubSeq(rest, 1, n)
<1>0. /\ LogTimeline /\ Len(entries) \in Nat /\ Limit \in Nat
      /\ page \in [after : Nat, seen : Seq(Nat), done : BOOLEAN]
  BY LogHasTimeline DEF LogIInv, LogTyped, Log!BoundsAssumption
<1>1. /\ ~page.done
      /\ n \in IF rest = <<>> THEN {0} ELSE 1..Log!Min({Limit, Len(rest)})
      /\ page' = [after |-> IF n < Len(rest) THEN rest[n] ELSE page.after,
                  seen |-> page.seen \o some, done |-> n = Len(rest)]
      /\ UNCHANGED <<Log!log, intent, history>>
  BY DEF Log!SessionEntriesPage, Log!PageNext
<1>2. /\ page.after = Len(page.seen) /\ page.after <= Len(entries) /\ page.after \in Nat
      /\ page.seen = [i \in 1..Len(page.seen) |-> i] /\ page.seen \in Seq(Nat)
  BY <1>0, <1>1 DEF LogIInv, LogPaged, Log!EntryPagesAreComplete
<1>3. len \in Nat BY <1>0, <1>2
<1>4. rest \in Seq(Nat) /\ Len(rest) = len /\ \A i \in 1..len : rest[i] = page.after + i
  BY <1>2, <1>3
<1> HIDE DEF rest
<1>5. n \in Nat /\ n <= len /\ (n < len => n > 0)
  <2>1. CASE rest = <<>> BY <2>1, <1>1, <1>4
  <2>2. CASE rest # <<>>
    <3>1. n \in 1..Log!Min({Limit, len}) BY <2>2, <1>1, <1>4
    <3>2. Log!Min({Limit, len}) \in Nat /\ Log!Min({Limit, len}) <= len BY <1>0, <1>3, LogMinOfTwo
    <3> HIDE DEF len
    <3> QED BY <3>1, <3>2, <1>3
  <2> QED BY <2>1, <2>2
<1>6. some \in Seq(Nat) /\ Len(some) = n /\ \A i \in 1..n : some[i] = page.after + i
  <2> HIDE DEF len
  <2> QED BY <1>3, <1>4, <1>5
<1> HIDE DEF some
<1> DEFINE seen == page.seen \o some
<1>7. /\ seen \in Seq(Nat) /\ Len(seen) = page.after + n
      /\ \A i \in 1..(page.after + n) : seen[i] = i
  <2>1. seen \in Seq(Nat) BY <1>2, <1>6
  <2>2. Len(seen) = Len(page.seen) + Len(some)
    <3>1. page.seen \in Seq(Nat) /\ some \in Seq(Nat) BY <1>2, <1>6
    <3> QED BY <3>1
  <2>3. ASSUME NEW i \in 1..(page.after + n) PROVE seen[i] = i
    <3>1. CASE i <= page.after
      <4>1. i \in 1..Len(page.seen) BY <3>1, <1>2, <1>5
      <4>2. seen[i] = page.seen[i] BY <4>1, <1>2, <1>6
      <4> QED BY <4>1, <4>2, <1>2
    <3>2. CASE ~(i <= page.after)
      <4>1. i - page.after \in 1..n BY <3>2, <1>2, <1>5
      <4>2. i \in Len(page.seen) + 1 .. Len(page.seen) + Len(some)
        BY <3>2, <1>2, <1>5, <1>6
      <4>3. seen[i] = some[i - Len(page.seen)] BY <4>2, <1>2, <1>6
      <4> QED BY <4>1, <4>3, <1>2, <1>6
    <3> QED BY <3>1, <3>2
  <2> QED BY <2>1, <2>2, <2>3, <1>2, <1>6
<1> HIDE DEF seen
<1>8. page'.seen = seen /\ Len(seen) \in Nat BY <1>1, <1>7 DEF seen
<1>9. Log!EntryPagesAreComplete'
  <2>1. seen = [i \in 1..Len(seen) |-> i]
    <3>1. DOMAIN seen = 1..Len(seen) BY <1>7
    <3>2. seen = [i \in DOMAIN seen |-> seen[i]] BY <1>7
    <3>3. \A i \in 1..Len(seen) : seen[i] = i BY <1>7
    <3> QED BY <3>1, <3>2, <3>3
  <2> QED BY <2>1, <1>8 DEF Log!EntryPagesAreComplete
<1>10. page'.done \in BOOLEAN /\ page'.after \in Nat
      /\ (~page'.done => page'.after = Len(page'.seen) /\ page'.after <= Len(entries))
  <2>1. page'.done = (n = len) /\ page'.after = IF n < len THEN rest[n] ELSE page.after
    BY <1>1, <1>4
  <2>2. CASE n < len
    <3>1. n \in 1..len BY <2>2, <1>3, <1>5
    <3>2. page'.after = page.after + n BY <2>1, <2>2, <3>1, <1>4
    <3> QED BY <2>1, <2>2, <3>2, <1>0, <1>2, <1>5, <1>7, <1>8
  <2>3. CASE n = len
    <3>1. ~(n < len) BY <2>3, <1>3
    <3>2. page'.after = page.after /\ page'.done = TRUE BY <2>1, <2>3, <3>1
    <3> QED BY <3>2, <1>2
  <2> QED BY <2>2, <2>3, <1>3, <1>5
<1>11. UNCHANGED <<entries, leaf, turn, running, refused, intent>> BY <1>1 DEF Log!log
<1>12. page' \in [after : Nat, seen : Seq(Nat), done : BOOLEAN] BY <1>1, <1>7, <1>8, <1>10
<1>13. LogTyped' BY <1>11, <1>12 DEF LogIInv, LogTyped
<1>14. LogPaged' BY <1>9, <1>10, <1>11 DEF LogPaged
<1>15. Log!BranchesAreContextual' /\ Log!RepeatedObservationsAccepted'
  BY <1>11 DEF LogIInv, Log!BranchesAreContextual, Log!RepeatedObservationsAccepted
<1>16. LogContinues BY <1>11 DEF LogContinues
<1> QED BY <1>13, <1>14, <1>15, <1>16 DEF LogIInv

--------------------
(* Every step.                                                             *)

\* The invariant holds in the initial states.
LEMMA LogInitially ==
  ASSUME Log!BoundsAssumption, Log!Init
  PROVE  LogIInv
<1>1. LogTyped
  <2>1. MaxTurns \in Nat /\ MaxEntries \in Nat BY DEF Log!BoundsAssumption
  <2>2. page \in [after : Nat, seen : Seq(Nat), done : BOOLEAN] BY DEF Log!Init
  <2>3. intent \in [op : {"none", "message", "compaction"}, at : 0..MaxEntries]
    BY <2>1 DEF Log!Init, Log!Idle
  <2>4. entries \in Seq(Log!Entry) /\ Len(entries) = 0 /\ leaf = 0 /\ turn = 0 /\ running = FALSE
    BY DEF Log!Init
  <2>5. leaf \in 0..Len(entries) /\ Len(entries) <= MaxEntries /\ turn \in 0..MaxTurns
    BY <2>1, <2>4
  <2> QED BY <2>2, <2>3, <2>4, <2>5 DEF LogTyped
<1>2. Log!BranchesAreContextual /\ Log!RepeatedObservationsAccepted
  BY DEF Log!Init, Log!BranchesAreContextual, Log!RepeatedObservationsAccepted
<1>3. LogPaged BY DEF Log!Init, LogPaged, Log!EntryPagesAreComplete
<1> QED BY <1>1, <1>2, <1>3 DEF LogIInv

\* Every step keeps the invariant and continues the branch it leaves.
LEMMA LogStep ==
  ASSUME Log!BoundsAssumption, LogIInv, [Log!Next]_Log!vars
  PROVE  LogIInv' /\ LogContinues
<1>1. CASE UNCHANGED Log!vars
  <2>1. UNCHANGED <<entries, leaf, turn, running, refused, intent, page>>
    BY <1>1 DEF Log!vars, Log!log
  <2> QED BY <2>1 DEF LogIInv, LogTyped, Log!BranchesAreContextual, Log!RepeatedObservationsAccepted, LogPaged,
                      Log!EntryPagesAreComplete, LogContinues
<1>2. CASE \/ Log!AcceptTurn \/ Log!TurnStarted \/ Log!AppendToolRequested \/ Log!AppendToolResult \/ Log!TurnEnded
  BY <1>2, LogTurnSteps
<1>3. ASSUME NEW calls \in 0..1, Log!AppendAssistantResponse(calls) PROVE LogIInv' /\ LogContinues
  BY <1>3, LogResponseStep
<1>4. ASSUME NEW key \in Keys \cup {log_None},
             Log!AppendReasoning(key) \/ Log!AppendHarnessObservation(key) \/ Log!AppendAcpObservation(key)
      PROVE  LogIInv' /\ LogContinues
  <2>1. turn > 0 BY <1>4 DEF Log!AppendReasoning, Log!AppendHarnessObservation, Log!AppendAcpObservation,
                             LogIInv, LogTyped
  <2>2. Log!RecordObservation("reasoning", key) \/ Log!RecordObservation("observation", key)
    BY <1>4 DEF Log!AppendReasoning, Log!AppendHarnessObservation, Log!AppendAcpObservation
  <2> QED BY <2>1, <2>2, LogObservationStep
<1>5. CASE Log!ReadLeaf \/ \E kept \in Log!Ids : Log!CheckBoundary(kept) BY <1>5, LogReadSteps
<1>6. CASE Log!AppendMessageChecked \/ Log!AppendContextCompaction BY <1>6, LogWriteSteps
<1>7. ASSUME NEW new \in 0..MaxEntries, Log!SetSessionLeaf(new) PROVE LogIInv' /\ LogContinues
  BY <1>7, LogLeafStep
<1>8. ASSUME NEW n \in 0..Limit, Log!SessionEntriesPage(n) PROVE LogIInv' /\ LogContinues
  BY <1>8, LogPageStep
<1>9. ASSUME NEW n \in 0..Limit, Log!ActiveMessagesPage(n) PROVE LogIInv' /\ LogContinues
  <2>1. UNCHANGED <<entries, leaf, turn, running, refused, intent, page>>
    BY <1>9 DEF Log!ActiveMessagesPage, Log!log
  <2> QED BY <2>1 DEF LogIInv, LogTyped, Log!BranchesAreContextual, Log!RepeatedObservationsAccepted, LogPaged,
                      Log!EntryPagesAreComplete, LogContinues
<1> QED BY <1>1, <1>2, <1>3, <1>4, <1>5, <1>6, <1>7, <1>8, <1>9 DEF Log!Next

\* The leaf a step leaves is on the branch it moves to.
LEMMA LogOnBranch ==
  ASSUME Log!BoundsAssumption, LogIInv', LogContinues
  PROVE  leaf' # leaf /\ Len(entries') > Len(entries) => leaf \in Log!Branch(entries', leaf') \cup {0}
<1>1. SUFFICES ASSUME leaf' # leaf, Len(entries') > Len(entries)
               PROVE  leaf \in Log!Branch(entries', leaf') \cup {0}
  OBVIOUS
<1>2. leaf' \in 1..Len(entries') /\ entries'[leaf'].parent = leaf BY <1>1 DEF LogContinues
<1>3. entries' \in Seq(Log!Entry) /\ Len(entries') \in Nat /\ Log!BranchesAreContextual'
  BY DEF LogIInv, LogTyped
<1>4. \A i \in 1..Len(entries') : entries'[i].parent \in 0..(i - 1)
  <2>1. SUFFICES ASSUME NEW i \in 1..Len(entries') PROVE entries'[i].parent \in 0..(i - 1)
    OBVIOUS
  <2>2. entries'[i].parent \in Nat
    <3>1. entries'[i] \in Log!Entry BY <1>3
    <3> QED BY <3>1 DEF Log!Entry, Log!BoundsAssumption
  <2>3. entries'[i].parent # 0 => entries'[i].parent < i BY <1>3 DEF Log!BranchesAreContextual
  <2> QED BY <2>2, <2>3, <1>3
<1>5. entries'[leaf'].parent \in Log!Branch(entries', leaf') \cup {0}
  BY <1>2, <1>3, <1>4, LogParentOnBranch
<1> QED BY <1>2, <1>5

--------------------
(* Least and largest numbers.                                             *)

\* A set of numbers has a least one.
LEMMA LogLeastNat ==
  ASSUME NEW T, T \subseteq Nat, T # {}
  PROVE  \E m \in T : \A y \in T : m <= y
<1>1. PICK m \in T : \A y \in T : ~(<<y, m>> \in OpToRel(<, Nat))
  BY NatLessThanWellFounded, WFMin, Zenon
<1>2. ASSUME NEW y \in T PROVE m <= y
  <2>1. SUFFICES ASSUME y < m PROVE FALSE OBVIOUS
  <2>2. <<y, m>> \in OpToRel(<, Nat) BY <2>1 DEF OpToRel
  <2> QED BY <1>1, <2>2
<1> QED BY <1>2

\* A bounded set of numbers has a largest one.
LEMMA LogMaxIs ==
  ASSUME NEW S, S \subseteq Nat, S # {}, NEW n \in Nat, \A y \in S : y <= n
  PROVE  Log!Max(S) \in S /\ \A y \in S : y <= Log!Max(S)
<1> DEFINE T == {b \in Nat : \A y \in S : y <= b}
<1>1. n \in T OBVIOUS
<1>2. PICK b \in T : \A y \in T : b <= y
  <2>1. T \subseteq Nat /\ T # {} BY <1>1
  <2> HIDE DEF T
  <2> QED BY <2>1, LogLeastNat
<1>3. b \in Nat /\ \A y \in S : y <= b BY <1>2
<1>4. b \in S
  <2>1. SUFFICES ASSUME b \notin S PROVE FALSE OBVIOUS
  <2>2. PICK y \in S : TRUE OBVIOUS
  <2>3. y \in Nat /\ y < b BY <1>3, <2>1
  <2>4. b - 1 \in Nat BY <1>3, <2>3
  <2>5. \A z \in S : z <= b - 1
    <3>1. SUFFICES ASSUME NEW z \in S PROVE z <= b - 1 OBVIOUS
    <3>2. z \in Nat /\ z <= b /\ z # b BY <1>3, <2>1
    <3> QED BY <3>2, <1>3
  <2>6. b - 1 \in T BY <2>4, <2>5
  <2>7. b <= b - 1 BY <1>2, <2>6
  <2> QED BY <1>3, <2>7
<1>5. \A y \in S : b >= y BY <1>3
<1>6. Log!Max(S) \in S /\ \A y \in S : Log!Max(S) >= y BY <1>4, <1>5 DEF Log!Max
<1> QED BY <1>6

--------------------
(* Entries in the order of their sequence.                                 *)

\* The place of e among the entries S.
LogRank(S, e) == Log!Cardinality({d \in S : d <= e})

\* Every place is that of one entry, and later entries have later places.
LEMMA LogRanks ==
  ASSUME NEW n \in Nat, NEW S, S \subseteq 1..n
  PROVE  /\ Log!IsFiniteSet(S) /\ Log!Cardinality(S) \in Nat
         /\ \A e \in S : LogRank(S, e) \in 1..Log!Cardinality(S)
         /\ \A d, e \in S : d < e => LogRank(S, d) < LogRank(S, e)
         /\ \A i \in 1..Log!Cardinality(S) : \E e \in S : LogRank(S, e) = i
<1> DEFINE c == Log!Cardinality(S)
<1>1. Log!IsFiniteSet(S) /\ c \in Nat
  <2>1. Log!IsFiniteSet(1..n) BY FS_Interval, LogSets
  <2>2. Log!IsFiniteSet(S) BY <2>1, FS_Subset, LogSets
  <2> QED BY <2>2, FS_CardinalityType, LogSets
<1>2. \A e : Log!IsFiniteSet({d \in S : d <= e}) /\ LogRank(S, e) \in Nat /\ LogRank(S, e) <= c
  <2>1. SUFFICES ASSUME NEW e
        PROVE Log!IsFiniteSet({d \in S : d <= e}) /\ LogRank(S, e) \in Nat /\ LogRank(S, e) <= c
    OBVIOUS
  <2> DEFINE U == {d \in S : d <= e}
  <2>2. U \in SUBSET S OBVIOUS
  <2> HIDE DEF U
  <2>3. Log!IsFiniteSet(U) /\ Log!Cardinality(U) <= c BY <1>1, <2>2, FS_Subset, LogSets
  <2>4. Log!Cardinality(U) \in Nat BY <2>3, FS_CardinalityType, LogSets
  <2> QED BY <2>3, <2>4 DEF LogRank, U
<1>3. ASSUME NEW e \in S PROVE LogRank(S, e) \in 1..c
  <2>1. e \in {d \in S : d <= e} OBVIOUS
  <2>2. LogRank(S, e) # 0 BY <1>2, <2>1, FS_EmptySet, LogSets DEF LogRank
  <2>3. LogRank(S, e) \in Nat /\ LogRank(S, e) <= c BY <1>2
  <2> HIDE DEF c
  <2> QED BY <1>1, <2>2, <2>3
<1>4. ASSUME NEW d \in S, NEW e \in S, d < e PROVE LogRank(S, d) < LogRank(S, e)
  <2> DEFINE U == {x \in S : x <= d}
             V == {x \in S : x <= e}
  <2>1. U \in SUBSET V
    <3>1. SUFFICES ASSUME NEW x \in S, x <= d PROVE x <= e OBVIOUS
    <3> QED BY <1>4, <3>1
  <2>2. e \in V /\ e \notin U BY <1>4
  <2>3. Log!IsFiniteSet(V) /\ Log!Cardinality(V) \in Nat BY <1>2 DEF LogRank
  <2>4. Log!Cardinality(U) \in Nat BY <1>2 DEF LogRank
  <2> HIDE DEF U, V
  <2>5. Log!Cardinality(U) <= Log!Cardinality(V) /\ (Log!Cardinality(V) = Log!Cardinality(U) => V = U)
    BY <2>1, <2>3, FS_Subset, LogSets
  <2>6. Log!Cardinality(U) < Log!Cardinality(V) BY <2>2, <2>3, <2>4, <2>5
  <2> QED BY <2>6 DEF LogRank, U, V
<1>5. ASSUME NEW i \in 1..c PROVE \E e \in S : LogRank(S, e) = i
  <2> DEFINE f == [e \in S |-> LogRank(S, e)]
  <2>1. f \in [S -> 1..c] BY <1>3
  <2>2. \A d, e \in S : LogRank(S, d) = LogRank(S, e) => d = e
    <3>1. SUFFICES ASSUME NEW d \in S, NEW e \in S, LogRank(S, d) = LogRank(S, e), d # e PROVE FALSE
      OBVIOUS
    <3>2. d < e \/ e < d BY <3>1
    <3>3. LogRank(S, d) \in Nat /\ LogRank(S, e) \in Nat BY <1>2
    <3> QED BY <1>4, <3>1, <3>2, <3>3
  <2>3. f \in Injection(S, 1..c) BY <2>1, <2>2 DEF Injection, IsInjective
  <2>4. Log!IsFiniteSet(1..c) /\ Log!Cardinality(1..c) = c
    <3>1. c \in Int /\ 1 \in Int /\ (1 > c => c = 0) BY <1>1
    <3> HIDE DEF c
    <3>2. Log!IsFiniteSet(1..c) /\ Log!Cardinality(1..c) = IF 1 > c THEN 0 ELSE c - 1 + 1
      BY <3>1, FS_Interval, LogSets
    <3> QED BY <3>1, <3>2
  <2> HIDE DEF f
  <2>5. f \in Surjection(S, 1..c) BY <2>3, <2>4, FS_Injection, LogSets
  <2>6. \E e \in S : f[e] = i BY <2>5 DEF Surjection
  <2> QED BY <2>6 DEF f
<1> QED BY <1>1, <1>3, <1>4, <1>5

\* q lists the entries S in order.
LogLists(q, S) ==
  /\ q \in Seq(S)
  /\ \A i, j \in 1..Len(q) : i < j => q[i] < q[j]
  /\ \A e \in S : \E i \in 1..Len(q) : q[i] = e

\* What ORDER BY sequence gives.
LEMMA LogInOrder ==
  ASSUME NEW n \in Nat, NEW S, S \subseteq 1..n
  PROVE  /\ LogLists(Log!BySequence(S), S) /\ Len(Log!BySequence(S)) = Log!Cardinality(S)
         /\ \A i \in 1..Log!Cardinality(S) : LogRank(S, Log!BySequence(S)[i]) = i
<1> DEFINE q == Log!BySequence(S)
           c == Log!Cardinality(S)
<1>1. c \in Nat /\ \A e \in S : LogRank(S, e) \in 1..c BY LogRanks
<1>2. \A d, e \in S : d < e => LogRank(S, d) < LogRank(S, e) BY LogRanks
<1>3. \A i \in 1..c : \E e \in S : LogRank(S, e) = i BY LogRanks
<1>4. q = [i \in 1..c |-> CHOOSE e \in S : LogRank(S, e) = i] BY DEF Log!BySequence, LogRank
<1> HIDE DEF q
<1>5. \A i \in 1..c : q[i] \in S /\ LogRank(S, q[i]) = i BY <1>3, <1>4
<1>6. q \in Seq(S) /\ Len(q) = c BY <1>1, <1>4, <1>5
<1>7. \A d, e \in S : LogRank(S, d) < LogRank(S, e) => d < e
  <2>1. SUFFICES ASSUME NEW d \in S, NEW e \in S, LogRank(S, d) < LogRank(S, e), ~(d < e) PROVE FALSE
    OBVIOUS
  <2>2. d \in Nat /\ e \in Nat OBVIOUS
  <2>3. e < d \/ e = d BY <2>1, <2>2
  <2>4. LogRank(S, d) \in Nat /\ LogRank(S, e) \in Nat BY <1>1
  <2> QED BY <1>2, <2>1, <2>3, <2>4
<1>8. \A i, j \in 1..c : i < j => q[i] < q[j]
  <2>1. SUFFICES ASSUME NEW i \in 1..c, NEW j \in 1..c, i < j PROVE q[i] < q[j] OBVIOUS
  <2>2. q[i] \in S /\ q[j] \in S BY <1>5
  <2>3. LogRank(S, q[i]) = i /\ LogRank(S, q[j]) = j BY <1>5
  <2>4. LogRank(S, q[i]) < LogRank(S, q[j]) BY <2>1, <2>3
  <2> QED BY <1>7, <2>2, <2>4
<1>9. ASSUME NEW e \in S PROVE \E i \in 1..c : q[i] = e
  <2> DEFINE i == LogRank(S, e)
  <2>1. i \in 1..c /\ q[i] \in S /\ LogRank(S, q[i]) = LogRank(S, e) BY <1>1, <1>5
  <2>2. q[i] = e
    <3>0. \A d \in S : d \in Nat /\ ~(LogRank(S, d) < LogRank(S, d))
      <4>1. SUFFICES ASSUME NEW d \in S PROVE d \in Nat /\ ~(LogRank(S, d) < LogRank(S, d)) OBVIOUS
      <4>2. LogRank(S, d) \in 1..c BY <1>1
      <4> HIDE DEF c
      <4> QED BY <4>2
    <3>1. q[i] \in Nat /\ e \in Nat BY <2>1, <3>0
    <3> HIDE DEF i
    <3>2. ~(q[i] < e) /\ ~(e < q[i]) BY <1>2, <2>1, <3>0
    <3> QED BY <3>1, <3>2
  <2> QED BY <2>1, <2>2
<1> QED BY <1>5, <1>6, <1>8, <1>9 DEF LogLists, q

\* A later entry comes last.
LEMMA LogLastInOrder ==
  ASSUME NEW n \in Nat, NEW S, S \subseteq 1..n, NEW x \in Nat, n < x
  PROVE  Log!BySequence(S \cup {x}) = Append(Log!BySequence(S), x)
<1> DEFINE c == Log!Cardinality(S)
           R == S \cup {x}
           q == Log!BySequence(S)
           r == Log!BySequence(R)
<1>1. R \subseteq 1..x
  <2>1. \A e \in S : e \in 1..x OBVIOUS
  <2> QED BY <2>1
<1>2. x \notin S /\ Log!IsFiniteSet(S) /\ c \in Nat
  <2>1. x \notin 1..n OBVIOUS
  <2> QED BY <2>1, LogRanks
<1>3. Log!Cardinality(R) = c + 1 BY <1>2, FS_AddElement, LogSets
<1>4. \A e \in S : LogRank(R, e) = LogRank(S, e)
  <2>1. SUFFICES ASSUME NEW e \in S PROVE LogRank(R, e) = LogRank(S, e) OBVIOUS
  <2>2. e \in Nat /\ ~(x <= e) OBVIOUS
  <2>3. {d \in R : d <= e} = {d \in S : d <= e} BY <2>2
  <2> QED BY <2>3 DEF LogRank
<1>5. LogRank(R, x) = c + 1
  <2>1. \A d \in S : d <= x OBVIOUS
  <2>2. \A d \in R : d <= x BY <2>1
  <2> HIDE DEF R
  <2>3. {d \in R : d <= x} = R BY <2>2
  <2> QED BY <1>3, <2>3 DEF LogRank
<1>6. /\ q \in Seq(S) /\ Len(q) = c
      /\ \A i \in 1..c : q[i] \in S /\ LogRank(S, q[i]) = i
  <2>1. q \in Seq(S) /\ Len(q) = c /\ \A i \in 1..c : LogRank(S, q[i]) = i BY LogInOrder DEF LogLists
  <2> HIDE DEF q, c
  <2> QED BY <2>1
<1>7. /\ r \in Seq(R) /\ Len(r) = c + 1
      /\ \A i \in 1..(c + 1) : r[i] \in R /\ LogRank(R, r[i]) = i
  <2>1. r \in Seq(R) /\ Len(r) = c + 1 /\ \A i \in 1..(c + 1) : LogRank(R, r[i]) = i
    BY <1>1, <1>3, LogInOrder DEF LogLists
  <2> HIDE DEF r, c, R
  <2> QED BY <2>1
<1>8. \A d, e \in R : d < e => LogRank(R, d) < LogRank(R, e) BY <1>1, LogRanks
<1>9. \A d, e \in R : LogRank(R, d) = LogRank(R, e) /\ LogRank(R, d) \in Nat => d = e
  <2>1. SUFFICES ASSUME NEW d \in R, NEW e \in R, LogRank(R, d) = LogRank(R, e), LogRank(R, d) \in Nat,
                        d # e
                 PROVE  FALSE
    OBVIOUS
  <2>2. d \in Nat /\ e \in Nat BY <1>1
  <2>3. d < e \/ e < d BY <2>1, <2>2
  <2> HIDE DEF R
  <2> QED BY <1>8, <2>1, <2>3
<1> HIDE DEF q, r, c
<1>10. ASSUME NEW i \in 1..(c + 1) PROVE r[i] = Append(q, x)[i]
  <2>1. CASE i = c + 1
    <3>1. Append(q, x)[i] = x BY <2>1, <1>6
    <3>2. r[i] \in R /\ LogRank(R, r[i]) = c + 1 BY <2>1, <1>7
    <3>3. x \in R /\ LogRank(R, x) = c + 1 /\ c + 1 \in Nat BY <1>2, <1>5
    <3> HIDE DEF R
    <3> QED BY <3>1, <3>2, <3>3, <1>9
  <2>2. CASE i # c + 1
    <3>1. i \in 1..c BY <2>2, <1>2
    <3>2. Append(q, x)[i] = q[i] /\ q[i] \in S BY <3>1, <1>6
    <3>3. LogRank(S, q[i]) = i /\ i \in Nat BY <3>1, <1>6
    <3>4. LogRank(R, q[i]) = i /\ q[i] \in R BY <3>2, <3>3, <1>4
    <3>5. r[i] \in R /\ LogRank(R, r[i]) = i BY <1>7
    <3> HIDE DEF R
    <3> QED BY <3>2, <3>3, <3>4, <3>5, <1>9
  <2> QED BY <2>1, <2>2
<1>11. Append(q, x) \in Seq(R) /\ Len(Append(q, x)) = c + 1
  <2>1. q \in Seq(R) BY <1>6
  <2> QED BY <2>1, <1>6
<1>12. r = Append(q, x)
  <2> HIDE DEF R
  <2> DEFINE s == Append(q, x)
  <2>1. s \in Seq(R) /\ Len(s) = Len(r) /\ r \in Seq(R) /\ \A i \in 1..Len(r) : r[i] = s[i]
    BY <1>7, <1>10, <1>11
  <2> HIDE DEF s
  <2>2. r = s BY <2>1
  <2> QED BY <2>2 DEF s
<1> QED BY <1>12 DEF q, r

--------------------
(* Branches of a timeline that grows.                                      *)

\* Parents come before their children.
LogGrounded(es) == Len(es) \in Nat /\ \A i \in 1..Len(es) : es[i].parent \in 0..(i - 1)

\* A tree of entries is one.
LEMMA LogTreeIsGrounded ==
  ASSUME Log!BoundsAssumption, NEW es \in Seq(Log!Entry), LogTree(es)
  PROVE  LogGrounded(es)
<1>1. Len(es) \in Nat OBVIOUS
<1>2. ASSUME NEW i \in 1..Len(es) PROVE es[i].parent \in 0..(i - 1)
  <2>1. es[i].parent \in Nat
    <3>1. es[i] \in Log!Entry OBVIOUS
    <3> QED BY <3>1 DEF Log!Entry, Log!BoundsAssumption
  <2>2. es[i].parent # 0 => es[i].parent < i BY DEF LogTree
  <2> QED BY <2>1, <2>2
<1> QED BY <1>1, <1>2 DEF LogGrounded

\* The timeline new goes on where es ends.
LogExtends(es, new) ==
  /\ Len(es) <= Len(new)
  /\ \A i \in 1..Len(es) : new[i] = es[i]

\* A branch holds entries up to the one it ends with.
LEMMA LogBranchIn ==
  ASSUME NEW es, LogGrounded(es)
  PROVE  \A i \in 0..Len(es) : Log!Branch(es, i) \subseteq 1..i
<1> DEFINE T == {i \in 0..Len(es) : ~(Log!Branch(es, i) \subseteq 1..i)}
<1>0. Len(es) \in Nat /\ \A i \in 1..Len(es) : es[i].parent \in 0..(i - 1) BY DEF LogGrounded
<1>1. SUFFICES ASSUME T # {} PROVE FALSE
  <2>1. ASSUME NEW i \in 0..Len(es), T = {} PROVE Log!Branch(es, i) \subseteq 1..i BY <2>1
  <2> QED BY <1>1, <2>1
<1>2. PICK m \in T : \A y \in T : m <= y
  <2>1. T \subseteq Nat OBVIOUS
  <2> HIDE DEF T
  <2> QED BY <1>1, <2>1, LogLeastNat
<1>3. m \in 0..Len(es) /\ ~(Log!Branch(es, m) \subseteq 1..m) BY <1>2
<1>4. Log!Branch(es, 0) = {} /\ \A i \in 1..Len(es) : Log!Branch(es, i) = {i} \cup Log!Branch(es, es[i].parent)
  BY <1>0, LogBranchIs
<1>5. m # 0 BY <1>3, <1>4
<1>6. m \in 1..Len(es) /\ es[m].parent \in 0..(m - 1) BY <1>0, <1>3, <1>5
<1>7. Log!Branch(es, es[m].parent) \subseteq 1..es[m].parent
  <2>1. es[m].parent \in 0..Len(es) /\ ~(m <= es[m].parent) BY <1>0, <1>6
  <2> QED BY <1>2, <2>1
<1>8. 1..es[m].parent \subseteq 1..m BY <1>6
<1>9. Log!Branch(es, m) \subseteq 1..m BY <1>4, <1>6, <1>7, <1>8
<1> QED BY <1>3, <1>9

\* What is appended to a timeline leaves its branches alone.
LEMMA LogBranchStays ==
  ASSUME NEW es, NEW new, LogGrounded(es), LogGrounded(new), LogExtends(es, new)
  PROVE  \A i \in 0..Len(es) : Log!Branch(new, i) = Log!Branch(es, i)
<1> DEFINE T == {i \in 0..Len(es) : Log!Branch(new, i) # Log!Branch(es, i)}
<1>0. /\ Len(es) \in Nat /\ \A i \in 1..Len(es) : es[i].parent \in 0..(i - 1)
      /\ Len(new) \in Nat /\ \A i \in 1..Len(new) : new[i].parent \in 0..(i - 1)
      /\ Len(es) <= Len(new) /\ \A i \in 1..Len(es) : new[i] = es[i]
  BY DEF LogGrounded, LogExtends
<1>1. SUFFICES ASSUME T # {} PROVE FALSE
  <2>1. ASSUME NEW i \in 0..Len(es), T = {} PROVE Log!Branch(new, i) = Log!Branch(es, i) BY <2>1
  <2> QED BY <1>1, <2>1
<1>2. PICK m \in T : \A y \in T : m <= y
  <2>1. T \subseteq Nat OBVIOUS
  <2> HIDE DEF T
  <2> QED BY <1>1, <2>1, LogLeastNat
<1>3. m \in 0..Len(es) /\ Log!Branch(new, m) # Log!Branch(es, m) BY <1>2
<1>4. Log!Branch(es, 0) = {} /\ \A i \in 1..Len(es) : Log!Branch(es, i) = {i} \cup Log!Branch(es, es[i].parent)
  BY <1>0, LogBranchIs
<1>5. /\ Log!Branch(new, 0) = {}
      /\ \A i \in 1..Len(new) : Log!Branch(new, i) = {i} \cup Log!Branch(new, new[i].parent)
  BY <1>0, LogBranchIs
<1>6. m # 0 BY <1>3, <1>4, <1>5
<1>7. m \in 1..Len(es) /\ m \in 1..Len(new) /\ new[m] = es[m] /\ es[m].parent \in 0..(m - 1)
  BY <1>0, <1>3, <1>6
<1>8. Log!Branch(new, es[m].parent) = Log!Branch(es, es[m].parent)
  <2>1. es[m].parent \in 0..Len(es) /\ ~(m <= es[m].parent) BY <1>0, <1>7
  <2> QED BY <1>2, <2>1
<1> QED BY <1>3, <1>4, <1>5, <1>7, <1>8

--------------------
(* Compaction of a branch.                                                 *)

\* The positions of the compactions in a chain, and those of what the latest one kept.
LogFound(es, q) == {i \in 1..Len(q) : es[q[i]].kind = "compaction"}
LogFirst(es, q) == {i \in 1..Len(q) : q[i] = es[q[Log!Max(LogFound(es, q))]].kept}

\* Where the j-th item of the compacted chain stands in the chain.
LogAt(f, c, j) == IF j = 1 THEN c ELSE IF j <= 1 + c - f THEN f + j - 2 ELSE f + j - 1

\* The item at c, then the rest from f on.
LogMoved(q, f, c) == <<q[c]>> \o SubSeq(q, f, c - 1) \o SubSeq(q, c + 1, Len(q))

\* Compaction in these words.
LEMMA LogApplyIs ==
  ASSUME NEW es, NEW q
  PROVE  Log!ApplyLatestCompaction(es, q)
           = IF LogFound(es, q) = {} \/ LogFirst(es, q) = {} THEN q
             ELSE LogMoved(q, Log!Max(LogFirst(es, q)), Log!Max(LogFound(es, q)))
BY DEF Log!ApplyLatestCompaction, LogFound, LogFirst, LogMoved

\* The compacted chain, position by position.
LEMMA LogRearranged ==
  ASSUME NEW S, NEW q \in Seq(S), NEW f \in Nat, NEW c \in Nat,
         1 <= f, f < c, c <= Len(q)
  PROVE  /\ LogMoved(q, f, c) \in Seq(S) /\ Len(LogMoved(q, f, c)) = Len(q) + 1 - f
         /\ \A j \in 1..(Len(q) + 1 - f) : LogMoved(q, f, c)[j] = q[LogAt(f, c, j)]
<1> DEFINE u == <<q[c]>>
           v == SubSeq(q, f, c - 1)
           w == SubSeq(q, c + 1, Len(q))
           m == Len(q)
<1>0. m \in Nat OBVIOUS
<1>1. u \in Seq(S) /\ Len(u) = 1 /\ u[1] = q[c]
  <2>1. q[c] \in S OBVIOUS
  <2> QED BY <2>1
<1>2. v \in Seq(S) /\ Len(v) = c - f /\ \A k \in 1..(c - f) : v[k] = q[f + k - 1]
  <2>1. \A k \in f..(c - 1) : q[k] \in S
    <3>1. SUFFICES ASSUME NEW k \in f..(c - 1) PROVE q[k] \in S OBVIOUS
    <3>2. k \in 1..Len(q) BY <1>0
    <3> QED BY <3>2
  <2> QED BY <2>1
<1>3. w \in Seq(S) /\ Len(w) = m - c /\ \A k \in 1..(m - c) : w[k] = q[c + k]
  <2>1. \A k \in (c + 1)..m : q[k] \in S
    <3>1. SUFFICES ASSUME NEW k \in (c + 1)..m PROVE q[k] \in S OBVIOUS
    <3>2. k \in 1..Len(q) BY <1>0
    <3> QED BY <3>2
  <2> QED BY <2>1, <1>0
<1> HIDE DEF u, v, w
<1> DEFINE uv == u \o v
<1>4. /\ uv \in Seq(S) /\ Len(uv) = 1 + (c - f) /\ uv[1] = q[c]
      /\ \A k \in 1..(c - f) : uv[1 + k] = v[k]
  <2>1. u \in Seq(S) /\ v \in Seq(S) BY <1>1, <1>2
  <2>2. uv \in Seq(S) /\ Len(uv) = Len(u) + Len(v) BY <2>1
  <2>3. \A k \in 1..Len(u) : uv[k] = u[k] BY <2>1
  <2>4. \A k \in 1..Len(v) : uv[Len(u) + k] = v[k] BY <2>1
  <2> HIDE DEF uv
  <2> QED BY <1>1, <1>2, <2>2, <2>3, <2>4
<1> HIDE DEF uv
<1> DEFINE a == uv \o w
<1>5. a \in Seq(S) /\ Len(a) = m + 1 - f
  <2>0. uv \in Seq(S) /\ w \in Seq(S) BY <1>3, <1>4
  <2>1. a \in Seq(S) /\ Len(a) = Len(uv) + Len(w) BY <2>0
  <2> HIDE DEF a
  <2> QED BY <2>1, <1>0, <1>3, <1>4
<1>6. /\ \A k \in 1..(1 + (c - f)) : a[k] = uv[k]
      /\ \A k \in 1..(m - c) : a[1 + (c - f) + k] = w[k]
  BY <1>0, <1>3, <1>4
<1> HIDE DEF a
<1>7. ASSUME NEW j \in 1..(m + 1 - f) PROVE a[j] = q[LogAt(f, c, j)]
  <2>1. CASE j = 1
    <3>1. 1 \in 1..(1 + (c - f)) OBVIOUS
    <3> QED BY <2>1, <3>1, <1>4, <1>6 DEF LogAt
  <2>2. CASE j # 1 /\ j <= 1 + c - f
    <3>1. j - 1 \in 1..(c - f) /\ j \in 1..(1 + (c - f)) /\ 1 + (j - 1) = j BY <2>2
    <3>2. a[j] = v[j - 1] BY <3>1, <1>4, <1>6
    <3>3. v[j - 1] = q[f + (j - 1) - 1] BY <3>1, <1>2
    <3>4. f + (j - 1) - 1 = f + j - 2 OBVIOUS
    <3> QED BY <2>2, <3>2, <3>3, <3>4 DEF LogAt
  <2>3. CASE ~(j <= 1 + c - f)
    <3> DEFINE k == j - (1 + (c - f))
    <3>1. k \in 1..(m - c) /\ 1 + (c - f) + k = j /\ c + k = f + j - 1 BY <2>3, <1>0
    <3>2. a[j] = w[k] BY <3>1, <1>6
    <3>3. w[k] = q[c + k] BY <3>1, <1>3
    <3> QED BY <2>3, <3>1, <3>2, <3>3 DEF LogAt
  <2> QED BY <2>1, <2>2, <2>3
<1> QED BY <1>5, <1>7 DEF a, uv, u, v, w, LogMoved

\* The compactions among the entries S, and what the latest one kept there.
LogCompactions(es, S) == {i \in S : es[i].kind = "compaction"}
LogLatest(es, S) == Log!Max({0} \cup LogCompactions(es, S))
LogBoundary(es, S) ==
  IF LogLatest(es, S) # 0 /\ es[LogLatest(es, S)].kept \in S THEN es[LogLatest(es, S)].kept ELSE 0

\* A compaction keeps what came before it.
LogKeptBefore(es) == \A i \in 1..Len(es) : es[i].kind = "compaction" => es[i].kept \in 0..(i - 1)

\* Later positions hold later entries.
LEMMA LogInList ==
  ASSUME NEW n \in Nat, NEW S, S \subseteq 1..n, NEW q, LogLists(q, S)
  PROVE  /\ Len(q) \in Nat /\ \A i \in 1..Len(q) : q[i] \in S /\ q[i] \in Nat
         /\ \A i, j \in 1..Len(q) : (q[i] < q[j] <=> i < j) /\ (q[i] = q[j] <=> i = j)
<1>1. q \in Seq(S) /\ Len(q) \in Nat /\ \A i, j \in 1..Len(q) : i < j => q[i] < q[j]
  BY DEF LogLists
<1>2. \A i \in 1..Len(q) : q[i] \in S BY <1>1
<1>3. \A e \in S : e \in Nat OBVIOUS
<1>4. ASSUME NEW i \in 1..Len(q), NEW j \in 1..Len(q)
      PROVE  (q[i] < q[j] <=> i < j) /\ (q[i] = q[j] <=> i = j)
  <2>1. q[i] \in Nat /\ q[j] \in Nat BY <1>2, <1>3
  <2>2. (i < j => q[i] < q[j]) /\ (j < i => q[j] < q[i]) BY <1>1
  <2> QED BY <2>1, <2>2
<1> QED BY <1>1, <1>2, <1>3, <1>4

\* The latest compaction of the list is the latest of its entries.
LEMMA LogLatestIs ==
  ASSUME NEW es, Len(es) \in Nat, NEW S, S \subseteq 1..Len(es), NEW q, LogLists(q, S)
  PROVE  /\ LogFound(es, q) = {} => LogLatest(es, S) = 0
         /\ LogFound(es, q) # {} =>
              /\ Log!Max(LogFound(es, q)) \in LogFound(es, q)
              /\ LogLatest(es, S) = q[Log!Max(LogFound(es, q))] /\ LogLatest(es, S) # 0
<1> DEFINE C == LogCompactions(es, S)
           F == LogFound(es, q)
           c == Log!Max(F)
           l == LogLatest(es, S)
<1>0. /\ Len(q) \in Nat /\ \A i \in 1..Len(q) : q[i] \in S /\ q[i] \in Nat
      /\ \A i, j \in 1..Len(q) : (q[i] < q[j] <=> i < j) /\ (q[i] = q[j] <=> i = j)
  BY LogInList
<1>1. \A e \in C : \E i \in F : q[i] = e BY DEF LogLists, LogCompactions, LogFound
<1>2. \A i \in F : q[i] \in C /\ i \in 1..Len(q) BY <1>0 DEF LogCompactions, LogFound
<1>3. \A e \in C : e \in 1..Len(es) BY DEF LogCompactions
<1>4. l \in {0} \cup C /\ \A y \in {0} \cup C : y <= l
  <2> DEFINE Z == {0} \cup C
  <2>1. Z \subseteq Nat /\ Z # {} /\ \A y \in Z : y <= Len(es) BY <1>3
  <2>2. l = Log!Max(Z) BY DEF LogLatest
  <2> HIDE DEF Z, l
  <2>3. Log!Max(Z) \in Z /\ \A y \in Z : y <= Log!Max(Z) BY <2>1, LogMaxIs
  <2>4. l \in Z /\ \A y \in Z : y <= l BY <2>2, <2>3
  <2> QED BY <2>4 DEF Z
<1>5. ASSUME F = {} PROVE l = 0
  <2>1. C = {} BY <1>1, <1>5
  <2> HIDE DEF C, l
  <2> QED BY <1>4, <2>1
<1>6. ASSUME F # {} PROVE c \in F /\ l = q[c] /\ l # 0
  <2>1. c \in F /\ \A i \in F : i <= c
    <3>1. F \subseteq Nat /\ \A i \in F : i <= Len(q) BY <1>2
    <3> HIDE DEF F
    <3> QED BY <3>1, <1>0, <1>6, LogMaxIs
  <2>2. q[c] \in C /\ q[c] \in 1..Len(es) /\ c \in 1..Len(q) BY <1>2, <1>3, <2>1
  <2>3. q[c] <= l BY <1>4, <2>2
  <2>4. l # 0
    <3> HIDE DEF C, F, c, l
    <3>1. l = 0 \/ l \in 1..Len(es) BY <1>3, <1>4
    <3> QED BY <3>1, <2>2, <2>3
  <2>5. PICK i \in F : q[i] = l BY <1>1, <1>4, <2>4
  <2>6. i \in 1..Len(q) /\ i <= c BY <1>2, <2>1, <2>5
  <2>7. l <= q[c]
    <3> HIDE DEF C, F, c, l
    <3>1. ~(c < i) BY <2>2, <2>6
    <3>2. ~(q[c] < q[i]) /\ q[c] \in Nat /\ q[i] \in Nat BY <1>0, <2>2, <2>6, <3>1
    <3> QED BY <2>5, <3>2
  <2>8. l \in Nat
    <3> HIDE DEF C, l
    <3> QED BY <1>3, <1>4
  <2>9. l = q[c]
    <3>1. q[c] \in Nat BY <2>2
    <3> HIDE DEF C, F, c, l
    <3> QED BY <2>3, <2>7, <2>8, <3>1
  <2> QED BY <2>1, <2>4, <2>9
<1> QED BY <1>5, <1>6

\* Where the latest compaction and its boundary stand, if the boundary is in the list.
LEMMA LogFirstIs ==
  ASSUME NEW es, Len(es) \in Nat, LogKeptBefore(es), NEW S, S \subseteq 1..Len(es),
         NEW q, LogLists(q, S), LogFound(es, q) # {}, LogFirst(es, q) # {}
  PROVE  /\ Log!Max(LogFirst(es, q)) \in 1..Len(q) /\ Log!Max(LogFound(es, q)) \in 1..Len(q)
         /\ Log!Max(LogFirst(es, q)) < Log!Max(LogFound(es, q))
         /\ q[Log!Max(LogFirst(es, q))] = es[q[Log!Max(LogFound(es, q))]].kept
<1> DEFINE c == Log!Max(LogFound(es, q))
           G == LogFirst(es, q)
           f == Log!Max(G)
<1>0. /\ Len(q) \in Nat /\ \A i \in 1..Len(q) : q[i] \in S /\ q[i] \in Nat
      /\ \A i, j \in 1..Len(q) : (q[i] < q[j] <=> i < j) /\ (q[i] = q[j] <=> i = j)
  BY LogInList
<1>1. c \in LogFound(es, q) BY LogLatestIs
<1>2. c \in 1..Len(q) /\ es[q[c]].kind = "compaction"  BY <1>1 DEF LogFound
<1>3. f \in G
  <2>1. G \subseteq Nat /\ G # {} /\ \A i \in G : i <= Len(q) BY <1>0 DEF LogFirst
  <2> HIDE DEF G
  <2> QED BY <2>1, <1>0, LogMaxIs
<1>4. f \in 1..Len(q) /\ q[f] = es[q[c]].kept BY <1>3 DEF LogFirst
<1>5. q[c] \in 1..Len(es) BY <1>0, <1>2
<1>6. q[f] < q[c]
  <2> HIDE DEF c, f, G
  <2>1. es[q[c]].kept \in 0..(q[c] - 1) BY <1>2, <1>5 DEF LogKeptBefore
  <2> QED BY <1>4, <1>5, <2>1
<1>7. f < c
  <2> HIDE DEF c, f, G
  <2> QED BY <1>0, <1>2, <1>4, <1>6
<1> QED BY <1>2, <1>4, <1>7

\* a has each of the entries S from the boundary on, once.
LogPresents(es, S, a) ==
  /\ a \in Seq(S)
  /\ \A i, j \in 1..Len(a) : a[i] = a[j] => i = j
  /\ \A e : e \in S /\ LogBoundary(es, S) <= e <=> \E i \in 1..Len(a) : a[i] = e

\* A compacted branch has each entry from the boundary on, once.
LEMMA LogApplied ==
  ASSUME NEW es, Len(es) \in Nat, LogKeptBefore(es), NEW S, S \subseteq 1..Len(es),
         NEW q, LogLists(q, S)
  PROVE  LogPresents(es, S, Log!ApplyLatestCompaction(es, q))
<1> DEFINE a == Log!ApplyLatestCompaction(es, q)
           c == Log!Max(LogFound(es, q))
           f == Log!Max(LogFirst(es, q))
           m == Len(q)
<1>0. /\ m \in Nat /\ \A i \in 1..m : q[i] \in S /\ q[i] \in Nat
      /\ \A i, j \in 1..m : (q[i] < q[j] <=> i < j) /\ (q[i] = q[j] <=> i = j)
      /\ q \in Seq(S) /\ \A e \in S : \E i \in 1..m : q[i] = e
  BY LogInList DEF LogLists
<1>1. CASE LogFound(es, q) = {} \/ LogFirst(es, q) = {}
  <2>1. a = q BY <1>1, LogApplyIs
  <2>2. LogBoundary(es, S) = 0
    <3>1. CASE LogFound(es, q) = {} BY <3>1, LogLatestIs DEF LogBoundary
    <3>2. CASE LogFound(es, q) # {}
      <4>1. LogLatest(es, S) = q[c] /\ LogFirst(es, q) = {} BY <1>1, <3>2, LogLatestIs
      <4>2. es[q[c]].kept \notin S
        <5>1. SUFFICES ASSUME es[q[c]].kept \in S PROVE FALSE OBVIOUS
        <5>2. PICK i \in 1..m : q[i] = es[q[c]].kept BY <1>0, <5>1
        <5>3. i \in LogFirst(es, q) BY <5>2 DEF LogFirst
        <5> QED BY <4>1, <5>3
      <4> QED BY <4>1, <4>2 DEF LogBoundary
    <3> QED BY <3>1, <3>2
  <2>3. \A e \in S : 0 <= e OBVIOUS
  <2>4. ASSUME NEW e PROVE e \in S /\ LogBoundary(es, S) <= e <=> \E i \in 1..Len(a) : a[i] = e
    <3>1. (\E i \in 1..m : q[i] = e) <=> e \in S BY <1>0
    <3> QED BY <2>1, <2>2, <2>3, <3>1
  <2>5. a \in Seq(S) /\ \A i, j \in 1..Len(a) : a[i] = a[j] => i = j BY <1>0, <2>1
  <2> QED BY <2>4, <2>5 DEF LogPresents
<1>2. CASE ~(LogFound(es, q) = {} \/ LogFirst(es, q) = {})
  <2>1. f \in 1..m /\ c \in 1..m /\ f < c /\ q[f] = es[q[c]].kept BY <1>2, LogFirstIs
  <2>2. a = LogMoved(q, f, c) BY <1>2, LogApplyIs
  <2>3. LogBoundary(es, S) = q[f]
    <3>1. LogLatest(es, S) = q[c] /\ LogLatest(es, S) # 0 BY <1>2, LogLatestIs
    <3>2. q[f] \in S BY <1>0, <2>1
    <3> QED BY <2>1, <3>1, <3>2 DEF LogBoundary
  <2> HIDE DEF a, c, f
  <2>4. /\ a \in Seq(S) /\ Len(a) = m + 1 - f
        /\ \A j \in 1..(m + 1 - f) : a[j] = q[LogAt(f, c, j)]
    <3>1. f \in Nat /\ c \in Nat /\ 1 <= f /\ c <= m BY <1>0, <2>1
    <3> DEFINE b == LogMoved(q, f, c)
    <3>2. /\ b \in Seq(S) /\ Len(b) = Len(q) + 1 - f
          /\ \A j \in 1..(Len(q) + 1 - f) : b[j] = q[LogAt(f, c, j)]
      <4>1. q \in Seq(S) BY <1>0
      <4> QED BY <2>1, <3>1, <4>1, LogRearranged
    <3>3. a = b BY <2>2
    <3> HIDE DEF b
    <3> QED BY <3>2, <3>3
  <2>5. \A j \in 1..(m + 1 - f) : LogAt(f, c, j) \in f..m /\ LogAt(f, c, j) \in 1..m
    BY <1>0, <2>1 DEF LogAt
  <2>6. \A j, k \in 1..(m + 1 - f) : LogAt(f, c, j) = LogAt(f, c, k) => j = k
    BY <1>0, <2>1 DEF LogAt
  <2>7. \A i \in f..m : \E j \in 1..(m + 1 - f) : LogAt(f, c, j) = i
    <3>1. SUFFICES ASSUME NEW i \in f..m PROVE \E j \in 1..(m + 1 - f) : LogAt(f, c, j) = i
      OBVIOUS
    <3>2. CASE i = c
      <4>1. 1 \in 1..(m + 1 - f) BY <1>0, <2>1
      <4> QED BY <3>2, <4>1 DEF LogAt
    <3>3. CASE i < c
      <4>1. i - f + 2 \in 1..(m + 1 - f) /\ i - f + 2 # 1 /\ i - f + 2 <= 1 + c - f
            /\ f + (i - f + 2) - 2 = i
        BY <3>3, <1>0, <2>1
      <4> QED BY <4>1 DEF LogAt
    <3>4. CASE i > c
      <4>1. i - f + 1 \in 1..(m + 1 - f) /\ i - f + 1 # 1 /\ ~(i - f + 1 <= 1 + c - f)
            /\ f + (i - f + 1) - 1 = i
        BY <3>4, <1>0, <2>1
      <4> QED BY <4>1 DEF LogAt
    <3>5. i = c \/ i < c \/ i > c BY <2>1
    <3> QED BY <3>2, <3>3, <3>4, <3>5
  <2>8. \A i, j \in 1..Len(a) : a[i] = a[j] => i = j
    <3>1. SUFFICES ASSUME NEW i \in 1..Len(a), NEW j \in 1..Len(a), a[i] = a[j] PROVE i = j
      OBVIOUS
    <3>2. i \in 1..(m + 1 - f) /\ j \in 1..(m + 1 - f) BY <2>4
    <3>3. q[LogAt(f, c, i)] = q[LogAt(f, c, j)] BY <2>4, <3>1, <3>2
    <3>4. LogAt(f, c, i) = LogAt(f, c, j) BY <1>0, <2>5, <3>2, <3>3
    <3> QED BY <2>6, <3>2, <3>4
  <2>9. ASSUME NEW e PROVE e \in S /\ q[f] <= e <=> \E i \in 1..Len(a) : a[i] = e
    <3>1. ASSUME e \in S, q[f] <= e PROVE \E i \in 1..Len(a) : a[i] = e
      <4>1. PICK i \in 1..m : q[i] = e BY <1>0, <3>1
      <4>2. ~(i < f)
        <5>1. ~(q[i] < q[f])
          <6>1. q[i] \in Nat /\ q[f] \in Nat BY <1>0, <2>1
          <6> QED BY <3>1, <4>1, <6>1
        <5> QED BY <1>0, <2>1, <5>1
      <4>3. i \in f..m BY <2>1, <4>2
      <4>4. PICK j \in 1..(m + 1 - f) : LogAt(f, c, j) = i BY <2>7, <4>3
      <4>5. a[j] = e BY <2>4, <4>1, <4>4
      <4> QED BY <2>4, <4>4, <4>5
    <3>2. ASSUME NEW j \in 1..Len(a), a[j] = e PROVE e \in S /\ q[f] <= e
      <4>1. j \in 1..(m + 1 - f) BY <2>4
      <4> DEFINE i == LogAt(f, c, j)
      <4>2. i \in f..m /\ i \in 1..m /\ e = q[i] BY <2>4, <2>5, <3>2, <4>1
      <4> HIDE DEF i
      <4>3. ~(i < f) BY <2>1, <4>2
      <4>4. ~(q[i] < q[f]) /\ q[i] \in S /\ q[i] \in Nat /\ q[f] \in Nat
        BY <1>0, <2>1, <4>2, <4>3
      <4> QED BY <4>2, <4>4
    <3> QED BY <3>1, <3>2
  <2> QED BY <2>3, <2>4, <2>8, <2>9 DEF a, LogPresents
<1> QED BY <1>1, <1>2

\* The entries S are the same in both timelines.
LogSame(es, new, S) == \A e \in S : new[e] = es[e]

\* Entries that stay what they are are compacted the same way.
LEMMA LogAppliedStays ==
  ASSUME NEW es, NEW new, Len(es) \in Nat, NEW S, S \subseteq 1..Len(es), NEW q, LogLists(q, S),
         LogSame(es, new, S)
  PROVE  Log!ApplyLatestCompaction(new, q) = Log!ApplyLatestCompaction(es, q)
<1>0. (\A i \in 1..Len(q) : q[i] \in S) /\ \A e \in S : new[e] = es[e] BY LogInList DEF LogSame
<1>1. LogFound(new, q) = LogFound(es, q) BY <1>0 DEF LogFound
<1>2. LogFound(es, q) # {} => LogFirst(new, q) = LogFirst(es, q)
  <2>1. SUFFICES ASSUME LogFound(es, q) # {} PROVE LogFirst(new, q) = LogFirst(es, q) OBVIOUS
  <2> DEFINE c == Log!Max(LogFound(es, q))
  <2>2. c \in LogFound(es, q) BY <2>1, LogLatestIs
  <2>3. c \in 1..Len(q) BY <2>2 DEF LogFound
  <2>4. new[q[c]] = es[q[c]] BY <1>0, <2>3
  <2> QED BY <1>1, <2>4 DEF LogFirst
<1>3. Log!ApplyLatestCompaction(new, q)
        = IF LogFound(new, q) = {} \/ LogFirst(new, q) = {} THEN q
          ELSE LogMoved(q, Log!Max(LogFirst(new, q)), Log!Max(LogFound(new, q)))
  BY LogApplyIs
<1>4. Log!ApplyLatestCompaction(es, q)
        = IF LogFound(es, q) = {} \/ LogFirst(es, q) = {} THEN q
          ELSE LogMoved(q, Log!Max(LogFirst(es, q)), Log!Max(LogFound(es, q)))
  BY LogApplyIs
<1>5. CASE LogFound(es, q) = {} BY <1>1, <1>3, <1>4, <1>5
<1>6. CASE LogFound(es, q) # {}
  <2>1. LogFirst(new, q) = LogFirst(es, q) BY <1>2, <1>6
  <2> QED BY <1>1, <1>3, <1>4, <2>1
<1> QED BY <1>5, <1>6

\* x is an entry behind those of es, and not a compaction.
LogLater(es, new, x) == x \in Nat /\ Len(es) < x /\ new[x].kind # "compaction"

\* The compacted chain with x behind it.
LogComesLast(es, new, q, x) ==
  Log!ApplyLatestCompaction(new, Append(q, x)) = Append(Log!ApplyLatestCompaction(es, q), x)

\* An entry that is not a compaction comes last in the compacted branch.
LEMMA LogAppliedGrows ==
  ASSUME NEW es, NEW new, Len(es) \in Nat, LogKeptBefore(es), NEW S, S \subseteq 1..Len(es),
         NEW q, LogLists(q, S), LogSame(es, new, S),
         NEW x, LogLater(es, new, x)
  PROVE  LogComesLast(es, new, q, x)
<1> DEFINE m == Len(q)
           r == Append(q, x)
           c == Log!Max(LogFound(es, q))
           f == Log!Max(LogFirst(es, q))
           R == S \cup {x}
<1>0. /\ m \in Nat /\ \A i \in 1..m : q[i] \in S
      /\ q \in Seq(S) /\ \A e \in S : new[e] = es[e]
      /\ x \in Nat /\ Len(es) < x /\ new[x].kind # "compaction"
  BY LogInList DEF LogLists, LogSame, LogLater
<1>1. /\ r \in Seq(R) /\ Len(r) = m + 1 /\ r[m + 1] = x
      /\ \A i \in 1..m : r[i] = q[i]
  <2>1. q \in Seq(R) /\ x \in R BY <1>0
  <2> QED BY <2>1
<1> HIDE DEF r
<1>2. LogFound(new, r) = LogFound(es, q)
  <2>1. \A i \in 1..m : new[r[i]] = es[q[i]] BY <1>0, <1>1
  <2>2. \A i \in 1..(m + 1) : i \in 1..m \/ i = m + 1 BY <1>0
  <2>3. 1..m \subseteq 1..(m + 1) BY <1>0
  <2>4. new[r[m + 1]].kind # "compaction"  BY <1>0, <1>1
  <2> HIDE DEF m
  <2>5. LogFound(new, r) = {i \in 1..(m + 1) : new[r[i]].kind = "compaction"}  BY <1>1 DEF LogFound
  <2>6. LogFound(es, q) = {i \in 1..m : es[q[i]].kind = "compaction"}  BY DEF LogFound, m
  <2> QED BY <2>1, <2>2, <2>3, <2>4, <2>5, <2>6
<1>3. LogFound(es, q) # {} => LogFirst(new, r) = LogFirst(es, q)
  <2>1. SUFFICES ASSUME LogFound(es, q) # {} PROVE LogFirst(new, r) = LogFirst(es, q) OBVIOUS
  <2>2. c \in LogFound(es, q) BY <2>1, LogLatestIs
  <2>3. c \in 1..m /\ es[q[c]].kind = "compaction"  BY <2>2 DEF LogFound
  <2>4. q[c] \in 1..Len(es) /\ new[r[c]] = es[q[c]] BY <1>0, <1>1, <2>3
  <2> DEFINE k == es[q[c]].kept
  <2>5. k \in 0..(q[c] - 1) BY <2>3, <2>4 DEF LogKeptBefore
  <2>6. k # x
    <3> HIDE DEF k, c
    <3> QED BY <1>0, <2>4, <2>5
  <2>7. LogFirst(new, r) = {i \in 1..(m + 1) : r[i] = k}
    <3> HIDE DEF m
    <3>1. Log!Max(LogFound(new, r)) = c /\ Len(r) = m + 1 BY <1>1, <1>2
    <3> QED BY <2>4, <3>1 DEF LogFirst
  <2>8. LogFirst(es, q) = {i \in 1..m : q[i] = k} BY DEF LogFirst
  <2>9. \A i \in 1..(m + 1) : i \in 1..m \/ i = m + 1 BY <1>0
  <2>10. 1..m \subseteq 1..(m + 1) BY <1>0
  <2> HIDE DEF k, m, c
  <2> QED BY <1>1, <2>6, <2>7, <2>8, <2>9, <2>10
<1>4. CASE LogFound(es, q) = {} \/ LogFirst(es, q) = {}
  <2>1. Log!ApplyLatestCompaction(es, q) = q BY <1>4, LogApplyIs
  <2>2. LogFound(new, r) = {} \/ LogFirst(new, r) = {} BY <1>2, <1>3, <1>4
  <2>3. Log!ApplyLatestCompaction(new, r) = r BY <2>2, LogApplyIs
  <2> QED BY <2>1, <2>3 DEF r, LogComesLast
<1>5. CASE ~(LogFound(es, q) = {} \/ LogFirst(es, q) = {})
  <2>1. f \in 1..m /\ c \in 1..m /\ f < c BY <1>5, LogFirstIs
  <2> DEFINE a == LogMoved(q, f, c)
             b == LogMoved(r, f, c)
  <2>2. Log!ApplyLatestCompaction(es, q) = a BY <1>5, LogApplyIs
  <2>3. Log!ApplyLatestCompaction(new, r) = b
    <3>1. Log!Max(LogFound(new, r)) = c /\ Log!Max(LogFirst(new, r)) = f /\ Len(r) = m + 1
          /\ ~(LogFound(new, r) = {} \/ LogFirst(new, r) = {})
      BY <1>1, <1>2, <1>3, <1>5
    <3> HIDE DEF c, f, m
    <3> QED BY <3>1, LogApplyIs
  <2>4. f \in Nat /\ c \in Nat /\ 1 <= f /\ f < c /\ c <= m /\ c <= m + 1 BY <1>0, <2>1
  <2> HIDE DEF c, f
  <2>5. /\ a \in Seq(S) /\ Len(a) = m + 1 - f
        /\ \A j \in 1..(m + 1 - f) : a[j] = q[LogAt(f, c, j)]
    <3>1. /\ a \in Seq(S) /\ Len(a) = Len(q) + 1 - f
          /\ \A j \in 1..(Len(q) + 1 - f) : a[j] = q[LogAt(f, c, j)]
      <4>1. q \in Seq(S) BY <1>0
      <4>2. f \in Nat /\ c \in Nat /\ 1 <= f /\ f < c /\ c <= Len(q) BY <2>4
      <4> QED BY <4>1, <4>2, LogRearranged
    <3> HIDE DEF a
    <3> QED BY <3>1
  <2>6. /\ b \in Seq(R) /\ Len(b) = m + 2 - f
        /\ \A j \in 1..(m + 2 - f) : b[j] = r[LogAt(f, c, j)]
    <3>1. /\ b \in Seq(R) /\ Len(b) = Len(r) + 1 - f
          /\ \A j \in 1..(Len(r) + 1 - f) : b[j] = r[LogAt(f, c, j)]
      <4>1. r \in Seq(R) BY <1>1
      <4>2. f \in Nat /\ c \in Nat /\ 1 <= f /\ f < c /\ c <= Len(r) BY <1>1, <2>4
      <4> HIDE DEF R
      <4> QED BY <4>1, <4>2, LogRearranged
    <3>2. Len(r) + 1 - f = m + 2 - f BY <1>0, <1>1, <2>4
    <3> HIDE DEF b
    <3> QED BY <3>1, <3>2
  <2> HIDE DEF a, b
  <2> DEFINE g == Append(a, x)
  <2>7. /\ g \in Seq(R) /\ Len(g) = m + 2 - f /\ g[m + 2 - f] = x
        /\ \A j \in 1..(m + 1 - f) : g[j] = a[j]
    <3>1. a \in Seq(R) /\ x \in R BY <2>5
    <3>2. g \in Seq(R) /\ Len(g) = Len(a) + 1 /\ g[Len(a) + 1] = x
          /\ \A j \in 1..Len(a) : g[j] = a[j]
      BY <3>1
    <3>3. Len(a) + 1 = m + 2 - f BY <1>0, <2>4, <2>5
    <3> HIDE DEF g
    <3> QED BY <2>5, <3>2, <3>3
  <2> HIDE DEF g
  <2>8. ASSUME NEW j \in 1..(m + 2 - f) PROVE b[j] = g[j]
    <3>1. CASE j = m + 2 - f
      <4>1. LogAt(f, c, j) = m + 1 BY <3>1, <1>0, <2>4 DEF LogAt
      <4> QED BY <3>1, <4>1, <1>1, <2>6, <2>7
    <3>2. CASE j # m + 2 - f
      <4>1. j \in 1..(m + 1 - f) BY <3>2, <1>0, <2>4
      <4>2. LogAt(f, c, j) \in 1..m BY <4>1, <1>0, <2>4 DEF LogAt
      <4>3. b[j] = q[LogAt(f, c, j)] BY <1>1, <2>6, <4>2
      <4> QED BY <2>5, <2>7, <4>1, <4>3
    <3> QED BY <3>1, <3>2
  <2>9. b = g
    <3>1. Len(b) = Len(g) /\ \A j \in 1..Len(b) : b[j] = g[j] BY <2>6, <2>7, <2>8
    <3>2. b \in Seq(R) /\ g \in Seq(R) BY <2>6, <2>7
    <3> HIDE DEF R
    <3> QED BY <3>1, <3>2
  <2> QED BY <2>2, <2>3, <2>9 DEF g, r, LogComesLast
<1> QED BY <1>4, <1>5

--------------------
(* Messages.                                                               *)

\* What the flattened beginnings of seqs are.
LogFlats(seqs, n, g) ==
  \A i \in 1..n : g[i] = IF i = 1 THEN seqs[i] ELSE g[i - 1] \o seqs[i]

\* They are determined by that.
LEMMA LogFlatsSame ==
  ASSUME NEW n \in Nat, NEW seqs, NEW g, NEW h, LogFlats(seqs, n, g), LogFlats(seqs, n, h)
  PROVE  \A i \in 1..n : g[i] = h[i]
<1> DEFINE T == {i \in 1..n : g[i] # h[i]}
<1>1. SUFFICES ASSUME T # {} PROVE FALSE
  <2>1. ASSUME NEW i \in 1..n, T = {} PROVE g[i] = h[i] BY <2>1
  <2> QED BY <1>1, <2>1
<1>2. PICK m \in T : \A y \in T : m <= y
  <2>1. T \subseteq Nat OBVIOUS
  <2> HIDE DEF T
  <2> QED BY <1>1, <2>1, LogLeastNat
<1>3. m \in 1..n /\ g[m] # h[m] BY <1>2
<1>4. g[m] = IF m = 1 THEN seqs[m] ELSE g[m - 1] \o seqs[m] BY <1>3 DEF LogFlats
<1>5. h[m] = IF m = 1 THEN seqs[m] ELSE h[m - 1] \o seqs[m] BY <1>3 DEF LogFlats
<1>6. CASE m = 1 BY <1>3, <1>4, <1>5, <1>6
<1>7. CASE m # 1
  <2>1. m - 1 \in 1..n /\ ~(m <= m - 1) BY <1>3, <1>7
  <2>2. g[m - 1] = h[m - 1] BY <1>2, <2>1
  <2> QED BY <1>3, <1>4, <1>5, <1>7, <2>2
<1> QED BY <1>6, <1>7

\* They exist.
LEMMA LogFlatsExist ==
  ASSUME NEW seqs \in Seq(Seq(Nat)), NEW n \in 1..Len(seqs)
  PROVE  \E g \in [1..n -> Seq(Nat)] : LogFlats(seqs, n, g)
<1> DEFINE T == {m \in 1..n : ~\E g \in [1..m -> Seq(Nat)] : LogFlats(seqs, m, g)}
<1>0. \A i \in 1..n : seqs[i] \in Seq(Nat) OBVIOUS
<1>1. SUFFICES ASSUME T # {} PROVE FALSE
  <2>1. T = {} => n \notin T OBVIOUS
  <2> QED BY <1>1, <2>1
<1>2. PICK m \in T : \A y \in T : m <= y
  <2>1. T \subseteq Nat OBVIOUS
  <2> HIDE DEF T
  <2> QED BY <1>1, <2>1, LogLeastNat
<1>3. m \in 1..n /\ ~\E g \in [1..m -> Seq(Nat)] : LogFlats(seqs, m, g) BY <1>2
<1>4. CASE m = 1
  <2>1. [i \in 1..1 |-> seqs[i]] \in [1..1 -> Seq(Nat)] BY <1>0
  <2>2. LogFlats(seqs, 1, [i \in 1..1 |-> seqs[i]]) BY DEF LogFlats
  <2> QED BY <1>3, <1>4, <2>1, <2>2
<1>5. CASE m # 1
  <2>1. m - 1 \in 1..n /\ ~(m <= m - 1) BY <1>3, <1>5
  <2>2. PICK g \in [1..(m - 1) -> Seq(Nat)] : LogFlats(seqs, m - 1, g) BY <1>2, <2>1
  <2> DEFINE h == [i \in 1..m |-> IF i = m THEN g[m - 1] \o seqs[m] ELSE g[i]]
  <2>3. \A i \in 1..m : i # m => i \in 1..(m - 1) BY <1>3
  <2>4. m \in 1..m /\ m - 1 \in 1..(m - 1) /\ m - 1 \in 1..m /\ m - 1 # m BY <1>3, <1>5
  <2>5. h \in [1..m -> Seq(Nat)]
    <3>1. g[m - 1] \in Seq(Nat) /\ seqs[m] \in Seq(Nat) BY <1>0, <1>3, <2>4
    <3>2. g[m - 1] \o seqs[m] \in Seq(Nat) BY <3>1
    <3> QED BY <2>3, <3>2
  <2>6. ASSUME NEW i \in 1..m PROVE h[i] = IF i = 1 THEN seqs[i] ELSE h[i - 1] \o seqs[i]
    <3>1. CASE i = m BY <3>1, <1>5, <2>4
    <3>2. CASE i # m
      <4>1. i \in 1..(m - 1) /\ h[i] = g[i] BY <3>2, <2>3
      <4>2. g[i] = IF i = 1 THEN seqs[i] ELSE g[i - 1] \o seqs[i] BY <4>1, <2>2 DEF LogFlats
      <4>3. i # 1 => h[i - 1] = g[i - 1]
        <5>1. i # 1 => i - 1 \in 1..m /\ i - 1 # m BY <1>3, <4>1
        <5> QED BY <5>1
      <4> QED BY <4>1, <4>2, <4>3
    <3> QED BY <3>1, <3>2
  <2> HIDE DEF h
  <2>7. LogFlats(seqs, m, h) BY <2>6 DEF LogFlats
  <2> QED BY <1>3, <2>5, <2>7
<1> QED BY <1>4, <1>5

\* What FlattenSeq gives.
LEMMA LogFlattenIs ==
  ASSUME NEW seqs \in Seq(Seq(Nat)), Len(seqs) # 0
  PROVE  \E g \in [1..Len(seqs) -> Seq(Nat)] :
            LogFlats(seqs, Len(seqs), g) /\ Log!FlattenSeq(seqs) = g[Len(seqs)]
<1> DEFINE n == Len(seqs)
           fl == CHOOSE g : g = [i \in 1..n |-> IF i = 1 THEN seqs[i] ELSE g[i - 1] \o seqs[i]]
<1>1. Log!FlattenSeq(seqs) = fl[n] BY DEF Log!FlattenSeq
<1>2. n \in 1..n /\ n \in Nat OBVIOUS
<1>3. PICK g \in [1..n -> Seq(Nat)] : LogFlats(seqs, n, g) BY <1>2, LogFlatsExist
<1>4. g = [i \in 1..n |-> IF i = 1 THEN seqs[i] ELSE g[i - 1] \o seqs[i]] BY <1>3 DEF LogFlats
<1>5. fl = [i \in 1..n |-> IF i = 1 THEN seqs[i] ELSE fl[i - 1] \o seqs[i]]
  <2>1. \E h : h = [i \in 1..n |-> IF i = 1 THEN seqs[i] ELSE h[i - 1] \o seqs[i]] BY <1>4
  <2> QED BY <2>1
<1> HIDE DEF fl
<1>6. LogFlats(seqs, n, fl) BY <1>5 DEF LogFlats
<1>7. fl[n] = g[n]
  <2> HIDE DEF n
  <2>1. \A i \in 1..n : fl[i] = g[i] BY <1>2, <1>3, <1>6, LogFlatsSame
  <2> QED BY <1>2, <2>1
<1> QED BY <1>1, <1>3, <1>7

\* One more sequence is flattened behind the others.
LEMMA LogFlattenGrows ==
  ASSUME NEW seqs \in Seq(Seq(Nat)), NEW y \in Seq(Nat)
  PROVE  /\ Log!FlattenSeq(seqs) \in Seq(Nat)
         /\ Log!FlattenSeq(Append(seqs, y)) = Log!FlattenSeq(seqs) \o y
<1> DEFINE n == Len(seqs)
           more == Append(seqs, y)
<1>0. n \in Nat OBVIOUS
<1>1. /\ more \in Seq(Seq(Nat)) /\ Len(more) = n + 1 /\ more[n + 1] = y
      /\ \A i \in 1..n : more[i] = seqs[i]
  OBVIOUS
<1> HIDE DEF more
<1>2. Len(more) # 0 BY <1>0, <1>1
<1>3. PICK h \in [1..(n + 1) -> Seq(Nat)] :
        LogFlats(more, n + 1, h) /\ Log!FlattenSeq(more) = h[n + 1]
  BY <1>1, <1>2, LogFlattenIs
<1>4. n + 1 \in 1..(n + 1) BY <1>0
<1>5. h[n + 1] = IF n + 1 = 1 THEN more[n + 1] ELSE h[(n + 1) - 1] \o more[n + 1]
  BY <1>3, <1>4 DEF LogFlats
<1>6. CASE n = 0
  <2>1. seqs = <<>> BY <1>6
  <2>2. Log!FlattenSeq(seqs) = <<>> BY <2>1 DEF Log!FlattenSeq
  <2>3. Log!FlattenSeq(more) = y BY <1>1, <1>3, <1>5, <1>6
  <2>4. <<>> \o y = y /\ <<>> \in Seq(Nat) OBVIOUS
  <2> QED BY <2>2, <2>3, <2>4 DEF more
<1>7. CASE n # 0
  <2>1. PICK g \in [1..n -> Seq(Nat)] : LogFlats(seqs, n, g) /\ Log!FlattenSeq(seqs) = g[n]
    BY <1>7, LogFlattenIs
  <2>2. n \in 1..n /\ n <= n + 1 /\ n + 1 \in Nat /\ (n + 1) - 1 = n /\ n + 1 # 1 BY <1>0, <1>7
  <2>3. g[n] = h[n]
    <3>1. LogFlats(seqs, n, h)
      <4>1. \A i \in 1..n : i \in 1..(n + 1) BY <1>0
      <4> QED BY <1>1, <1>3, <4>1 DEF LogFlats
    <3>2. LogFlats(seqs, n, g) BY <2>1
    <3> HIDE DEF n
    <3>3. n \in Nat BY <1>0
    <3>4. ASSUME NEW u, NEW v, LogFlats(seqs, n, u), LogFlats(seqs, n, v)
          PROVE  \A i \in 1..n : u[i] = v[i]
      BY <3>3, <3>4, LogFlatsSame
    <3>5. \A i \in 1..n : g[i] = h[i] BY <3>1, <3>2, <3>4, Zenon
    <3> QED BY <2>2, <3>5
  <2>4. Log!FlattenSeq(more) = g[n] \o y BY <1>1, <1>3, <1>5, <2>2, <2>3
  <2>5. g[n] \in Seq(Nat) BY <2>1, <2>2
  <2> QED BY <2>1, <2>4, <2>5 DEF more
<1> QED BY <1>6, <1>7

\* The messages of an entry, and of the entries of a chain.
LogBlock(es, e) == IF es[e].kind = "assistant" THEN <<e, e>> ELSE <<e>>
LogBlocks(es, chain) == [i \in 1..Len(chain) |-> LogBlock(es, chain[i])]

\* A sequence over some entries is one over numbers.
LEMMA LogSeqOfNat ==
  ASSUME NEW S, S \subseteq Nat, NEW a \in Seq(S)
  PROVE  a \in Seq(Nat) /\ \A i \in 1..Len(a) : a[i] \in S
<1>1. Len(a) \in Nat /\ a = [i \in 1..Len(a) |-> a[i]] /\ \A i \in 1..Len(a) : a[i] \in S
  OBVIOUS
<1>2. \A i \in 1..Len(a) : a[i] \in Nat BY <1>1
<1>3. a \in [1..Len(a) -> Nat] BY <1>1, <1>2
<1> QED BY <1>1, <1>3

\* The history is its blocks, one after the other.
LEMMA LogHistoryIs ==
  ASSUME NEW es, NEW chain
  PROVE  Log!PortableHistory(es, chain) = Log!FlattenSeq(LogBlocks(es, chain))
BY DEF Log!PortableHistory, LogBlocks, LogBlock

\* Blocks are sequences of entries.
LEMMA LogBlocksAre ==
  ASSUME NEW es, NEW chain \in Seq(Nat)
  PROVE  LogBlocks(es, chain) \in Seq(Seq(Nat))
<1>1. \A e \in Nat : LogBlock(es, e) \in Seq(Nat)
  <2>1. \A e \in Nat : <<e, e>> \in Seq(Nat) /\ <<e>> \in Seq(Nat) OBVIOUS
  <2> QED BY <2>1 DEF LogBlock
<1>2. \A i \in 1..Len(chain) : LogBlock(es, chain[i]) \in Seq(Nat) BY <1>1
<1>3. Len(chain) \in Nat OBVIOUS
<1> QED BY <1>2, <1>3 DEF LogBlocks

\* The entries of a chain are the same in both timelines.
LogAlike(es, new, chain) == \A i \in 1..Len(chain) : new[chain[i]] = es[chain[i]]

\* The messages b go on where the messages a end.
LogLonger(a, b) == \E y \in Seq(Nat) : b = a \o y

\* One more entry behind a chain is more messages behind those it had.
LEMMA LogHistoryGrows ==
  ASSUME NEW es, NEW new, NEW chain \in Seq(Nat), NEW x \in Nat,
         LogAlike(es, new, chain)
  PROVE  /\ Log!PortableHistory(es, chain) \in Seq(Nat)
         /\ Log!PortableHistory(new, chain) = Log!PortableHistory(es, chain)
         /\ LogLonger(Log!PortableHistory(es, chain), Log!PortableHistory(new, Append(chain, x)))
<1> DEFINE b == LogBlocks(es, chain)
           y == LogBlock(new, x)
           longer == Append(chain, x)
<1>1. b \in Seq(Seq(Nat)) /\ Len(b) = Len(chain) /\ Len(chain) \in Nat
  <2>1. Len(b) = Len(chain) /\ Len(chain) \in Nat BY DEF LogBlocks
  <2> QED BY <2>1, LogBlocksAre
<1>2. y \in Seq(Nat)
  <2>1. <<x, x>> \in Seq(Nat) /\ <<x>> \in Seq(Nat) OBVIOUS
  <2> QED BY <2>1 DEF LogBlock
<1>3. LogBlocks(new, chain) = b BY DEF LogBlocks, LogBlock, LogAlike
<1>4. LogBlocks(new, longer) = Append(b, y)
  <2>1. /\ longer \in Seq(Nat) /\ Len(longer) = Len(chain) + 1 /\ longer[Len(chain) + 1] = x
        /\ \A i \in 1..Len(chain) : longer[i] = chain[i]
    OBVIOUS
  <2> HIDE DEF longer, y
  <2> DEFINE c == LogBlocks(new, longer)
             d == Append(b, y)
  <2>2. c \in Seq(Seq(Nat)) /\ Len(c) = Len(chain) + 1
        /\ \A i \in 1..(Len(chain) + 1) : c[i] = LogBlock(new, longer[i])
    <3>1. c \in Seq(Seq(Nat)) BY <2>1, LogBlocksAre
    <3>2. c = [i \in 1..(Len(chain) + 1) |-> LogBlock(new, longer[i])] BY <2>1 DEF LogBlocks
    <3>3. Len(c) = Len(chain) + 1 BY <1>1, <3>2
    <3> QED BY <3>1, <3>2, <3>3
  <2>3. b = [i \in 1..Len(chain) |-> LogBlock(new, chain[i])] BY <1>3 DEF LogBlocks
  <2> HIDE DEF b
  <2>4. d \in Seq(Seq(Nat)) /\ Len(d) = Len(chain) + 1 /\ d[Len(chain) + 1] = y
        /\ \A i \in 1..Len(chain) : d[i] = b[i]
    BY <1>1, <1>2
  <2> HIDE DEF c, d
  <2>5. ASSUME NEW i \in 1..(Len(chain) + 1) PROVE c[i] = d[i]
    <3>1. CASE i = Len(chain) + 1 BY <3>1, <2>1, <2>2, <2>4 DEF y
    <3>2. CASE i # Len(chain) + 1
      <4>1. i \in 1..Len(chain) BY <3>2, <1>1
      <4> QED BY <4>1, <2>1, <2>2, <2>3, <2>4
    <3> QED BY <3>1, <3>2
  <2>6. c = d
    <3>1. Len(c) = Len(d) /\ \A i \in 1..Len(c) : c[i] = d[i] BY <2>2, <2>4, <2>5
    <3> QED BY <3>1, <2>2, <2>4
  <2> QED BY <2>6 DEF c, d
<1> HIDE DEF b, y, longer
<1>5. Log!FlattenSeq(b) \in Seq(Nat) /\ Log!FlattenSeq(Append(b, y)) = Log!FlattenSeq(b) \o y
  BY <1>1, <1>2, LogFlattenGrows
<1>6. /\ Log!PortableHistory(es, chain) = Log!FlattenSeq(b)
      /\ Log!PortableHistory(new, chain) = Log!FlattenSeq(b)
      /\ Log!PortableHistory(new, longer) = Log!FlattenSeq(Append(b, y))
  BY <1>3, <1>4, LogHistoryIs DEF b
<1>7. Log!PortableHistory(new, longer) = Log!PortableHistory(es, chain) \o y BY <1>5, <1>6
<1>8. LogLonger(Log!PortableHistory(es, chain), Log!PortableHistory(new, longer)) BY <1>2, <1>7 DEF LogLonger
<1> QED BY <1>5, <1>6, <1>8 DEF longer

\* The messages of the branch of e.
LogMessages(es, e) == Log!PortableHistory(es, Log!ActiveEntries(es, e))

\* They are numbers of entries, and stay what they are in a timeline that grows.
LEMMA LogMessagesStay ==
  ASSUME NEW es, NEW new, LogGrounded(es), LogGrounded(new), LogExtends(es, new), LogKeptBefore(es),
         NEW l \in 0..Len(es)
  PROVE  /\ Log!ActiveEntries(new, l) = Log!ActiveEntries(es, l)
         /\ Log!ActiveEntries(es, l) \in Seq(Nat)
         /\ LogMessages(es, l) \in Seq(Nat)
         /\ LogMessages(new, l) = LogMessages(es, l)
<1> DEFINE S == Log!Branch(es, l)
           q == Log!BySequence(S)
           a == Log!ActiveEntries(es, l)
<1>0. Len(es) \in Nat /\ Len(es) <= Len(new) /\ \A i \in 1..Len(es) : new[i] = es[i]
  BY DEF LogGrounded, LogExtends
<1>1. S \subseteq 1..Len(es)
  <2>1. S \subseteq 1..l BY LogBranchIn
  <2>2. 1..l \subseteq 1..Len(es) BY <1>0
  <2> QED BY <2>1, <2>2
<1>2. Log!Branch(new, l) = S BY LogBranchStays
<1>3. LogLists(q, S) BY <1>0, <1>1, LogInOrder
<1>4. LogSame(es, new, S) BY <1>0, <1>1 DEF LogSame
<1>5. a = Log!ApplyLatestCompaction(es, q) BY DEF Log!ActiveEntries
<1>6. Log!ActiveEntries(new, l) = Log!ApplyLatestCompaction(new, q) BY <1>2 DEF Log!ActiveEntries
<1> HIDE DEF S, q, a
<1>7. Log!ApplyLatestCompaction(new, q) = Log!ApplyLatestCompaction(es, q)
  <2>1. Len(es) \in Nat BY <1>0
  <2> QED BY <1>1, <1>3, <1>4, <2>1, LogAppliedStays
<1>8. a \in Seq(S)
  <2>1. Log!ApplyLatestCompaction(es, q) \in Seq(S) BY <1>0, <1>1, <1>3, LogApplied DEF LogPresents
  <2> QED BY <1>5, <2>1
<1>9. a \in Seq(Nat) /\ LogAlike(es, new, a)
  <2>1. \A i \in 1..Len(a) : a[i] \in S BY <1>8
  <2>2. S \subseteq Nat BY <1>0, <1>1
  <2>3. a \in Seq(Nat) BY <1>8, <2>2, LogSeqOfNat
  <2> QED BY <1>4, <2>1, <2>3 DEF LogSame, LogAlike
<1>10. Log!PortableHistory(es, a) \in Seq(Nat) /\ Log!PortableHistory(new, a) = Log!PortableHistory(es, a)
  <2>1. 0 \in Nat OBVIOUS
  <2> QED BY <1>9, <2>1, LogHistoryGrows
<1> QED BY <1>5, <1>6, <1>7, <1>9, <1>10 DEF LogMessages, a

\* A child of e that is not a compaction brings its messages behind those of the branch of e.
LEMMA LogMessagesGrow ==
  ASSUME NEW es, NEW new, LogGrounded(es), LogGrounded(new), LogExtends(es, new), LogKeptBefore(es),
         NEW l \in 0..Len(es), NEW x \in 1..Len(new), Len(es) < x,
         new[x].parent = l, new[x].kind # "compaction"
  PROVE  LogLonger(LogMessages(es, l), LogMessages(new, x))
<1> DEFINE S == Log!Branch(es, l)
           q == Log!BySequence(S)
           a == Log!ActiveEntries(es, l)
<1>0. /\ Len(es) \in Nat /\ Len(es) <= Len(new) /\ \A i \in 1..Len(es) : new[i] = es[i]
      /\ Len(new) \in Nat /\ \A i \in 1..Len(new) : new[i].parent \in 0..(i - 1)
      /\ x \in Nat
  BY DEF LogGrounded, LogExtends
<1>1. S \subseteq 1..Len(es)
  <2>1. S \subseteq 1..l BY LogBranchIn
  <2>2. 1..l \subseteq 1..Len(es) BY <1>0
  <2> QED BY <2>1, <2>2
<1>2. Log!Branch(new, x) = S \cup {x}
  <2>1. Log!Branch(new, x) = {x} \cup Log!Branch(new, l)
    <3>1. \A i \in 1..Len(new) : Log!Branch(new, i) = {i} \cup Log!Branch(new, new[i].parent)
      BY <1>0, LogBranchIs
    <3> QED BY <3>1
  <2>2. Log!Branch(new, l) = S BY LogBranchStays
  <2> HIDE DEF S
  <2> QED BY <2>1, <2>2
<1>3. LogLists(q, S) BY <1>0, <1>1, LogInOrder
<1>4. LogSame(es, new, S) BY <1>0, <1>1 DEF LogSame
<1>5. a = Log!ApplyLatestCompaction(es, q) BY DEF Log!ActiveEntries
<1>6. Log!ActiveEntries(new, x) = Log!ApplyLatestCompaction(new, Append(q, x))
  <2> HIDE DEF S
  <2>1. Log!BySequence(S \cup {x}) = Append(Log!BySequence(S), x) BY <1>0, <1>1, LogLastInOrder
  <2> QED BY <1>2, <2>1 DEF Log!ActiveEntries
<1>9. a \in Seq(Nat) /\ LogAlike(es, new, a)
  <2> HIDE DEF S, q, a
  <2>0. a \in Seq(S)
    <3>1. Log!ApplyLatestCompaction(es, q) \in Seq(S) BY <1>0, <1>1, <1>3, LogApplied DEF LogPresents
    <3> QED BY <1>5, <3>1
  <2>1. \A i \in 1..Len(a) : a[i] \in S BY <2>0
  <2>2. S \subseteq Nat BY <1>0, <1>1
  <2>3. a \in Seq(Nat) BY <2>0, <2>2, LogSeqOfNat
  <2> QED BY <1>4, <2>1, <2>3 DEF LogSame, LogAlike
<1> HIDE DEF S, q, a
<1>7. LogComesLast(es, new, q, x)
  <2>1. Len(es) \in Nat BY <1>0
  <2>2. LogLater(es, new, x) BY <1>0 DEF LogLater
  <2> QED BY <1>1, <1>3, <1>4, <2>1, <2>2, LogAppliedGrows
<1>10. LogLonger(Log!PortableHistory(es, a), Log!PortableHistory(new, Append(a, x)))
  <2>1. a \in Seq(Nat) BY <1>9
  <2>2. LogAlike(es, new, a) BY <1>9
  <2>3. x \in Nat BY <1>0
  <2> QED BY <2>1, <2>2, <2>3, LogHistoryGrows
<1> QED BY <1>5, <1>6, <1>7, <1>10 DEF LogMessages, LogComesLast, a

--------------------
(* What a compaction hides, and what a longer history begins with.         *)

\* The active entries of a branch are those from its boundary on, each once.
LEMMA LogActiveIs ==
  ASSUME NEW es, LogGrounded(es), LogKeptBefore(es), NEW l \in 0..Len(es)
  PROVE  LogPresents(es, Log!Branch(es, l), Log!ActiveEntries(es, l)) /\ Log!Branch(es, l) \subseteq 1..Len(es)
<1> DEFINE S == Log!Branch(es, l)
           q == Log!BySequence(S)
<1>0. Len(es) \in Nat BY DEF LogGrounded
<1>1. S \subseteq 1..Len(es)
  <2>1. S \subseteq 1..l BY LogBranchIn
  <2>2. 1..l \subseteq 1..Len(es) BY <1>0
  <2> QED BY <2>1, <2>2
<1>3. LogLists(q, S) BY <1>0, <1>1, LogInOrder
<1>4. Log!ActiveEntries(es, l) = Log!ApplyLatestCompaction(es, q) BY DEF Log!ActiveEntries
<1> HIDE DEF q, S
<1>5. LogPresents(es, S, Log!ApplyLatestCompaction(es, q))
  BY <1>0, <1>1, <1>3, LogApplied
<1> QED BY <1>1, <1>4, <1>5 DEF S

\* A sequence without repetition has as many elements as positions.
LEMMA LogAsManyElements ==
  ASSUME NEW S, NEW a \in Seq(S), \A i, j \in 1..Len(a) : a[i] = a[j] => i = j
  PROVE  Log!Cardinality(Log!Range(a)) = Len(a)
<1> DEFINE D == 1..Len(a)
           T == Log!Range(a)
<1>1. Len(a) \in Nat /\ DOMAIN a = D /\ a = [i \in D |-> a[i]] OBVIOUS
<1>2. \A i \in D : a[i] \in T BY <1>1 DEF Log!Range
<1>3. \A e \in T : \E i \in D : a[i] = e BY <1>1 DEF Log!Range
<1> HIDE DEF T
<1>4. a \in Surjection(D, T) /\ a \in Injection(D, T)
  <2>1. a \in [D -> T] BY <1>1, <1>2
  <2> QED BY <1>3, <2>1 DEF Surjection, Injection, IsInjective
<1>5. Log!IsFiniteSet(D) /\ Log!Cardinality(D) = Len(a)
  <2>1. 1 \in Int /\ Len(a) \in Int /\ (1 > Len(a) => Len(a) = 0) BY <1>1
  <2>2. Log!IsFiniteSet(D) /\ Log!Cardinality(D) = IF 1 > Len(a) THEN 0 ELSE Len(a) - 1 + 1
    BY <2>1, FS_Interval, LogSets
  <2> QED BY <2>1, <2>2
<1>6. Log!Cardinality(T) = Log!Cardinality(D) BY <1>4, <1>5, FS_Surjection, LogSets
<1> QED BY <1>5, <1>6 DEF T

\* What the compaction hides, of a timeline whose boundaries precede their compactions.
LEMMA LogHidesOnlyThePast ==
  ASSUME LogGrounded(entries), LogKeptBefore(entries), leaf \in 0..Len(entries)
  PROVE  Log!CompactionHidesOnlyThePast
<1> DEFINE a == Log!ActiveEntries(entries, leaf)
           S == Log!Branch(entries, leaf)
<1>1. /\ a \in Seq(S) /\ S \subseteq 1..Len(entries)
      /\ \A i, j \in 1..Len(a) : a[i] = a[j] => i = j
      /\ \A e : e \in S /\ LogBoundary(entries, S) <= e <=> \E i \in 1..Len(a) : a[i] = e
  BY LogActiveIs DEF LogPresents
<1> HIDE DEF a, S
<1>2. Log!Cardinality(Log!Range(a)) = Len(a) BY <1>1, LogAsManyElements
<1>3. Log!Range(a) = {i \in S : i >= LogBoundary(entries, S)}
  <2>1. DOMAIN a = 1..Len(a) BY <1>1
  <2>2. \A e : e \in Log!Range(a) <=> \E i \in 1..Len(a) : a[i] = e BY <2>1 DEF Log!Range
  <2>3. \A e : e \in Log!Range(a) <=> e \in S /\ LogBoundary(entries, S) <= e BY <1>1, <2>2
  <2> HIDE DEF LogBoundary
  <2>4. \A e \in S : e >= LogBoundary(entries, S) <=> LogBoundary(entries, S) <= e OBVIOUS
  <2> QED BY <2>3, <2>4
<1>4. LogBoundary(entries, S)
        = IF Log!Max({0} \cup {i \in S : entries[i].kind = "compaction"}) # 0
             /\ entries[Log!Max({0} \cup {i \in S : entries[i].kind = "compaction"})].kept \in S
          THEN entries[Log!Max({0} \cup {i \in S : entries[i].kind = "compaction"})].kept ELSE 0
  BY DEF LogBoundary, LogLatest, LogCompactions
<1> QED BY <1>2, <1>3, <1>4 DEF Log!CompactionHidesOnlyThePast, a, S

\* What a longer sequence begins with.
LEMMA LogPrefixGrows ==
  ASSUME NEW s \in Seq(Nat), NEW a \in Seq(Nat), NEW b, Log!IsPrefix(s, a), LogLonger(a, b)
  PROVE  Log!IsPrefix(s, b) /\ b \in Seq(Nat) /\ Len(a) <= Len(b)
<1>1. PICK y \in Seq(Nat) : b = a \o y BY DEF LogLonger
<1>2. b \in Seq(Nat) /\ Len(b) = Len(a) + Len(y) /\ \A i \in 1..Len(a) : b[i] = a[i]
  BY <1>1
<1>3. Len(s) \in Nat /\ Len(a) \in Nat /\ Len(y) \in Nat /\ Len(b) \in Nat BY <1>2
<1>4. Len(s) <= Len(a) /\ SubSeq(s, 1, Len(s)) = SubSeq(a, 1, Len(s)) BY DEF Log!IsPrefix
<1>5. Len(a) <= Len(b) /\ Len(s) <= Len(b) BY <1>2, <1>3, <1>4
<1>6. SubSeq(a, 1, Len(s)) = SubSeq(b, 1, Len(s))
  <2>1. \A i \in 1..Len(s) : a[i] = b[i] BY <1>2, <1>3, <1>4
  <2> QED BY <2>1, <1>2, <1>3, <1>4, <1>5
<1> QED BY <1>2, <1>4, <1>5, <1>6 DEF Log!IsPrefix

\* Sequences with the same elements are the same.
LEMMA LogSameSeq ==
  ASSUME NEW v \in Seq(Nat), NEW w \in Seq(Nat), Len(v) = Len(w),
         \A i \in 1..Len(v) : v[i] = w[i]
  PROVE  v = w
<1>1. DOMAIN v = 1..Len(v) /\ DOMAIN w = 1..Len(v) OBVIOUS
<1>2. v = [i \in 1..Len(v) |-> v[i]] /\ w = [i \in 1..Len(v) |-> w[i]] BY <1>1
<1> QED BY <1>2

\* A prefix that is read on.
LEMMA LogPrefixReadOn ==
  ASSUME NEW s \in Seq(Nat), NEW a \in Seq(Nat), NEW n \in Nat, Log!IsPrefix(s, a),
         Len(s) + n <= Len(a)
  PROVE  LET t == s \o [i \in 1..n |-> a[Len(s) + i]]
         IN  t \in Seq(Nat) /\ Len(t) = Len(s) + n /\ Log!IsPrefix(t, a)
<1> DEFINE u == [i \in 1..n |-> a[Len(s) + i]]
           t == s \o u
<1>1. Len(s) \in Nat /\ Len(a) \in Nat OBVIOUS
<1>2. u \in Seq(Nat) /\ Len(u) = n /\ \A i \in 1..n : u[i] = a[Len(s) + i]
  <2>1. \A i \in 1..n : Len(s) + i \in 1..Len(a) BY <1>1
  <2>2. \A i \in 1..n : a[Len(s) + i] \in Nat BY <2>1
  <2> QED BY <2>2
<1> HIDE DEF u
<1>3. t \in Seq(Nat) /\ Len(t) = Len(s) + n
  <2>1. u \in Seq(Nat) BY <1>2
  <2>2. t \in Seq(Nat) /\ Len(t) = Len(s) + Len(u) BY <2>1
  <2> QED BY <1>2, <2>2
<1>4. SubSeq(s, 1, Len(s)) = SubSeq(a, 1, Len(s)) BY DEF Log!IsPrefix
<1>5. \A i \in 1..Len(s) : s[i] = a[i]
  <2>1. SUFFICES ASSUME NEW i \in 1..Len(s) PROVE s[i] = a[i] OBVIOUS
  <2>2. SubSeq(s, 1, Len(s))[i] = s[i] BY <1>1
  <2>3. SubSeq(a, 1, Len(s))[i] = a[i] BY <1>1
  <2> QED BY <1>4, <2>2, <2>3
<1>6. ASSUME NEW i \in 1..(Len(s) + n) PROVE t[i] = a[i]
  <2>1. CASE i <= Len(s)
    <3>1. i \in 1..Len(s) BY <2>1, <1>1
    <3>2. t[i] = s[i] BY <3>1, <1>2
    <3> QED BY <3>1, <3>2, <1>5
  <2>2. CASE ~(i <= Len(s))
    <3>1. i - Len(s) \in 1..n /\ Len(s) + (i - Len(s)) = i BY <2>2, <1>1
    <3>2. i \in Len(s) + 1 .. Len(s) + Len(u) BY <2>2, <1>1, <1>2
    <3>3. t[i] = u[i - Len(s)] BY <3>2, <1>2
    <3> QED BY <3>1, <3>3, <1>2
  <2> QED BY <2>1, <2>2
<1> HIDE DEF t
<1>7. SubSeq(t, 1, Len(t)) = SubSeq(a, 1, Len(t))
  <2> DEFINE m == Len(t)
             v == SubSeq(t, 1, m)
             w == SubSeq(a, 1, m)
  <2>1. m \in Nat /\ m <= Len(a) /\ \A i \in 1..m : t[i] = a[i] BY <1>1, <1>3, <1>6
  <2>2. v \in Seq(Nat) /\ Len(v) = m /\ \A i \in 1..m : v[i] = t[i] BY <1>3
  <2> HIDE DEF m
  <2>3. w \in Seq(Nat) /\ Len(w) = m /\ \A i \in 1..m : w[i] = a[i] BY <1>1, <2>1
  <2> HIDE DEF v, w
  <2>4. v = w
    <3>1. Len(v) = Len(w) /\ \A i \in 1..Len(v) : v[i] = w[i] BY <2>1, <2>2, <2>3
    <3>2. v \in Seq(Nat) /\ w \in Seq(Nat) BY <2>2, <2>3
    <3> QED BY <3>1, <3>2, LogSameSeq
  <2> QED BY <2>4 DEF v, w, m
<1>8. Log!IsPrefix(t, a) BY <1>1, <1>3, <1>7 DEF Log!IsPrefix
<1> QED BY <1>3, <1>8 DEF t, u

--------------------
(* The active context from step to step.                                   *)

\* The client that reads the active messages has seen those up to its cursor, as long as the
\* branch only grows.
LogFollowed ==
  /\ history \in [after : Nat, seen : Seq(Nat), moved : BOOLEAN]
  /\ ~history.moved => history.after = Len(history.seen)
  /\ Log!HistoryPagesAreComplete

\* What the active context needs besides the invariant: a boundary that was looked up is an
\* entry, so a compaction keeps what came before it.
LogAInv ==
  /\ LogKeptBefore(entries)
  /\ intent.op = "compaction" => intent.at <= Len(entries)
  /\ page.after <= MaxEntries
  /\ LogFollowed

\* The leaf moves to a new child that is not a compaction.
LogNewChild ==
  /\ leaf' \in 1..Len(entries') /\ Len(entries) < leaf'
  /\ entries'[leaf'].parent = leaf /\ entries'[leaf'].kind # "compaction"

\* The timeline goes on, and its compactions keep what came before them.
LogGoesOn == LogExtends(entries, entries') /\ LogKeptBefore(entries')

\* The timeline is grounded.
LEMMA LogIsGrounded ==
  ASSUME Log!BoundsAssumption, LogIInv
  PROVE  LogGrounded(entries) /\ leaf \in 0..Len(entries)
<1>1. entries \in Seq(Log!Entry) /\ leaf \in 0..Len(entries) /\ LogTree(entries)
  BY LogTreeOf DEF LogIInv, LogTyped
<1> QED BY <1>1, LogTreeIsGrounded

\* A client that follows the messages still does when the timeline goes on.
LEMMA LogStillFollowed ==
  ASSUME LogGrounded(entries), leaf \in 0..Len(entries), LogGrounded(entries)',
         LogKeptBefore(entries), LogFollowed, LogGoesOn, leaf' = leaf \/ LogNewChild, history' = history
  PROVE  LogFollowed'
<1>0. LogGrounded(entries') /\ LogExtends(entries, entries') BY DEF LogGoesOn, LogGrounded
<1>1. Log!ActiveMessages = LogMessages(entries, leaf) /\ Log!ActiveMessages' = LogMessages(entries', leaf')
  BY DEF Log!ActiveMessages, LogMessages
<1>2. /\ LogMessages(entries, leaf) \in Seq(Nat)
      /\ LogMessages(entries', leaf) = LogMessages(entries, leaf)
  BY <1>0, LogMessagesStay
<1>3. LogLonger(Log!ActiveMessages, Log!ActiveMessages')
  <2>1. CASE leaf' = leaf
    <3>1. <<>> \in Seq(Nat) /\ \A s \in Seq(Nat) : s = s \o <<>> OBVIOUS
    <3>2. Log!ActiveMessages' = Log!ActiveMessages /\ Log!ActiveMessages \in Seq(Nat) BY <1>1, <1>2, <2>1
    <3> QED BY <3>1, <3>2 DEF LogLonger
  <2>2. CASE LogNewChild
    <3>1. LogLonger(LogMessages(entries, leaf), LogMessages(entries', leaf'))
      BY <1>0, <2>2, LogMessagesGrow DEF LogNewChild
    <3> QED BY <1>1, <3>1
  <2> QED BY <2>1, <2>2
<1>4. Log!HistoryPagesAreComplete'
  <2>1. SUFFICES ASSUME ~history.moved PROVE Log!IsPrefix(history.seen, Log!ActiveMessages')
    BY DEF Log!HistoryPagesAreComplete
  <2>2. Log!IsPrefix(history.seen, Log!ActiveMessages) /\ history.seen \in Seq(Nat)
    BY <2>1 DEF LogFollowed, Log!HistoryPagesAreComplete
  <2>3. Log!ActiveMessages \in Seq(Nat) BY <1>1, <1>2
  <2> QED BY <1>3, <2>2, <2>3, LogPrefixGrows
<1> QED BY <1>4 DEF LogFollowed

\* What an appended entry does.
LEMMA LogEntryGoesOn ==
  ASSUME LogGrounded(entries), entries \in Seq(Log!Entry), LogKeptBefore(entries),
         NEW kind, NEW t, NEW key, NEW kept, Log!AppendEntry(kind, t, key, kept),
         kind = "compaction" => kept \in 0..Len(entries)
  PROVE  LogGoesOn /\ (kind # "compaction" => leaf' = leaf \/ LogNewChild)
<1> DEFINE e == [kind |-> kind, parent |-> leaf, turn |-> t, key |-> key, kept |-> kept]
           id == Len(entries) + 1
<1>1. Len(entries) \in Nat BY DEF LogGrounded
<1>2. entries' = Append(entries, e) /\ leaf' = IF kind \in Log!Contextual THEN id ELSE leaf
  BY DEF Log!AppendEntry, Log!With, Log!NewLeaf
<1>3. /\ Len(entries') = id /\ entries'[id] = e
      /\ \A i \in 1..Len(entries) : entries'[i] = entries[i]
  <2> HIDE DEF e
  <2> QED BY <1>1, <1>2
<1>4. LogExtends(entries, entries') BY <1>1, <1>3 DEF LogExtends
<1>5. LogKeptBefore(entries')
  <2>1. SUFFICES ASSUME NEW i \in 1..id, entries'[i].kind = "compaction"
                 PROVE  entries'[i].kept \in 0..(i - 1)
    BY <1>3 DEF LogKeptBefore
  <2>2. CASE i = id
    <3>1. kind = "compaction" /\ entries'[i].kept = kept  BY <1>3, <2>1, <2>2
    <3> QED BY <1>1, <2>2, <3>1
  <2>3. CASE i # id
    <3>1. i \in 1..Len(entries) BY <1>1, <2>3
    <3> QED BY <1>3, <2>1, <3>1 DEF LogKeptBefore
  <2> QED BY <2>2, <2>3
<1>6. kind # "compaction" => leaf' = leaf \/ LogNewChild
  <2>1. leaf' = leaf \/ leaf' = id BY <1>2
  <2>2. id \in 1..Len(entries') /\ Len(entries) < id BY <1>1, <1>3
  <2>3. entries'[id].parent = leaf /\ entries'[id].kind = kind BY <1>3
  <2> HIDE DEF id, e
  <2> QED BY <2>1, <2>2, <2>3 DEF LogNewChild
<1> QED BY <1>4, <1>5, <1>6 DEF LogGoesOn

\* What a response and the call accepted from it do.
LEMMA LogResponseGoesOn ==
  ASSUME LogGrounded(entries), entries \in Seq(Log!Entry), LogKeptBefore(entries),
         NEW calls \in 0..1, Log!AppendAssistantResponse(calls)
  PROVE  LogGoesOn /\ LogNewChild
<1> DEFINE e == [kind |-> "assistant", parent |-> leaf, turn |-> turn, key |-> log_None, kept |-> 0]
           id == Len(entries) + 1
           d == [kind |-> "tool_started", parent |-> id, turn |-> turn, key |-> log_None, kept |-> 0]
           first == Append(entries, e)
           second == Append(first, d)
<1>1. Len(entries) \in Nat BY DEF LogGrounded
<1>2. entries' = (IF calls = 0 THEN first ELSE second) /\ leaf' = id
  BY DEF Log!AppendAssistantResponse, Log!With
<1>3. e.kind = "assistant" /\ e.parent = leaf /\ d.kind = "tool_started"  OBVIOUS
<1> HIDE DEF e, d
<1>4. /\ Len(first) = id /\ first[id] = e
      /\ \A i \in 1..Len(entries) : first[i] = entries[i]
      /\ Len(second) = id + 1 /\ second[id + 1] = d
      /\ \A i \in 1..id : second[i] = first[i]
  <2>1. /\ Len(first) = id /\ first[id] = e
        /\ \A i \in 1..Len(entries) : first[i] = entries[i]
    BY <1>1
  <2>2. entries \in Seq(Log!Entry \cup {e}) OBVIOUS
  <2>3. first \in Seq(Log!Entry \cup {e}) BY <2>2
  <2> HIDE DEF first
  <2>4. /\ Len(second) = Len(first) + 1 /\ second[Len(first) + 1] = d
        /\ \A i \in 1..Len(first) : second[i] = first[i]
    BY <1>1, <2>1, <2>3
  <2> QED BY <2>1, <2>4
<1> HIDE DEF first, second
<1>5. /\ Len(entries') >= id
      /\ \A i \in 1..Len(entries) : entries'[i] = entries[i]
      /\ entries'[id] = e
      /\ \A i \in 1..Len(entries') : i \in 1..Len(entries) \/ i = id \/ entries'[i] = d
  <2>1. id \in 1..id /\ \A i \in 1..Len(entries) : i \in 1..id BY <1>1
  <2>2. CASE calls = 0 BY <1>1, <1>2, <1>4, <2>2
  <2>3. CASE calls # 0
    <3>1. entries' = second /\ Len(entries') = id + 1 BY <1>2, <1>4, <2>3
    <3>2. \A i \in 1..(id + 1) : i \in 1..Len(entries) \/ i = id \/ i = id + 1 BY <1>1
    <3> QED BY <1>1, <1>4, <2>1, <3>1, <3>2
  <2> QED BY <2>2, <2>3
<1>6. LogExtends(entries, entries')
  <2>1. Len(entries) <= Len(entries')
    <3>1. Len(entries') = id \/ Len(entries') = id + 1 BY <1>2, <1>4
    <3> QED BY <1>1, <3>1
  <2> QED BY <1>5, <2>1 DEF LogExtends
<1>7. LogKeptBefore(entries')
  <2>1. SUFFICES ASSUME NEW i \in 1..Len(entries'), entries'[i].kind = "compaction"
                 PROVE  entries'[i].kept \in 0..(i - 1)
    BY DEF LogKeptBefore
  <2>2. i \in 1..Len(entries) BY <1>3, <1>5, <2>1
  <2> QED BY <1>5, <2>1, <2>2 DEF LogKeptBefore
<1>8. LogNewChild
  <2>1. id \in 1..Len(entries')
    <3>1. Len(entries') = id \/ Len(entries') = id + 1 BY <1>2, <1>4
    <3> QED BY <1>1, <3>1
  <2>2. Len(entries) < id BY <1>1
  <2> QED BY <1>2, <1>3, <1>5, <2>1, <2>2 DEF LogNewChild
<1> QED BY <1>6, <1>7, <1>8 DEF LogGoesOn

\* Both invariants.
LogBoth == LogIInv /\ LogAInv

\* A step that goes on, and leaves the readers and the boundaries that were looked up.
LEMMA LogGoingOn ==
  ASSUME Log!BoundsAssumption, LogBoth, LogIInv', LogGoesOn, leaf' = leaf \/ LogNewChild,
         UNCHANGED <<page, history>>, intent' = intent \/ intent' = Log!Idle
  PROVE  LogAInv'
<1>1. LogGrounded(entries) /\ leaf \in 0..Len(entries) BY LogIsGrounded DEF LogBoth
<1>2. LogGrounded(entries)'
  <2>1. entries' \in Seq(Log!Entry) /\ LogTree(entries')
    BY DEF LogIInv, LogTyped, Log!BranchesAreContextual, LogTree
  <2>2. LogGrounded(entries') BY <2>1, LogTreeIsGrounded
  <2> QED BY <2>2 DEF LogGrounded
<1>3. LogFollowed'
  <2>1. LogKeptBefore(entries) /\ LogFollowed BY DEF LogBoth, LogAInv
  <2>2. history' = history OBVIOUS
  <2> QED BY <1>1, <1>2, <2>1, <2>2, LogStillFollowed
<1>4. LogKeptBefore(entries)' BY DEF LogGoesOn, LogKeptBefore
<1>5. (intent.op = "compaction" => intent.at <= Len(entries))'
  <2>1. SUFFICES ASSUME intent'.op = "compaction" PROVE intent'.at <= Len(entries')  OBVIOUS
  <2>2. intent' = intent BY <2>1 DEF Log!Idle
  <2>3. intent.at \in Nat /\ Len(entries) \in Nat /\ Len(entries') \in Nat
    <3>1. intent.at \in 0..MaxEntries BY DEF LogBoth, LogIInv, LogTyped
    <3> QED BY <3>1, <1>1, <1>2 DEF LogGrounded
  <2>4. intent.at <= Len(entries) BY <2>1, <2>2 DEF LogBoth, LogAInv
  <2>5. Len(entries) <= Len(entries') BY DEF LogGoesOn, LogExtends
  <2> QED BY <2>2, <2>3, <2>4, <2>5
<1>6. (page.after <= MaxEntries)' BY DEF LogBoth, LogAInv
<1> QED BY <1>3, <1>4, <1>5, <1>6 DEF LogAInv

\* A step that leaves the timeline goes on.
LEMMA LogUnmoved ==
  ASSUME LogBoth, UNCHANGED <<entries, leaf>>
  PROVE  LogGoesOn
<1>1. Len(entries) \in Nat BY DEF LogBoth, LogIInv, LogTyped
<1> QED BY <1>1 DEF LogGoesOn, LogExtends, LogBoth, LogAInv

\* A step that appends an entry which is not a compaction goes on.
LEMMA LogAppended ==
  ASSUME Log!BoundsAssumption, LogBoth,
         NEW kind, NEW t, NEW key, NEW kept, Log!AppendEntry(kind, t, key, kept),
         kind # "compaction"
  PROVE  LogGoesOn /\ (leaf' = leaf \/ LogNewChild)
<1>1. LogGrounded(entries) /\ entries \in Seq(Log!Entry) /\ LogKeptBefore(entries)
  BY LogIsGrounded DEF LogBoth, LogIInv, LogTyped, LogAInv
<1> QED BY <1>1, LogEntryGoesOn

\* The steps of a Turn, its responses and its observations, and those of append_message.
LogAtTheEnd ==
  \/ Log!AcceptTurn \/ Log!TurnStarted \/ Log!AppendToolRequested \/ Log!AppendToolResult \/ Log!TurnEnded
  \/ \E calls \in 0..1 : Log!AppendAssistantResponse(calls)
  \/ \E key \in Keys \cup {log_None} :
       Log!AppendReasoning(key) \/ Log!AppendHarnessObservation(key) \/ Log!AppendAcpObservation(key)
  \/ Log!ReadLeaf
  \/ Log!AppendMessageChecked

\* They keep what the active context needs.
LEMMA LogTurnsGoOn ==
  ASSUME Log!BoundsAssumption, LogBoth, LogIInv', LogAtTheEnd
  PROVE  LogAInv'
<1>1. CASE \/ Log!AcceptTurn \/ Log!TurnStarted \/ Log!AppendToolRequested \/ Log!AppendToolResult
           \/ Log!TurnEnded
  <2>1. PICK kind \in {"user", "turn_started", "tool_started", "tool_result", "turn_ended"},
             t \in {0, turn} : Log!AppendEntry(kind, t, log_None, 0)
    BY <1>1 DEF Log!AcceptTurn, Log!TurnStarted, Log!AppendToolRequested, Log!AppendToolResult, Log!TurnEnded
  <2>2. LogGoesOn /\ (leaf' = leaf \/ LogNewChild)
    <3>1. kind # "compaction"  OBVIOUS
    <3> QED BY <2>1, <3>1, LogAppended
  <2>3. UNCHANGED <<page, history>> /\ intent' = intent
    BY <1>1 DEF Log!AcceptTurn, Log!TurnStarted, Log!AppendToolRequested, Log!AppendToolResult, Log!TurnEnded
  <2> QED BY <2>2, <2>3, LogGoingOn
<1>2. ASSUME NEW calls \in 0..1, Log!AppendAssistantResponse(calls) PROVE LogAInv'
  <2>1. LogGrounded(entries) /\ entries \in Seq(Log!Entry) /\ LogKeptBefore(entries)
    BY LogIsGrounded DEF LogBoth, LogIInv, LogTyped, LogAInv
  <2>2. LogGoesOn /\ LogNewChild BY <1>2, <2>1, LogResponseGoesOn
  <2>3. UNCHANGED <<page, history>> /\ intent' = intent BY <1>2 DEF Log!AppendAssistantResponse
  <2> QED BY <2>2, <2>3, LogGoingOn
<1>3. ASSUME NEW key \in Keys \cup {log_None},
             Log!AppendReasoning(key) \/ Log!AppendHarnessObservation(key) \/ Log!AppendAcpObservation(key)
      PROVE  LogAInv'
  <2>1. PICK kind \in {"reasoning", "observation"} : Log!RecordObservation(kind, key)
    BY <1>3 DEF Log!AppendReasoning, Log!AppendHarnessObservation, Log!AppendAcpObservation
  <2>2. UNCHANGED <<page, history>> /\ intent' = intent BY <2>1 DEF Log!RecordObservation
  <2>3. CASE Log!KeyFree(Log!CorrelationId(key, turn))
    <3>1. Log!AppendEntry(kind, turn, Log!CorrelationId(key, turn), 0) /\ kind # "compaction"
      BY <2>1, <2>3 DEF Log!RecordObservation
    <3>2. LogGoesOn /\ (leaf' = leaf \/ LogNewChild) BY <3>1, LogAppended
    <3> QED BY <2>2, <3>2, LogGoingOn
  <2>4. CASE ~Log!KeyFree(Log!CorrelationId(key, turn))
    <3>1. UNCHANGED <<entries, leaf>> BY <2>1, <2>4 DEF Log!RecordObservation
    <3>2. LogGoesOn BY <3>1, LogUnmoved
    <3> QED BY <2>2, <3>1, <3>2, LogGoingOn
  <2> QED BY <2>3, <2>4
<1>4. CASE Log!ReadLeaf
  <2>1. UNCHANGED <<entries, leaf, page, history>> /\ intent'.op = "message"
    BY <1>4 DEF Log!ReadLeaf, Log!log
  <2>2. LogKeptBefore(entries)' BY <2>1 DEF LogBoth, LogAInv, LogKeptBefore
  <2>3. LogFollowed'
    BY <2>1 DEF LogBoth, LogAInv, LogFollowed, Log!HistoryPagesAreComplete, Log!ActiveMessages
  <2>4. (page.after <= MaxEntries)' BY <2>1 DEF LogBoth, LogAInv
  <2> QED BY <2>1, <2>2, <2>3, <2>4 DEF LogAInv
<1>5. CASE Log!AppendMessageChecked
  <2>1. UNCHANGED <<page, history>> /\ intent' = Log!Idle BY <1>5 DEF Log!AppendMessageChecked
  <2>2. CASE Log!AppendEntry("user", 0, log_None, 0)
    <3>1. "user" # "compaction"  OBVIOUS
    <3>2. LogGoesOn /\ (leaf' = leaf \/ LogNewChild) BY <2>2, <3>1, LogAppended
    <3> QED BY <2>1, <3>2, LogGoingOn
  <2>3. CASE UNCHANGED <<entries, leaf>>
    <3>1. LogGoesOn BY <2>3, LogUnmoved
    <3> QED BY <2>1, <2>3, <3>1, LogGoingOn
  <2> QED BY <1>5, <2>2, <2>3 DEF Log!AppendMessageChecked
<1> QED BY <1>1, <1>2, <1>3, <1>4, <1>5 DEF LogAtTheEnd

\* A boundary is looked up, a compaction recorded or the branch changed.
LogOfTheBranch ==
  \/ \E kept \in Log!Ids : Log!CheckBoundary(kept)
  \/ Log!AppendContextCompaction
  \/ \E new \in 0..MaxEntries : Log!SetSessionLeaf(new)

\* They keep what the active context needs.
LEMMA LogBranchMoves ==
  ASSUME Log!BoundsAssumption, LogBoth, LogIInv', LogOfTheBranch
  PROVE  LogAInv'
<1>0. /\ LogGrounded(entries) /\ leaf \in 0..Len(entries) /\ entries \in Seq(Log!Entry)
      /\ LogKeptBefore(entries) /\ LogFollowed /\ page.after <= MaxEntries
      /\ (intent.op = "compaction" => intent.at <= Len(entries)) /\ Len(entries) \in Nat
      /\ intent.at \in 0..MaxEntries
  BY LogIsGrounded DEF LogBoth, LogIInv, LogTyped, LogAInv, LogGrounded
<1>1. ASSUME NEW kept \in Log!Ids, Log!CheckBoundary(kept) PROVE LogAInv'
  <2>1. UNCHANGED <<entries, leaf, page, history>> /\ intent'.at = kept
        /\ kept \in Log!Range(Log!ActiveEntries(entries, leaf))
    BY <1>1 DEF Log!CheckBoundary, Log!log
  <2>2. kept <= Len(entries)
    <3> DEFINE a == Log!ActiveEntries(entries, leaf)
               S == Log!Branch(entries, leaf)
    <3>1. a \in Seq(S) /\ S \subseteq 1..Len(entries) BY <1>0, LogActiveIs DEF LogPresents
    <3> HIDE DEF a, S
    <3>2. kept \in Log!Range(a) BY <2>1 DEF a
    <3>3. kept \in S BY <3>1, <3>2 DEF Log!Range
    <3> QED BY <1>0, <3>1, <3>3
  <2>3. LogKeptBefore(entries)' BY <1>0, <2>1 DEF LogKeptBefore
  <2>4. LogFollowed'
    BY <1>0, <2>1 DEF LogFollowed, Log!HistoryPagesAreComplete, Log!ActiveMessages
  <2> QED BY <1>0, <2>1, <2>2, <2>3, <2>4 DEF LogAInv
<1>2. ASSUME history' = [history EXCEPT !.moved = TRUE]
      PROVE  LogFollowed'
  <2>1. history \in [after : Nat, seen : Seq(Nat), moved : BOOLEAN] BY <1>0 DEF LogFollowed
  <2>2. history' \in [after : Nat, seen : Seq(Nat), moved : BOOLEAN] /\ history'.moved
    BY <1>2, <2>1
  <2> QED BY <2>2 DEF LogFollowed, Log!HistoryPagesAreComplete
<1>3. CASE Log!AppendContextCompaction
  <2>1. /\ intent.op = "compaction" /\ Log!AppendEntry("compaction", 0, log_None, intent.at)
        /\ history' = [history EXCEPT !.moved = TRUE] /\ intent' = Log!Idle /\ page' = page
    BY <1>3 DEF Log!AppendContextCompaction
  <2>2. intent.at \in 0..Len(entries) BY <1>0, <2>1
  <2>3. LogGoesOn BY <1>0, <2>1, <2>2, LogEntryGoesOn
  <2>4. LogFollowed' BY <1>2, <2>1
  <2>5. LogKeptBefore(entries)' BY <2>3 DEF LogGoesOn, LogKeptBefore
  <2>6. intent'.op # "compaction"  BY <2>1 DEF Log!Idle
  <2> QED BY <1>0, <2>1, <2>4, <2>5, <2>6 DEF LogAInv
<1>4. ASSUME NEW new \in 0..MaxEntries, Log!SetSessionLeaf(new) PROVE LogAInv'
  <2>1. /\ UNCHANGED <<entries, intent, page>>
        /\ history' = [history EXCEPT !.moved = TRUE]
    BY <1>4 DEF Log!SetSessionLeaf
  <2>2. LogFollowed' BY <1>2, <2>1
  <2>3. LogKeptBefore(entries)' BY <1>0, <2>1 DEF LogKeptBefore
  <2> QED BY <1>0, <2>1, <2>2, <2>3 DEF LogAInv
<1> QED BY <1>1, <1>3, <1>4 DEF LogOfTheBranch

\* A page of entries leaves the messages.
LEMMA LogEntriesRead ==
  ASSUME Log!BoundsAssumption, LogBoth, LogIInv', NEW n \in 0..Limit, Log!SessionEntriesPage(n)
  PROVE  LogAInv'
<1>1. UNCHANGED <<entries, leaf, intent, history>> /\ ~page.done
  BY DEF Log!SessionEntriesPage, Log!log
<1>2. LogKeptBefore(entries)' BY <1>1 DEF LogBoth, LogAInv, LogKeptBefore
<1>3. LogFollowed' BY <1>1 DEF LogBoth, LogAInv, LogFollowed, Log!HistoryPagesAreComplete, Log!ActiveMessages
<1>4. page'.after <= MaxEntries
  <2> DEFINE rest == [i \in 1..(Len(entries) - page.after) |-> page.after + i]
  <2>1. page' = [after |-> IF n < Len(rest) THEN Log!PageNext(rest, n) ELSE page.after,
                 seen |-> page.seen \o SubSeq(rest, 1, n), done |-> n = Len(rest)]
    BY DEF Log!SessionEntriesPage
  <2>2. CASE page'.done
    <3>1. n = Len(rest) BY <2>1, <2>2
    <3> HIDE DEF rest
    <3>2. ~(n < Len(rest)) BY <3>1
    <3>3. page'.after = page.after BY <2>1, <3>2
    <3> QED BY <3>3 DEF LogBoth, LogAInv
  <2>3. CASE ~page'.done
    <3>1. page'.after = Len(page'.seen) /\ page'.after <= Len(entries')
      BY <2>3 DEF LogIInv, LogPaged
    <3>2. Len(entries') <= MaxEntries /\ Len(entries') \in Nat /\ page'.after \in Nat
      BY DEF LogIInv, LogTyped
    <3> QED BY <3>1, <3>2 DEF Log!BoundsAssumption
  <2> QED BY <2>2, <2>3
<1>5. (intent.op = "compaction" => intent.at <= Len(entries))'  BY <1>1 DEF LogBoth, LogAInv
<1> QED BY <1>2, <1>3, <1>4, <1>5 DEF LogAInv

\* A page of messages continues what the client has seen.
LEMMA LogMessagesRead ==
  ASSUME Log!BoundsAssumption, LogBoth, NEW n \in 0..Limit, Log!ActiveMessagesPage(n)
  PROVE  LogAInv'
<1> DEFINE all == Log!ActiveMessages
           len == Len(all) - history.after
           rest == [i \in 1..len |-> history.after + i]
<1>0. UNCHANGED <<entries, leaf, intent, page>> BY DEF Log!ActiveMessagesPage, Log!log
<1>1. /\ ~history.moved /\ history.after < Len(all) /\ n \in 1..Log!Min({Limit, Len(rest)})
      /\ history' = [history EXCEPT
                       !.after = rest[n],
                       !.seen = @ \o [i \in 1..n |-> all[rest[i]]]]
  BY DEF Log!ActiveMessagesPage, Log!PageNext
<1>2. all \in Seq(Nat)
  <2>1. LogGrounded(entries) /\ leaf \in 0..Len(entries) /\ LogKeptBefore(entries)
    BY LogIsGrounded DEF LogBoth, LogAInv
  <2>2. LogExtends(entries, entries) BY <2>1 DEF LogGrounded, LogExtends
  <2>3. LogMessages(entries, leaf) \in Seq(Nat) BY <2>1, <2>2, LogMessagesStay
  <2> QED BY <2>3 DEF Log!ActiveMessages, LogMessages
<1>3. /\ history \in [after : Nat, seen : Seq(Nat), moved : BOOLEAN]
      /\ history.after = Len(history.seen) /\ Log!IsPrefix(history.seen, all)
  BY <1>1 DEF LogBoth, LogAInv, LogFollowed, Log!HistoryPagesAreComplete
<1> HIDE DEF all
<1>4. len \in Nat /\ Len(all) \in Nat /\ history.after \in Nat BY <1>1, <1>2, <1>3
<1>5. Len(rest) = len /\ \A i \in 1..len : rest[i] = history.after + i BY <1>4
<1> HIDE DEF rest
<1>6. n \in 1..len
  <2>1. n \in 1..Log!Min({Limit, len}) BY <1>1, <1>5
  <2>2. Log!Min({Limit, len}) \in Nat /\ Log!Min({Limit, len}) <= len
    BY <1>4, LogMinOfTwo DEF Log!BoundsAssumption
  <2> HIDE DEF len
  <2> QED BY <1>4, <2>1, <2>2
<1> DEFINE s == history.seen
           t == s \o [i \in 1..n |-> all[Len(s) + i]]
<1>7. t \in Seq(Nat) /\ Len(t) = Len(s) + n /\ Log!IsPrefix(t, all)
  <2>1. s \in Seq(Nat) /\ n \in Nat /\ Len(s) + n <= Len(all) BY <1>3, <1>4, <1>6
  <2> HIDE DEF s
  <2> QED BY <1>2, <1>3, <2>1, LogPrefixReadOn DEF s
<1>8. history' = [after |-> Len(t), seen |-> t, moved |-> FALSE]
  <2>1. rest[n] = Len(s) + n BY <1>3, <1>5, <1>6
  <2>2. \A i \in 1..n : rest[i] = Len(s) + i
    <3>1. \A i \in 1..n : i \in 1..len BY <1>4, <1>6
    <3> HIDE DEF len
    <3> QED BY <1>3, <1>5, <3>1
  <2>3. [i \in 1..n |-> all[rest[i]]] = [i \in 1..n |-> all[Len(s) + i]] BY <2>2
  <2>4. history.moved = FALSE BY <1>1, <1>3
  <2> DEFINE u == [i \in 1..n |-> all[rest[i]]]
             v == [i \in 1..n |-> all[Len(s) + i]]
  <2>5. u = v BY <2>3
  <2>6. history' = [history EXCEPT !.after = rest[n], !.seen = @ \o u] BY <1>1
  <2>7. t = history.seen \o v OBVIOUS
  <2>8. Len(t) = rest[n] BY <1>7, <2>1
  <2> HIDE DEF u, v, t, s, len
  <2> QED BY <1>3, <2>4, <2>5, <2>6, <2>7, <2>8
<1> HIDE DEF t
<1>9. LogFollowed'
  <2>1. Log!ActiveMessages' = all BY <1>0 DEF Log!ActiveMessages, all
  <2>2. Len(t) \in Nat BY <1>7
  <2> QED BY <1>7, <1>8, <2>1, <2>2 DEF LogFollowed, Log!HistoryPagesAreComplete
<1>10. LogKeptBefore(entries)' BY <1>0 DEF LogBoth, LogAInv, LogKeptBefore
<1> QED BY <1>0, <1>9, <1>10 DEF LogAInv, LogBoth

\* Every step keeps both invariants.
LEMMA LogBothStep ==
  ASSUME Log!BoundsAssumption, LogBoth, [Log!Next]_Log!vars
  PROVE  LogBoth'
<1>0. LogIInv' BY LogStep DEF LogBoth
<1>1. CASE UNCHANGED Log!vars
  <2>1. UNCHANGED <<entries, leaf, intent, page, history>> BY <1>1 DEF Log!vars, Log!log
  <2>2. LogAInv'
    BY <2>1 DEF LogBoth, LogAInv, LogKeptBefore, LogFollowed, Log!HistoryPagesAreComplete, Log!ActiveMessages
  <2> QED BY <1>0, <2>2 DEF LogBoth
<1>2. CASE Log!Next
  <2>1. ASSUME LogAtTheEnd PROVE LogAInv' BY <1>0, <2>1, LogTurnsGoOn
  <2>2. ASSUME LogOfTheBranch PROVE LogAInv' BY <1>0, <2>2, LogBranchMoves
  <2>3. ASSUME NEW n \in 0..Limit, Log!SessionEntriesPage(n) PROVE LogAInv'
    BY <1>0, <2>3, LogEntriesRead
  <2>4. ASSUME NEW n \in 0..Limit, Log!ActiveMessagesPage(n) PROVE LogAInv'
    BY <2>4, LogMessagesRead
  <2>5. LogAInv' BY <1>2, <2>1, <2>2, <2>3, <2>4 DEF Log!Next, LogAtTheEnd, LogOfTheBranch
  <2> QED BY <1>0, <2>5 DEF LogBoth
<1> QED BY <1>1, <1>2

\* They hold in the initial states.
LEMMA LogBothInit ==
  ASSUME Log!BoundsAssumption, Log!Init
  PROVE  LogBoth
<1>1. LogIInv BY LogInitially
<1>2. LogKeptBefore(entries) BY DEF Log!Init, LogKeptBefore
<1>3. intent.op # "compaction" /\ page.after = 0
      /\ history \in [after : Nat, seen : Seq(Nat), moved : BOOLEAN]
      /\ history.after = Len(history.seen) /\ history.seen = <<>>
  BY DEF Log!Init, Log!Idle
<1>4. Log!IsPrefix(<<>>, Log!ActiveMessages)
  <2>1. Log!ActiveMessages \in Seq(Nat)
    <3>1. LogGrounded(entries) /\ leaf \in 0..Len(entries) BY <1>1, LogIsGrounded
    <3>2. LogExtends(entries, entries) BY <3>1 DEF LogGrounded, LogExtends
    <3>3. LogMessages(entries, leaf) \in Seq(Nat) BY <1>2, <3>1, <3>2, LogMessagesStay
    <3> QED BY <3>3 DEF Log!ActiveMessages, LogMessages
  <2>2. Len(<<>>) = 0 /\ Len(Log!ActiveMessages) \in Nat BY <2>1
  <2>3. SubSeq(<<>>, 1, 0) = SubSeq(Log!ActiveMessages, 1, 0) BY <2>1
  <2> QED BY <2>2, <2>3 DEF Log!IsPrefix
<1>5. LogFollowed BY <1>3, <1>4 DEF LogFollowed, Log!HistoryPagesAreComplete
<1>6. page.after <= MaxEntries BY <1>3 DEF Log!BoundsAssumption
<1> QED BY <1>1, <1>2, <1>3, <1>5, <1>6 DEF LogBoth, LogAInv

\* What they say together.
LEMMA LogBothGive ==
  ASSUME Log!BoundsAssumption, LogBoth
  PROVE  Log!TypeOK /\ Log!CompactionHidesOnlyThePast /\ Log!HistoryPagesAreComplete
<1>1. Log!CompactionHidesOnlyThePast
  <2>1. LogGrounded(entries) /\ leaf \in 0..Len(entries) /\ LogKeptBefore(entries)
    BY LogIsGrounded DEF LogBoth, LogAInv
  <2> QED BY <2>1, LogHidesOnlyThePast
<1>2. Log!TypeOK
  <2>1. page.after \in 0..MaxEntries /\ page.done \in BOOLEAN
    <3>1. page.after \in Nat /\ page.done \in BOOLEAN /\ page.after <= MaxEntries
      BY DEF LogBoth, LogIInv, LogTyped, LogAInv
    <3> QED BY <3>1 DEF Log!BoundsAssumption
  <2>2. history.after \in Nat /\ history.moved \in BOOLEAN BY DEF LogBoth, LogAInv, LogFollowed
  <2>3. refused \subseteq Keys \cup {log_None} BY DEF LogBoth, LogIInv, Log!RepeatedObservationsAccepted
  <2> QED BY <2>1, <2>2, <2>3 DEF Log!TypeOK, LogBoth, LogIInv, LogTyped
<1> QED BY <1>1, <1>2 DEF LogBoth, LogAInv, LogFollowed

\* Of the store's operations on the timeline of a Session (mews-store/src/sessions.rs), for
\* any numbers of entries and Turns, any idempotency keys and any page limit: no branch runs
\* through a side entry, an observation that was recorded before is accepted as done, a
\* compaction hides only what lies before its boundary, a client that follows the cursors of
\* session_entries_page reads every entry once and in order, and so does one that follows
\* those of active_messages_page as long as the branch only grows, and a message appended by
\* a caller that read the leaf before its transaction continues the branch that is active
\* when it commits.
THEOREM TimelinesGrow ==
  ASSUME Log!BoundsAssumption
  PROVE  Log!Spec => /\ [](Log!TypeOK /\ Log!BranchesAreContextual /\ Log!RepeatedObservationsAccepted)
                     /\ [](Log!CompactionHidesOnlyThePast /\ Log!EntryPagesAreComplete
                           /\ Log!HistoryPagesAreComplete)
                     /\ Log!MessagesContinueTheBranch
<1>1. Log!Init => LogBoth BY LogBothInit
<1>2. LogBoth /\ [Log!Next]_Log!vars => LogBoth' BY LogBothStep
<1>3. LogBoth => /\ Log!TypeOK /\ Log!BranchesAreContextual /\ Log!RepeatedObservationsAccepted
                 /\ Log!CompactionHidesOnlyThePast /\ Log!EntryPagesAreComplete
                 /\ Log!HistoryPagesAreComplete
  BY LogBothGive DEF LogBoth, LogIInv, LogPaged
<1>4. LogBoth /\ [Log!Next]_Log!vars
      => [leaf' # leaf /\ Len(entries') > Len(entries)
            => leaf \in Log!Branch(entries', leaf') \cup {0}]_Log!vars
  BY LogStep, LogOnBranch DEF LogBoth
<1> QED BY <1>1, <1>2, <1>3, <1>4, PTL DEF Log!Spec, Log!MessagesContinueTheBranch

=============================================================================
