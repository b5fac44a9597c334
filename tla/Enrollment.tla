----------------------------- MODULE Enrollment -----------------------------
(***************************************************************************)
(* How a machine becomes a Host of an installation and stops being one.    *)
(* The Hub creates a one-time invitation and a listener for it; a machine  *)
(* with the invitation asks through the relay; the Hub commits the new     *)
(* Host, answers, and from then on serves a link to it.  A listener lives  *)
(* as long as the Hub's process.  The Hub may move in between: the fence   *)
(* of a move and an enrollment exclude each other by the handoff gate.     *)
(* The tables of the database are hosts and invitations; rows of hosts are *)
(* revoked, never deleted.  The addresses of relays, which invitations and *)
(* answers carry along, are left out: a relay that works is always among   *)
(* those tried.                                                            *)
(***************************************************************************)
EXTENDS Naturals, Sequences, FiniteSets

CONSTANTS
    Hub,            \* the machine that runs the Hub
    Machines,       \* the other machines; a machine keeps its keys
    Names,          \* names a user may give a Host
    HubName,        \* the name given at setup
    Invitations,    \* bound: invitations
    MaxFaults,      \* bound: crashes of the Hub and lost connections
    MaxMoves,       \* bound: moves of the Hub
    None

\* What the constants must satisfy.
ASSUME EnrollmentAssumption ==
    /\ Hub \notin Machines /\ HubName \in Names /\ None \notin Invitations
    /\ IsFiniteSet(Invitations)
    /\ {MaxFaults, MaxMoves} \subseteq Nat

VARIABLES
    hosts,          \* table hosts: machine (its keys), name, invitation, revoked
    invitation,     \* table invitations: "none", "open" or "used"
    expired,        \* invitations whose time is over
    listener,       \* the listener of each invitation
    link,           \* Host -> serve_hub_host: "none", "retry", "checked", "listed"
    listed,         \* Hosts in remote_hosts
    removing,       \* RemoveHost has committed and not yet dropped the connection
    machine,        \* what each machine knows
    moving,         \* the Hub is fenced
    copy,           \* the hosts the move takes along
    faults, moves

db == <<hosts, invitation>>
hub == <<listener, link, listed, removing>>
move == <<moving, copy, moves>>
vars == <<db, expired, hub, machine, move, faults>>

Ids == 1 .. (1 + Cardinality(Invitations))
Quiet == [pc |-> "none", machine |-> None, name |-> None, id |-> None]
Idle == [pc |-> "idle", invitation |-> None, id |-> None]

\* Mews::setup and Store::initialize: the Hub is the first Host.
Init ==
    /\ hosts = <<[machine |-> Hub, name |-> HubName, invitation |-> None, revoked |-> FALSE]>>
    /\ invitation = [i \in Invitations |-> "none"]
    /\ expired = {}
    /\ listener = [i \in Invitations |-> Quiet]
    /\ link = [h \in Ids |-> "none"]
    /\ listed = {} /\ removing = {}
    /\ machine = [m \in Machines |-> Idle]
    /\ moving = FALSE /\ copy = <<>>
    /\ faults = 0 /\ moves = 0

--------------------
(* The invitation.                                                         *)

Stopped(l) == [l EXCEPT !.pc = "stopped"]

\* CreateHostInvitation: the row is committed before the listener reaches the relay;
\* without a relay the request fails and nobody learns the secret.
CreateInvitation(i) ==
    /\ ~moving /\ invitation[i] = "none"
    /\ invitation' = [invitation EXCEPT ![i] = "open"]
    /\ \/ listener' = [listener EXCEPT ![i].pc = "waiting"] /\ UNCHANGED faults
       \/ /\ faults < MaxFaults /\ faults' = faults + 1
          /\ listener' = [listener EXCEPT ![i] = Stopped(@)]
    /\ UNCHANGED <<hosts, expired, link, listed, removing, machine, move>>

Expire(i) ==
    /\ invitation[i] # "none" /\ i \notin expired
    /\ expired' = expired \cup {i}
    /\ UNCHANGED <<db, hub, machine, move, faults>>

\* JoinOffer::verify.  (Signatures are sound.)
Valid(i) == invitation[i] # "none" /\ i \notin expired

--------------------
(* The machine that joins.                                                 *)

\* join and join_host up to the request: a machine without state of its own asks the
\* listener, which takes one peer.
Join(m, i, name) ==
    /\ machine[m].pc = "idle" /\ Valid(i)
    /\ listener[i].pc = "waiting"
    /\ machine' = [machine EXCEPT ![m] = [pc |-> "sent", invitation |-> i, id |-> None]]
    /\ listener' = [listener EXCEPT ![i] = [pc |-> "asked", machine |-> m, name |-> name, id |-> None]]
    /\ UNCHANGED <<db, expired, link, listed, removing, move, faults>>

\* join_host's checks of the answer: it is for this machine's keys.
Accepts(m, k) == hosts[k].machine = m

\* The answer is received and hub.json is written.
SaveState(m) ==
    /\ machine[m].pc = "sent" /\ machine[m].id # None
    /\ Accepts(m, machine[m].id)
    /\ machine' = [machine EXCEPT ![m].pc = "joined"]
    /\ UNCHANGED <<db, expired, hub, move, faults>>

\* The connection or the joining process is lost before hub.json is written.
JoinFails(m) ==
    /\ machine[m].pc = "sent" /\ faults < MaxFaults
    /\ machine' = [machine EXCEPT ![m] = Idle]
    /\ faults' = faults + 1
    /\ UNCHANGED <<db, expired, hub, move>>

\* An error on the Hub ends the connection, and the machine's attempt with it.
Refused(m) ==
    /\ machine[m].pc = "sent" /\ machine[m].id = None
    /\ listener[machine[m].invitation].pc = "stopped"
    /\ machine' = [machine EXCEPT ![m] = Idle]
    /\ UNCHANGED <<db, expired, hub, move, faults>>

--------------------
(* The listener: accept_join_inner.                                        *)

\* consume_invitation: the constraints of the tables hold for revoked Hosts too.
Consumable(i) ==
    /\ Valid(i) /\ invitation[i] = "open"
    /\ \A k \in DOMAIN hosts :
         hosts[k].machine # listener[i].machine /\ hosts[k].name # listener[i].name

Row(i) == [machine |-> listener[i].machine, name |-> listener[i].name,
           invitation |-> i, revoked |-> FALSE]

Enrolled(i) == Append(hosts, Row(i))

\* (moving is not looked at.)
EnrollUnfenced(i) ==
    /\ listener[i].pc = "asked"
    /\ IF Consumable(i)
       THEN /\ hosts' = Enrolled(i) /\ invitation' = [invitation EXCEPT ![i] = "used"]
            /\ listener' = [listener EXCEPT ![i].pc = "enrolled", ![i].id = Len(hosts) + 1]
       ELSE listener' = [listener EXCEPT ![i] = Stopped(@)] /\ UNCHANGED db
    /\ UNCHANGED <<expired, link, listed, removing, machine, move, faults>>

\* (The invitation is checked and left open.)
EnrollLeavesOpen(i) ==
    /\ listener[i].pc = "asked"
    /\ IF ~moving /\ Consumable(i)
       THEN /\ hosts' = Enrolled(i) /\ UNCHANGED invitation
            /\ listener' = [listener EXCEPT ![i].pc = "enrolled", ![i].id = Len(hosts) + 1]
       ELSE listener' = [listener EXCEPT ![i] = Stopped(@)] /\ UNCHANGED db
    /\ UNCHANGED <<expired, link, listed, removing, machine, move, faults>>

\* With the gate taken for reading: a fenced Hub refuses, and so does the store.
\* Host and invitation change in one transaction.
Enroll(i) ==
    /\ listener[i].pc = "asked"
    /\ IF ~moving /\ Consumable(i)
       THEN /\ hosts' = Enrolled(i) /\ invitation' = [invitation EXCEPT ![i] = "used"]
            /\ listener' = [listener EXCEPT ![i].pc = "enrolled", ![i].id = Len(hosts) + 1]
       ELSE listener' = [listener EXCEPT ![i] = Stopped(@)] /\ UNCHANGED db
    /\ UNCHANGED <<expired, link, listed, removing, machine, move, faults>>

\* The machine still waits for the answer of listener i.
Waits(i) ==
    LET m == listener[i].machine
    IN machine[m].pc = "sent" /\ machine[m].invitation = i

\* (The listener ends with its answer.)
AnswerAndStop(i) ==
    /\ listener[i].pc = "enrolled"
    /\ machine' = IF Waits(i) THEN [machine EXCEPT ![listener[i].machine].id = listener[i].id]
                  ELSE machine
    /\ listener' = [listener EXCEPT ![i] = Stopped(@)]
    /\ UNCHANGED <<db, expired, link, listed, removing, move, faults>>

\* The answer is sent, the gate released, and the listener becomes the task that
\* serves the Host.  What is sent to a machine that is gone is lost.
Answer(i) ==
    /\ listener[i].pc = "enrolled"
    /\ machine' = IF Waits(i) THEN [machine EXCEPT ![listener[i].machine].id = listener[i].id]
                  ELSE machine
    /\ listener' = [listener EXCEPT ![i] = Stopped(@)]
    /\ link' = [link EXCEPT ![listener[i].id] = "retry"]
    /\ UNCHANGED <<db, expired, listed, removing, move, faults>>

\* The connection is lost first: the Host stays enrolled and is not served.
AnswerFails(i) ==
    /\ listener[i].pc = "enrolled" /\ faults < MaxFaults
    /\ listener' = [listener EXCEPT ![i] = Stopped(@)]
    /\ faults' = faults + 1
    /\ UNCHANGED <<db, expired, link, listed, removing, machine, move>>

--------------------
(* The link to a Host: serve_hub_host_once.                                *)

Known(k) == k \in DOMAIN hosts

\* ensure_host
CheckHost(k) ==
    /\ link[k] = "retry" /\ Known(k) /\ ~hosts[k].revoked
    /\ link' = [link EXCEPT ![k] = "checked"]
    /\ UNCHANGED <<db, expired, listener, listed, removing, machine, move, faults>>

\* The Host answers on some relay, and its connection replaces the one listed.
Connect(k) ==
    /\ link[k] = "checked"
    /\ \E m \in Machines : machine[m].pc = "joined" /\ machine[m].id = k
    /\ link' = [link EXCEPT ![k] = "listed"]
    /\ listed' = listed \cup {k}
    /\ UNCHANGED <<db, expired, listener, removing, machine, move, faults>>

\* Nobody answers, and the loop starts over.
ConnectTimesOut(k) ==
    /\ link[k] = "checked"
    /\ ~\E m \in Machines : machine[m].pc = "joined" /\ machine[m].id = k
    /\ link' = [link EXCEPT ![k] = "retry"]
    /\ UNCHANGED <<db, expired, listener, listed, removing, machine, move, faults>>

\* The link ends.  If it ends while an answer is being sent, the dead connection stays
\* in the table until the next one replaces it.
Disconnect(k) ==
    /\ link[k] = "listed" /\ faults < MaxFaults
    /\ link' = [link EXCEPT ![k] = "retry"]
    /\ listed' = listed \ {k} \/ UNCHANGED listed
    /\ faults' = faults + 1
    /\ UNCHANGED <<db, expired, listener, removing, machine, move>>

--------------------
(* RemoveHost.                                                             *)

\* revoke_host; the Host that runs the Hub cannot be removed.
RevokeHost(k) ==
    /\ ~moving /\ Known(k) /\ hosts[k].machine # Hub /\ ~hosts[k].revoked
    /\ hosts' = [hosts EXCEPT ![k].revoked = TRUE]
    /\ removing' = removing \cup {k}
    /\ UNCHANGED <<invitation, expired, listener, link, listed, machine, move, faults>>

DropConnection(k) ==
    /\ k \in removing
    /\ removing' = removing \ {k}
    /\ listed' = listed \ {k}
    /\ UNCHANGED <<db, expired, listener, link, machine, move, faults>>

--------------------
(* Crashes and moves of the Hub.                                           *)

\* (Every Host gets a link, the Hub's own included.)
LinksEverybody(table) ==
    /\ listener' = [i \in Invitations |-> IF invitation[i] = "none" THEN Quiet ELSE Stopped(listener[i])]
    /\ link' = [k \in Ids |->
                  IF k \in DOMAIN table /\ ~table[k].revoked THEN "retry" ELSE "none"]
    /\ listed' = {} /\ removing' = {}

\* A new process of the Hub: no listener, and a link for every Host that is enrolled
\* (remote_host_acceptances).
FreshHub(table) ==
    /\ listener' = [i \in Invitations |-> IF invitation[i] = "none" THEN Quiet ELSE Stopped(listener[i])]
    /\ link' = [k \in Ids |->
                  IF k \in DOMAIN table /\ table[k].machine # Hub /\ ~table[k].revoked THEN "retry" ELSE "none"]
    /\ listed' = {} /\ removing' = {}

Crash ==
    /\ ~moving /\ faults < MaxFaults
    /\ faults' = faults + 1
    /\ FreshHub(hosts)
    /\ UNCHANGED <<db, expired, machine, move>>

\* The gate is held for writing.
NobodyInside == (\A i \in Invitations : listener[i].pc # "enrolled") /\ removing = {}

\* MoveHub, up to the copy of the database (HubMove has the rest).
Fence ==
    /\ ~moving /\ moves < MaxMoves /\ NobodyInside
    /\ moving' = TRUE /\ copy' = hosts /\ moves' = moves + 1
    /\ UNCHANGED <<db, expired, hub, machine, faults>>

\* The move is rolled back.
Unfence ==
    /\ moving /\ moving' = FALSE
    /\ UNCHANGED <<db, expired, hub, machine, copy, moves, faults>>

\* The target takes over with its copy.  (Which of the Hosts it is, is left out.)
TakeOver ==
    /\ moving /\ moving' = FALSE
    /\ hosts' = copy
    /\ FreshHub(copy)
    /\ UNCHANGED <<invitation, expired, machine, copy, moves, faults>>

Next ==
    \/ \E i \in Invitations :
         CreateInvitation(i) \/ Expire(i) \/ Enroll(i) \/ Answer(i) \/ AnswerFails(i)
    \/ \E m \in Machines :
         \/ SaveState(m) \/ JoinFails(m) \/ Refused(m)
         \/ \E i \in Invitations, n \in Names : Join(m, i, n)
    \/ \E k \in Ids :
         \/ CheckHost(k) \/ Connect(k) \/ ConnectTimesOut(k) \/ Disconnect(k)
         \/ RevokeHost(k) \/ DropConnection(k)
    \/ Crash \/ Fence \/ Unfence \/ TakeOver

\* The tasks of the Hub and a joining machine go on; people need not act, and a move
\* ends one way or the other.
Fairness ==
    /\ \A i \in Invitations : WF_vars(Enroll(i)) /\ WF_vars(Answer(i))
    /\ \A m \in Machines : WF_vars(SaveState(m)) /\ WF_vars(Refused(m))
    /\ \A k \in Ids : WF_vars(CheckHost(k)) /\ WF_vars(Connect(k)) /\ WF_vars(ConnectTimesOut(k))
                      /\ WF_vars(DropConnection(k))
    /\ WF_vars(Unfence \/ TakeOver)

Spec == Init /\ [][Next]_vars /\ Fairness

--------------------
Host == [machine : Machines \cup {Hub}, name : Names, invitation : {None} \cup Invitations,
         revoked : BOOLEAN]
Listener == [pc : {"none", "waiting", "asked", "enrolled", "stopped"},
             machine : {None} \cup Machines, name : {None} \cup Names, id : {None} \cup Nat]
Joining == [pc : {"idle", "sent", "joined"}, invitation : {None} \cup Invitations,
            id : {None} \cup Nat]

\* Every variable keeps its type, and the Hub has no link to itself.
TypeOK ==
    /\ {hosts, copy} \subseteq Seq(Host)
    /\ invitation \in [Invitations -> {"none", "open", "used"}]
    /\ expired \subseteq Invitations
    /\ listener \in [Invitations -> Listener]
    /\ link \in [Ids -> {"none", "retry", "checked", "listed"}] /\ link[1] = "none"
    /\ listed \cup removing \subseteq Ids /\ moving \in BOOLEAN
    /\ machine \in [Machines -> Joining]
    /\ {faults, moves} \subseteq Nat

\* An invitation is "exactly once" (invitation_is_bearer_secret_and_exactly_once): it
\* enrolls at most one Host and is then used up, whatever crashes, moves and second
\* machines come between.
InvitationEnrollsOnce ==
    \A i \in Invitations :
        LET rows == {k \in DOMAIN hosts : hosts[k].invitation = i}
        IN Cardinality(rows) <= 1 /\ (rows # {} => invitation[i] = "used")

\* A machine that has written hub.json is the Host it says it is in the database of
\* whichever Hub is serving: an answered enrollment is never lost by a move.
JoinedIsEnrolled ==
    \A m \in Machines :
        machine[m].pc = "joined" =>
            LET k == machine[m].id IN Known(k) /\ hosts[k].machine = m

\* Both, and that every variable keeps its type.
EnrollmentIsExact == TypeOK /\ InvitationEnrollsOnce /\ JoinedIsEnrolled

\* A machine that joined gets its link, unless it is removed: through every crash,
\* move and lost connection some task of the Hub serves it.
JoinedIsServed ==
    \A m \in Machines : \A k \in Ids :
        (machine[m].pc = "joined" /\ machine[m].id = k)
            ~> (link[k] = "listed" \/ (Known(k) /\ hosts[k].revoked))

\* "Revoke and remove a Host": once RemoveHost has answered, the Hub has no
\* connection to the Host among those it uses.
RemovedIsUnlisted ==
    \A k \in listed : (Known(k) /\ hosts[k].revoked) => k \in removing
=============================================================================
