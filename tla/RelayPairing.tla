---------------------------- MODULE RelayPairing ----------------------------
(***************************************************************************)
(* How a Host and its Hub find each other through a relay and agree on an  *)
(* encrypted channel: mews-relay/src/lib.rs (routes and generations),      *)
(* mews-relay/src/network.rs (connections), mews-transport/src/lib.rs      *)
(* (connect_initiator, connect_responder) and the loops around them in     *)
(* mews/src/host/joined.rs and mews/src/host/hub_link.rs.                  *)
(*                                                                         *)
(* A slot is one connection to the relay; it stands for the connection's   *)
(* generation and for the ephemeral key of the attempt that uses it.  Both *)
(* are only ever compared for equality, so a slot nobody remembers may be  *)
(* used again.  Noise is modelled by what it guarantees: a message can be  *)
(* read only by the attempt it was made for.                               *)
(***************************************************************************)
EXTENDS Naturals, Sequences, FiniteSets

CONSTANTS
    host, hub,      \* the initiator and the responder
    Slots,          \* connections the relay can tell apart
    NoSlot,
    Queue,          \* capacity of a route
    Restarts,       \* Peer -> how often its process may restart
    Timely,         \* frames arrive before the next timer of an end runs out
    Hasty           \* Peer -> how often it may give up while an answer is on its way

Peers == {host, hub}

\* What the constants must satisfy; every instance assumes it.
PairingAssumption ==
    /\ host # hub /\ NoSlot \notin Slots /\ Queue \in Nat \ {0}
    /\ Restarts \in [Peers -> Nat] /\ Hasty \in [Peers -> Nat]
    /\ Timely \in BOOLEAN

VARIABLES
    end,        \* Peer -> its attempt, or its established channel
    conn,       \* Slot -> the connection, both sockets of it included
    route,      \* Peer -> the slot the relay forwards to
    queue,      \* Slot -> frames the relay holds for it
    budget      \* restarts and premature timeouts left

vars == <<end, conn, route, queue, budget>>

Other(p) == IF p = host THEN hub ELSE host
Idle == [pc |-> "idle", slot |-> NoSlot, init |-> NoSlot, resp |-> NoSlot]
Unused == [state |-> "ended", owner |-> host, closed |-> TRUE, up |-> <<>>, down |-> <<>>]
Frame(kind, i, r) == [kind |-> kind, init |-> i, resp |-> r]

Init ==
    /\ end = [p \in Peers |-> Idle]
    /\ conn = [s \in Slots |-> Unused]
    /\ route = [p \in Peers |-> NoSlot]
    /\ queue = [s \in Slots |-> <<>>]
    /\ budget = [restart |-> Restarts, hasty |-> Hasty]

Handshaking(p) == end[p].pc \in {"await1", "await2", "await3", "awaitBinding"}

\* Whatever still mentions a slot.
Frames == UNION {{q[i] : i \in DOMAIN q} :
             q \in UNION {{conn[s].up, conn[s].down, queue[s]} : s \in Slots}}
Remembered(s) ==
    \/ \E p \in Peers : s \in {end[p].slot, end[p].init, end[p].resp, route[p]}
    \/ \E f \in Frames : s \in {f.init, f.resp}

\* Nothing is on its way to anyone and the relay has nothing left to notice.
Calm == \A s \in Slots :
    /\ conn[s].state # "registering" /\ conn[s].up = <<>>
    /\ conn[s].down = <<>> /\ queue[s] = <<>>
    /\ conn[s].state = "live" => route[conn[s].owner] = s /\ ~conn[s].closed
    /\ \A p \in Peers : end[p].slot = s => end[p].pc # "connecting" /\ conn[s].state # "ended"

--------------------
(* The relay *)

\* Mutant: an old connection takes the route with it.
DropsRoute(s) ==
    /\ conn' = [conn EXCEPT ![s].state = "ended", ![s].up = <<>>]
    /\ route' = [route EXCEPT ![conn[s].owner] = NoSlot]
    /\ queue' = [queue EXCEPT ![s] = <<>>]

\* serve_connection returns and drops its RelayConnection, which unregisters only
\* the route that is still its own.
Ends(s) ==
    /\ conn' = [conn EXCEPT ![s].state = "ended", ![s].up = <<>>]
    /\ route' = [route EXCEPT ![conn[s].owner] = IF @ = s THEN NoSlot ELSE @]
    /\ queue' = [queue EXCEPT ![s] = <<>>]

\* register: a new route replaces the peer's older one, whose queue is closed. The
\* client may have given up in the meantime.
Register(s) ==
    /\ conn[s].state = "registering"
    /\ LET p == conn[s].owner IN
       /\ route' = [route EXCEPT ![p] = s]
       /\ queue' = [t \in Slots |-> IF t = s \/ t = route[p] THEN <<>> ELSE queue[t]]
    /\ conn' = [conn EXCEPT ![s].state = "live"]
    /\ UNCHANGED <<end, budget>>

\* The client is gone before it answered the challenge, or 10 s are over.
RegistrationFails(s) ==
    /\ conn[s].state = "registering" /\ conn[s].closed
    /\ conn' = [conn EXCEPT ![s].state = "ended"]
    /\ UNCHANGED <<end, route, queue, budget>>

\* RelayConnection::send: only the current connection of a peer may send, and only
\* to a peer that is registered.
Carries(s) == route[conn[s].owner] = s /\ route[Other(conn[s].owner)] # NoSlot

\* A frame from the client; an error ends the connection.
Forward(s) ==
    LET to == route[Other(conn[s].owner)] IN
    /\ conn[s].state = "live" /\ conn[s].up # <<>>
    /\ IF Carries(s) /\ Len(queue[to]) < Queue
       THEN /\ queue' = [queue EXCEPT ![to] = Append(@, Head(conn[s].up))]
            /\ conn' = [conn EXCEPT ![s].up = Tail(@)]
            /\ UNCHANGED route
       ELSE Ends(s)
    /\ UNCHANGED <<end, budget>>

\* RelayConnection::receive: a frame for the client, while the connection is current.
Write(s) ==
    /\ conn[s].state = "live" /\ route[conn[s].owner] = s /\ queue[s] # <<>>
    /\ ~conn[s].closed
    /\ conn' = [conn EXCEPT ![s].down = Append(@, Head(queue[s]))]
    /\ queue' = [queue EXCEPT ![s] = Tail(@)]
    /\ UNCHANGED <<end, route, budget>>

\* The connection was replaced, or its client closed the socket.
RelayEnds(s) ==
    /\ conn[s].state = "live"
    /\ conn[s].closed \/ route[conn[s].owner] # s
    /\ Ends(s)
    /\ UNCHANGED <<end, budget>>

--------------------
(* The two ends *)

\* send_relay, send_frame: frames for the relay, lost once it closed the connection.
Sending(c, s, frames) == [c EXCEPT ![s].up = IF c[s].state = "ended" THEN @ ELSE @ \o frames]

\* NetworkRelay::connect. The loops in serve_joined_host and serve_hub_host try
\* again after one second, for ever.
Connect(p) ==
    /\ end[p].pc = "idle" /\ (Timely => Calm)
    /\ \E s \in Slots :
        /\ conn[s].state = "ended" /\ conn[s].closed /\ ~Remembered(s)
        /\ conn' = [conn EXCEPT ![s] = [state |-> "registering", owner |-> p, closed |-> FALSE,
                                        up |-> <<>>, down |-> <<>>]]
        /\ end' = [end EXCEPT ![p] = [Idle EXCEPT !.pc = "connecting", !.slot = s]]
    /\ UNCHANGED <<route, queue, budget>>

\* The relay accepted: the initiator sends its first message, the responder waits.
Accepted(p) ==
    LET s == end[p].slot IN
    /\ end[p].pc = "connecting" /\ conn[s].state # "registering"
    /\ IF p = host
       THEN /\ end' = [end EXCEPT ![p].pc = "await2", ![p].init = s]
            /\ conn' = Sending(conn, s, <<Frame("m1", s, NoSlot)>>)
       ELSE /\ end' = [end EXCEPT ![p].pc = "await1", ![p].resp = s]
            /\ UNCHANGED conn
    /\ UNCHANGED <<route, queue, budget>>

\* Mutant: the connection of a failed attempt is kept.
FailsKeeping(p) ==
    /\ end' = [end EXCEPT ![p].pc = "idle"]
    /\ conn' = [conn EXCEPT ![end[p].slot].down = <<>>]

\* The attempt or the channel ends: everything of it is dropped.
Fails(p) ==
    /\ end' = [end EXCEPT ![p] = Idle]
    /\ conn' = [conn EXCEPT ![end[p].slot].closed = TRUE, ![end[p].slot].down = <<>>]

\* Mutant: a binding of any handshake is accepted.
ReadsAny(p, f) == f.init \in Slots

\* A message made for this attempt of this pair; anything else cannot be read.
Reads(p, f) == f.init = end[p].init /\ end[p].resp \in {NoSlot, f.resp}

\* receive_relay: the end waits in state pc and a frame of the relay is there.
Received(p) == Head(conn[end[p].slot].down)
Taken(p) == [conn EXCEPT ![end[p].slot].down = Tail(@)]
Receives(p, pc) == end[p].pc = pc /\ conn[end[p].slot].down # <<>> /\ UNCHANGED <<route, queue, budget>>

\* connect_initiator: the responder's message, then the last one and the binding.
HostReceives ==
    LET s == end[host].slot
        f == Received(host)
    IN /\ Receives(host, "await2")
       /\ IF f.kind = "m2" /\ Reads(host, f)
          THEN /\ end' = [end EXCEPT ![host].pc = "awaitBinding", ![host].resp = f.resp]
               /\ conn' = Sending(Taken(host), s, <<Frame("m3", s, f.resp), Frame("bindI", s, f.resp)>>)
          ELSE Fails(host)

\* connect_responder: the first message of any attempt, then the last of the same.
HubReceivesFirst ==
    LET s == end[hub].slot
        f == Received(hub)
    IN /\ Receives(hub, "await1")
       /\ IF f.kind = "m1"
          THEN /\ end' = [end EXCEPT ![hub].pc = "await3", ![hub].init = f.init]
               /\ conn' = Sending(Taken(hub), s, <<Frame("m2", f.init, s)>>)
          ELSE Fails(hub)

HubReceivesLast ==
    LET s == end[hub].slot
        f == Received(hub)
    IN /\ Receives(hub, "await3")
       /\ IF f.kind = "m3" /\ Reads(hub, f)
          THEN /\ end' = [end EXCEPT ![hub].pc = "awaitBinding"]
               /\ conn' = Sending(Taken(hub), s, <<Frame("bindR", f.init, s)>>)
          ELSE Fails(hub)

\* finish_authentication: the other end's binding of this very handshake.
ReceiveBinding(p) ==
    LET f == Received(p) IN
    /\ Receives(p, "awaitBinding")
    /\ IF f.kind = (IF p = host THEN "bindR" ELSE "bindI") /\ Reads(p, f)
       THEN end' = [end EXCEPT ![p].pc = "open"] /\ conn' = Taken(p)
       ELSE Fails(p)

\* receive_bytes on the established channel.
ReceiveData(p) ==
    LET f == Received(p) IN
    /\ Receives(p, "open")
    /\ IF f.kind = (IF p = host THEN "dataR" ELSE "dataI") /\ Reads(p, f)
       THEN conn' = Taken(p) /\ UNCHANGED end
       ELSE Fails(p)

\* The relay closed the connection.
LosesConnection(p) ==
    /\ end[p].pc \notin {"idle", "connecting"} /\ conn[end[p].slot].state = "ended"
    /\ conn[end[p].slot].down = <<>>
    /\ Fails(p)
    /\ UNCHANGED <<route, queue, budget>>

\* Nor is either end about to do anything but wait.
Quiet == Calm /\ \A p \in Peers : Handshaking(p) \/ end[p].pc = "open"

\* Mutant: only the connection to the relay has a timeout.
GivesUpConnecting(p) ==
    /\ end[p].pc = "connecting" /\ ~Quiet /\ budget.hasty[p] > 0
    /\ budget' = [budget EXCEPT !.hasty[p] = @ - 1]
    /\ Fails(p)
    /\ UNCHANGED <<route, queue>>

\* The 3 s for the connection or the 5 s for the handshake are over: because nothing
\* is to be expected any more, or early.
GiveUp(p) ==
    /\ end[p].pc = "connecting" \/ Handshaking(p)
    /\ \/ Quiet /\ UNCHANGED budget
       \/ ~Quiet /\ budget.hasty[p] > 0 /\ budget' = [budget EXCEPT !.hasty[p] = @ - 1]
    /\ Fails(p)
    /\ UNCHANGED <<route, queue>>

\* run_peer_bridge: a message or the heartbeat of every 30 s. One at a time is on
\* its way, which bounds the model; the stream itself is in PeerBridge.
Send(p) ==
    LET s == end[p].slot
        kind == IF p = host THEN "dataI" ELSE "dataR"
    IN /\ end[p].pc = "open" /\ conn[s].state = "live"
       /\ \A f \in Frames : f.kind # kind
       /\ Timely => Calm
       /\ conn' = Sending(conn, s, <<Frame(kind, end[p].init, end[p].resp)>>)
       /\ UNCHANGED <<end, route, queue, budget>>

\* The process stops and starts again.
Restart(p) ==
    /\ end[p].pc # "idle" /\ budget.restart[p] > 0
    /\ budget' = [budget EXCEPT !.restart[p] = @ - 1]
    /\ Fails(p)
    /\ UNCHANGED <<route, queue>>

--------------------

Relay(s) == Register(s) \/ RegistrationFails(s) \/ Forward(s) \/ Write(s) \/ RelayEnds(s)
Peer(p) ==
    \/ Connect(p) \/ Accepted(p) \/ ReceiveBinding(p) \/ ReceiveData(p)
    \/ LosesConnection(p) \/ GiveUp(p) \/ Send(p) \/ Restart(p)

Next ==
    \/ \E s \in Slots : Relay(s)
    \/ \E p \in Peers : Peer(p)
    \/ HostReceives \/ HubReceivesFirst \/ HubReceivesLast

\* Tasks run, timeouts fire, an established channel sends its heartbeats.
Fairness ==
    /\ \A s \in Slots : /\ WF_vars(Register(s)) /\ WF_vars(Forward(s))
                        /\ SF_vars(Write(s)) /\ WF_vars(RelayEnds(s))
    /\ \A p \in Peers : /\ SF_vars(Connect(p)) /\ WF_vars(Accepted(p))
                        /\ WF_vars(LosesConnection(p))
                        /\ SF_vars(Quiet /\ GiveUp(p)) /\ SF_vars(Send(p))
                        /\ WF_vars(ReceiveBinding(p)) /\ WF_vars(ReceiveData(p))
    /\ WF_vars(HostReceives) /\ WF_vars(HubReceivesFirst) /\ WF_vars(HubReceivesLast)

Spec == Init /\ [][Next]_vars /\ Fairness

--------------------
(* Properties *)

\* The type of the state, and the bound of the routes.
TypeOK ==
    /\ \A p \in Peers : end[p].pc \in {"idle", "connecting", "await1", "await2", "await3",
                                       "awaitBinding", "open"}
    /\ \A p \in Peers : (end[p].pc = "idle") = (end[p].slot = NoSlot)
    /\ \A s \in Slots : conn[s].state \in {"registering", "live", "ended"}
    /\ route \in [Peers -> Slots \cup {NoSlot}]
    /\ \A s \in Slots : Len(queue[s]) <= Queue

\* Two ends that both hold an established channel hold the same one: no attempt is
\* ever authenticated against an attempt the other end has left for a later one
\* while that later one is established too.
OpenEndsAgree ==
    (end[host].pc = "open" /\ end[hub].pc = "open")
        => (end[host].init = end[hub].init /\ end[host].resp = end[hub].resp)

\* Dropping a connection removes the route only if the route leads to it: the
\* connection that replaced it stays reachable.
OnlyItsOwnRoute ==
    [][\A p \in Peers :
        (route[p] # NoSlot /\ route'[p] = NoSlot) => conn'[route[p]].state = "ended"]_vars

Paired == end[host].pc = "open" /\ end[hub].pc = "open"

\* Whatever attempts were given up before, the two ends find each other and stay.
StaysPaired == <>[]Paired

============================================================================
