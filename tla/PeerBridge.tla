----------------------------- MODULE PeerBridge -----------------------------
(***************************************************************************)
(* The encrypted link of a Hub and a Host once it is established           *)
(* (mews-transport/src/lib.rs run_peer_bridge over mews-relay/src/         *)
(* network.rs): messages are cut into chunks, every chunk is a frame with  *)
(* a sequence number, one select loop sends and receives, one task moves   *)
(* frames between the bridge and the socket, and the relay forwards them   *)
(* through a bounded queue for each peer.                                  *)
(***************************************************************************)
EXTENDS Naturals, Sequences, SequencesExt

CONSTANTS
    Peers,          \* the two ends
    Script,         \* Peer -> the chunk counts of the messages it sends
    Frames,         \* capacity of the channels to the network task (64)
    Socket,         \* frames a socket holds in one direction
    Queue,          \* capacity of a route (64)
    Interrupts      \* an outbound message may be ready while one is assembled

\* What the constants must satisfy; every instance assumes it.
BridgeAssumption ==
    /\ \E p, q \in Peers : p # q /\ Peers = {p, q}
    /\ \A p \in Peers : Script[p] \in Seq(1..6)
    /\ {Frames, Socket, Queue} \subseteq Nat \ {0}
    /\ Interrupts \in BOOLEAN

VARIABLES
    bridge,         \* Peer -> the select loop
    outgoing,       \* Peer -> frames for the network task
    incoming,       \* Peer -> frames for the bridge
    held,           \* Peer -> the frame the network task waits to hand over
    writing,        \* Peer -> the frame the network task waits to write
    up,             \* Peer -> its socket, towards the relay
    down,           \* Peer -> its socket, from the relay
    route,          \* Peer -> the relay's queue for it
    relayed,        \* Peer -> the frame the relay waits to write to it
    delivered       \* Peer -> messages handed to the protocol

vars == <<bridge, outgoing, incoming, held, writing, up, down, route, relayed, delivered>>
network == <<held, writing, up, down, route, relayed>>

Other(p) == CHOOSE q \in Peers : q # p
NoFrame == [message |-> 0, index |-> 0, total |-> 0, sequence |-> 0]
NoAssembly == [message |-> 0, chunks |-> <<>>, total |-> 0]

Init ==
    /\ bridge = [p \in Peers |-> [pc |-> "select", next |-> 1, chunk |-> 0,
                                  sends |-> 0, expects |-> 0, assembly |-> NoAssembly]]
    /\ outgoing = [p \in Peers |-> <<>>] /\ incoming = [p \in Peers |-> <<>>]
    /\ held = [p \in Peers |-> NoFrame] /\ writing = held /\ relayed = held
    /\ up = [p \in Peers |-> <<>>] /\ down = [p \in Peers |-> <<>>]
    /\ route = [p \in Peers |-> <<>>]
    /\ delivered = [p \in Peers |-> <<>>]

--------------------
(* The bridge: the select loop of run_peer_bridge *)

\* An outbound message or a heartbeat is taken: the receive_bytes that lost the
\* select is dropped with the chunks it had assembled.
TakeOutbound(p) ==
    /\ bridge[p].pc = "select" /\ bridge[p].next <= Len(Script[p])
    /\ Interrupts \/ bridge[p].assembly = NoAssembly
    /\ bridge' = [bridge EXCEPT ![p].pc = "send", ![p].chunk = 0, ![p].assembly = NoAssembly]
    /\ UNCHANGED <<outgoing, incoming, network, delivered>>

\* Mutant: the sequence numbers start again with every message.
SendsFromZero(p) ==
    /\ bridge[p].pc = "send" /\ Len(outgoing[p]) < Frames
    /\ LET total == Script[p][bridge[p].next]
           last == bridge[p].chunk + 1 = total
       IN /\ outgoing' = [outgoing EXCEPT ![p] =
                 Append(@, [message |-> bridge[p].next, index |-> bridge[p].chunk,
                            total |-> total, sequence |-> bridge[p].chunk])]
          /\ bridge' = [bridge EXCEPT ![p].chunk = @ + 1, ![p].sends = @ + 1,
                                      ![p].pc = IF last THEN "select" ELSE "send",
                                      ![p].next = IF last THEN @ + 1 ELSE @]
    /\ UNCHANGED <<incoming, network, delivered>>

\* send_bytes: one frame for each chunk, waiting for room; nothing is received
\* meanwhile.
SendChunk(p) ==
    /\ bridge[p].pc = "send" /\ Len(outgoing[p]) < Frames
    /\ LET total == Script[p][bridge[p].next]
           last == bridge[p].chunk + 1 = total
       IN /\ outgoing' = [outgoing EXCEPT ![p] =
                 Append(@, [message |-> bridge[p].next, index |-> bridge[p].chunk,
                            total |-> total, sequence |-> bridge[p].sends])]
          /\ bridge' = [bridge EXCEPT ![p].chunk = @ + 1, ![p].sends = @ + 1,
                                      ![p].pc = IF last THEN "select" ELSE "send",
                                      ![p].next = IF last THEN @ + 1 ELSE @]
    /\ UNCHANGED <<incoming, network, delivered>>

\* Mutant: any chunk with the next index is taken.
ContinuesByIndex(a, f) == a = NoAssembly \/ f.index = Len(a.chunks)

\* The chunk continues the assembly, or begins one.
Continues(a, f) ==
    /\ a = NoAssembly \/ (a.message = f.message /\ a.total = f.total)
    /\ f.index = Len(a.chunks)

\* receive_bytes: the sequence number, then the chunk; an error ends the bridge.
ReceiveChunk(p) ==
    /\ bridge[p].pc = "select" /\ incoming[p] # <<>>
    /\ LET f == Head(incoming[p])
           a == bridge[p].assembly
           b == [message |-> f.message, chunks |-> Append(a.chunks, [of |-> f.message, index |-> f.index]),
                 total |-> f.total]
       IN IF f.sequence # bridge[p].expects \/ ~Continues(a, f)
          THEN /\ bridge' = [bridge EXCEPT ![p].pc = "error"]
               /\ UNCHANGED delivered
          ELSE /\ bridge' = [bridge EXCEPT ![p].expects = @ + 1,
                                 ![p].assembly = IF f.index + 1 = f.total THEN NoAssembly ELSE b]
               /\ delivered' = IF f.index + 1 = f.total
                               THEN [delivered EXCEPT ![p] = Append(@, b)] ELSE delivered
    /\ incoming' = [incoming EXCEPT ![p] = Tail(@)]
    /\ UNCHANGED <<outgoing, network>>

--------------------
(* The network task of a peer: one loop for both directions *)

\* The select of the task: it is in neither of its waits.
Selecting(p) == held[p] = NoFrame /\ writing[p] = NoFrame

\* The task takes a frame and then waits in socket.send, reading nothing.
TakeOutgoing(p) ==
    /\ Selecting(p) /\ outgoing[p] # <<>>
    /\ writing' = [writing EXCEPT ![p] = Head(outgoing[p])]
    /\ outgoing' = [outgoing EXCEPT ![p] = Tail(@)]
    /\ UNCHANGED <<bridge, incoming, held, up, down, route, relayed, delivered>>

WriteSocket(p) ==
    /\ writing[p] # NoFrame /\ Len(up[p]) < Socket
    /\ up' = [up EXCEPT ![p] = Append(@, writing[p])]
    /\ writing' = [writing EXCEPT ![p] = NoFrame]
    /\ UNCHANGED <<bridge, outgoing, incoming, held, down, route, relayed, delivered>>

\* The task takes a frame and then waits in incoming.send for room.
ReadSocket(p) ==
    /\ Selecting(p) /\ down[p] # <<>>
    /\ held' = [held EXCEPT ![p] = Head(down[p])]
    /\ down' = [down EXCEPT ![p] = Tail(@)]
    /\ UNCHANGED <<bridge, outgoing, incoming, up, route, relayed, delivered, writing>>

\* Mutant: the task keeps frames without a bound.
HandsOverAlways(p) ==
    /\ held[p] # NoFrame
    /\ incoming' = [incoming EXCEPT ![p] = Append(@, held[p])]
    /\ held' = [held EXCEPT ![p] = NoFrame]
    /\ UNCHANGED <<bridge, outgoing, up, down, route, relayed, delivered, writing>>

\* Mutant: the task hands a frame only to a bridge that is receiving.
HandsOverDirectly(p) ==
    /\ held[p] # NoFrame /\ bridge[p].pc = "select" /\ Len(incoming[p]) < Frames
    /\ incoming' = [incoming EXCEPT ![p] = Append(@, held[p])]
    /\ held' = [held EXCEPT ![p] = NoFrame]
    /\ UNCHANGED <<bridge, outgoing, up, down, route, relayed, delivered, writing>>

HandOver(p) ==
    /\ held[p] # NoFrame /\ Len(incoming[p]) < Frames
    /\ incoming' = [incoming EXCEPT ![p] = Append(@, held[p])]
    /\ held' = [held EXCEPT ![p] = NoFrame]
    /\ UNCHANGED <<bridge, outgoing, up, down, route, relayed, delivered, writing>>

--------------------
(* The relay: serve_connection of each peer *)

\* RelayConnection::send is a try_send: a full route ends the sender's connection.
Route(p) ==
    LET q == Other(p) IN
    /\ relayed[p] = NoFrame /\ up[p] # <<>>
    /\ IF Len(route[q]) < Queue
       THEN /\ route' = [route EXCEPT ![q] = Append(@, Head(up[p]))]
            /\ UNCHANGED bridge
       ELSE /\ bridge' = [bridge EXCEPT ![p].pc = "error"]
            /\ UNCHANGED route
    /\ up' = [up EXCEPT ![p] = Tail(@)]
    /\ UNCHANGED <<outgoing, incoming, held, down, relayed, delivered, writing>>

RelayTakes(p) ==
    /\ relayed[p] = NoFrame /\ route[p] # <<>>
    /\ relayed' = [relayed EXCEPT ![p] = Head(route[p])]
    /\ route' = [route EXCEPT ![p] = Tail(@)]
    /\ UNCHANGED <<bridge, outgoing, incoming, held, up, down, delivered, writing>>

RelayWrites(p) ==
    /\ relayed[p] # NoFrame /\ Len(down[p]) < Socket
    /\ down' = [down EXCEPT ![p] = Append(@, relayed[p])]
    /\ relayed' = [relayed EXCEPT ![p] = NoFrame]
    /\ UNCHANGED <<bridge, outgoing, incoming, held, up, route, delivered, writing>>

--------------------

BridgeStep(p) == TakeOutbound(p) \/ SendChunk(p) \/ ReceiveChunk(p)
NetworkStep(p) == TakeOutgoing(p) \/ WriteSocket(p) \/ ReadSocket(p) \/ HandOver(p)
RelayStep(p) == Route(p) \/ RelayTakes(p) \/ RelayWrites(p)

Next == \E p \in Peers : BridgeStep(p) \/ NetworkStep(p) \/ RelayStep(p)

\* Every task runs while it can. The scripts are finite, so no branch of a select
\* can lose forever.
Fairness ==
    \A p \in Peers :
        WF_vars(BridgeStep(p)) /\ WF_vars(NetworkStep(p)) /\ WF_vars(RelayStep(p))

Spec == Init /\ [][Next]_vars /\ Fairness

--------------------
(* Properties *)

\* The type of the bridges and the bounds of the channels.
TypeOK ==
    \A p \in Peers :
        /\ bridge[p].pc \in {"select", "send", "error"}
        /\ bridge[p].next \in 1..(Len(Script[p]) + 1)
        /\ {Len(outgoing[p]), Len(incoming[p])} \subseteq 0..Frames
        /\ {Len(up[p]), Len(down[p])} \subseteq 0..Socket
        /\ Len(route[p]) \in 0..Queue

Whole(m, total) ==
    [message |-> m, chunks |-> [i \in 1..total |-> [of |-> m, index |-> i - 1]], total |-> total]

\* What the protocol is handed is what the other end sent: whole messages, in
\* order, none missing, none twice, none put together from two.
DeliveredIsAPrefix ==
    \A p \in Peers :
        IsPrefix(delivered[p], [m \in 1..Len(Script[Other(p)]) |-> Whole(m, Script[Other(p)][m])])

\* The bridges themselves never end a link whose network works.
LinkSurvives == \A p \in Peers : bridge[p].pc # "error"

\* Both directions make progress: everything that is sent is delivered.
EverythingIsDelivered ==
    \A p \in Peers : <>(Len(delivered[p]) = Len(Script[Other(p)]))

============================================================================
