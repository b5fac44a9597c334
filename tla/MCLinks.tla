------------------------------ MODULE MCLinks ------------------------------
(***************************************************************************)
(* HostLink, with a second instance of it and instances of RemoteTurn,     *)
(* PeerBridge and RelayPairing, for TLC: the link between the Hub and a    *)
(* Host, what runs over it, and how the relay carries it. The components   *)
(* share no state, so a behaviour is about one of them, the one "part"     *)
(* names, and the others rest in their initial states. Fairness is that of *)
(* the component, and stands in the properties.                            *)
(***************************************************************************)
EXTENDS HostLink, Integers, TLC

CONSTANTS
  host, hub

VARIABLES
  part,   \* the component this behaviour is about
  join_req, join_pending, join_cancels, join_out, join_outOpen, join_link, join_net,
  join_back, join_drained, join_listed, join_owner, join_token, join_run, turn_hub,
  turn_effect, turn_binding, turn_saved, turn_out, turn_back, turn_incoming,
  turn_reply, turn_link, turn_host, turn_callback, turn_events, turn_given,
  turn_hostContext, turn_controls, flow_hub, flow_effect, flow_binding, flow_saved,
  flow_out, flow_back, flow_incoming, flow_reply, flow_link, flow_host,
  flow_callback, flow_events, flow_given, flow_hostContext, flow_controls,
  peer_bridge, peer_outgoing, peer_incoming, peer_held, peer_writing, peer_up,
  peer_down, peer_route, peer_relayed, peer_delivered, relay_end, relay_conn,
  relay_route, relay_queue, relay_budget

linkVars == vars
joinVars ==
  <<join_req, join_pending, join_cancels, join_out, join_outOpen, join_link,
    join_net, join_back, join_drained, join_listed, join_owner, join_token, join_run>>
turnVars ==
  <<turn_hub, turn_effect, turn_binding, turn_saved, turn_out, turn_back,
    turn_incoming, turn_reply, turn_link, turn_host, turn_callback, turn_events,
    turn_given, turn_hostContext, turn_controls>>
flowVars ==
  <<flow_hub, flow_effect, flow_binding, flow_saved, flow_out, flow_back,
    flow_incoming, flow_reply, flow_link, flow_host, flow_callback, flow_events,
    flow_given, flow_hostContext, flow_controls>>
peerVars ==
  <<peer_bridge, peer_outgoing, peer_incoming, peer_held, peer_writing, peer_up,
    peer_down, peer_route, peer_relayed, peer_delivered>>
relayVars ==
  <<relay_end, relay_conn, relay_route, relay_queue, relay_budget>>

\* The two ends of a link, and how often each restarts or gives up early.
Peers == {host, hub}
HostOnce == (host :> 1) @@ (hub :> 0)
Once == [p \in Peers |-> 1]

\* Two tools share one permit; the dispatch task outlives the connection.
Joined == INSTANCE HostLink WITH
  Requests <- {"t1", "t2"}, Tools <- {"t1", "t2"}, Permits <- 1, Channel <- 1,
  Detached <- TRUE,
  req <- join_req, pending <- join_pending, cancels <- join_cancels, out <- join_out,
  outOpen <- join_outOpen, link <- join_link, net <- join_net, back <- join_back,
  drained <- join_drained, listed <- join_listed, owner <- join_owner,
  token <- join_token, run <- join_run

\* Turns of two Sessions and a control request over narrow channels, without faults.
Turn == INSTANCE RemoteTurn WITH
  Turns <- {"t1", "t2"}, Sessions <- {"s1", "s2"},
  SessionOf <- ("t1" :> "s1") @@ ("t2" :> "s2"), Controls <- {"k1"}, Channel <- 1,
  AcpCapacity <- 1, MaxEvents <- 2, FirstPrompt <- FALSE, Faults <- FALSE,
  Cancels <- FALSE, Uncertain <- FALSE,
  hub <- turn_hub, effect <- turn_effect, binding <- turn_binding,
  saved <- turn_saved, out <- turn_out, back <- turn_back, incoming <- turn_incoming,
  reply <- turn_reply, link <- turn_link, host <- turn_host,
  callback <- turn_callback, events <- turn_events, given <- turn_given,
  hostContext <- turn_hostContext, controls <- turn_controls

\* Two Turns of one Session with lost links, expired waits and failed commits.
Again == INSTANCE RemoteTurn WITH
  Turns <- {"t1", "t2"}, Sessions <- {"s1", "s2"},
  SessionOf <- [t \in {"t1", "t2"} |-> "s1"], Controls <- {}, Channel <- 1,
  AcpCapacity <- 1, MaxEvents <- 0, FirstPrompt <- FALSE, Faults <- TRUE,
  Cancels <- FALSE, Uncertain <- FALSE,
  hub <- turn_hub, effect <- turn_effect, binding <- turn_binding,
  saved <- turn_saved, out <- turn_out, back <- turn_back, incoming <- turn_incoming,
  reply <- turn_reply, link <- turn_link, host <- turn_host,
  callback <- turn_callback, events <- turn_events, given <- turn_given,
  hostContext <- turn_hostContext, controls <- turn_controls

\* One Turn with two stream events, faults and cancellation.
Stream == INSTANCE RemoteTurn WITH
  Turns <- {"t1"}, Sessions <- {"s1"}, SessionOf <- "t1" :> "s1", Controls <- {},
  Channel <- 1, AcpCapacity <- 2, MaxEvents <- 2, FirstPrompt <- TRUE,
  Faults <- TRUE, Cancels <- TRUE, Uncertain <- FALSE,
  hub <- flow_hub, effect <- flow_effect, binding <- flow_binding,
  saved <- flow_saved, out <- flow_out, back <- flow_back, incoming <- flow_incoming,
  reply <- flow_reply, link <- flow_link, host <- flow_host,
  callback <- flow_callback, events <- flow_events, given <- flow_given,
  hostContext <- flow_hostContext, controls <- flow_controls

\* Messages of one chunk each, which nothing can cut.
Small == INSTANCE PeerBridge WITH
  Peers <- Peers, Script <- (hub :> <<1, 1, 1>>) @@ (host :> <<1, 1>>), Frames <- 2,
  Socket <- 2, Queue <- 3, Interrupts <- TRUE,
  bridge <- peer_bridge, outgoing <- peer_outgoing, incoming <- peer_incoming,
  held <- peer_held, writing <- peer_writing, up <- peer_up, down <- peer_down,
  route <- peer_route, relayed <- peer_relayed, delivered <- peer_delivered

\* Messages of two chunks among others.
Large == INSTANCE PeerBridge WITH
  Peers <- Peers, Script <- (hub :> <<2, 1>>) @@ (host :> <<1, 2>>), Frames <- 2,
  Socket <- 1, Queue <- 2, Interrupts <- TRUE,
  bridge <- peer_bridge, outgoing <- peer_outgoing, incoming <- peer_incoming,
  held <- peer_held, writing <- peer_writing, up <- peer_up, down <- peer_down,
  route <- peer_route, relayed <- peer_relayed, delivered <- peer_delivered

\* The Host restarts once and gives up once.
Paired == INSTANCE RelayPairing WITH
  Slots <- {"s1", "s2", "s3"}, NoSlot <- "none", Queue <- 2, Timely <- TRUE,
  Restarts <- HostOnce, Hasty <- HostOnce,
  end <- relay_end, conn <- relay_conn, route <- relay_route, queue <- relay_queue,
  budget <- relay_budget

\* Both ends give up while an answer is on its way.
Hasty == INSTANCE RelayPairing WITH
  Slots <- {"s1", "s2", "s3"}, NoSlot <- "none", Queue <- 2, Timely <- FALSE,
  Restarts <- HostOnce, Hasty <- Once,
  end <- relay_end, conn <- relay_conn, route <- relay_route, queue <- relay_queue,
  budget <- relay_budget

ASSUME Joined!LinkAssumption
ASSUME Turn!RemoteAssumption /\ Again!RemoteAssumption /\ Stream!RemoteAssumption
ASSUME Small!BridgeAssumption /\ Large!BridgeAssumption
ASSUME Paired!PairingAssumption /\ Hasty!PairingAssumption

LinksInit ==
  /\ part \in {"link", "joined", "turn", "again", "stream", "small", "large", "paired", "hasty"}
  /\ Init /\ Joined!Init
  /\ IF part = "again" THEN Again!Init ELSE Turn!Init
  /\ Stream!Init
  /\ IF part = "large" THEN Large!Init ELSE Small!Init
  /\ IF part = "hasty" THEN Hasty!Init ELSE Paired!Init

\* Only the component the behaviour is about takes steps.
LinksNext ==
  /\ UNCHANGED part
  /\ \/ part = "link" /\ Next /\ UNCHANGED <<joinVars, turnVars, flowVars, peerVars, relayVars>>
     \/ part = "joined" /\ Joined!Next /\ UNCHANGED <<linkVars, turnVars, flowVars, peerVars, relayVars>>
     \/ part = "turn" /\ Turn!Next /\ UNCHANGED <<linkVars, joinVars, flowVars, peerVars, relayVars>>
     \/ part = "again" /\ Again!Next /\ UNCHANGED <<linkVars, joinVars, flowVars, peerVars, relayVars>>
     \/ part = "stream" /\ Stream!Next /\ UNCHANGED <<linkVars, joinVars, turnVars, peerVars, relayVars>>
     \/ part = "small" /\ Small!Next /\ UNCHANGED <<linkVars, joinVars, turnVars, flowVars, relayVars>>
     \/ part = "large" /\ Large!Next /\ UNCHANGED <<linkVars, joinVars, turnVars, flowVars, relayVars>>
     \/ part = "paired" /\ Paired!Next /\ UNCHANGED <<linkVars, joinVars, turnVars, flowVars, peerVars>>
     \/ part = "hasty" /\ Hasty!Next /\ UNCHANGED <<linkVars, joinVars, turnVars, flowVars, peerVars>>

LinksSpec == LinksInit /\ [][LinksNext]_<<part, linkVars, joinVars, turnVars, flowVars, peerVars, relayVars>>

\* The fairness of each component, for the behaviours that are about it.
LinkRuns ==
  /\ \A r \in {"t1", "k1"} : WF_vars(part = "link" /\ CallerStep(r))
                           /\ WF_vars(part = "link" /\ StopTool(r))
  /\ WF_vars(part = "link" /\ Forward) /\ WF_vars(part = "link" /\ ForwardFails)
  /\ WF_vars(part = "link" /\ Deliver) /\ WF_vars(part = "link" /\ Drain)
  /\ WF_vars(part = "link" /\ HostStep)

TurnRuns ==
  /\ \A t \in {"t1", "t2"} :
       /\ WF_turnVars(part = "turn" /\ Turn!HubTurn(t)) /\ WF_turnVars(part = "turn" /\ Turn!HostTurn(t))
       /\ WF_turnVars(part = "turn" /\ Turn!ForwardEvent(t))
       /\ WF_turnVars(part = "turn" /\ Turn!RelayEvent(t))
  /\ WF_turnVars(part = "turn" /\ Turn!Deliver) /\ WF_turnVars(part = "turn" /\ Turn!Drain)
  /\ WF_turnVars(part = "turn" /\ Turn!Receive)

SmallRuns ==
  \A p \in Peers :
    /\ WF_peerVars(part = "small" /\ Small!BridgeStep(p))
    /\ WF_peerVars(part = "small" /\ Small!NetworkStep(p))
    /\ WF_peerVars(part = "small" /\ Small!RelayStep(p))

PairedRuns ==
  /\ \A s \in {"s1", "s2", "s3"} :
       /\ WF_relayVars(part = "paired" /\ Paired!Register(s)) /\ WF_relayVars(part = "paired" /\ Paired!Forward(s))
       /\ SF_relayVars(part = "paired" /\ Paired!Write(s)) /\ WF_relayVars(part = "paired" /\ Paired!RelayEnds(s))
  /\ \A p \in Peers :
       /\ SF_relayVars(part = "paired" /\ Paired!Connect(p)) /\ WF_relayVars(part = "paired" /\ Paired!Accepted(p))
       /\ WF_relayVars(part = "paired" /\ Paired!LosesConnection(p))
       /\ SF_relayVars(part = "paired" /\ Paired!Quiet /\ Paired!GiveUp(p))
       /\ SF_relayVars(part = "paired" /\ Paired!Send(p))
       /\ WF_relayVars(part = "paired" /\ Paired!ReceiveBinding(p)) /\ WF_relayVars(part = "paired" /\ Paired!ReceiveData(p))
  /\ WF_relayVars(part = "paired" /\ Paired!HostReceives)
  /\ WF_relayVars(part = "paired" /\ Paired!HubReceivesFirst)
  /\ WF_relayVars(part = "paired" /\ Paired!HubReceivesLast)

--------------------
(* Properties.                                                             *)

\* A Turn whose Harness runs on another Host (mews/src/host) is prompted only in the
\* session the Hub has stored, with the Host's current instructions, is answered with
\* its whole stream stored although the reply may overtake the events, and its stored
\* effect is what is known of it.
RemoteTurnsAreHonest ==
  /\ part = "again" => Again!RemoteTurnsAreHonest
  /\ part = "stream" => Stream!RemoteTurnsAreHonest

\* The relayed link (mews-transport, mews-relay): the bridges hand over whole messages in
\* order and, while no message can be cut, do not end the link themselves, and two ends
\* that both hold an established channel hold the same one. Over such a link a Host that
\* joined, whose dispatch task outlives the connection, is reported of as truly as others.
RelayedLinksAreSound ==
  /\ part = "joined" => Joined!LinkIsHonest
  /\ part = "small" => Small!TypeOK /\ Small!DeliveredIsAPrefix /\ Small!LinkSurvives
  /\ part = "large" => Large!TypeOK /\ Large!DeliveredIsAPrefix
  /\ part = "hasty" => Hasty!TypeOK /\ Hasty!OpenEndsAgree

\* The link does its work: every request ends whatever happens to the link, a tool whose
\* caller has gone is stopped, Turns settle without the help of a timeout while the link
\* holds, every message is delivered, and ends that reconnect find each other and stay: a
\* connection of the relay that ends does not take the route of its successor along.
LinksProgress ==
  /\ part = "link" => (LinkRuns => EveryRequestEnds /\ AbandonedToolsStop)
  /\ part = "turn" => (TurnRuns => Turn!TurnsSettle)
  /\ part = "small" => (SmallRuns => Small!EverythingIsDelivered)
  /\ part = "paired" => (PairedRuns => Paired!StaysPaired)
  /\ Hasty!OnlyItsOwnRoute
=============================================================================
