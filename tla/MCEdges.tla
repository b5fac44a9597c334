------------------------------ MODULE MCEdges ------------------------------
(***************************************************************************)
(* ProviderAuth, with instances of JournalFeed, ChannelRuntime,            *)
(* ChannelDelivery and ProviderStream, for TLC: the system's edges, where  *)
(* watchers read the journal, Channels carry messages of other platforms,  *)
(* and the router talks to the providers. The components share no state,   *)
(* so a behaviour is about one of them, the one "part" names, and the      *)
(* others rest in an initial state. Fairness is that of the component, and *)
(* stands in the properties.                                               *)
(***************************************************************************)
EXTENDS ProviderAuth, Integers, TLC

CONSTANTS
  m1, m2, m3,   \* messages of a platform
  None   \* no message, no conversation

VARIABLES
  part,   \* the component this behaviour is about
  feed_journal, feed_phase, feed_notified, feed_expired, feed_scan, feed_query,
  feed_page, feed_got, chan_store, chan_proc, chan_hub, chan_platform, chan_budget,
  chan_history, send_submitted, send_permits, send_incoming, send_closed,
  send_listening, send_pc, send_lanes, send_ready, send_active, send_sends,
  send_delayed, send_settled, send_retries, str_body, str_arrived, str_upstream,
  str_reader, str_channel, str_router, str_socket, str_agent, str_faults

feedVars ==
  <<feed_journal, feed_phase, feed_notified, feed_expired, feed_scan, feed_query,
    feed_page, feed_got>>
chanVars ==
  <<chan_store, chan_proc, chan_hub, chan_platform, chan_budget, chan_history>>
sendVars ==
  <<send_submitted, send_permits, send_incoming, send_closed, send_listening,
    send_pc, send_lanes, send_ready, send_active, send_sends, send_delayed,
    send_settled, send_retries>>
strVars ==
  <<str_body, str_arrived, str_upstream, str_reader, str_channel, str_router,
    str_socket, str_agent, str_faults>>
authVars == vars

Event(kind, size) == [kind |-> kind, size |-> size]

\* A response with text and a call, one that is cut short, one that fails, one with an
\* event above the limit, and one that goes on after its end.
FailedBody == <<Event("text", 1), Event("other", 1), Event("failed", 1)>>
Bodies ==
  { <<Event("created", 1), Event("text", 2), Event("call", 1), Event("completed", 1)>>,
    <<Event("created", 1), Event("text", 1)>>,
    FailedBody,
    <<Event("text", 1), Event("text", 4), Event("completed", 1)>>,
    <<Event("text", 2), Event("completed", 1), Event("failed", 1)>> }

\* Pages of two entries that the limit of bytes may cut to one.
Feed == INSTANCE JournalFeed WITH
  Limit <- 2, ScanBatch <- 2, MaxBytes <- 4, Sizes <- {1, 3}, MaxEntries <- 4,
  MaxAppend <- 2,
  journal <- feed_journal, phase <- feed_phase, notified <- feed_notified,
  expired <- feed_expired, scan <- feed_scan, query <- feed_query, page <- feed_page,
  got <- feed_got

\* Pages of one entry.
Watch == INSTANCE JournalFeed WITH
  Limit <- 1, ScanBatch <- 2, MaxBytes <- 4, Sizes <- {1, 3}, MaxEntries <- 3,
  MaxAppend <- 2,
  journal <- feed_journal, phase <- feed_phase, notified <- feed_notified,
  expired <- feed_expired, scan <- feed_scan, query <- feed_query, page <- feed_page,
  got <- feed_got

\* Two conversations; one message is not valid, and another client uses a Session.
Chat == INSTANCE ChannelRuntime WITH
  Messages <- {m1, m2, m3}, Convs <- {"c1", "c2"},
  Of <- [m \in {m1, m2, m3} |-> IF m = m3 THEN "c2" ELSE "c1"], Invalid <- {m3},
  None <- None, MaxCrashes <- 1, MaxRepeats <- 0, MaxForeign <- 1,
  store <- chan_store, proc <- chan_proc, hub <- chan_hub, platform <- chan_platform,
  budget <- chan_budget, history <- chan_history

\* Three messages of one conversation.
Order == INSTANCE ChannelRuntime WITH
  Messages <- {m1, m2, m3}, Convs <- {"c1", "c2"},
  Of <- [m \in {m1, m2, m3} |-> "c1"], Invalid <- {}, None <- None, MaxCrashes <- 1,
  MaxRepeats <- 1, MaxForeign <- 0,
  store <- chan_store, proc <- chan_proc, hub <- chan_hub, platform <- chan_platform,
  budget <- chan_budget, history <- chan_history

\* Three destinations share two workers and three places.
Lanes == INSTANCE ChannelDelivery WITH
  Dests <- {"d1", "d2", "d3"}, Load <- ("d1" :> 3) @@ ("d2" :> 2) @@ ("d3" :> 2),
  Workers <- 2, Pending <- 3, MaxRetries <- 2,
  submitted <- send_submitted, permits <- send_permits, incoming <- send_incoming,
  closed <- send_closed, listening <- send_listening, pc <- send_pc,
  lanes <- send_lanes, ready <- send_ready, active <- send_active,
  sends <- send_sends, delayed <- send_delayed, settled <- send_settled,
  retries <- send_retries

\* Narrow buffers; connections are lost and the router stops.
Stream == INSTANCE ProviderStream WITH
  Bodies <- Bodies, MaxEvent <- 3, Channel <- 1, Socket <- 2, MaxFaults <- 2,
  body <- str_body, arrived <- str_arrived, upstream <- str_upstream,
  reader <- str_reader, channel <- str_channel, router <- str_router,
  socket <- str_socket, agent <- str_agent, faults <- str_faults

ASSUME Feed!PageHoldsAnEntry /\ Watch!PageHoldsAnEntry
ASSUME Chat!ChannelAssumption /\ Order!ChannelAssumption
ASSUME Lanes!DeliveryAssumption
ASSUME Stream!StreamAssumption

EdgesInit ==
  /\ part \in {"feed", "watch", "channel", "order", "lanes", "stream", "auth"}
  /\ Feed!Init /\ Chat!Init /\ Lanes!Init
  /\ Stream!Init
  /\ part # "stream" => str_body = FailedBody
  /\ Init
  /\ part # "auth" => auth[2] = NoToken

\* Only the component the behaviour is about takes steps.
EdgesNext ==
  /\ UNCHANGED part
  /\ \/ part = "feed" /\ Feed!Next /\ UNCHANGED <<chanVars, sendVars, strVars, authVars>>
     \/ part = "watch" /\ Watch!Next /\ UNCHANGED <<chanVars, sendVars, strVars, authVars>>
     \/ part = "channel" /\ Chat!Next /\ UNCHANGED <<feedVars, sendVars, strVars, authVars>>
     \/ part = "order" /\ Order!Next /\ UNCHANGED <<feedVars, sendVars, strVars, authVars>>
     \/ part = "lanes" /\ Lanes!Next /\ UNCHANGED <<feedVars, chanVars, strVars, authVars>>
     \/ part = "stream" /\ Stream!Next /\ UNCHANGED <<feedVars, chanVars, sendVars, authVars>>
     \/ part = "auth" /\ Next /\ UNCHANGED <<feedVars, chanVars, sendVars, strVars>>

EdgesSpec == EdgesInit /\ [][EdgesNext]_<<part, feedVars, chanVars, sendVars, strVars, authVars>>

\* The fairness of each component, for the behaviours that are about it.
WatchRuns ==
  /\ WF_feedVars(part = "watch" /\ (Watch!BeginScan \/ Watch!ScanBatchOnce \/ Watch!Wait \/ Watch!Receive))
  /\ WF_feedVars(part = "watch" /\ Watch!Deadline)

ChannelRuns ==
  /\ WF_chanVars(part = "channel" /\ Chat!Step) /\ SF_chanVars(part = "channel" /\ Chat!PollEvents)
  /\ \A m \in {m1, m2, m3} :
       /\ SF_chanVars(part = "channel" /\ m \in chan_platform.unacked /\ Chat!Receive(m))
       /\ WF_chanVars(part = "channel" /\ Chat!TurnEnds(m))
  /\ \A c \in {"c1", "c2"} : WF_chanVars(part = "channel" /\ Chat!ForeignEnds(c))

LanesRun ==
  /\ WF_sendVars(part = "lanes" /\ Lanes!Dispatch) /\ WF_sendVars(part = "lanes" /\ Lanes!Close)
  /\ WF_sendVars(part = "lanes" /\ \E d \in {"d1", "d2", "d3"} : Lanes!Submit(d))

StreamRuns ==
  /\ WF_strVars(part = "stream" /\ Stream!Reader) /\ WF_strVars(part = "stream" /\ Stream!Handler)
  /\ WF_strVars(part = "stream" /\ Stream!Client)

AuthRuns == \A t \in {"t1", "t2"} : WF_vars(part = "auth" /\ Step(t))

--------------------
(* Properties.                                                             *)

\* A Channel (mews-channel/src/runtime.rs, mapping.rs) loses and repeats nothing it can
\* help: it never waits for an event it has consumed, a stored message waits for a Turn
\* of its conversation only, messages become Turns once each and in order, an answer
\* crosses to the platform at most once, and deliveries settle in order, one at a time
\* to a destination, with no lane forgotten.
ChannelsAreExact ==
  /\ part = "channel" =>
       /\ Chat!TypeOK /\ Chat!WaitsForWhatComes /\ Chat!PendingHasAReason
       /\ Chat!AnswersCrossOnce
  /\ part = "order" => Order!TurnsInOrder /\ Order!AnswersCrossOnce
  /\ part = "lanes" =>
       Lanes!TypeOK /\ Lanes!OneAtATime /\ Lanes!SettledInOrder /\ Lanes!NoLaneForgotten

\* What is read from a stream is what was written to it: a watcher of the journal
\* (mews-store/src/events.rs) has received exactly the matching entries up to its
\* cursor and is told of more only when there is a match, and the agent collects a
\* prefix of what a provider's events mean, all of it if the response counts as succeeded
\* (mews-router/src/providers, mews-agent).
StreamsAreExact ==
  /\ part \in {"feed", "watch"} => Feed!NothingSkipped /\ Feed!MoreMeansAMatch
  /\ part = "feed" => Feed!TypeOK
  /\ part = "stream" => Stream!TypeOK /\ Stream!CollectedIsAPrefix /\ Stream!SucceededIsWhole

\* The edges do their work: every match reaches a watcher, every valid message becomes a
\* Turn that ends, every delivery settles, a response's stream ends with its connection
\* closed, and every request about a credential is answered.
EdgesProgress ==
  /\ part = "watch" => (WatchRuns => Watch!EveryMatchArrives)
  /\ part = "channel" => (ChannelRuns => Chat!EveryMessageIsServed)
  /\ part = "lanes" => (LanesRun => Lanes!EverythingSettles /\ Lanes!ReturnsWhenDone)
  /\ part = "stream" => (StreamRuns => Stream!StreamEnds /\ Stream!UpstreamCloses)
  /\ part = "auth" => (AuthRuns => RequestsEnd)
=============================================================================
