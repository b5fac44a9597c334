--------------------------- MODULE ProviderStream ---------------------------
(***************************************************************************)
(* One streamed model call, from the provider's bytes to the agent's loop. *)
(* A reader task of the router cuts the bytes into events and puts what    *)
(* they mean into a bounded channel; the handler of the router writes that *)
(* to the client's socket and watches whether the client has gone; the     *)
(* client turns frames into a stream again and the agent's loop collects   *)
(* the response.  Providers without streaming are asked for the whole      *)
(* response, which is then handed on as a stream.                          *)
(*                                                                         *)
(* Bytes are units: an event of size n is n units and a delimiter of two.  *)
(***************************************************************************)
EXTENDS Naturals, Sequences, SequencesExt

CONSTANTS
    Bodies,     \* what the provider may send: sequences of events, a kind and a size
    MaxEvent,   \* MAX_SSE_EVENT_BYTES
    Channel,    \* capacity of the reader's channel (32)
    Socket,     \* frames the client's socket takes (the kernel's buffer)
    MaxFaults   \* bound: lost connections and ended processes

\* What the constants must satisfy; every instance assumes it.
StreamAssumption ==
    /\ {MaxEvent, Channel, Socket} \subseteq Nat \ {0}
    /\ \A b \in Bodies : \A i \in DOMAIN b : b[i].size \in Nat \ {0}

VARIABLES
    body,       \* what this provider sends
    arrived,    \* units of it that the reader has received
    upstream,   \* the connection to the provider: "none", "open", "closed"
    reader,     \* the reader: how it stands, its buffer, what it is about to send
    channel,    \* events between the reader and the handler
    router,     \* the handler: how it stands, and the event being written
    socket,     \* frames to the client
    agent,      \* the agent's loop: how it stands, and what it has collected
    faults

vars == <<body, arrived, upstream, reader, channel, router, socket, agent, faults>>

Init ==
    /\ body \in Bodies
    /\ arrived = 0 /\ upstream = "none"
    /\ reader = [pc |-> "none", buffer |-> << >>, out |-> << >>, last |-> FALSE]
    /\ channel = << >>
    /\ router = [pc |-> "starting", item |-> "none"]
    /\ socket = << >>
    /\ agent = [pc |-> "waiting", got |-> << >>]
    /\ faults = 0

--------------------
(* Bytes and events.                                                       *)

Delimiter == [event |-> 0, kind |-> "delimiter"]
Units(b, i) == [n \in 1..b[i].size |-> [event |-> i, kind |-> b[i].kind]] \o <<Delimiter, Delimiter>>
Bytes(b) == FlattenSeq([i \in DOMAIN b |-> Units(b, i)])

\* (The first line end is taken for the end of the event.)
FirstLine(buffer) ==
    LET ends == {n \in 1..Len(buffer) : buffer[n] = Delimiter}
    IN IF ends = {} THEN 0 ELSE CHOOSE n \in ends : \A k \in ends : n <= k

\* sse_frame_end: where the first event of the buffer ends, 0 if it is incomplete.
FrameEnd(buffer) ==
    LET ends == {n \in 1..(Len(buffer) - 1) : buffer[n] = Delimiter /\ buffer[n + 1] = Delimiter}
    IN IF ends = {} THEN 0 ELSE CHOOSE n \in ends : \A k \in ends : n <= k

\* What an event means to the agent; "other" means nothing, and "failed" stands also
\* for an event that is not UTF-8 or not JSON.
Meaning(kind) ==
    CASE kind = "created"   -> <<"metadata">>
      [] kind = "text"      -> <<"text">>
      [] kind = "call"      -> <<"call">>
      [] kind = "completed" -> <<"completed", "done">>
      [] kind = "failed"    -> <<"error">>
      [] OTHER              -> << >>

Terminal(kind) == kind \in {"completed", "failed"}

--------------------
(* The reader: openai_response_stream.                                     *)

Fails(r) == [r EXCEPT !.out = <<"error">>, !.last = TRUE]
Ready == reader.pc = "reading" /\ reader.out = << >> /\ ~reader.last /\ FrameEnd(reader.buffer) = 0

\* A chunk arrives, cut anywhere.
ReadChunk ==
    /\ Ready /\ Len(reader.buffer) <= MaxEvent
    /\ \E n \in 1..(Len(Bytes(body)) - arrived) :
         /\ reader' = [reader EXCEPT !.buffer = @ \o SubSeq(Bytes(body), arrived + 1, arrived + n)]
         /\ arrived' = arrived + n
    /\ UNCHANGED <<body, upstream, channel, router, socket, agent, faults>>

\* An incomplete event above the limit.
TooLarge ==
    /\ Ready /\ Len(reader.buffer) > MaxEvent
    /\ reader' = Fails(reader)
    /\ UNCHANGED <<body, arrived, upstream, channel, router, socket, agent, faults>>

\* The first complete event of the buffer.
TakeFrame ==
    LET end == FrameEnd(reader.buffer)
        kind == reader.buffer[1].kind
    IN /\ reader.pc = "reading" /\ reader.out = << >> /\ ~reader.last /\ end # 0
       /\ reader' =
            IF end - 1 > MaxEvent THEN Fails(reader)
            ELSE [reader EXCEPT !.buffer = SubSeq(@, end + 2, Len(@)), !.out = Meaning(kind),
                                !.last = Terminal(kind)]
       /\ UNCHANGED <<body, arrived, upstream, channel, router, socket, agent, faults>>

\* (The end of the provider's bytes is the end of the stream.)
EndsQuietly ==
    /\ Ready /\ Len(reader.buffer) <= MaxEvent
    /\ arrived = Len(Bytes(body)) \/ (faults < MaxFaults /\ upstream = "open")
    /\ faults' = IF arrived = Len(Bytes(body)) THEN faults ELSE faults + 1
    /\ reader' = [reader EXCEPT !.out = <<"completed", "done">>, !.last = TRUE]
    /\ UNCHANGED <<body, arrived, upstream, channel, router, socket, agent>>

\* The provider's bytes end, or its connection fails or is silent for too long: an
\* error in either case, since the response was not completed.
UpstreamEnds ==
    /\ Ready /\ Len(reader.buffer) <= MaxEvent
    /\ arrived = Len(Bytes(body)) \/ (faults < MaxFaults /\ upstream = "open")
    /\ faults' = IF arrived = Len(Bytes(body)) THEN faults ELSE faults + 1
    /\ reader' = Fails(reader)
    /\ UNCHANGED <<body, arrived, upstream, channel, router, socket, agent>>

\* (The channel is taken to have room.)
SendUnbounded ==
    /\ reader.pc = "reading" /\ reader.out # << >>
    /\ channel' = Append(channel, Head(reader.out))
    /\ reader' = [reader EXCEPT !.out = Tail(@)]
    /\ UNCHANGED <<body, arrived, upstream, router, socket, agent, faults>>

\* An event goes into the channel when there is room.
SendItem ==
    /\ reader.pc = "reading" /\ reader.out # << >> /\ Len(channel) < Channel
    /\ channel' = Append(channel, Head(reader.out))
    /\ reader' = [reader EXCEPT !.out = Tail(@)]
    /\ UNCHANGED <<body, arrived, upstream, router, socket, agent, faults>>

\* The task ends and closes the connection and the channel.
ReaderEnds ==
    /\ reader.pc = "reading" /\ reader.last /\ reader.out = << >>
    /\ reader' = [reader EXCEPT !.pc = "ended"]
    /\ upstream' = "closed"
    /\ UNCHANGED <<body, arrived, channel, router, socket, agent, faults>>

--------------------
(* The handler in the router: handle.                                      *)

\* The agent's end of the socket is closed.
ClientGone == agent.pc # "waiting"

\* registry.stream of a provider that streams.
StartStream ==
    /\ router.pc = "starting"
    /\ router' = [router EXCEPT !.pc = "streaming"]
    /\ reader' = [reader EXCEPT !.pc = "reading", !.out = <<"start">>]
    /\ upstream' = "open"
    /\ UNCHANGED <<body, arrived, channel, socket, agent, faults>>

\* What a body means up to its first terminal event.
Translate(b) ==
    LET ends == {i \in DOMAIN b : Terminal(b[i].kind)}
        n == IF ends = {} THEN Len(b) ELSE CHOOSE i \in ends : \A k \in ends : i <= k
    IN <<"start">> \o FlattenSeq([i \in 1..n |-> Meaning(b[i].kind)])

Completes(b) == \E i \in DOMAIN Translate(b) : Translate(b)[i] = "done"

\* registry.stream of a provider that is asked for the whole response, which always
\* begins with its metadata.
StartWhole ==
    /\ router.pc = "starting" /\ Completes(body) /\ body[1].kind = "created"
    /\ router' = [router EXCEPT !.pc = "streaming"]
    /\ channel' = Translate(body)
    /\ reader' = [reader EXCEPT !.pc = "ended"]
    /\ upstream' = "closed" /\ arrived' = Len(Bytes(body))
    /\ UNCHANGED <<body, socket, agent, faults>>

\* The call fails before anything is streamed: an error is all there is to write.
StartFails ==
    /\ router.pc = "starting" /\ faults < MaxFaults
    /\ faults' = faults + 1
    /\ router' = [router EXCEPT !.pc = "streaming"]
    /\ channel' = <<"error">>
    /\ reader' = [reader EXCEPT !.pc = "ended"]
    /\ UNCHANGED <<body, arrived, upstream, socket, agent>>

\* The reader is aborted with the stream that is dropped.
Released == /\ reader' = [reader EXCEPT !.pc = "ended"]
            /\ upstream' = "closed"
            /\ channel' = << >>

\* (The reader goes on without its stream.)
OnlyStops == UNCHANGED <<reader, upstream, channel>>

\* The handler ends early: the stream is dropped and the reader aborted.
Abandon == Released

TakeEvent ==
    /\ router.pc = "streaming" /\ channel # << >>
    /\ router' = [pc |-> "writing", item |-> Head(channel)]
    /\ channel' = Tail(channel)
    /\ UNCHANGED <<body, arrived, upstream, reader, socket, agent, faults>>

WriteEvent ==
    /\ router.pc = "writing" /\ ~ClientGone /\ Len(socket) < Socket
    /\ socket' = Append(socket, router.item)
    /\ router' = [pc |-> "streaming", item |-> "none"]
    /\ UNCHANGED <<body, arrived, upstream, reader, channel, agent, faults>>

WriteEnd ==
    /\ router.pc = "streaming" /\ channel = << >> /\ reader.pc = "ended"
    /\ ~ClientGone /\ Len(socket) < Socket
    /\ socket' = Append(socket, "end")
    /\ router' = [router EXCEPT !.pc = "ended"]
    /\ UNCHANGED <<body, arrived, upstream, reader, channel, agent, faults>>

\* The read of the socket ends, or a write fails, because the client has gone.
SeesClientGone ==
    /\ router.pc \in {"starting", "streaming", "writing"} /\ ClientGone
    /\ router' = [router EXCEPT !.pc = "ended"]
    /\ Abandon
    /\ UNCHANGED <<body, arrived, socket, agent, faults>>

\* The router's process ends.
RouterDies ==
    /\ router.pc # "ended" /\ faults < MaxFaults
    /\ faults' = faults + 1
    /\ router' = [router EXCEPT !.pc = "ended"]
    /\ Released
    /\ UNCHANGED <<body, arrived, socket, agent>>

--------------------
(* The client and the agent's loop: RouterClient::stream, stream_response.  *)

Has(item) == \E i \in DOMAIN agent.got : agent.got[i] = item

\* One frame.  Done ends the response if it was completed; an error, or an end without
\* completion, leaves it uncertain.  (Errors that are certain, before the call was
\* sent, are not told apart.)
Receive ==
    /\ agent.pc = "waiting" /\ socket # << >>
    /\ socket' = Tail(socket)
    /\ LET item == Head(socket) IN
       agent' = CASE item = "done" -> [agent EXCEPT !.pc = IF Has("completed") THEN "succeeded" ELSE "uncertain"]
                  [] item = "error" -> [agent EXCEPT !.pc = "uncertain"]
                  [] item = "end" -> [agent EXCEPT !.pc = IF Has("completed") THEN "succeeded" ELSE "uncertain"]
                  [] OTHER -> [agent EXCEPT !.got = Append(@, item)]
    /\ UNCHANGED <<body, arrived, upstream, reader, channel, router, faults>>

\* (A closed socket is noticed only after the response was completed.)
IgnoresClose ==
    /\ agent.pc = "waiting" /\ socket = << >> /\ router.pc = "ended" /\ Has("completed")
    /\ agent' = [agent EXCEPT !.pc = "uncertain"]
    /\ UNCHANGED <<body, arrived, upstream, reader, channel, router, socket, faults>>

\* The socket is closed without an end.
SeesRouterGone ==
    /\ agent.pc = "waiting" /\ socket = << >> /\ router.pc = "ended"
    /\ agent' = [agent EXCEPT !.pc = "uncertain"]
    /\ UNCHANGED <<body, arrived, upstream, reader, channel, router, socket, faults>>

\* The Turn is cancelled, which drops the stream.
Cancel ==
    /\ agent.pc = "waiting"
    /\ agent' = [agent EXCEPT !.pc = "cancelled"]
    /\ UNCHANGED <<body, arrived, upstream, reader, channel, router, socket, faults>>

Reader == ReadChunk \/ TooLarge \/ TakeFrame \/ UpstreamEnds \/ SendItem \/ ReaderEnds
Handler == StartStream \/ StartWhole \/ TakeEvent \/ WriteEvent \/ WriteEnd \/ SeesClientGone
Client == Receive \/ SeesRouterGone

Done == router.pc = "ended" /\ agent.pc # "waiting" /\ UNCHANGED vars

Next == Reader \/ Handler \/ Client \/ StartFails \/ RouterDies \/ Cancel \/ Done

\* Every task goes on; a silent provider runs into the read timeout.
Fairness ==
    WF_vars(Reader) /\ WF_vars(Handler) /\ WF_vars(Client)

Spec == Init /\ [][Next]_vars /\ Fairness

--------------------
Sent == IF agent.pc = "succeeded" THEN Append(agent.got, "done") ELSE agent.got

\* Every variable keeps its type, and every queue its bound while the provider sends.
TypeOK ==
    /\ reader.pc \in {"none", "reading", "ended"}
    /\ router.pc \in {"starting", "streaming", "writing", "ended"}
    /\ agent.pc \in {"waiting", "succeeded", "uncertain", "cancelled"}
    /\ upstream \in {"none", "open", "closed"}
    /\ upstream = "open" => Len(channel) <= Channel
    /\ Len(socket) <= Socket

\* However the bytes are cut and whatever fails, the agent collects a prefix of what
\* the provider's events mean: none is lost, repeated, or made up of two.
CollectedIsAPrefix == IsPrefix(Sent, Translate(body))

\* "stream_requires_explicit_completion": a response counts as succeeded only if the
\* provider completed it, and then nothing of it is missing.
SucceededIsWhole == agent.pc = "succeeded" => Sent = Translate(body)

\* The agent's loop never waits for ever on a stream.
StreamEnds == <>(agent.pc # "waiting")

\* "dropping_stream_closes_the_upstream_response": when the agent is through, also by
\* cancelling, the provider's connection is closed.
UpstreamCloses == (agent.pc # "waiting") ~> [](upstream # "open")

\* "Cap it here as well": the limit is on an event, so an event within the limit is
\* accepted however its bytes arrive.
OnlyLargeEventsAreRefused ==
    (reader.last /\ reader.out = <<"error">> /\ Completes(body) /\ faults = 0)
        => \E i \in DOMAIN body : body[i].size > MaxEvent
=============================================================================
