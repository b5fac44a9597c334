----------------------------- MODULE RemoteTurn -----------------------------
(***************************************************************************)
(* ACP Turns on a remote Host: the Hub's task (app/turns.rs) sends the     *)
(* Turn over the link, the Host (mews-host/src/lifecycle.rs) runs it in a  *)
(* thread of its own whose events pass a bounded hand-off, a forwarding    *)
(* thread, the Host's event channel and the link before the Hub's response *)
(* task hands them to the Turn; a Session binding and a context dispatch   *)
(* wait until the Hub has stored and acknowledged them.                    *)
(***************************************************************************)
EXTENDS Naturals, Sequences, FiniteSets

CONSTANTS
    Turns,          \* Turns the Hub runs on this Host
    Sessions,       \* their Sessions
    SessionOf,      \* Turn -> Session
    Controls,       \* other requests the Host's loop answers inline
    Channel,        \* capacity of every channel
    AcpCapacity,    \* MAX_CONCURRENT_ACP_TURNS
    MaxEvents,      \* stream events a prompt emits, at most
    FirstPrompt,    \* the context travels with the first prompt
    Faults,         \* the link may be lost, waits may expire, the store may fail
    Cancels,        \* Turns may be cancelled
    Uncertain       \* a dispatched prompt may end without a definitive outcome

None == "none"

\* What the constants must satisfy; every instance assumes it.
RemoteAssumption ==
    /\ SessionOf \in [Turns -> Sessions]
    /\ {Channel, AcpCapacity} \subseteq Nat \ {0} /\ MaxEvents \in Nat
    /\ {FirstPrompt, Faults, Cancels, Uncertain} \subseteq BOOLEAN
    /\ None \notin Turns

Contexts == 0..1

VARIABLES
    hub,            \* Turn -> its task on the Hub
    effect,         \* Turn -> the durable effect
    binding,        \* Session -> the durable ACP binding
    saved,          \* Turn -> events persisted
    out,            \* Hub to Host
    back,           \* Host to Hub
    incoming,       \* Turn -> event_rx of its task on the Hub
    reply,          \* Turn -> what its pending request was answered
    link,           \* the peers are connected
    host,           \* Turn -> its thread on the Host
    callback,       \* Turn -> the bounded hand-off
    events,         \* Turn -> event_receiver on the Host
    given,          \* ACP session (the Turn that made it) -> its context
    hostContext,    \* the context the Host renders now
    controls        \* control requests not yet sent

hubVars == <<hub, effect, binding, saved, incoming, reply>>
hostVars == <<host, callback, events, given, hostContext>>
vars == <<hub, effect, binding, saved, out, back, incoming, reply, link, host,
          callback, events, given, hostContext, controls>>

Init ==
    /\ hub = [t \in Turns |-> [pc |-> "idle", after |-> "loop", resume |-> None, stored |-> 0,
                               cancel |-> FALSE, grace |-> FALSE, outcome |-> None]]
    /\ effect = [t \in Turns |-> None]
    /\ binding = [s \in Sessions |-> [id |-> None, context |-> 0, dispatched |-> FALSE]]
    /\ saved = [t \in Turns |-> 0]
    /\ out = <<>> /\ back = <<>>
    /\ incoming = [t \in Turns |-> <<>>]
    /\ reply = [t \in Turns |-> None]
    /\ link = TRUE
    /\ host = [t \in Turns |-> [pc |-> "idle", resume |-> None, stored |-> 0, session |-> None,
                                context |-> 0, cancel |-> FALSE, result |-> None, emitted |-> 0, prompted |-> FALSE]]
    /\ callback = [t \in Turns |-> <<>>]
    /\ events = [t \in Turns |-> <<>>]
    /\ given = [t \in Turns |-> None]
    /\ hostContext = 0
    /\ controls = Controls

Msg(kind, turn) == [kind |-> kind, turn |-> turn]
Room(channel) == Len(channel) < Channel

--------------------
(* The Hub: sending the Turn *)

Pending(t) == hub[t].pc \in {"send", "loop", "ack"} /\ reply[t] = None

\* checked_acp_binding, schedule_effect and mark_effect_started; the stored context
\* travels with the Turn.
StartTurn(t) ==
    LET b == binding[SessionOf[t]] IN
    /\ hub[t].pc = "idle"
    /\ \A u \in Turns : SessionOf[u] = SessionOf[t] => hub[u].pc \in {"idle", "done"}
    /\ hub' = [hub EXCEPT ![t].pc = "send", ![t].stored = b.context,
                          ![t].resume = IF b.dispatched THEN b.id ELSE None]
    /\ effect' = [effect EXCEPT ![t] = "started"]
    /\ UNCHANGED <<binding, saved, out, back, incoming, reply, link, hostVars, controls>>

SendTurn(t) ==
    /\ hub[t].pc = "send" /\ link /\ Room(out)
    /\ out' = Append(out, Msg("execute", t))
    /\ hub' = [hub EXCEPT ![t].pc = "loop"]
    /\ UNCHANGED <<effect, binding, saved, back, incoming, reply, link, hostVars, controls>>

\* "Host disconnected" before anything was sent.
SendFails(t) ==
    /\ hub[t].pc = "send" /\ ~link
    /\ hub' = [hub EXCEPT ![t].pc = "drain", ![t].outcome = "failed"]
    /\ UNCHANGED <<effect, binding, saved, out, back, incoming, reply, link, hostVars, controls>>

SendControl(c) ==
    /\ c \in controls /\ link /\ Room(out)
    /\ out' = Append(out, Msg("control", c))
    /\ controls' = controls \ {c}
    /\ UNCHANGED <<hubVars, back, link, hostVars>>

--------------------
(* The Hub: the response task and the Turn's loop *)

\* Events wait for room in the Turn's channel, and everything behind them.
Deliver ==
    /\ back # <<>>
    /\ LET m == Head(back) IN
       \/ /\ m.kind \in {"bound", "context", "event"}
          /\ IF Pending(m.turn)
             THEN /\ Room(incoming[m.turn])
                  /\ incoming' = [incoming EXCEPT ![m.turn] = Append(@, m.kind)]
             ELSE UNCHANGED incoming
          /\ UNCHANGED reply
       \/ /\ m.kind \in {"answered", "failed", "cancelled", "uncertain"}
          /\ reply' = [reply EXCEPT ![m.turn] = IF Pending(m.turn) THEN m.kind ELSE @]
          /\ UNCHANGED incoming
       \/ m.kind = "control" /\ UNCHANGED <<incoming, reply>>
    /\ back' = Tail(back)
    /\ UNCHANGED <<hub, effect, binding, saved, out, link, hostVars, controls>>

\* The response task has ended: every pending request is disconnected.
Drain ==
    /\ ~link /\ back = <<>>
    /\ \E t \in Turns : Pending(t) /\ hub[t].pc # "send"
    /\ reply' = [t \in Turns |-> IF Pending(t) /\ hub[t].pc # "send" THEN "disconnected" ELSE reply[t]]
    /\ UNCHANGED <<hub, effect, binding, saved, out, back, incoming, link, hostVars, controls>>

\* Where a stored binding or dispatch leaves the loop: to its acknowledgement.
Acknowledging(t) == hub' = [hub EXCEPT ![t].pc = "ack", ![t].after = hub[t].pc]

\* Mutant: the acknowledgement is sent before the binding is stored.
AcknowledgesFirst(t) ==
    /\ hub[t].pc \in {"loop", "drain"} /\ incoming[t] # <<>> /\ Head(incoming[t]) = "bound"
    /\ IF Room(out) /\ link /\ hub[t].after # "drain"
       THEN out' = Append(out, Msg("ack", t)) /\ hub' = [hub EXCEPT ![t].after = "drain"]
            /\ UNCHANGED <<incoming, binding>>
       ELSE /\ incoming' = [incoming EXCEPT ![t] = Tail(@)] /\ UNCHANGED <<out, hub>>
            /\ binding' = [binding EXCEPT ![SessionOf[t]] =
                       [id |-> t, context |-> host[t].context, dispatched |-> ~FirstPrompt]]
    /\ UNCHANGED <<effect, saved, back, reply, link, hostVars, controls>>

\* persist_remote_acp_binding: stored as dispatched unless it is a FirstPrompt's.
PersistBinding(t) ==
    /\ hub[t].pc \in {"loop", "drain"} /\ incoming[t] # <<>> /\ Head(incoming[t]) = "bound"
    /\ incoming' = [incoming EXCEPT ![t] = Tail(@)]
    /\ binding' = [binding EXCEPT ![SessionOf[t]] =
                       [id |-> t, context |-> host[t].context, dispatched |-> ~FirstPrompt]]
    /\ Acknowledging(t)
    /\ UNCHANGED <<effect, saved, out, back, reply, link, hostVars, controls>>

\* persist_remote_acp_dispatch
PersistDispatch(t) ==
    /\ hub[t].pc \in {"loop", "drain"} /\ incoming[t] # <<>> /\ Head(incoming[t]) = "context"
    /\ incoming' = [incoming EXCEPT ![t] = Tail(@)]
    /\ binding' = [binding EXCEPT ![SessionOf[t]].dispatched = TRUE]
    /\ Acknowledging(t)
    /\ UNCHANGED <<effect, saved, out, back, reply, link, hostVars, controls>>

SendAck(t) ==
    /\ hub[t].pc = "ack" /\ link /\ Room(out)
    /\ out' = Append(out, Msg("ack", t))
    /\ hub' = [hub EXCEPT ![t].pc = hub[t].after]
    /\ UNCHANGED <<effect, binding, saved, back, incoming, reply, link, hostVars, controls>>

\* on_event: an observation or a runtime signal.
PersistEvent(t) ==
    /\ hub[t].pc \in {"loop", "drain"} /\ incoming[t] # <<>> /\ Head(incoming[t]) = "event"
    /\ incoming' = [incoming EXCEPT ![t] = Tail(@)]
    /\ saved' = [saved EXCEPT ![t] = @ + 1]
    /\ UNCHANGED <<hub, effect, binding, out, back, reply, link, hostVars, controls>>

\* An error of the store or of the acknowledgement leaves execute_send by "?":
\* the request is dropped, finish_turn closes the started effect as uncertain.
LeavesByError(t) ==
    /\ Faults
    /\ \/ hub[t].pc \in {"loop", "drain"} /\ incoming[t] # <<>>
       \/ hub[t].pc = "ack" /\ ~link
    /\ hub' = [hub EXCEPT ![t].pc = "done", ![t].outcome = "error"]
    /\ incoming' = [incoming EXCEPT ![t] = <<>>]
    /\ effect' = [effect EXCEPT ![t] = "uncertain"]
    /\ UNCHANGED <<binding, saved, out, back, reply, link, hostVars, controls>>

\* Mutant: whatever the Host reports was its failure.
TakesAnyReply(t) ==
    /\ hub[t].pc = "loop" /\ reply[t] # None
    /\ hub' = [hub EXCEPT ![t].pc = "drain",
                          ![t].outcome = IF reply[t] = "answered" THEN "answered" ELSE "failed"]
    /\ UNCHANGED <<effect, binding, saved, out, back, incoming, reply, link, hostVars, controls>>

\* The request is answered: a disconnection is an uncertain effect, any other
\* error is the string the Host sent.
TakeReply(t) ==
    /\ hub[t].pc = "loop" /\ reply[t] # None
    /\ hub' = [hub EXCEPT ![t].pc = "drain",
                          ![t].outcome = CASE reply[t] = "answered" -> "answered"
                                           [] reply[t] = "disconnected" -> "uncertain"
                                           [] OTHER -> "failed"]
    /\ UNCHANGED <<effect, binding, saved, out, back, incoming, reply, link, hostVars, controls>>

Cancel(t) ==
    /\ Cancels /\ hub[t].pc \in {"send", "loop", "ack"} /\ ~hub[t].cancel
    /\ hub' = [hub EXCEPT ![t].cancel = TRUE]
    /\ UNCHANGED <<effect, binding, saved, out, back, incoming, reply, link, hostVars, controls>>

\* execute_acp_turn: CancelAcp, then five seconds for the Host to confirm.
SendCancel(t) ==
    /\ hub[t].pc = "loop" /\ hub[t].cancel /\ ~hub[t].grace
    /\ \/ /\ link /\ Room(out)
          /\ out' = Append(out, Msg("cancel", t))
          /\ hub' = [hub EXCEPT ![t].grace = TRUE]
       \/ /\ ~link
          /\ hub' = [hub EXCEPT ![t].pc = "drain", ![t].outcome = "uncertain"]
          /\ UNCHANGED out
    /\ UNCHANGED <<effect, binding, saved, back, incoming, reply, link, hostVars, controls>>

\* The grace period or the 3605 seconds of the request pass.
GivesUp(t) ==
    /\ Faults /\ hub[t].pc = "loop" /\ reply[t] = None
    /\ hub' = [hub EXCEPT ![t].pc = "drain", ![t].outcome = "uncertain"]
    /\ UNCHANGED <<effect, binding, saved, out, back, incoming, reply, link, hostVars, controls>>

\* acp_effect_outcome
EffectOutcome(t) ==
    CASE hub[t].outcome = "answered" -> "succeeded"
      [] hub[t].outcome = "uncertain" \/ hub[t].cancel -> "uncertain"
      [] OTHER -> "failed"

\* Mutant: the loop ends with the reply; what is left in the channel is lost.
FinishesAtOnce(t) ==
    /\ hub[t].pc = "drain"
    /\ effect' = [effect EXCEPT ![t] = EffectOutcome(t)]
    /\ hub' = [hub EXCEPT ![t].pc = "done"]
    /\ UNCHANGED <<binding, saved, out, back, incoming, reply, link, hostVars, controls>>

\* The try_recv loop is over: finish_effect, then the Turn.
FinishTurn(t) ==
    /\ hub[t].pc = "drain" /\ incoming[t] = <<>>
    /\ effect' = [effect EXCEPT ![t] = EffectOutcome(t)]
    /\ hub' = [hub EXCEPT ![t].pc = "done"]
    /\ UNCHANGED <<binding, saved, out, back, incoming, reply, link, hostVars, controls>>

--------------------
(* The Host *)

\* The dispatch loop.  An acknowledgement nobody waits for and a cancellation
\* of a Turn that has replied are ignored; control requests are answered here.
Receive ==
    /\ out # <<>>
    /\ LET m == Head(out) IN
       \/ /\ m.kind = "execute"
          /\ host' = [host EXCEPT ![m.turn].pc = "accepted", ![m.turn].resume = hub[m.turn].resume,
                                  ![m.turn].stored = hub[m.turn].stored]
          /\ UNCHANGED back
       \/ /\ m.kind = "cancel"
          /\ host' = [host EXCEPT ![m.turn].cancel = @ \/ host[m.turn].pc # "sent"]
          /\ UNCHANGED back
       \/ /\ m.kind = "ack"
          /\ host' = [host EXCEPT ![m.turn].pc = CASE @ = "binding" -> IF FirstPrompt THEN "contextual" ELSE "ready"
                                                   [] @ = "dispatching" -> "ready"
                                                   [] OTHER -> @]
          /\ UNCHANGED back
       \/ /\ m.kind = "control" /\ (link => Room(back))
          /\ back' = IF link THEN Append(back, m) ELSE back
          /\ UNCHANGED host
    /\ out' = Tail(out)
    /\ UNCHANGED <<hubVars, link, callback, events, given, hostContext, controls>>

\* The Host's skills or Harness definition change.
EditContext ==
    /\ hostContext = 0 /\ hostContext' = 1
    /\ UNCHANGED <<hubVars, out, back, link, host, callback, events, given, controls>>

Working == {"new", "binding", "contextual", "dispatching", "ready", "prompted"}
Running == {t \in Turns : host[t].pc \in Working \cup {"ended"}}

EndsWith(t, result) == host' = [host EXCEPT ![t].pc = "ended", ![t].result = result]

\* The directory, the Harness or the launch is refused.
RefuseTurn(t) ==
    /\ host[t].pc = "accepted"
    /\ host' = [host EXCEPT ![t].pc = "joined", ![t].result = "failed"]
    /\ UNCHANGED <<hubVars, out, back, link, callback, events, given, hostContext, controls>>

\* Mutant: the Host takes the Hub's word for the binding's context.
TrustsTransition(t) ==
    /\ host[t].pc = "accepted" /\ Cardinality(Running) < AcpCapacity
    /\ \A u \in Running : SessionOf[u] # SessionOf[t]
    /\ host' = [host EXCEPT ![t].context = hostContext,
                            ![t].pc = IF host[t].resume = None THEN "new" ELSE "ready",
                            ![t].session = host[t].resume]
    /\ UNCHANGED <<hubVars, out, back, link, callback, events, given, hostContext, controls>>

\* Mutant: a Turn does not wait for a permit.
LaunchesUnbounded(t) ==
    /\ host[t].pc = "accepted"
    /\ host' = [host EXCEPT ![t].context = hostContext, ![t].pc = "new", ![t].session = None]
    /\ UNCHANGED <<hubVars, out, back, link, callback, events, given, hostContext, controls>>

\* A permit, and the pool's queue of the Session.  Resume needs a stored context,
\* sent with the Turn, that is still the Host's; otherwise, or when the Harness has lost the
\* session, a new one is made.
LaunchTurn(t) ==
    /\ host[t].pc = "accepted" /\ Cardinality(Running) < AcpCapacity
    /\ \A u \in Running : SessionOf[u] # SessionOf[t]
    /\ \E found \in BOOLEAN :
          LET resumes == /\ found /\ host[t].resume # None
                         /\ host[t].stored = hostContext
          IN host' = [host EXCEPT ![t].context = hostContext,
                                  ![t].pc = IF resumes THEN "ready" ELSE "new",
                                  ![t].session = IF resumes THEN host[t].resume ELSE None]
    /\ UNCHANGED <<hubVars, out, back, link, callback, events, given, hostContext, controls>>

\* Mutant: the callback does not wait for the acknowledgement.
BindsAndGoesOn(t) ==
    /\ host[t].pc = "new" /\ Room(callback[t])
    /\ host' = [host EXCEPT ![t].pc = "ready", ![t].session = t]
    /\ given' = [given EXCEPT ![t] = IF FirstPrompt THEN None ELSE host[t].context]
    /\ callback' = [callback EXCEPT ![t] = Append(@, "bound")]
    /\ UNCHANGED <<hubVars, out, back, link, events, hostContext, controls>>

\* session/new and the event that binds it.
BindSession(t) ==
    /\ host[t].pc = "new" /\ Room(callback[t])
    /\ host' = [host EXCEPT ![t].pc = "binding", ![t].session = t]
    /\ given' = [given EXCEPT ![t] = IF FirstPrompt THEN None ELSE host[t].context]
    /\ callback' = [callback EXCEPT ![t] = Append(@, "bound")]
    /\ UNCHANGED <<hubVars, out, back, link, events, hostContext, controls>>

DispatchContext(t) ==
    /\ host[t].pc = "contextual" /\ Room(callback[t])
    /\ host' = [host EXCEPT ![t].pc = "dispatching"]
    /\ callback' = [callback EXCEPT ![t] = Append(@, "context")]
    /\ UNCHANGED <<hubVars, out, back, link, events, given, hostContext, controls>>

\* No acknowledgement in thirty seconds.
AckTimeout(t) ==
    /\ Faults /\ host[t].pc \in {"binding", "dispatching"}
    /\ EndsWith(t, "failed")
    /\ UNCHANGED <<hubVars, out, back, link, callback, events, given, hostContext, controls>>

Prompt(t) ==
    /\ host[t].pc = "ready" /\ ~host[t].cancel
    /\ host' = [host EXCEPT ![t].pc = "prompted", ![t].prompted = TRUE]
    /\ given' = IF host[t].session = t /\ FirstPrompt
                THEN [given EXCEPT ![t] = host[t].context] ELSE given
    /\ UNCHANGED <<hubVars, out, back, link, callback, events, hostContext, controls>>

\* The synchronous callback blocks while the hand-off is full.
Emit(t) ==
    /\ host[t].pc = "prompted" /\ host[t].emitted < MaxEvents /\ Room(callback[t])
    /\ host' = [host EXCEPT ![t].emitted = @ + 1]
    /\ callback' = [callback EXCEPT ![t] = Append(@, "event")]
    /\ UNCHANGED <<hubVars, out, back, link, events, given, hostContext, controls>>

PromptEnds(t) ==
    /\ host[t].pc = "prompted"
    /\ \E result \in {"answered", "failed"} \cup (IF Uncertain THEN {"uncertain"} ELSE {}) :
          EndsWith(t, result)
    /\ UNCHANGED <<hubVars, out, back, link, callback, events, given, hostContext, controls>>

\* The token is seen at every await of the pool and of the session.
ObservesCancellation(t) ==
    /\ host[t].pc \in Working \ {"binding", "dispatching"} /\ host[t].cancel
    /\ EndsWith(t, "cancelled")
    /\ UNCHANGED <<hubVars, out, back, link, callback, events, given, hostContext, controls>>

ForwardEvent(t) ==
    /\ callback[t] # <<>> /\ Room(events[t])
    /\ events' = [events EXCEPT ![t] = Append(@, Head(callback[t]))]
    /\ callback' = [callback EXCEPT ![t] = Tail(@)]
    /\ UNCHANGED <<hubVars, out, back, link, host, given, hostContext, controls>>

\* Mutant: the result is sent while the forwarder still works.
RepliesUnjoined(t) ==
    /\ host[t].pc = "ended"
    /\ host' = [host EXCEPT ![t].pc = "joined"]
    /\ UNCHANGED <<hubVars, out, back, link, callback, events, given, hostContext, controls>>

\* The forwarder is joined before the result is handed over.
JoinForwarder(t) ==
    /\ host[t].pc = "ended" /\ callback[t] = <<>>
    /\ host' = [host EXCEPT ![t].pc = "joined"]
    /\ UNCHANGED <<hubVars, out, back, link, callback, events, given, hostContext, controls>>

RelayEvent(t) ==
    /\ events[t] # <<>> /\ (link => Room(back))
    /\ back' = IF link THEN Append(back, Msg(Head(events[t]), t)) ELSE back
    /\ events' = [events EXCEPT ![t] = Tail(@)]
    /\ UNCHANGED <<hubVars, out, link, host, callback, given, hostContext, controls>>

SendResult(t) ==
    /\ host[t].pc = "joined" /\ events[t] = <<>> /\ (link => Room(back))
    /\ back' = IF link THEN Append(back, Msg(host[t].result, t)) ELSE back
    /\ host' = [host EXCEPT ![t].pc = "sent"]
    /\ UNCHANGED <<hubVars, out, link, callback, events, given, hostContext, controls>>

\* The link is lost with what has not yet arrived; the Host's owner of the ACP tokens
\* cancels every Turn it has received.
LinkBreaks ==
    /\ Faults /\ link /\ link' = FALSE
    /\ \E n \in 0..Len(out) : out' = SubSeq(out, 1, n)
    /\ \E n \in 0..Len(back) : back' = SubSeq(back, 1, n)
    /\ host' = [t \in Turns |-> [host[t] EXCEPT !.cancel = @ \/ host[t].pc # "idle"]]
    /\ UNCHANGED <<hubVars, callback, events, given, hostContext, controls>>

--------------------

HubTurn(t) ==
    \/ SendTurn(t) \/ SendFails(t) \/ SendAck(t) \/ SendCancel(t)
    \/ PersistBinding(t) \/ PersistDispatch(t) \/ PersistEvent(t)
    \/ TakeReply(t) \/ FinishTurn(t)
HostTurn(t) ==
    \/ LaunchTurn(t) \/ BindSession(t) \/ DispatchContext(t) \/ Prompt(t)
    \/ PromptEnds(t) \/ ObservesCancellation(t) \/ JoinForwarder(t) \/ SendResult(t)

Next ==
    \/ \E t \in Turns :
          \/ StartTurn(t) \/ HubTurn(t) \/ Cancel(t) \/ GivesUp(t) \/ LeavesByError(t)
          \/ HostTurn(t) \/ RefuseTurn(t) \/ Emit(t) \/ AckTimeout(t)
          \/ ForwardEvent(t) \/ RelayEvent(t)
    \/ \E c \in Controls : SendControl(c)
    \/ Deliver \/ Drain \/ Receive \/ EditContext \/ LinkBreaks

\* Tasks and threads run, prompts end; nothing is asked of the timers.
Fairness ==
    /\ \A t \in Turns :
          /\ WF_vars(HubTurn(t)) /\ WF_vars(HostTurn(t))
          /\ WF_vars(ForwardEvent(t)) /\ WF_vars(RelayEvent(t))
    /\ WF_vars(Deliver) /\ WF_vars(Drain) /\ WF_vars(Receive)

Spec == Init /\ [][Next]_vars /\ Fairness

--------------------
(* Properties *)

\* The type of the Turns on both sides and of the channels between them.
TypeOK ==
    /\ \A t \in Turns :
          /\ hub[t].pc \in {"idle", "send", "loop", "ack", "drain", "done"}
          /\ hub[t].outcome \in {None, "answered", "failed", "uncertain", "error"}
          /\ effect[t] \in {None, "started", "succeeded", "failed", "uncertain"}
          /\ host[t].pc \in Working \cup {"idle", "accepted", "ended", "joined", "sent"}
          /\ {Len(callback[t]), Len(events[t]), Len(incoming[t])} \subseteq 0..Channel
          /\ saved[t] \in 0..MaxEvents
    /\ {Len(out), Len(back)} \subseteq 0..Channel
    /\ Cardinality(Running) <= AcpCapacity

\* A Harness is prompted only in the session the Hub has stored for it: the
\* acknowledgement follows the commit, and an event of a Turn the Hub has given
\* up is never acknowledged.
PromptsInStoredSessions ==
    \A t \in Turns :
        host[t].pc = "prompted" /\ hub[t].pc # "done" => binding[SessionOf[t]].id = host[t].session

\* A prompt goes to a session whose instructions are the Host's own at the
\* launch of the Turn, whatever the Hub had stored.
PromptedContextIsFresh ==
    \A t \in Turns : host[t].pc = "prompted" => given[host[t].session] = host[t].context

\* A Turn that is settled as answered has every event of its stream stored,
\* although the reply may overtake the events in its loop, and finish_acp_turn
\* finds the session that answered in the store.
AnswersAreComplete ==
    \A t \in Turns : hub[t].outcome = "answered" =>
        /\ hub[t].pc = "done" => saved[t] = host[t].emitted
        /\ hub[t].pc = "drain" /\ incoming[t] = <<>> => binding[SessionOf[t]].id = host[t].session

\* What is stored of a prompt is what is known of it: a failed effect was
\* never prompted or failed definitively, a successful one was answered.
EffectsTellTheTruth ==
    \A t \in Turns :
        /\ effect[t] = "succeeded" => host[t].result = "answered"
        /\ effect[t] = "failed" => ~host[t].prompted \/ host[t].result = "failed"

\* What the Hub may rely on of Turns on another Host, where the context of a session
\* is given with it (~FirstPrompt) or the Harness always says how a prompt ended
\* (~Uncertain).
RemoteTurnsAreHonest ==
    /\ TypeOK /\ PromptsInStoredSessions /\ AnswersAreComplete
    /\ ~FirstPrompt => PromptedContextIsFresh
    /\ ~Uncertain => EffectsTellTheTruth

\* While the link holds and the Harness works, every Turn is settled without the
\* help of a timeout: bounded channels, inline control requests and the waits
\* for acknowledgements never wait on each other in a circle.
TurnsSettle == \A t \in Turns : hub[t].pc = "send" ~> hub[t].pc = "done"

============================================================================
