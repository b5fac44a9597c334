------------------------------ MODULE HostLink ------------------------------
(***************************************************************************)
(* The Hub's requests to one Host (mews-host/src/connection.rs) over the   *)
(* link of hub_link.rs and joined.rs: a bounded number of requests in a    *)
(* table of pending replies, bounded channels, a task that delivers the    *)
(* replies and fails the table when the link is gone, tools on the Host    *)
(* that run in tasks of their own under a cancellation token, and callers  *)
(* that time out or are dropped at any await.                              *)
(***************************************************************************)
EXTENDS Naturals, Sequences, FiniteSets, SequencesExt

CONSTANTS
    Requests,       \* the Hub's requests
    Tools,          \* those that execute a tool or a hook; the rest is control
    Permits,        \* capacity of the link (32)
    Channel,        \* capacity of a channel (32)
    Detached        \* joined.rs: the dispatch task outlives the connection

\* What the constants must satisfy.
ASSUME LinkAssumption ==
    /\ Tools \subseteq Requests
    /\ {Permits, Channel} \subseteq Nat \ {0}
    /\ Detached \in BOOLEAN

VARIABLES
    req,            \* Request -> its caller: pc, reply and result
    pending,        \* the table of pending requests
    cancels,        \* CancelTool messages of guards, still to be sent
    out,            \* tool_tx
    outOpen,        \* its receiver is alive
    link,           \* the peers are connected
    net,            \* sent to the Host and not yet dispatched there
    back,           \* replies under way to the Hub
    drained,        \* the response task has ended
    listed,         \* the connection is in remote_hosts
    owner,          \* the Host's CancellationRegistryOwner is alive
    token,          \* Request -> "none", "live", "cancelled"
    run             \* Request -> "none", "running", "finished"

hubVars == <<req, pending, cancels, out, outOpen, drained, listed>>
hostVars == <<owner, token, run>>
vars == <<req, pending, cancels, out, outOpen, link, net, back, drained, listed,
          owner, token, run>>

Init ==
    /\ req = [r \in Requests |-> [pc |-> "idle", reply |-> "none", result |-> "none"]]
    /\ pending = {} /\ cancels = {}
    /\ out = <<>> /\ outOpen = TRUE
    /\ link = TRUE /\ net = <<>> /\ back = <<>>
    /\ drained = FALSE /\ listed = TRUE
    /\ owner = TRUE
    /\ token = [r \in Requests |-> "none"]
    /\ run = [r \in Requests |-> "none"]

Message(kind, r) == [kind |-> kind, request |-> r]

--------------------
(* A caller on the Hub: request_inner *)

InFlight == {r \in Requests : req[r].pc \in {"send", "wait"}}

\* The permit, then the entry in the table; the caller got its handle while
\* the connection was listed, or earlier.
Begin(r) ==
    /\ req[r].pc = "idle" /\ Cardinality(InFlight) < Permits
    /\ req' = [req EXCEPT ![r].pc = "send"]
    /\ pending' = pending \cup {r}
    /\ UNCHANGED <<cancels, out, outOpen, link, net, back, drained, listed, owner, token, run>>

\* sender.send: after it the guard of a tool is armed.
Send(r) ==
    /\ req[r].pc = "send" /\ outOpen /\ Len(out) < Channel
    /\ out' = Append(out, Message("execute", r))
    /\ req' = [req EXCEPT ![r].pc = "wait"]
    /\ UNCHANGED <<pending, cancels, outOpen, link, net, back, drained, listed, owner, token, run>>

\* PendingCompletion's drop removes the entry, whatever the end.
Ends(r, result) ==
    /\ req' = [req EXCEPT ![r].pc = "done", ![r].result = result]
    /\ pending' = pending \ {r}

SendFails(r) ==
    /\ req[r].pc = "send" /\ ~outOpen
    /\ Ends(r, "not sent")
    /\ UNCHANGED <<cancels, out, outOpen, link, net, back, drained, listed, owner, token, run>>

\* A control request: whatever ends the wait but an answer is a failure.
ControlReply(r) ==
    /\ req[r].pc = "wait" /\ req[r].reply # "none" /\ r \notin Tools
    /\ Ends(r, IF req[r].reply = "disconnected" THEN "failed" ELSE req[r].reply)
    /\ UNCHANGED <<cancels, out, outOpen, link, net, back, drained, listed, owner, token, run>>

\* Mutant: a tool lost with the link has failed.
FailsWithTheLink(r) ==
    /\ req[r].pc = "wait" /\ req[r].reply # "none" /\ r \in Tools
    /\ Ends(r, IF req[r].reply = "disconnected" THEN "failed" ELSE req[r].reply)
    /\ UNCHANGED <<cancels, out, outOpen, link, net, back, drained, listed, owner, token, run>>

\* Mutant: the reply itself becomes the caller's result.
TakesReply(r) ==
    /\ req[r].pc = "wait" /\ req[r].reply # "none" /\ r \in Tools
    /\ Ends(r, req[r].reply)
    /\ UNCHANGED <<cancels, out, outOpen, link, net, back, drained, listed, owner, token, run>>

\* A tool or a hook: anything but a definitive reply leaves its outcome
\* uncertain and its guard armed.
ToolReply(r) ==
    /\ req[r].pc = "wait" /\ req[r].reply # "none" /\ r \in Tools
    /\ IF req[r].reply = "disconnected"
       THEN Ends(r, "uncertain") /\ cancels' = cancels \cup {r}
       ELSE Ends(r, req[r].reply) /\ UNCHANGED cancels
    /\ UNCHANGED <<out, outOpen, link, net, back, drained, listed, owner, token, run>>

\* Mutant: only effects are given a timeout.
TimesOutEffects(r) ==
    /\ req[r].pc = "wait" /\ req[r].reply = "none" /\ r \in Tools
    /\ Ends(r, "uncertain")
    /\ cancels' = cancels \cup {r}
    /\ UNCHANGED <<out, outOpen, link, net, back, drained, listed, owner, token, run>>

\* The 3605 seconds pass.
Timeout(r) ==
    /\ req[r].pc = "wait" /\ req[r].reply = "none"
    /\ Ends(r, IF r \in Tools THEN "uncertain" ELSE "failed")
    /\ cancels' = IF r \in Tools THEN cancels \cup {r} ELSE cancels
    /\ UNCHANGED <<out, outOpen, link, net, back, drained, listed, owner, token, run>>

\* Mutant: dropping the caller only forgets the request.
DropsQuietly(r) ==
    /\ req[r].pc \in {"send", "wait"}
    /\ Ends(r, "dropped")
    /\ UNCHANGED <<cancels, out, outOpen, link, net, back, drained, listed, owner, token, run>>

\* The caller is dropped, by a cancellation or a disconnected client.
Drop(r) ==
    /\ req[r].pc \in {"send", "wait"}
    /\ Ends(r, IF req[r].pc = "wait" THEN "dropped" ELSE "not sent")
    /\ cancels' = IF req[r].pc = "wait" /\ r \in Tools THEN cancels \cup {r} ELSE cancels
    /\ UNCHANGED <<out, outOpen, link, net, back, drained, listed, owner, token, run>>

\* ToolCancellationGuard's task.
SendCancel(r) ==
    /\ r \in cancels
    /\ IF outOpen THEN /\ Len(out) < Channel
                       /\ out' = Append(out, Message("cancel", r))
                  ELSE UNCHANGED out
    /\ cancels' = cancels \ {r}
    /\ UNCHANGED <<req, pending, outOpen, link, net, back, drained, listed, owner, token, run>>

--------------------
(* The link *)

\* The forwarding task of hub_link.rs; it notices a dead link with the message
\* it fails to pass on, and drops the channel.
Forward ==
    /\ out # <<>> /\ link /\ Len(net) < Channel
    /\ net' = Append(net, Head(out))
    /\ out' = Tail(out)
    /\ UNCHANGED <<req, pending, cancels, outOpen, link, back, drained, listed, owner, token, run>>

ForwardFails ==
    /\ out # <<>> /\ ~link
    /\ out' = <<>> /\ outOpen' = FALSE
    /\ UNCHANGED <<req, pending, cancels, link, net, back, drained, listed, owner, token, run>>

\* Some of what was under way has already reached the other side.
LinkBreaks ==
    /\ link /\ link' = FALSE
    /\ \E n \in 0..Len(net) : net' = SubSeq(net, 1, n)
    /\ \E n \in 0..Len(back) : back' = SubSeq(back, 1, n)
    /\ UNCHANGED <<req, pending, cancels, out, outOpen, drained, listed, owner, token, run>>

\* Mutant: a reply whose caller is still sending is dropped.
DeliversToWaiters ==
    /\ back # <<>>
    /\ LET m == Head(back) IN
       /\ pending' = pending \ {m.request}
       /\ req' = IF m.request \in pending /\ req[m.request].pc = "wait" /\ m.kind = "ok"
                 THEN [req EXCEPT ![m.request].reply = m.kind] ELSE req
    /\ back' = Tail(back)
    /\ UNCHANGED <<cancels, out, outOpen, link, net, drained, listed, owner, token, run>>

\* The response task: an unknown request's reply is ignored.
Deliver ==
    /\ back # <<>>
    /\ LET m == Head(back) IN
       /\ pending' = pending \ {m.request}
       /\ req' = IF m.request \in pending
                 THEN [req EXCEPT ![m.request].reply = m.kind] ELSE req
    /\ back' = Tail(back)
    /\ UNCHANGED <<cancels, out, outOpen, link, net, drained, listed, owner, token, run>>

\* The channel of replies has closed: everything in the table fails.
Drain ==
    /\ ~link /\ back = <<>> /\ ~drained
    /\ drained' = TRUE
    /\ req' = [r \in Requests |-> IF r \in pending
                                  THEN [req[r] EXCEPT !.reply = "disconnected"] ELSE req[r]]
    /\ pending' = {}
    /\ UNCHANGED <<cancels, out, outOpen, link, net, back, listed, owner, token, run>>

\* serve_hub_host_once ends without an error; otherwise the dead connection
\* stays listed until the Host is back.
Unlist ==
    /\ ~link /\ listed /\ listed' = FALSE
    /\ UNCHANGED <<req, pending, cancels, out, outOpen, link, net, back, drained, owner, token, run>>

--------------------
(* The Host *)

Replies(kind, r) ==
    back' = IF link THEN Append(back, Message(kind, r)) ELSE back

\* The dispatch loop: tools are spawned under a token, cancellations take it.
ReceiveTool ==
    /\ net # <<>> /\ (owner \/ Detached)
    /\ LET m == Head(net) IN
       /\ m.request \in Tools
       /\ IF m.kind = "execute"
          THEN /\ token' = [token EXCEPT ![m.request] = "live"]
               /\ run' = [run EXCEPT ![m.request] = "running"]
          ELSE /\ token' = [token EXCEPT ![m.request] = IF @ = "live" THEN "cancelled" ELSE @]
               /\ UNCHANGED run
    /\ net' = Tail(net)
    /\ UNCHANGED <<hubVars, link, back, owner>>

\* Any other request is handled by the loop itself, reply included.
ReceiveControl ==
    /\ net # <<>> /\ (owner \/ Detached)
    /\ LET r == Head(net).request IN
       /\ r \notin Tools
       /\ link => Len(back) < Channel
       /\ run' = [run EXCEPT ![r] = "finished"]
       /\ \E kind \in {"ok", "failed"} : Replies(kind, r)
    /\ net' = Tail(net)
    /\ UNCHANGED <<hubVars, link, owner, token>>

\* A tool ends, by itself or when it sees its token cancelled; the reply waits
\* for room.
FinishTool(r) ==
    /\ run[r] = "running"
    /\ link => Len(back) < Channel
    /\ run' = [run EXCEPT ![r] = "finished"]
    /\ token' = [token EXCEPT ![r] = "none"]
    /\ \E kind \in {"ok", "failed"} : Replies(kind, r)
    /\ UNCHANGED <<hubVars, link, net, owner>>

StopTool(r) == token[r] = "cancelled" /\ FinishTool(r)

\* CancellationRegistryOwner's drop, when the connection's loop returns: in
\* serve_host after what was received, in joined.rs beside the dispatch task.
HostLosesLink ==
    /\ ~link /\ owner /\ (Detached \/ net = <<>>)
    /\ owner' = FALSE
    /\ token' = [r \in Requests |-> IF token[r] = "live" THEN "cancelled" ELSE token[r]]
    /\ UNCHANGED <<hubVars, link, net, back, run>>

--------------------

CallerStep(r) == Send(r) \/ SendFails(r) \/ ControlReply(r) \/ ToolReply(r) \/ Timeout(r) \/ SendCancel(r)
HubStep == Forward \/ ForwardFails \/ Deliver \/ Drain
HostStep == ReceiveTool \/ ReceiveControl \/ HostLosesLink

Next ==
    \/ \E r \in Requests : Begin(r) \/ CallerStep(r) \/ Drop(r) \/ FinishTool(r)
    \/ HubStep \/ HostStep \/ LinkBreaks \/ Unlist

\* Tasks run and timers fire; a tool that is not cancelled may never end.
Fairness ==
    /\ \A r \in Requests : WF_vars(CallerStep(r)) /\ WF_vars(StopTool(r))
    /\ WF_vars(Forward) /\ WF_vars(ForwardFails)
    /\ WF_vars(Deliver) /\ WF_vars(Drain)
    /\ WF_vars(HostStep)

Spec == Init /\ [][Next]_vars /\ Fairness

--------------------
(* Properties *)

Caller == [pc : {"idle", "send", "wait", "done"},
           reply : {"none", "ok", "failed", "disconnected"},
           result : {"none", "ok", "failed", "uncertain", "not sent", "dropped"}]
ToHost == [kind : {"execute", "cancel"}, request : Requests]
FromHost == [kind : {"ok", "failed"}, request : Requests]

\* The type of the callers, the channels and the Host's work.
TypeOK ==
    /\ req \in [Requests -> Caller]
    /\ pending \subseteq Requests /\ cancels \subseteq Tools
    /\ {out, net} \subseteq Seq(ToHost) /\ back \in Seq(FromHost)
    /\ Len(out) <= Channel /\ Len(net) <= Channel
    /\ {outOpen, link, drained, listed, owner} \subseteq BOOLEAN
    /\ token \in [Requests -> {"none", "live", "cancelled"}]
    /\ run \in [Requests -> {"none", "running", "finished"}]

Sent(r) == \E m \in ToSet(out) \cup ToSet(net) : m.kind = "execute" /\ m.request = r

\* What the Hub reports of a tool is true: "not sent" means the Host never
\* begins it, a definitive reply means it is over, and a request that is sent
\* is sent once.  In between, only uncertain is reported.
ReportedOutcomesAreReal ==
    \A r \in Requests :
        /\ req[r].result = "not sent" => run[r] = "none" /\ ~Sent(r)
        /\ req[r].result = "ok" => run[r] = "finished"
        /\ req[r].result = "failed" /\ r \in Tools => run[r] = "finished"
        /\ Sent(r) => run[r] = "none"

\* The table holds exactly the requests in flight that have no reply yet: no
\* entry outlives its caller, no waiting caller is forgotten by the table.
PendingIsExact == pending = {r \in InFlight : req[r].reply = "none"}

\* All three, of the link of one Host.
LinkIsHonest == TypeOK /\ ReportedOutcomesAreReal /\ PendingIsExact

\* Every request ends, whatever happens to the link: by its reply, by the
\* link's end, or by its timeout, also when it entered the table after the
\* response task had drained it.
EveryRequestEnds == \A r \in Requests : req[r].pc = "send" ~> req[r].pc = "done"

\* A tool whose caller has gone (dropped, timed out or disconnected) is
\* stopped on the Host: by CancelTool, or by the end of the link.
AbandonedToolsStop ==
    \A r \in Tools :
        (run[r] = "running" /\ req[r].result \in {"dropped", "uncertain"})
            ~> run[r] = "finished"

============================================================================
