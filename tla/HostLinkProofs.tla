---------------------------- MODULE HostLinkProofs ----------------------------
(***************************************************************************)
(* Proofs about HostLink, for any number of requests, permits and places   *)
(* in the channels: what the Hub reports of a request is what the Host     *)
(* did, and the table of pending requests is exact.  The argument follows  *)
(* a request over the link: it is put into the channel once, so it is in   *)
(* one queue or has begun; a reply is under way only when it has ended;    *)
(* and the caller learns a definite end only from such a reply.            *)
(*                                                                         *)
(* They are followed by the proofs about PeerBridge and RelayPairing,      *)
(* reached through an instance each (Bridge, Relay).                       *)
(***************************************************************************)
EXTENDS HostLink, SequenceTheorems, TLAPS

\* Queue q holds the request r itself (and not its cancellation), and any
\* request at most once.
In(q, r) == \E i \in DOMAIN q : q[i].kind = "execute" /\ q[i].request = r
Once(q) ==
    \A i, j \in DOMAIN q :
        (q[i].kind = "execute" /\ q[j].kind = "execute" /\ q[i].request = q[j].request) => i = j

\* Only tools are cancelled.
CancelsTools(q) == \A i \in DOMAIN q : q[i].kind = "cancel" => q[i].request \in Tools

\* The queues to the Host: a request is in one place of one of them.
Queues ==
    /\ Once(out) /\ Once(net)
    /\ \A r \in Requests : ~ (In(out, r) /\ In(net, r))
    /\ CancelsTools(out) /\ CancelsTools(net)

\* A request that has not been sent, or that is on its way, has not begun.
Begins(r) ==
    /\ (req[r].pc \in {"idle", "send"} \/ req[r].result = "not sent") =>
         run[r] = "none" /\ ~ In(out, r) /\ ~ In(net, r)
    /\ In(out, r) \/ In(net, r) => run[r] = "none"

\* What the caller has learned of it.
Learns(r) ==
    /\ req[r].reply \in {"ok", "failed"} => run[r] = "finished"
    /\ req[r].result = "ok" => run[r] = "finished"
    /\ req[r].result = "failed" /\ r \in Tools => run[r] = "finished"
    /\ req[r].result # "none" => req[r].pc = "done"
    /\ req[r].pc = "idle" => req[r].reply = "none"

\* A reply is under way only from a request that has ended.
RepliesAreReal == \A i \in DOMAIN back : run[back[i].request] = "finished"

IInv ==
    /\ TypeOK /\ PendingIsExact /\ Queues /\ RepliesAreReal
    /\ \A r \in Requests : Begins(r) /\ Learns(r)

--------------------
(* Queues.                                                                 *)

\* A message at the end of a queue.
LEMMA AppendIn ==
  ASSUME NEW S, NEW q \in Seq(S), NEW m \in S
  PROVE  /\ Append(q, m) \in Seq(S) /\ Len(Append(q, m)) = Len(q) + 1
         /\ \A r : In(Append(q, m), r) <=> In(q, r) \/ (m.kind = "execute" /\ m.request = r)
         /\ Once(q) /\ (m.kind = "execute" => ~ In(q, m.request)) => Once(Append(q, m))
         /\ CancelsTools(q) /\ (m.kind = "cancel" => m.request \in Tools)
              => CancelsTools(Append(q, m))
<1>. DEFINE p == Append(q, m)
<1>1. /\ p \in Seq(S) /\ Len(p) = Len(q) + 1 /\ DOMAIN q = 1 .. Len(q) /\ Len(q) \in Nat
      /\ DOMAIN p = 1 .. (Len(q) + 1)
      /\ \A i \in DOMAIN q : i \in DOMAIN p /\ p[i] = q[i]
      /\ p[Len(q) + 1] = m
      /\ \A i \in DOMAIN p : i \in DOMAIN q \/ i = Len(q) + 1
  OBVIOUS
<1>. HIDE DEF p
<1>2. \A r : In(p, r) <=> In(q, r) \/ (m.kind = "execute" /\ m.request = r)
  BY <1>1 DEF In
<1>3. Once(q) /\ (m.kind = "execute" => ~ In(q, m.request)) => Once(p)
  BY <1>1 DEF Once, In
<1>4. CancelsTools(q) /\ (m.kind = "cancel" => m.request \in Tools) => CancelsTools(p)
  BY <1>1 DEF CancelsTools
<1>. QED BY <1>1, <1>2, <1>3, <1>4 DEF p

\* The message at the head of a queue, and the rest.
LEMMA TailIn ==
  ASSUME NEW S, NEW q \in Seq(S), q # <<>>
  PROVE  /\ Tail(q) \in Seq(S) /\ Head(q) \in S /\ Len(Tail(q)) = Len(q) - 1
         /\ \A r : In(q, r) <=> In(Tail(q), r) \/ (Head(q).kind = "execute" /\ Head(q).request = r)
         /\ Once(q) => Once(Tail(q)) /\ (Head(q).kind = "execute" => ~ In(Tail(q), Head(q).request))
         /\ CancelsTools(q) => /\ CancelsTools(Tail(q))
                               /\ Head(q).kind = "cancel" => Head(q).request \in Tools
<1>. DEFINE p == Tail(q)
            m == Head(q)
<1>1. /\ p \in Seq(S) /\ m \in S /\ Len(p) = Len(q) - 1 /\ DOMAIN q = 1 .. Len(q)
      /\ Len(q) \in Nat \ {0} /\ DOMAIN p = 1 .. (Len(q) - 1)
      /\ \A i \in DOMAIN p : i + 1 \in DOMAIN q /\ p[i] = q[i + 1]
      /\ 1 \in DOMAIN q /\ m = q[1]
      /\ \A i \in DOMAIN q : i = 1 \/ (i - 1 \in DOMAIN p /\ p[i - 1] = q[i])
  OBVIOUS
<1>. HIDE DEF p, m
<1>2. \A r : In(q, r) <=> In(p, r) \/ (m.kind = "execute" /\ m.request = r)
  BY <1>1 DEF In
<1>3. Once(q) => Once(p) /\ (m.kind = "execute" => ~ In(p, m.request))
  <2>. SUFFICES ASSUME Once(q)
                PROVE  Once(p) /\ (m.kind = "execute" => ~ In(p, m.request))
    OBVIOUS
  <2>0. \A i, j \in DOMAIN q :
          (q[i].kind = "execute" /\ q[j].kind = "execute" /\ q[i].request = q[j].request) => i = j
    BY DEF Once
  <2>1. ASSUME NEW i \in DOMAIN p, NEW j \in DOMAIN p, p[i].kind = "execute",
               p[j].kind = "execute", p[i].request = p[j].request
        PROVE  i = j
    <3>1. i + 1 = j + 1
      BY <1>1, <2>0, <2>1
    <3>. QED BY <1>1, <3>1
  <2>2. ASSUME NEW i \in DOMAIN p, p[i].kind = "execute", m.kind = "execute",
               p[i].request = m.request
        PROVE  FALSE
    <3>1. i + 1 = 1
      BY <1>1, <2>0, <2>2
    <3>. QED BY <1>1, <3>1
  <2>. QED BY <2>1, <2>2 DEF Once, In
<1>4. CancelsTools(q) => CancelsTools(p) /\ (m.kind = "cancel" => m.request \in Tools)
  BY <1>1 DEF CancelsTools
<1>. QED BY <1>1, <1>2, <1>3, <1>4 DEF p, m

\* What is left of a queue when the link breaks.
LEMMA PrefixIn ==
  ASSUME NEW S, NEW q \in Seq(S), NEW n \in 0 .. Len(q)
  PROVE  /\ SubSeq(q, 1, n) \in Seq(S) /\ Len(SubSeq(q, 1, n)) = n
         /\ \A i \in DOMAIN SubSeq(q, 1, n) : i \in DOMAIN q /\ SubSeq(q, 1, n)[i] = q[i]
         /\ \A r : In(SubSeq(q, 1, n), r) => In(q, r)
         /\ Once(q) => Once(SubSeq(q, 1, n))
         /\ CancelsTools(q) => CancelsTools(SubSeq(q, 1, n))
<1>. DEFINE p == SubSeq(q, 1, n)
<1>1. /\ p \in Seq(S) /\ Len(p) = n
      /\ \A i \in DOMAIN p : i \in DOMAIN q /\ p[i] = q[i]
  <2>1. /\ n \in Int /\ n \in Nat /\ n <= Len(q) /\ DOMAIN q = 1 .. Len(q) /\ Len(q) \in Nat
        /\ \A i \in 1 .. n : q[i] \in S
    OBVIOUS
  <2>2. /\ p \in Seq(S) /\ Len(p) = IF 1 <= n THEN n - 1 + 1 ELSE 0
        /\ \A i \in 1 .. n - 1 + 1 : p[i] = q[1 + i - 1]
    BY <2>1, SubSeqProperties
  <2>. HIDE DEF p
  <2>3. Len(p) = n /\ \A i \in 1 .. n : p[i] = q[i]
    BY <2>1, <2>2
  <2>. QED BY <2>1, <2>2, <2>3
<1>. HIDE DEF p
<1>2. (\A r : In(p, r) => In(q, r)) /\ (Once(q) => Once(p)) /\ (CancelsTools(q) => CancelsTools(p))
  BY <1>1 DEF In, Once, CancelsTools
<1>. QED BY <1>1, <1>2 DEF p

\* The empty queue.
LEMMA EmptyIn ==
  ASSUME NEW S
  PROVE  /\ <<>> \in Seq(S) /\ Len(<<>>) = 0 /\ DOMAIN <<>> = {}
         /\ Once(<<>>) /\ CancelsTools(<<>>) /\ \A r : ~ In(<<>>, r)
<1>1. <<>> \in Seq(S) /\ Len(<<>>) = 0 /\ DOMAIN <<>> = {}
  OBVIOUS
<1>. QED BY <1>1 DEF Once, CancelsTools, In

\* What Sent says, in the terms of the queues.
LEMMA SentIn ==
  ASSUME TypeOK, NEW r
  PROVE  Sent(r) <=> In(out, r) \/ In(net, r)
BY DEF Sent, In, ToSet
--------------------
(* Steps of a caller.                                                      *)

\* The types of what the invariants speak of.
LEMMA Types ==
  ASSUME IInv
  PROVE  /\ req \in [Requests -> Caller] /\ pending \subseteq Requests /\ cancels \subseteq Tools
         /\ out \in Seq(ToHost) /\ net \in Seq(ToHost) /\ back \in Seq(FromHost)
         /\ Len(out) \in Nat /\ Len(net) \in Nat /\ Len(out) <= Channel /\ Len(net) <= Channel
         /\ token \in [Requests -> {"none", "live", "cancelled"}]
         /\ run \in [Requests -> {"none", "running", "finished"}]
         /\ Channel \in Nat \ {0} /\ Tools \subseteq Requests
BY LinkAssumption DEF IInv, TypeOK

\* A caller whose place, reply or result changes.
LEMMA PlaceChanges ==
  ASSUME NEW k \in Caller, NEW pc \in {"idle", "send", "wait", "done"}
  PROVE  LET c == [k EXCEPT !.pc = pc]
         IN  c \in Caller /\ c.pc = pc /\ c.reply = k.reply /\ c.result = k.result
BY DEF Caller

\* So does one that gets its reply,
LEMMA ReplyChanges ==
  ASSUME NEW k \in Caller, NEW reply \in {"ok", "failed", "disconnected"}
  PROVE  LET c == [k EXCEPT !.reply = reply]
         IN  c \in Caller /\ c.reply = reply /\ c.pc = k.pc /\ c.result = k.result
BY DEF Caller

\* and one that is done.
LEMMA CallerIsDone ==
  ASSUME NEW k \in Caller, NEW result \in {"ok", "failed", "uncertain", "not sent", "dropped"}
  PROVE  LET c == [k EXCEPT !.pc = "done", !.result = result]
         IN  c \in Caller /\ c.pc = "done" /\ c.result = result /\ c.reply = k.reply
BY DEF Caller

\* Requests that a step leaves alone keep what is said of them.
LEMMA Untouched ==
  ASSUME IInv, NEW r \in Requests, req'[r] = req[r], run'[r] = run[r],
         In(out, r)' => In(out, r) \/ In(net, r), In(net, r)' => In(out, r) \/ In(net, r)
  PROVE  Begins(r)' /\ Learns(r)'
BY DEF IInv, Begins, Learns

\* A request gets its permit and its entry.
LEMMA BeginStep ==
  ASSUME IInv, NEW r \in Requests, Begin(r)
  PROVE  IInv'
<1>0. req \in [Requests -> Caller] /\ req[r] \in Caller
  BY Types
<1>1. /\ req' = [req EXCEPT ![r] = [req[r] EXCEPT !.pc = "send"]]
      /\ UNCHANGED <<cancels, out, outOpen, link, net, back, drained, listed, owner, token, run>>
  BY <1>0 DEF Begin, Caller
<1>2. /\ req' \in [Requests -> Caller] /\ req'[r].pc = "send"
      /\ req'[r].reply = req[r].reply /\ req'[r].result = req[r].result
      /\ \A s \in Requests \ {r} : req'[s] = req[s]
  BY <1>0, <1>1, PlaceChanges
<1>3. req[r].pc = "idle" /\ req[r].reply = "none" /\ pending' = pending \cup {r}
  BY DEF Begin, IInv, Learns
<1>4. TypeOK'
  BY <1>1, <1>2, <1>3 DEF IInv, TypeOK
<1>5. PendingIsExact'
  BY <1>2, <1>3 DEF IInv, PendingIsExact, InFlight
<1>6. Queues' /\ RepliesAreReal'
  BY <1>1 DEF IInv, Queues, RepliesAreReal, Once, In, CancelsTools
<1>7. Begins(r)' /\ Learns(r)'
  BY <1>1, <1>2, <1>3 DEF IInv, Begins, Learns, In
<1>8. \A s \in Requests \ {r} : Begins(s)' /\ Learns(s)'
  BY <1>1, <1>2, Untouched DEF In
<1>. QED BY <1>4, <1>5, <1>6, <1>7, <1>8 DEF IInv

\* The request is put into the channel.
LEMMA SendStep ==
  ASSUME IInv, NEW r \in Requests, Send(r)
  PROVE  IInv'
<1>. DEFINE m == Message("execute", r)
<1>0. /\ req \in [Requests -> Caller] /\ req[r] \in Caller /\ out \in Seq(ToHost)
      /\ Channel \in Nat /\ Len(out) \in Nat
  BY Types
<1>1. /\ req' = [req EXCEPT ![r] = [req[r] EXCEPT !.pc = "wait"]] /\ out' = Append(out, m)
      /\ UNCHANGED <<pending, cancels, outOpen, link, net, back, drained, listed, owner, token, run>>
      /\ req[r].pc = "send" /\ Len(out) < Channel
  BY <1>0 DEF Send, Caller
<1>2. /\ req' \in [Requests -> Caller] /\ req'[r].pc = "wait"
      /\ req'[r].reply = req[r].reply /\ req'[r].result = req[r].result
      /\ \A s \in Requests \ {r} : req'[s] = req[s]
  BY <1>0, <1>1, PlaceChanges
<1>3. m \in ToHost /\ m.kind = "execute" /\ m.request = r
  BY DEF Message, ToHost
<1>. HIDE DEF m
<1>4. run[r] = "none" /\ ~ In(out, r) /\ ~ In(net, r) /\ req[r].result = "none"
  BY <1>0, <1>1 DEF IInv, Begins, Learns
<1>5. /\ out' \in Seq(ToHost) /\ Len(out') = Len(out) + 1 /\ Once(out') /\ CancelsTools(out')
      /\ \A s : In(out', s) <=> In(out, s) \/ s = r
  BY <1>0, <1>1, <1>3, <1>4, AppendIn DEF IInv, Queues
<1>6. TypeOK'
  BY <1>0, <1>1, <1>2, <1>5 DEF IInv, TypeOK
<1>7. PendingIsExact'
  BY <1>1, <1>2 DEF IInv, PendingIsExact, InFlight
<1>8. Queues'
  <2>1. \A s \in Requests : ~ (In(out', s) /\ In(net, s))
    BY <1>4, <1>5 DEF IInv, Queues
  <2>. QED BY <1>1, <1>5, <2>1 DEF IInv, Queues, Once, In, CancelsTools
<1>9. RepliesAreReal'
  BY <1>1 DEF IInv, RepliesAreReal
<1>10. Begins(r)' /\ Learns(r)'
  BY <1>1, <1>2, <1>4 DEF IInv, Begins, Learns
<1>11. \A s \in Requests \ {r} : Begins(s)' /\ Learns(s)'
  <2>. TAKE s \in Requests \ {r}
  <2>1. In(out', s) => In(out, s)
    BY <1>5
  <2>. QED BY <1>1, <1>2, <2>1, Untouched DEF In
<1>. QED BY <1>6, <1>7, <1>8, <1>9, <1>10, <1>11 DEF IInv

\* The caller's wait ends, with nothing definite unless a reply says so.
LEMMA EndsStep ==
  ASSUME IInv, NEW r \in Requests, req[r].pc \in {"send", "wait"},
         NEW result \in {"ok", "failed", "uncertain", "not sent", "dropped"}, Ends(r, result),
         result = "not sent" => req[r].pc = "send",
         result = "ok" => req[r].reply = "ok",
         result = "failed" /\ r \in Tools => req[r].reply = "failed",
         cancels' \subseteq Tools,
         UNCHANGED <<out, outOpen, link, net, back, drained, listed, owner, token, run>>
  PROVE  IInv'
<1>0. req \in [Requests -> Caller] /\ req[r] \in Caller
  BY Types
<1>1. req' = [req EXCEPT ![r] = [req[r] EXCEPT !.pc = "done", !.result = result]]
  BY <1>0 DEF Ends, Caller
<1>2. /\ req' \in [Requests -> Caller] /\ req'[r].pc = "done"
      /\ req'[r].reply = req[r].reply /\ req'[r].result = result
      /\ \A s \in Requests \ {r} : req'[s] = req[s]
  BY ZenonT(60), <1>0, <1>1, CallerIsDone
<1>3. pending' = pending \ {r}
  BY DEF Ends
<1>4. TypeOK'
  BY <1>2, <1>3 DEF IInv, TypeOK
<1>5. PendingIsExact'
  BY <1>2, <1>3 DEF IInv, PendingIsExact, InFlight
<1>6. Queues' /\ RepliesAreReal'
  BY DEF IInv, Queues, RepliesAreReal, Once, In, CancelsTools
<1>7. Begins(r)' /\ Learns(r)'
  BY <1>2 DEF IInv, Begins, Learns, In
<1>8. \A s \in Requests \ {r} : Begins(s)' /\ Learns(s)'
  BY <1>2, Untouched DEF In
<1>. QED BY <1>4, <1>5, <1>6, <1>7, <1>8 DEF IInv

\* However a wait ends: a failed send, a reply, the timeout, or the caller's drop.
LEMMA CallerEnds ==
  ASSUME IInv, NEW r \in Requests,
         SendFails(r) \/ ControlReply(r) \/ ToolReply(r) \/ Timeout(r) \/ Drop(r)
  PROVE  IInv'
<1>0. /\ req[r] \in Caller /\ cancels \subseteq Tools
      /\ req[r].reply \in {"none", "ok", "failed", "disconnected"}
  BY Types DEF Caller
<1>1. CASE SendFails(r)
  BY <1>0, <1>1, EndsStep DEF SendFails
<1>2. CASE ControlReply(r)
  BY <1>0, <1>2, EndsStep DEF ControlReply
<1>3. CASE ToolReply(r)
  <2>1. CASE req[r].reply = "disconnected"
    BY <1>0, <1>3, <2>1, EndsStep DEF ToolReply
  <2>2. CASE req[r].reply \in {"ok", "failed"}
    BY <1>0, <1>3, <2>2, EndsStep DEF ToolReply
  <2>. QED BY <1>0, <1>3, <2>1, <2>2 DEF ToolReply
<1>4. CASE Timeout(r)
  BY <1>0, <1>4, EndsStep DEF Timeout
<1>5. CASE Drop(r)
  BY <1>0, <1>5, EndsStep DEF Drop
<1>. QED BY <1>1, <1>2, <1>3, <1>4, <1>5

\* A guard's message, when there is room for it.
LEMMA SendCancelStep ==
  ASSUME IInv, NEW r \in Requests, SendCancel(r)
  PROVE  IInv'
<1>. DEFINE m == Message("cancel", r)
<1>0. /\ out \in Seq(ToHost) /\ Channel \in Nat /\ Len(out) \in Nat /\ r \in Tools
      /\ cancels' \subseteq Tools
  BY Types DEF SendCancel
<1>1. UNCHANGED <<req, pending, outOpen, link, net, back, drained, listed, owner, token, run>>
  BY DEF SendCancel
<1>2. m \in ToHost /\ m.kind = "cancel" /\ m.request = r
  BY DEF Message, ToHost
<1>3. /\ out' \in Seq(ToHost) /\ Len(out') <= Channel /\ Once(out') /\ CancelsTools(out')
      /\ \A s : In(out', s) <=> In(out, s)
  <2>1. CASE out' = out
    BY <1>0, <2>1 DEF IInv, TypeOK, Queues
  <2>2. CASE out' = Append(out, m) /\ Len(out) < Channel
    <3>. HIDE DEF m
    <3>. QED BY <1>0, <1>2, <2>2, AppendIn DEF IInv, Queues
  <2>. QED BY <2>1, <2>2 DEF SendCancel
<1>4. TypeOK'
  BY <1>0, <1>1, <1>3 DEF IInv, TypeOK
<1>5. PendingIsExact' /\ RepliesAreReal'
  BY <1>1 DEF IInv, PendingIsExact, InFlight, RepliesAreReal
<1>6. Queues'
  BY <1>1, <1>3 DEF IInv, Queues, Once, In, CancelsTools
<1>7. \A s \in Requests : Begins(s)' /\ Learns(s)'
  <2>. TAKE s \in Requests
  <2>1. In(out', s) => In(out, s)
    BY <1>3
  <2>. QED BY <1>1, <2>1, Untouched DEF In
<1>. QED BY <1>4, <1>5, <1>6, <1>7 DEF IInv
--------------------
(* Steps of the link.                                                      *)

\* A step that leaves the callers and the Host's work alone, and takes
\* nothing into the queues to the Host that was in neither.
LEMMA LinkStep ==
  ASSUME IInv, UNCHANGED <<req, pending, cancels, token, run>>,
         TypeOK', Queues', RepliesAreReal',
         \A r \in Requests : In(out', r) \/ In(net', r) => In(out, r) \/ In(net, r)
  PROVE  IInv'
<1>1. PendingIsExact'
  BY DEF IInv, PendingIsExact, InFlight
<1>2. \A r \in Requests : Begins(r)' /\ Learns(r)'
  BY Untouched DEF In
<1>. QED BY <1>1, <1>2 DEF IInv

\* A message is forwarded.
LEMMA ForwardStep == ASSUME IInv, Forward PROVE IInv'
<1>. DEFINE m == Head(out)
<1>0. /\ out \in Seq(ToHost) /\ net \in Seq(ToHost) /\ out # <<>> /\ Len(net) < Channel
      /\ Len(out) \in Nat /\ Len(net) \in Nat /\ Channel \in Nat /\ Len(out) <= Channel
  BY Types DEF Forward
<1>1. /\ out' = Tail(out) /\ net' = Append(net, m)
      /\ UNCHANGED <<req, pending, cancels, outOpen, link, back, drained, listed, owner, token, run>>
  BY DEF Forward
<1>2. /\ out' \in Seq(ToHost) /\ m \in ToHost /\ Len(out') = Len(out) - 1
      /\ \A r : In(out, r) <=> In(out', r) \/ (m.kind = "execute" /\ m.request = r)
      /\ Once(out') /\ (m.kind = "execute" => ~ In(out', m.request))
      /\ CancelsTools(out') /\ (m.kind = "cancel" => m.request \in Tools)
  BY <1>0, <1>1, TailIn DEF IInv, Queues
<1>3. m.request \in Requests
  BY <1>2 DEF ToHost
<1>. HIDE DEF m
<1>4. m.kind = "execute" => ~ In(net, m.request)
  BY <1>2, <1>3 DEF IInv, Queues
<1>5. /\ net' \in Seq(ToHost) /\ Len(net') = Len(net) + 1 /\ Once(net') /\ CancelsTools(net')
      /\ \A r : In(net', r) <=> In(net, r) \/ (m.kind = "execute" /\ m.request = r)
  BY <1>0, <1>1, <1>2, <1>4, AppendIn DEF IInv, Queues
<1>6. TypeOK'
  BY <1>0, <1>1, <1>2, <1>5 DEF IInv, TypeOK
<1>7. \A r \in Requests : ~ (In(out', r) /\ In(net', r))
  BY <1>2, <1>5 DEF IInv, Queues
<1>8. Queues'
  BY <1>2, <1>5, <1>7 DEF Queues, Once, In, CancelsTools
<1>9. RepliesAreReal'
  BY <1>1 DEF IInv, RepliesAreReal
<1>10. \A r \in Requests : In(out', r) \/ In(net', r) => In(out, r) \/ In(net, r)
  BY <1>2, <1>5
<1>. QED BY <1>1, <1>6, <1>8, <1>9, <1>10, LinkStep

\* What could not be forwarded is dropped.
LEMMA ForwardFailsStep == ASSUME IInv, ForwardFails PROVE IInv'
<1>1. /\ out' = <<>> /\ outOpen' = FALSE
      /\ UNCHANGED <<req, pending, cancels, link, net, back, drained, listed, owner, token, run>>
  BY DEF ForwardFails
<1>2. /\ out' \in Seq(ToHost) /\ Len(out') = 0 /\ Once(out') /\ CancelsTools(out')
      /\ \A r : ~ In(out', r)
  BY <1>1, EmptyIn
<1>3. TypeOK'
  <2>1. Len(out') <= Channel
    BY <1>2, LinkAssumption
  <2>. QED BY <1>1, <1>2, <2>1 DEF IInv, TypeOK
<1>4. Queues'
  BY <1>1, <1>2 DEF IInv, Queues, Once, In, CancelsTools
<1>5. RepliesAreReal'
  BY <1>1 DEF IInv, RepliesAreReal
<1>6. \A r \in Requests : In(out', r) \/ In(net', r) => In(out, r) \/ In(net, r)
  BY <1>1, <1>2
<1>. QED BY <1>1, <1>3, <1>4, <1>5, <1>6, LinkStep

\* The link breaks, and what was under way is cut.
LEMMA LinkBreaksStep == ASSUME IInv, LinkBreaks PROVE IInv'
<1>0. net \in Seq(ToHost) /\ back \in Seq(FromHost) /\ Len(net) \in Nat /\ Len(net) <= Channel
      /\ Channel \in Nat
  BY Types
<1>1. /\ UNCHANGED <<req, pending, cancels, out, outOpen, drained, listed, owner, token, run>>
      /\ link' = FALSE
  BY DEF LinkBreaks
<1>2. /\ net' \in Seq(ToHost) /\ Len(net') <= Channel /\ Once(net') /\ CancelsTools(net')
      /\ \A r : In(net', r) => In(net, r)
  <2>1. PICK n \in 0 .. Len(net) : net' = SubSeq(net, 1, n)
    BY DEF LinkBreaks
  <2>. QED BY <1>0, <2>1, PrefixIn DEF IInv, Queues
<1>3. back' \in Seq(FromHost) /\ \A i \in DOMAIN back' : i \in DOMAIN back /\ back'[i] = back[i]
  <2>1. PICK n \in 0 .. Len(back) : back' = SubSeq(back, 1, n)
    BY DEF LinkBreaks
  <2>. QED BY <1>0, <2>1, PrefixIn
<1>4. TypeOK'
  BY <1>1, <1>2, <1>3 DEF IInv, TypeOK
<1>5. Queues'
  BY <1>1, <1>2 DEF IInv, Queues, Once, In, CancelsTools
<1>6. RepliesAreReal'
  BY <1>1, <1>3 DEF IInv, RepliesAreReal
<1>7. \A r \in Requests : In(out', r) \/ In(net', r) => In(out, r) \/ In(net, r)
  BY <1>1, <1>2
<1>. QED BY <1>1, <1>4, <1>5, <1>6, <1>7, LinkStep

\* The connection is no longer listed.
LEMMA UnlistStep == ASSUME IInv, Unlist PROVE IInv'
<1>1. /\ UNCHANGED <<req, pending, cancels, out, outOpen, link, net, back, drained, owner, token, run>>
      /\ listed' = FALSE
  BY DEF Unlist
<1>2. TypeOK' /\ RepliesAreReal' /\ Queues'
  BY <1>1 DEF IInv, TypeOK, RepliesAreReal, Queues, Once, In, CancelsTools
<1>3. \A r \in Requests : In(out', r) \/ In(net', r) => In(out, r) \/ In(net, r)
  BY <1>1
<1>. QED BY <1>1, <1>2, <1>3, LinkStep

\* The replies that are left after the first.
LEMMA RestOfReplies ==
  ASSUME IInv, back # <<>>
  PROVE  /\ Tail(back) \in Seq(FromHost) /\ Head(back) \in FromHost
         /\ run[Head(back).request] = "finished"
         /\ \A i \in DOMAIN Tail(back) : run[Tail(back)[i].request] = "finished"
<1>1. back \in Seq(FromHost)
  BY Types
<1>2. /\ Tail(back) \in Seq(FromHost) /\ Head(back) \in FromHost
      /\ 1 \in DOMAIN back /\ Head(back) = back[1]
      /\ \A i \in DOMAIN Tail(back) : i + 1 \in DOMAIN back /\ Tail(back)[i] = back[i + 1]
  BY <1>1
<1>. QED BY <1>2 DEF IInv, RepliesAreReal

\* A reply reaches its caller, if the caller is still there.
LEMMA DeliverStep == ASSUME IInv, Deliver PROVE IInv'
<1>. DEFINE m == Head(back)
<1>0. req \in [Requests -> Caller]
  BY Types
<1>1. /\ back' = Tail(back) /\ back # <<>> /\ pending' = pending \ {m.request}
      /\ req' = IF m.request \in pending THEN [req EXCEPT ![m.request].reply = m.kind] ELSE req
      /\ UNCHANGED <<cancels, out, outOpen, link, net, drained, listed, owner, token, run>>
  BY DEF Deliver
<1>2. /\ back' \in Seq(FromHost) /\ m.request \in Requests /\ m.kind \in {"ok", "failed"}
      /\ run[m.request] = "finished" /\ RepliesAreReal'
  BY <1>1, RestOfReplies DEF RepliesAreReal, FromHost
<1>. HIDE DEF m
<1>3. Queues'
  BY <1>1 DEF IInv, Queues, Once, In, CancelsTools
<1>4. CASE m.request \notin pending
  <2>1. UNCHANGED <<req, pending>>
    BY <1>1, <1>4
  <2>2. TypeOK'
    BY <1>1, <1>2, <2>1 DEF IInv, TypeOK
  <2>. QED BY <1>1, <1>2, <1>3, <2>1, <2>2, LinkStep
<1>5. CASE m.request \in pending
  <2>0. PICK r \in Requests : r = m.request
    BY <1>2
  <2>. DEFINE rest == <<out, net, run>>
  <2>1. /\ req[r] \in Caller /\ req[r].pc \in {"send", "wait"} /\ req[r].reply = "none"
        /\ m.kind \in {"ok", "failed"} /\ r \in pending
    BY <1>0, <1>2, <1>5, <2>0 DEF IInv, PendingIsExact, InFlight
  <2>2. PICK c \in Caller : /\ c = [req[r] EXCEPT !.reply = m.kind] /\ c.reply = m.kind
                            /\ c.pc = req[r].pc /\ c.result = req[r].result
    <3>1. \A k \in Caller, x \in {"ok", "failed"} :
            LET d == [k EXCEPT !.reply = x]
            IN  d \in Caller /\ d.reply = x /\ d.pc = k.pc /\ d.result = k.result
      BY DEF Caller
    <3>2. LET d == [req[r] EXCEPT !.reply = m.kind]
          IN  d \in Caller /\ d.reply = m.kind /\ d.pc = req[r].pc /\ d.result = req[r].result
      BY <2>1, <3>1 DEF Caller
    <3>. QED BY <3>2
  <2>3. req' = [req EXCEPT ![r] = c]
    BY <1>0, <1>1, <2>0, <2>1, <2>2 DEF Caller
  <2>4. /\ req' \in [Requests -> Caller] /\ req'[r] = c
        /\ \A s \in Requests \ {r} : req'[s] = req[s]
    BY <1>0, <2>3
  <2>5. UNCHANGED rest /\ run[r] = "finished" /\ pending' = pending \ {r}
    BY <1>1, <1>2, <2>0
  <2>6. TypeOK'
    BY <1>1, <1>2, <2>4 DEF IInv, TypeOK
  <2>7. PendingIsExact'
    BY ZenonT(60), <2>1, <2>2, <2>4, <2>5 DEF IInv, PendingIsExact, InFlight
  <2>8. Begins(r)' /\ Learns(r)'
    BY ZenonT(60), <2>1, <2>2, <2>4, <2>5 DEF IInv, Begins, Learns, In
  <2>9. \A s \in Requests \ {r} : Begins(s)' /\ Learns(s)'
    BY <2>4, <2>5, Untouched DEF In
  <2>. QED BY <1>2, <1>3, <2>6, <2>7, <2>8, <2>9 DEF IInv
<1>. QED BY <1>4, <1>5

\* Everything in the table fails, and a request that enters it later waits for
\* its timeout.
LEMMA DrainStep == ASSUME IInv, Drain PROVE IInv'
<1>0. req \in [Requests -> Caller] /\ pending \subseteq Requests
  BY Types
<1>1. /\ pending' = {}
      /\ req' = [r \in Requests |-> IF r \in pending
                                    THEN [req[r] EXCEPT !.reply = "disconnected"] ELSE req[r]]
      /\ UNCHANGED <<cancels, out, outOpen, link, net, back, listed, owner, token, run>>
      /\ drained' = TRUE
  BY DEF Drain
<1>2. /\ req' \in [Requests -> Caller]
      /\ \A r \in Requests : /\ req'[r].pc = req[r].pc /\ req'[r].result = req[r].result
                             /\ r \in pending => req'[r].reply = "disconnected"
                             /\ r \notin pending => req'[r] = req[r]
  BY <1>0, <1>1, ReplyChanges
<1>3. TypeOK'
  BY <1>1, <1>2 DEF IInv, TypeOK
<1>4. PendingIsExact'
  BY <1>1, <1>2 DEF IInv, PendingIsExact, InFlight
<1>5. Queues' /\ RepliesAreReal'
  BY <1>1 DEF IInv, Queues, Once, In, CancelsTools, RepliesAreReal
<1>. DEFINE rest == <<out, net, run>>
<1>8. UNCHANGED rest
  BY <1>1
<1>6. \A r \in Requests : Begins(r)'
  BY <1>2, <1>8 DEF IInv, Begins, In
<1>7. \A r \in Requests : Learns(r)'
  BY <1>0, <1>2, <1>8 DEF IInv, Learns, PendingIsExact, InFlight
<1>. QED BY <1>3, <1>4, <1>5, <1>6, <1>7 DEF IInv
--------------------
(* Steps of the Host.                                                      *)

\* The Host begins a request that was on its way, or ends one.
LEMMA WorkStep ==
  ASSUME IInv, NEW r \in Requests, UNCHANGED <<req, pending, cancels, out>>, TypeOK', Queues',
         \/ run' = [run EXCEPT ![r] = "running"] /\ run[r] = "none"
         \/ run' = [run EXCEPT ![r] = "finished"],
         ~ In(out', r) /\ ~ In(net', r), In(net, r) \/ run[r] = "running",
         \A s \in Requests : In(net', s) => In(net, s),
         \A i \in DOMAIN back' : \/ back'[i].request = r /\ run'[r] = "finished"
                                 \/ \E j \in DOMAIN back : back'[i] = back[j]
  PROVE  IInv'
<1>0. /\ run \in [Requests -> {"none", "running", "finished"}] /\ back \in Seq(FromHost)
      /\ \A j \in DOMAIN back : back[j].request \in Requests
  <2>1. back \in Seq(FromHost) /\ \A j \in DOMAIN back : back[j] \in FromHost
    BY Types
  <2>2. \A m \in FromHost : m.request \in Requests
    BY DEF FromHost
  <2>. QED BY <2>1, <2>2, Types
<1>1. \A s \in Requests \ {r} : run'[s] = run[s]
  BY <1>0
<1>2. run'[r] \in {"running", "finished"} /\ (run[r] = "finished" => run'[r] = "finished")
  BY <1>0
<1>3. PendingIsExact'
  BY DEF IInv, PendingIsExact, InFlight
<1>4. RepliesAreReal'
  <2>. SUFFICES ASSUME NEW i \in DOMAIN back'
                PROVE  run'[back'[i].request] = "finished"
    BY DEF RepliesAreReal
  <2>1. ASSUME NEW j \in DOMAIN back, back'[i] = back[j]
        PROVE  run'[back'[i].request] = "finished"
    BY <1>0, <1>1, <1>2, <2>1 DEF IInv, RepliesAreReal
  <2>. QED BY <2>1
<1>5. Begins(r)' /\ Learns(r)'
  <2>1. /\ req[r].pc \notin {"idle", "send"} /\ req[r].result # "not sent"
        /\ req'[r] = req[r]
    BY DEF IInv, Begins
  <2>2. Begins(r)'
    BY <2>1 DEF Begins, In
  <2>3. Learns(r)'
    BY <1>2, <2>1 DEF IInv, Learns
  <2>. QED BY <2>2, <2>3
<1>6. \A s \in Requests \ {r} : Begins(s)' /\ Learns(s)'
  BY <1>1, Untouched DEF In
<1>. QED BY <1>3, <1>4, <1>5, <1>6 DEF IInv

\* A reply is sent, or the link is gone.
LEMMA RepliesDoes ==
  ASSUME IInv, NEW r \in Requests, NEW kind \in {"ok", "failed"}, Replies(kind, r)
  PROVE  /\ back' \in Seq(FromHost)
         /\ \A i \in DOMAIN back' : \/ back'[i].request = r
                                    \/ \E j \in DOMAIN back : back'[i] = back[j]
<1>. DEFINE m == Message(kind, r)
<1>0. back \in Seq(FromHost)
  BY Types
<1>1. m \in FromHost /\ m.request = r
  BY DEF Message, FromHost
<1>2. CASE back' = Append(back, m)
  <2>. HIDE DEF m
  <2>1. /\ back' \in Seq(FromHost)
        /\ \A i \in DOMAIN back' : i \in DOMAIN back \/ back'[i] = m
        /\ \A i \in DOMAIN back : back'[i] = back[i]
    BY <1>0, <1>1, <1>2
  <2>. QED BY <1>1, <2>1
<1>3. CASE back' = back
  BY <1>0, <1>3
<1>. QED BY <1>2, <1>3 DEF Replies

\* The message that is received leaves its queue.
LEMMA Received ==
  ASSUME IInv, net # <<>>, net' = Tail(net), UNCHANGED out
  PROVE  /\ net' \in Seq(ToHost) /\ Len(net') <= Channel /\ Queues'
         /\ Head(net) \in ToHost
         /\ \A s \in Requests : In(net', s) => In(net, s)
         /\ Head(net).kind = "execute" =>
              /\ In(net, Head(net).request)
              /\ ~ In(net', Head(net).request) /\ ~ In(out', Head(net).request)
         /\ Head(net).kind = "cancel" => Head(net).request \in Tools
<1>0. /\ net \in Seq(ToHost) /\ Len(net) \in Nat /\ Len(net) <= Channel /\ Channel \in Nat
  BY Types
<1>1. /\ net' \in Seq(ToHost) /\ Head(net) \in ToHost /\ Len(net') = Len(net) - 1
      /\ \A r : In(net, r) <=> In(net', r) \/ (Head(net).kind = "execute" /\ Head(net).request = r)
      /\ Once(net') /\ (Head(net).kind = "execute" => ~ In(net', Head(net).request))
      /\ CancelsTools(net') /\ (Head(net).kind = "cancel" => Head(net).request \in Tools)
  BY <1>0, TailIn DEF IInv, Queues
<1>2. Head(net).request \in Requests
  BY <1>1 DEF ToHost
<1>3. Queues'
  BY <1>1 DEF IInv, Queues, Once, In, CancelsTools
<1>4. Head(net).kind = "execute" => ~ In(out', Head(net).request)
  BY <1>1, <1>2 DEF IInv, Queues
<1>. QED BY <1>0, <1>1, <1>3, <1>4

\* A tool is spawned, or its token cancelled.
LEMMA ReceiveToolStep == ASSUME IInv, ReceiveTool PROVE IInv'
<1>0. /\ token \in [Requests -> {"none", "live", "cancelled"}]
      /\ run \in [Requests -> {"none", "running", "finished"}]
  BY Types
<1>1. /\ net # <<>> /\ net' = Tail(net) /\ Head(net).request \in Tools
      /\ UNCHANGED <<req, pending, cancels, out, outOpen, drained, listed, link, back, owner>>
  BY DEF ReceiveTool, hubVars
<1>2. PICK m \in ToHost : m = Head(net)
  BY <1>1, Received
<1>3. PICK r \in Requests : r = m.request
  BY <1>2 DEF ToHost
<1>4. /\ net' \in Seq(ToHost) /\ Len(net') <= Channel /\ Queues'
      /\ \A s \in Requests : In(net', s) => In(net, s)
      /\ m.kind = "execute" => In(net, r) /\ ~ In(net', r) /\ ~ In(out', r)
  BY <1>1, <1>2, <1>3, Received
<1>5. CASE m.kind = "execute"
  <2>1. token' = [token EXCEPT ![r] = "live"] /\ run' = [run EXCEPT ![r] = "running"]
    BY <1>2, <1>3, <1>5 DEF ReceiveTool
  <2>2. run[r] = "none"
    BY <1>4, <1>5 DEF IInv, Begins
  <2>3. TypeOK'
    BY <1>0, <1>1, <1>4, <2>1 DEF IInv, TypeOK
  <2>. QED BY <1>1, <1>4, <1>5, <2>1, <2>2, <2>3, WorkStep
<1>6. CASE m.kind # "execute"
  <2>1. token' = [token EXCEPT ![r] = IF @ = "live" THEN "cancelled" ELSE @] /\ UNCHANGED run
    BY <1>2, <1>3, <1>6 DEF ReceiveTool
  <2>2. token' \in [Requests -> {"none", "live", "cancelled"}]
    BY <1>0, <2>1
  <2>3. TypeOK'
    BY <1>1, <1>4, <2>1, <2>2 DEF IInv, TypeOK
  <2>4. PendingIsExact' /\ RepliesAreReal'
    BY <1>1, <2>1 DEF IInv, PendingIsExact, InFlight, RepliesAreReal
  <2>5. \A s \in Requests : Begins(s)' /\ Learns(s)'
    BY <1>1, <1>4, <2>1, Untouched DEF In
  <2>. QED BY <1>4, <2>3, <2>4, <2>5 DEF IInv
<1>. QED BY <1>5, <1>6

\* A control request is handled at once.
LEMMA ReceiveControlStep == ASSUME IInv, ReceiveControl PROVE IInv'
<1>0. run \in [Requests -> {"none", "running", "finished"}]
  BY Types
<1>1. /\ net # <<>> /\ net' = Tail(net) /\ Head(net).request \notin Tools
      /\ UNCHANGED <<req, pending, cancels, out, outOpen, drained, listed, link, owner, token>>
      /\ run' = [run EXCEPT ![Head(net).request] = "finished"]
      /\ \E kind \in {"ok", "failed"} : Replies(kind, Head(net).request)
  BY DEF ReceiveControl, hubVars
<1>2. PICK m \in ToHost : m = Head(net)
  BY <1>1, Received
<1>3. PICK r \in Requests : r = m.request
  BY <1>2 DEF ToHost
<1>4. m.kind = "execute"
  BY <1>1, <1>2, Received DEF ToHost
<1>5. /\ net' \in Seq(ToHost) /\ Len(net') <= Channel /\ Queues'
      /\ \A s \in Requests : In(net', s) => In(net, s)
      /\ In(net, r) /\ ~ In(net', r) /\ ~ In(out', r)
  BY <1>1, <1>2, <1>3, <1>4, Received
<1>6. /\ back' \in Seq(FromHost)
      /\ \A i \in DOMAIN back' : \/ back'[i].request = r
                                 \/ \E j \in DOMAIN back : back'[i] = back[j]
  BY <1>1, <1>2, <1>3, RepliesDoes
<1>7. run' = [run EXCEPT ![r] = "finished"] /\ run'[r] = "finished"
  BY <1>0, <1>1, <1>2, <1>3
<1>8. run' \in [Requests -> {"none", "running", "finished"}]
  BY <1>0, <1>7
<1>9. TypeOK'
  BY <1>1, <1>5, <1>6, <1>8 DEF IInv, TypeOK
<1>. QED BY <1>1, <1>5, <1>6, <1>7, <1>9, WorkStep

\* A tool ends.
LEMMA FinishToolStep == ASSUME IInv, NEW r \in Requests, FinishTool(r) PROVE IInv'
<1>0. /\ run \in [Requests -> {"none", "running", "finished"}]
      /\ token \in [Requests -> {"none", "live", "cancelled"}]
  BY Types
<1>1. /\ run[r] = "running" /\ run' = [run EXCEPT ![r] = "finished"]
      /\ token' = [token EXCEPT ![r] = "none"]
      /\ UNCHANGED <<req, pending, cancels, out, outOpen, drained, listed, link, net, owner>>
  BY DEF FinishTool, hubVars
<1>2. /\ back' \in Seq(FromHost)
      /\ \A i \in DOMAIN back' : \/ back'[i].request = r
                                 \/ \E j \in DOMAIN back : back'[i] = back[j]
  BY RepliesDoes DEF FinishTool
<1>3. run'[r] = "finished" /\ run' \in [Requests -> {"none", "running", "finished"}]
  BY <1>0, <1>1
<1>4. token' \in [Requests -> {"none", "live", "cancelled"}]
  BY <1>0, <1>1
<1>5. TypeOK'
  BY <1>1, <1>2, <1>3, <1>4 DEF IInv, TypeOK
<1>6. Queues'
  BY <1>1 DEF IInv, Queues, Once, In, CancelsTools
<1>7. ~ In(out', r) /\ ~ In(net', r)
  BY <1>1 DEF IInv, Begins
<1>8. \A s \in Requests : In(net', s) => In(net, s)
  BY <1>1
<1>. QED BY <1>1, <1>2, <1>3, <1>5, <1>6, <1>7, <1>8, WorkStep

\* The connection's loop on the Host returns and takes the tokens.
LEMMA HostLosesLinkStep == ASSUME IInv, HostLosesLink PROVE IInv'
<1>0. token \in [Requests -> {"none", "live", "cancelled"}]
  BY Types
<1>1. /\ UNCHANGED <<req, pending, cancels, out, outOpen, drained, listed, link, net, back, run>>
      /\ owner' = FALSE
      /\ token' = [r \in Requests |-> IF token[r] = "live" THEN "cancelled" ELSE token[r]]
  BY DEF HostLosesLink, hubVars
<1>2. token' \in [Requests -> {"none", "live", "cancelled"}]
  BY <1>0, <1>1
<1>3. TypeOK'
  BY <1>1, <1>2 DEF IInv, TypeOK
<1>. DEFINE rest == <<req, pending, out, net, back, run>>
<1>4. UNCHANGED rest
  BY <1>1
<1>5. PendingIsExact' /\ RepliesAreReal' /\ Queues'
  BY <1>4 DEF IInv, PendingIsExact, InFlight, RepliesAreReal, Queues, Once, In, CancelsTools
<1>6. \A s \in Requests : Begins(s)' /\ Learns(s)'
  BY <1>4, Untouched DEF In
<1>. QED BY <1>3, <1>5, <1>6 DEF IInv

--------------------
(* The theorems.                                                           *)

\* Nothing is under way at first.
LEMMA InitialInvariant == ASSUME Init PROVE IInv
<1>. DEFINE idle == [pc |-> "idle", reply |-> "none", result |-> "none"]
<1>1. idle \in Caller /\ idle.pc = "idle" /\ idle.reply = "none" /\ idle.result = "none"
  BY DEF Caller
<1>2. req = [r \in Requests |-> idle]
  BY DEF Init
<1>. HIDE DEF idle
<1>3. req \in [Requests -> Caller] /\ \A r \in Requests : req[r] = idle
  BY <1>1, <1>2
<1>4. /\ out \in Seq(ToHost) /\ net \in Seq(ToHost) /\ back \in Seq(FromHost)
      /\ Len(out) = 0 /\ Len(net) = 0
      /\ Once(out) /\ Once(net) /\ CancelsTools(out) /\ CancelsTools(net)
      /\ (\A r : ~ In(out, r)) /\ (\A r : ~ In(net, r)) /\ DOMAIN back = {}
  BY EmptyIn DEF Init
<1>5. 0 <= Channel
  BY LinkAssumption
<1>6. /\ pending = {} /\ cancels = {} /\ {outOpen, link, drained, listed, owner} \subseteq BOOLEAN
      /\ token \in [Requests -> {"none", "live", "cancelled"}]
      /\ run = [r \in Requests |-> "none"]
  BY DEF Init
<1>7. run \in [Requests -> {"none", "running", "finished"}] /\ \A r \in Requests : run[r] = "none"
  BY <1>6
<1>8. TypeOK
  BY <1>3, <1>4, <1>5, <1>6, <1>7 DEF TypeOK
<1>9. Queues /\ RepliesAreReal
  BY <1>4 DEF Queues, RepliesAreReal
<1>10. PendingIsExact
  BY <1>1, <1>3, <1>6 DEF PendingIsExact, InFlight
<1>11. \A r \in Requests : Begins(r) /\ Learns(r)
  BY <1>1, <1>3, <1>4, <1>7 DEF Begins, Learns
<1>. QED BY <1>8, <1>9, <1>10, <1>11 DEF IInv

\* IInv is inductive: one lemma for each action.
LEMMA InvariantStep == ASSUME IInv, [Next]_vars PROVE IInv'
<1>1. CASE UNCHANGED vars
  <2>1. /\ TypeOK' /\ PendingIsExact' /\ RepliesAreReal' /\ Queues'
    BY <1>1 DEF vars, IInv, TypeOK, PendingIsExact, InFlight, RepliesAreReal, Queues, Once, In,
                CancelsTools
  <2>2. \A s \in Requests : Begins(s)' /\ Learns(s)'
    BY <1>1, Untouched DEF In, vars
  <2>. QED BY <2>1, <2>2 DEF IInv
<1>2. CASE Next
  BY <1>2, BeginStep, SendStep, CallerEnds, SendCancelStep, FinishToolStep, ForwardStep,
     ForwardFailsStep, DeliverStep, DrainStep, ReceiveToolStep, ReceiveControlStep,
     HostLosesLinkStep, LinkBreaksStep, UnlistStep DEF Next, CallerStep, HubStep, HostStep
<1>. QED BY <1>1, <1>2

\* The invariant of a link, for a Host that serves it in place and for one that joined.
THEOREM InvariantHolds == Spec => []IInv
<1>1. Init => IInv
  BY InitialInvariant
<1>2. IInv /\ [Next]_vars => IInv'
  BY InvariantStep
<1>. QED BY <1>1, <1>2, PTL DEF Spec

\* Every variable of the link keeps its type, and the channels their bounds.
THEOREM TypeCorrect == Spec => []TypeOK
BY InvariantHolds, PTL DEF IInv

\* request_inner (mews-host/src/connection.rs): what a caller is told is what the Host did.
\* "Not sent" means the Host never begins the request, a definite result that it is over,
\* and no request is executed twice; anything else is reported as uncertain.
THEOREM OutcomesAreReal == Spec => []ReportedOutcomesAreReal
<1>1. IInv => ReportedOutcomesAreReal
  <2>. SUFFICES ASSUME IInv, NEW r \in Requests
                PROVE  /\ req[r].result = "not sent" => run[r] = "none" /\ ~Sent(r)
                       /\ req[r].result = "ok" => run[r] = "finished"
                       /\ req[r].result = "failed" /\ r \in Tools => run[r] = "finished"
                       /\ Sent(r) => run[r] = "none"
    BY DEF ReportedOutcomesAreReal
  <2>1. Sent(r) <=> In(out, r) \/ In(net, r)
    BY SentIn DEF IInv
  <2>2. Begins(r) /\ Learns(r)
    BY DEF IInv
  <2>. QED BY <2>1, <2>2 DEF Begins, Learns
<1>. QED BY <1>1, InvariantHolds, PTL

\* PendingCompletion (mews-host/src/connection.rs): the table holds the requests in flight
\* without a reply and nothing else, whoever ends the request: its reply, its timeout, its
\* caller's drop, or the end of the link.
THEOREM TableIsExact == Spec => []PendingIsExact
BY InvariantHolds, PTL DEF IInv

\* What the run of the links checks of this one, as one invariant.
THEOREM LinkStaysHonest == Spec => []LinkIsHonest
BY TypeCorrect, OutcomesAreReal, TableIsExact, PTL DEF LinkIsHonest

--------------------
(* Chunks over the link (PeerBridge). *)

CONSTANTS
  Peers, Script, Frames, Socket, Queue, Interrupts

VARIABLES
  bridge, outgoing, incoming, held, writing, up, down, route, relayed, delivered

Bridge == INSTANCE PeerBridge

\* What a frame, an assembly and a bridge are.
BridgeAnyFrame == [message : Nat, index : Nat, total : Nat, sequence : Nat]
BridgeAnyChunk == [of : Nat, index : Nat]
BridgeAnyMessage == [message : Nat, chunks : Seq(BridgeAnyChunk), total : Nat]
BridgeAnyBridge == [pc : {"select", "send", "error"}, next : Nat, chunk : Nat, sends : Nat,
              expects : Nat, assembly : BridgeAnyMessage]

BridgeType ==
    /\ bridge \in [Peers -> BridgeAnyBridge]
    /\ outgoing \in [Peers -> Seq(BridgeAnyFrame)] /\ incoming \in [Peers -> Seq(BridgeAnyFrame)]
    /\ up \in [Peers -> Seq(BridgeAnyFrame)] /\ down \in [Peers -> Seq(BridgeAnyFrame)]
    /\ route \in [Peers -> Seq(BridgeAnyFrame)]
    /\ held \in [Peers -> BridgeAnyFrame] /\ writing \in [Peers -> BridgeAnyFrame]
    /\ relayed \in [Peers -> BridgeAnyFrame]
    /\ delivered \in [Peers -> Seq(BridgeAnyMessage)]
    /\ \A p \in Peers : bridge[p].pc = "send" =>
         bridge[p].next <= Len(Script[p]) /\ bridge[p].chunk < Script[p][bridge[p].next]

\* The frames on their way to p, wherever they are.
BridgeWaiting(f) == {f} \ {Bridge!NoFrame}
BridgeUnder(p) ==
    Bridge!ToSet(incoming[p]) \cup BridgeWaiting(held[p]) \cup Bridge!ToSet(down[p]) \cup BridgeWaiting(relayed[p])
      \cup Bridge!ToSet(route[p]) \cup Bridge!ToSet(up[Bridge!Other(p)]) \cup BridgeWaiting(writing[Bridge!Other(p)])
      \cup Bridge!ToSet(outgoing[Bridge!Other(p)])

\* The chunk that follows f is chunk i of message m.
BridgeFollows(f, m, i) ==
    IF f.index + 1 < f.total THEN m = f.message /\ i = f.index + 1
                             ELSE m = f.message + 1 /\ i = 0

\* A frame that q has sent.
BridgeGenuine(q, f) ==
    /\ f.message \in 1..Len(Script[q]) /\ f.total = Script[q][f.message]
    /\ f.index < f.total /\ f.sequence < bridge[q].sends

\* The chunk that q sends next.
BridgeNextChunk(q) == IF bridge[q].pc = "send" THEN bridge[q].chunk ELSE 0

\* The frames on their way to p continue each other, and q continues them.
BridgeSequenced(p) ==
    /\ \A f \in BridgeUnder(p) : BridgeGenuine(Bridge!Other(p), f)
    /\ \A f, g \in BridgeUnder(p) : g.sequence = f.sequence + 1 => BridgeFollows(f, g.message, g.index)
    /\ bridge[Bridge!Other(p)].pc # "error" =>
         \A f \in BridgeUnder(p) : f.sequence + 1 = bridge[Bridge!Other(p)].sends =>
            BridgeFollows(f, bridge[Bridge!Other(p)].next, BridgeNextChunk(Bridge!Other(p)))

\* What p has assembled is the beginning of the message after the last it delivered.
BridgeAssembles(p) ==
    LET a == bridge[p].assembly
        m == Len(delivered[p]) + 1
    IN a # Bridge!NoAssembly =>
         /\ m <= Len(Script[Bridge!Other(p)])
         /\ a.message = m /\ a.total = Script[Bridge!Other(p)][m]
         /\ a.chunks = [i \in 1..Len(a.chunks) |-> [of |-> m, index |-> i - 1]]
         /\ Len(a.chunks) > 0 /\ Len(a.chunks) < a.total

BridgeDelivers(p) ==
    /\ Len(delivered[p]) <= Len(Script[Bridge!Other(p)])
    /\ \A m \in 1..Len(delivered[p]) : delivered[p][m] = Bridge!Whole(m, Script[Bridge!Other(p)][m])

\* Chunk i of message m is one that p can take next, or it cannot be taken at all.
BridgeExpected(p, m, i) ==
    IF bridge[p].assembly # Bridge!NoAssembly
    THEN m = bridge[p].assembly.message /\ i = Len(bridge[p].assembly.chunks)
    ELSE i = 0 => m = Len(delivered[p]) + 1

BridgeExpects(p) ==
    /\ bridge[p].expects <= bridge[Bridge!Other(p)].sends
    /\ bridge[p].pc # "error" =>
         /\ \A g \in BridgeUnder(p) : g.sequence = bridge[p].expects => BridgeExpected(p, g.message, g.index)
         /\ (bridge[Bridge!Other(p)].pc # "error" /\ bridge[p].expects = bridge[Bridge!Other(p)].sends)
              => BridgeExpected(p, bridge[Bridge!Other(p)].next, BridgeNextChunk(Bridge!Other(p)))

BridgeLinkInv(p) == BridgeSequenced(p) /\ BridgeAssembles(p) /\ BridgeDelivers(p) /\ BridgeExpects(p)

BridgeIInv == Bridge!TypeOK /\ BridgeType /\ \A p \in Peers : BridgeLinkInv(p)


--------------------
\* There are two ends, and each is the other of the other.
LEMMA BridgeTwoEnds ==
  ASSUME Bridge!BridgeAssumption, NEW p \in Peers
  PROVE  /\ Bridge!Other(p) \in Peers /\ Bridge!Other(p) # p /\ Bridge!Other(Bridge!Other(p)) = p
         /\ \A q \in Peers : q = p \/ q = Bridge!Other(p)
<1>1. PICK a, b \in Peers : a # b /\ Peers = {a, b}
  BY DEF Bridge!BridgeAssumption
<1>2. Bridge!Other(p) \in Peers /\ Bridge!Other(p) # p
  <2>1. \E q \in Peers : q # p
    BY <1>1
  <2>. QED BY <2>1 DEF Bridge!Other
<1>3. Bridge!Other(Bridge!Other(p)) \in Peers /\ Bridge!Other(Bridge!Other(p)) # Bridge!Other(p)
  <2>1. \E q \in Peers : q # Bridge!Other(p)
    BY <1>1
  <2>. QED BY <2>1 DEF Bridge!Other
<1>. QED BY <1>1, <1>2, <1>3

\* The messages of an end, and the number of chunks of each.
LEMMA BridgeScripts ==
  ASSUME Bridge!BridgeAssumption, NEW p \in Peers
  PROVE  /\ Script[p] \in Seq(1..6) /\ Len(Script[p]) \in Nat
         /\ \A m \in 1..Len(Script[p]) : Script[p][m] \in 1..6
  BY DEF Bridge!BridgeAssumption

\* The channels have room for something.
LEMMA BridgeCapacities ==
  ASSUME Bridge!BridgeAssumption
  PROVE  Frames \in Nat \ {0} /\ Socket \in Nat \ {0} /\ Queue \in Nat \ {0}
  BY DEF Bridge!BridgeAssumption

\* A frame at the end of a queue.
LEMMA BridgeAppendSet ==
  ASSUME NEW S, NEW q \in Seq(S), NEW f \in S
  PROVE  /\ Append(q, f) \in Seq(S) /\ Len(Append(q, f)) = Len(q) + 1
         /\ Bridge!ToSet(Append(q, f)) = Bridge!ToSet(q) \cup {f}
<1>. DEFINE r == Append(q, f)
<1>1. /\ r \in Seq(S) /\ Len(r) = Len(q) + 1 /\ Len(q) \in Nat
      /\ DOMAIN q = 1..Len(q) /\ DOMAIN r = 1..(Len(q) + 1)
      /\ \A i \in DOMAIN q : r[i] = q[i]
      /\ r[Len(q) + 1] = f
  OBVIOUS
<1>. HIDE DEF r
<1>2. Bridge!ToSet(r) = Bridge!ToSet(q) \cup {f}
  <2>1. ASSUME NEW x \in Bridge!ToSet(r) PROVE x \in Bridge!ToSet(q) \cup {f}
    <3>1. PICK i \in DOMAIN r : x = r[i]
      BY <2>1 DEF Bridge!ToSet
    <3>. QED BY <1>1, <3>1 DEF Bridge!ToSet
  <2>2. ASSUME NEW x \in Bridge!ToSet(q) \cup {f} PROVE x \in Bridge!ToSet(r)
    <3>1. CASE x = f BY <1>1, <3>1 DEF Bridge!ToSet
    <3>2. CASE x \in Bridge!ToSet(q)
      <4>1. PICK i \in DOMAIN q : x = q[i]
        BY <3>2 DEF Bridge!ToSet
      <4>2. i \in DOMAIN r /\ r[i] = x
        BY <1>1, <4>1
      <4>. QED BY <4>2 DEF Bridge!ToSet
    <3>. QED BY <2>2, <3>1, <3>2
  <2>. QED BY <2>1, <2>2
<1>. QED BY <1>1, <1>2 DEF r

\* The frame at the head of a queue, and the rest.
LEMMA BridgeTailSet ==
  ASSUME NEW S, NEW q \in Seq(S), q # <<>>
  PROVE  /\ Head(q) \in S /\ Tail(q) \in Seq(S) /\ Len(q) > 0 /\ Len(Tail(q)) = Len(q) - 1
         /\ Head(q) \in Bridge!ToSet(q) /\ Bridge!ToSet(Tail(q)) \subseteq Bridge!ToSet(q)
<1>. DEFINE r == Tail(q)
<1>1. /\ r \in Seq(S) /\ Head(q) \in S /\ Len(r) = Len(q) - 1 /\ Len(q) \in Nat \ {0}
      /\ DOMAIN q = 1..Len(q) /\ DOMAIN r = 1..(Len(q) - 1) /\ Head(q) = q[1]
      /\ \A i \in DOMAIN r : i + 1 \in DOMAIN q /\ r[i] = q[i + 1]
      /\ 1 \in DOMAIN q
  OBVIOUS
<1>. HIDE DEF r
<1>2. Bridge!ToSet(r) \subseteq Bridge!ToSet(q)
  BY <1>1 DEF Bridge!ToSet
<1>3. Head(q) \in Bridge!ToSet(q)
  BY <1>1 DEF Bridge!ToSet
<1>. QED BY <1>1, <1>2, <1>3 DEF r

--------------------
\* The network only moves frames on, or ends a link.
LEMMA BridgeMovesKeep ==
  ASSUME Bridge!BridgeAssumption, BridgeType, \A p \in Peers : BridgeLinkInv(p),
         \A p \in Peers : BridgeUnder(p)' \subseteq BridgeUnder(p),
         \A p \in Peers : bridge'[p] = bridge[p] \/ bridge'[p] = [bridge[p] EXCEPT !.pc = "error"],
         UNCHANGED delivered
  PROVE  \A p \in Peers : BridgeLinkInv(p)'
<1>1. SUFFICES ASSUME NEW p \in Peers PROVE BridgeLinkInv(p)'
  OBVIOUS
<1>. DEFINE q == Bridge!Other(p)
<1>2. q \in Peers BY <1>1, BridgeTwoEnds
<1>. HIDE DEF q
<1>3. \A r \in Peers : /\ bridge'[r].next = bridge[r].next /\ bridge'[r].sends = bridge[r].sends
                       /\ bridge'[r].expects = bridge[r].expects
                       /\ bridge'[r].assembly = bridge[r].assembly
                       /\ bridge'[r].pc # "error" => bridge'[r] = bridge[r]
  <2>1. TAKE r \in Peers
  <2>2. bridge[r] \in BridgeAnyBridge BY DEF BridgeType
  <2>3. CASE bridge'[r] = bridge[r] BY <2>3
  <2>4. CASE bridge'[r] = [bridge[r] EXCEPT !.pc = "error"]  BY <2>2, <2>4 DEF BridgeAnyBridge
  <2>. QED BY <2>3, <2>4
<1>4. \A r \in Peers : bridge'[r].pc # "error" => bridge[r].pc # "error" /\ BridgeNextChunk(r)' = BridgeNextChunk(r)
  BY <1>3 DEF BridgeNextChunk
<1>5. BridgeSequenced(p)'
  <2>1. BridgeSequenced(p) BY <1>1 DEF BridgeLinkInv
  <2>2. \A f \in BridgeUnder(p)' : f \in BridgeUnder(p) BY <1>1
  <2>3. \A f \in BridgeUnder(p)' : BridgeGenuine(q, f)'
    BY <2>1, <2>2, <1>2, <1>3 DEF BridgeSequenced, BridgeGenuine, q
  <2>4. \A f, g \in BridgeUnder(p)' : g.sequence = f.sequence + 1 => BridgeFollows(f, g.message, g.index)
    BY <2>1, <2>2 DEF BridgeSequenced
  <2>5. ASSUME bridge'[q].pc # "error", NEW f \in BridgeUnder(p)', f.sequence + 1 = bridge'[q].sends
        PROVE  BridgeFollows(f, bridge'[q].next, BridgeNextChunk(q)')
    BY <2>1, <2>2, <2>5, <1>2, <1>3, <1>4 DEF BridgeSequenced, q
  <2>. QED BY <2>3, <2>4, <2>5 DEF BridgeSequenced, BridgeFollows, q
<1>6. BridgeAssembles(p)' /\ BridgeDelivers(p)'
  <2>1. bridge'[p].assembly = bridge[p].assembly /\ BridgeAssembles(p) /\ BridgeDelivers(p)
    BY <1>1, <1>3 DEF BridgeLinkInv
  <2>2. delivered'[p] = delivered[p] BY <1>1
  <2>3. BridgeAssembles(p)' BY <2>1, <2>2 DEF BridgeAssembles, Bridge!NoAssembly, Bridge!Other
  <2>4. BridgeDelivers(p)' BY <2>1, <2>2 DEF BridgeDelivers, Bridge!Other, Bridge!Whole
  <2>. QED BY <2>3, <2>4
<1>7. BridgeExpects(p)'
  <2>1. BridgeExpects(p) BY <1>1 DEF BridgeLinkInv
  <2>2. \A f \in BridgeUnder(p)' : f \in BridgeUnder(p) BY <1>1
  <2>3. \A m, i : BridgeExpected(p, m, i)' <=> BridgeExpected(p, m, i)
    BY <1>1, <1>3 DEF BridgeExpected
  <2>. QED BY <2>1, <2>2, <2>3, <1>1, <1>2, <1>3, <1>4 DEF BridgeExpects, q
<1>. QED BY <1>5, <1>6, <1>7 DEF BridgeLinkInv

--------------------
\* The bridge takes a message to send.
LEMMA BridgeTakeOutboundInv ==
  ASSUME Bridge!BridgeAssumption, BridgeIInv, NEW p \in Peers, Bridge!TakeOutbound(p)
  PROVE  BridgeIInv'
<1>. USE DEF BridgeIInv
<1>0. /\ bridge[p] \in BridgeAnyBridge /\ bridge[p].pc = "select" /\ bridge[p].next <= Len(Script[p])
      /\ bridge' = [bridge EXCEPT ![p] = [bridge[p] EXCEPT !.pc = "send", !.chunk = 0,
                                                           !.assembly = Bridge!NoAssembly]]
      /\ UNCHANGED <<outgoing, incoming, held, writing, up, down, route, relayed, delivered>>
  BY DEF Bridge!TakeOutbound, BridgeType, Bridge!network
<1>1. /\ bridge'[p].pc = "send" /\ bridge'[p].chunk = 0 /\ bridge'[p].next = bridge[p].next
      /\ bridge'[p].sends = bridge[p].sends /\ bridge'[p].expects = bridge[p].expects
      /\ bridge'[p].assembly = Bridge!NoAssembly /\ bridge'[p] \in BridgeAnyBridge
      /\ \A r \in Peers : r # p => bridge'[r] = bridge[r]
  <2>1. Bridge!NoAssembly \in BridgeAnyMessage
    BY EmptySeq DEF Bridge!NoAssembly, BridgeAnyMessage
  <2>. QED BY <1>0, <2>1 DEF BridgeType, BridgeAnyBridge
<1>2. Bridge!TypeOK'
  BY <1>0, <1>1 DEF Bridge!TypeOK
<1>3. BridgeType'
  <2>1. Script[p][bridge[p].next] \in 1..6
    BY <1>0, BridgeScripts DEF BridgeType, BridgeAnyBridge, Bridge!TypeOK
  <2>2. 0 < Script[p][bridge[p].next] BY <2>1
  <2>. QED BY <1>0, <1>1, <2>2 DEF BridgeType
<1>4. \A r \in Peers : BridgeUnder(r)' = BridgeUnder(r)
  BY <1>0 DEF BridgeUnder
<1>5. \A r \in Peers : BridgeNextChunk(r)' = BridgeNextChunk(r)
  BY <1>0, <1>1 DEF BridgeNextChunk
<1>6. ASSUME NEW r \in Peers PROVE BridgeLinkInv(r)'
  <2>1. BridgeLinkInv(r) /\ Bridge!Other(r) \in Peers /\ Bridge!Other(r) # r BY BridgeTwoEnds
  <2>2. /\ bridge'[Bridge!Other(r)].next = bridge[Bridge!Other(r)].next
        /\ bridge'[Bridge!Other(r)].sends = bridge[Bridge!Other(r)].sends
        /\ (bridge'[Bridge!Other(r)].pc # "error") <=> (bridge[Bridge!Other(r)].pc # "error")
        /\ BridgeNextChunk(Bridge!Other(r))' = BridgeNextChunk(Bridge!Other(r))
        /\ bridge'[r].expects = bridge[r].expects
        /\ (bridge'[r].pc # "error") <=> (bridge[r].pc # "error")
        /\ bridge'[r].assembly \in {Bridge!NoAssembly, bridge[r].assembly}
    BY <1>0, <1>1, <1>5, <2>1
  <2>3. BridgeSequenced(r)'
    BY <2>1, <2>2, <1>4 DEF BridgeLinkInv, BridgeSequenced, BridgeGenuine, BridgeFollows
  <2>4. BridgeAssembles(r)' /\ BridgeDelivers(r)'
    BY <2>1, <2>2, <1>0 DEF BridgeLinkInv, BridgeAssembles, BridgeDelivers
  <2>5. \A m, i : BridgeExpected(r, m, i) => BridgeExpected(r, m, i)'
    BY <2>1, <2>2, <1>0 DEF BridgeLinkInv, BridgeAssembles, BridgeExpected
  <2>6. BridgeExpects(r)'
    BY <2>1, <2>2, <2>5, <1>4 DEF BridgeLinkInv, BridgeExpects
  <2>. QED BY <2>3, <2>4, <2>6 DEF BridgeLinkInv
<1>. QED BY <1>2, <1>3, <1>6

\* The bridge sends the next chunk of its message.
LEMMA BridgeSendChunkInv ==
  ASSUME Bridge!BridgeAssumption, BridgeIInv, NEW p \in Peers, Bridge!SendChunk(p)
  PROVE  BridgeIInv'
<1>. USE DEF BridgeIInv
<1>. DEFINE total == Script[p][bridge[p].next]
            frame == [message |-> bridge[p].next, index |-> bridge[p].chunk,
                      total |-> total, sequence |-> bridge[p].sends]
            last == bridge[p].chunk + 1 = total
<1>0. /\ bridge[p] \in BridgeAnyBridge /\ bridge[p].pc = "send" /\ Len(outgoing[p]) < Frames
      /\ bridge[p].next \in 1..Len(Script[p]) /\ bridge[p].chunk < total /\ total \in 1..6
  <2>1. bridge[p] \in BridgeAnyBridge /\ bridge[p].pc = "send" /\ Len(outgoing[p]) < Frames
    BY DEF Bridge!SendChunk, BridgeType
  <2>2. bridge[p].next \in 1..Len(Script[p]) /\ bridge[p].chunk < total
    BY <2>1, BridgeScripts DEF BridgeType, BridgeAnyBridge, Bridge!TypeOK
  <2>. QED BY <2>1, <2>2, BridgeScripts
<1>f. frame \in BridgeAnyFrame
  BY <1>0 DEF BridgeAnyFrame, BridgeAnyBridge
<1>g. PICK f \in BridgeAnyFrame : f = frame
  BY <1>f
<1>1. /\ f \in BridgeAnyFrame
      /\ outgoing' = [outgoing EXCEPT ![p] = Append(outgoing[p], f)]
      /\ UNCHANGED <<incoming, held, writing, up, down, route, relayed, delivered>>
  BY <1>0, <1>g DEF Bridge!SendChunk, Bridge!network
<1>2. /\ bridge'[p] \in BridgeAnyBridge
      /\ bridge'[p].chunk = bridge[p].chunk + 1 /\ bridge'[p].sends = bridge[p].sends + 1
      /\ bridge'[p].pc = (IF last THEN "select" ELSE "send")
      /\ bridge'[p].next = (IF last THEN bridge[p].next + 1 ELSE bridge[p].next)
      /\ bridge'[p].expects = bridge[p].expects /\ bridge'[p].assembly = bridge[p].assembly
      /\ \A r \in Peers : r # p => bridge'[r] = bridge[r]
      /\ bridge' \in [Peers -> BridgeAnyBridge]
  BY <1>0 DEF Bridge!SendChunk, BridgeType, BridgeAnyBridge
<1>3. /\ f.message = bridge[p].next /\ f.index = bridge[p].chunk /\ f.total = total
      /\ f.sequence = bridge[p].sends
  BY <1>g
<1>n. /\ bridge[p].next \in Nat /\ bridge[p].chunk \in Nat /\ bridge[p].sends \in Nat
      /\ total \in Nat /\ total = Script[p][bridge[p].next] /\ (last <=> bridge[p].chunk + 1 = total)
      /\ Len(Script[p]) \in Nat
  BY <1>0, BridgeScripts DEF BridgeAnyBridge
<1>. HIDE DEF frame, total, last
<1>4. outgoing[p] \in Seq(BridgeAnyFrame) /\ outgoing'[p] = Append(outgoing[p], f)
      /\ outgoing' \in [Peers -> Seq(BridgeAnyFrame)] /\ Bridge!ToSet(outgoing'[p]) = Bridge!ToSet(outgoing[p]) \cup {f}
      /\ Len(outgoing'[p]) = Len(outgoing[p]) + 1 /\ Len(outgoing[p]) \in Nat
      /\ \A r \in Peers : r # p => outgoing'[r] = outgoing[r]
  BY <1>1, BridgeAppendSet DEF BridgeType
<1>5. Bridge!TypeOK'
  <2>1. bridge'[p].pc \in {"select", "send", "error"} /\ bridge'[p].next \in 1..(Len(Script[p]) + 1)
    BY <1>0, <1>2, <1>n
  <2>2. Len(outgoing'[p]) \in 0..Frames
    BY <1>0, <1>4, BridgeCapacities
  <2>. QED BY <2>1, <2>2, <1>1, <1>2, <1>4 DEF Bridge!TypeOK
<1>6. BridgeType'
  <2>1. bridge'[p].pc = "send" =>
          bridge'[p].next <= Len(Script[p]) /\ bridge'[p].chunk < Script[p][bridge'[p].next]
    BY <1>0, <1>2, <1>n
  <2>. QED BY <2>1, <1>1, <1>2, <1>4 DEF BridgeType
<1>7. /\ BridgeUnder(Bridge!Other(p))' = BridgeUnder(Bridge!Other(p)) \cup {f}
      /\ BridgeUnder(p)' = BridgeUnder(p)
  <2>1. Bridge!Other(p) \in Peers /\ Bridge!Other(p) # p /\ Bridge!Other(Bridge!Other(p)) = p
    BY BridgeTwoEnds
  <2>. QED BY <1>1, <1>4, <2>1 DEF BridgeUnder
<1>8. BridgeLinkInv(p)'
  <2>1. BridgeLinkInv(p) /\ Bridge!Other(p) \in Peers /\ Bridge!Other(p) # p BY BridgeTwoEnds
  <2>2. /\ bridge'[Bridge!Other(p)] = bridge[Bridge!Other(p)] /\ BridgeNextChunk(Bridge!Other(p))' = BridgeNextChunk(Bridge!Other(p))
        /\ bridge'[p].pc # "error"
    BY <1>2, <2>1 DEF BridgeNextChunk
  <2>3. BridgeSequenced(p)'
    BY <2>1, <2>2, <1>7 DEF BridgeLinkInv, BridgeSequenced, BridgeGenuine, BridgeFollows
  <2>4. BridgeAssembles(p)' /\ BridgeDelivers(p)'
    BY <2>1, <1>1, <1>2 DEF BridgeLinkInv, BridgeAssembles, BridgeDelivers
  <2>5. \A m, i : BridgeExpected(p, m, i)' <=> BridgeExpected(p, m, i)
    BY <1>1, <1>2 DEF BridgeExpected
  <2>6. BridgeExpects(p)'
    BY <2>1, <2>2, <2>5, <1>0, <1>2, <1>7 DEF BridgeLinkInv, BridgeExpects
  <2>. QED BY <2>3, <2>4, <2>6 DEF BridgeLinkInv
<1>9. BridgeLinkInv(Bridge!Other(p))'
  <2>. DEFINE q == Bridge!Other(p)
  <2>1. BridgeLinkInv(q) /\ q \in Peers /\ q # p /\ Bridge!Other(q) = p BY BridgeTwoEnds
  <2>. HIDE DEF q
  <2>2. /\ bridge'[q] = bridge[q] /\ bridge[p].pc # "error" /\ BridgeNextChunk(p) = bridge[p].chunk
        /\ bridge[q] \in BridgeAnyBridge
    BY <1>0, <1>2, <2>1 DEF BridgeNextChunk, BridgeType
  <2>3. BridgeUnder(q)' = BridgeUnder(q) \cup {f}
    BY <1>7 DEF q
  <2>4. \A g \in BridgeUnder(q)' : BridgeGenuine(p, g)'
    <3>1. \A g \in BridgeUnder(q) : BridgeGenuine(p, g)
      BY <2>1 DEF BridgeLinkInv, BridgeSequenced
    <3>2. \A g \in BridgeUnder(q) : g.sequence < bridge[p].sends + 1
      <4>1. \A g \in BridgeUnder(q) : g \in BridgeAnyFrame
        BY <2>1 DEF BridgeUnder, BridgeType, Bridge!ToSet, BridgeWaiting
      <4>. QED BY <1>0, <3>1, <4>1 DEF BridgeGenuine, BridgeAnyFrame, BridgeAnyBridge
    <3>3. BridgeGenuine(p, f)'
      BY <1>0, <1>2, <1>3, <1>n DEF BridgeGenuine
    <3>4. \A g \in BridgeUnder(q) : BridgeGenuine(p, g)'
      BY <3>1, <3>2, <1>2 DEF BridgeGenuine
    <3>. QED BY <2>3, <3>3, <3>4
  <2>5. BridgeFollows(f, bridge'[p].next, BridgeNextChunk(p)')
    BY <1>0, <1>2, <1>3, <1>n DEF BridgeFollows, BridgeNextChunk
  <2>6. \A g \in BridgeUnder(q) : g \in BridgeAnyFrame /\ g.sequence < bridge[p].sends
    <3>1. \A g \in BridgeUnder(q) : g \in BridgeAnyFrame
      BY <2>1 DEF BridgeUnder, BridgeType, Bridge!ToSet, BridgeWaiting
    <3>. QED BY <2>1, <3>1 DEF BridgeLinkInv, BridgeSequenced, BridgeGenuine
  <2>7. ASSUME NEW g \in BridgeUnder(q)', NEW h \in BridgeUnder(q)', h.sequence = g.sequence + 1
        PROVE  BridgeFollows(g, h.message, h.index)
    <3>1. CASE g \in BridgeUnder(q) /\ h \in BridgeUnder(q)
      BY <2>1, <2>7, <3>1 DEF BridgeLinkInv, BridgeSequenced
    <3>2. CASE g \in BridgeUnder(q) /\ h = f
      <4>1. g.sequence + 1 = bridge[p].sends
        BY <2>7, <3>2, <1>3
      <4>. QED BY <2>1, <2>2, <3>2, <4>1, <1>3 DEF BridgeLinkInv, BridgeSequenced
    <3>3. CASE g = f
      BY <2>3, <2>6, <2>7, <3>3, <1>0, <1>3 DEF BridgeAnyBridge, BridgeAnyFrame
    <3>. QED BY <2>3, <2>7, <3>1, <3>2, <3>3
  <2>8. \A g \in BridgeUnder(q)' : g.sequence + 1 = bridge'[p].sends => g.sequence = bridge[p].sends
    BY <2>3, <2>6, <1>0, <1>2, <1>3 DEF BridgeAnyBridge, BridgeAnyFrame
  <2>9. \A g \in BridgeUnder(q)' : g.sequence + 1 = bridge'[p].sends =>
            BridgeFollows(g, bridge'[p].next, BridgeNextChunk(p)')
    BY <2>3, <2>5, <2>6, <2>8, <1>0 DEF BridgeAnyBridge, BridgeAnyFrame
  <2>10. BridgeSequenced(q)'
    BY <2>1, <2>4, <2>7, <2>9 DEF BridgeSequenced, BridgeFollows
  <2>11. BridgeAssembles(q)' /\ BridgeDelivers(q)'
    BY <2>1, <2>2, <1>1 DEF BridgeLinkInv, BridgeAssembles, BridgeDelivers
  <2>12. \A m, i : BridgeExpected(q, m, i)' <=> BridgeExpected(q, m, i)
    BY <1>1, <2>2 DEF BridgeExpected
  <2>13. BridgeExpects(q)'
    <3>1. BridgeExpects(q) BY <2>1 DEF BridgeLinkInv
    <3>2. bridge[q].expects \in Nat /\ bridge[p].sends \in Nat /\ bridge'[p].sends = bridge[p].sends + 1
      BY <2>2, <1>0, <1>2 DEF BridgeAnyBridge
    <3>3. bridge'[q].expects <= bridge'[p].sends /\ bridge'[q].expects # bridge'[p].sends
      BY <2>1, <2>2, <3>1, <3>2 DEF BridgeExpects
    <3>4. ASSUME bridge[q].pc # "error", NEW g \in BridgeUnder(q)', g.sequence = bridge[q].expects
          PROVE  BridgeExpected(q, g.message, g.index)
      <4>1. CASE g \in BridgeUnder(q)
        BY <3>1, <3>4, <4>1 DEF BridgeExpects
      <4>2. CASE g = f
        BY <3>1, <3>4, <4>2, <2>1, <2>2, <1>3 DEF BridgeExpects
      <4>. QED BY <2>3, <3>4, <4>1, <4>2
    <3>. QED BY <2>1, <2>2, <2>12, <3>3, <3>4 DEF BridgeExpects
  <2>. QED BY <2>10, <2>11, <2>13 DEF BridgeLinkInv, q
<1>. QED BY <1>5, <1>6, <1>8, <1>9, BridgeTwoEnds

\* The bridge takes a frame: it is the next chunk, or the bridge ends.
LEMMA BridgeReceiveChunkInv ==
  ASSUME Bridge!BridgeAssumption, BridgeIInv, NEW p \in Peers, Bridge!ReceiveChunk(p)
  PROVE  BridgeIInv'
<1>. USE DEF BridgeIInv
<1>1. /\ bridge[p] \in BridgeAnyBridge /\ bridge[p].pc = "select" /\ incoming[p] # <<>>
      /\ incoming[p] \in Seq(BridgeAnyFrame)
      /\ incoming' = [incoming EXCEPT ![p] = Tail(incoming[p])]
      /\ UNCHANGED <<outgoing, held, writing, up, down, route, relayed>>
  BY DEF Bridge!ReceiveChunk, BridgeType, Bridge!network
<1>2. PICK f \in BridgeAnyFrame : f = Head(incoming[p])
  BY <1>1, BridgeTailSet
<1>3. PICK a \in BridgeAnyMessage : a = bridge[p].assembly
  BY <1>1 DEF BridgeAnyBridge
<1>4. PICK b \in BridgeAnyMessage :
        b = [message |-> f.message, chunks |-> Append(a.chunks, [of |-> f.message, index |-> f.index]),
             total |-> f.total]
  <2>1. [of |-> f.message, index |-> f.index] \in BridgeAnyChunk
    BY <1>2 DEF BridgeAnyFrame, BridgeAnyChunk
  <2>2. Append(a.chunks, [of |-> f.message, index |-> f.index]) \in Seq(BridgeAnyChunk)
    BY <1>3, <2>1, BridgeAppendSet DEF BridgeAnyMessage
  <2>. QED BY <1>2, <2>2 DEF BridgeAnyMessage, BridgeAnyFrame
<1>5. /\ incoming' \in [Peers -> Seq(BridgeAnyFrame)] /\ Bridge!ToSet(incoming'[p]) \subseteq Bridge!ToSet(incoming[p])
      /\ f \in Bridge!ToSet(incoming[p])
      /\ Len(incoming'[p]) = Len(incoming[p]) - 1 /\ Len(incoming[p]) \in Nat \ {0}
      /\ \A r \in Peers : r # p => incoming'[r] = incoming[r]
  BY <1>1, <1>2, BridgeTailSet DEF BridgeType
<1>6. \A r \in Peers : BridgeUnder(r)' \subseteq BridgeUnder(r)
  <2>1. \A r \in Peers : Bridge!ToSet(incoming'[r]) \subseteq Bridge!ToSet(incoming[r])
    BY <1>5
  <2>. QED BY <1>1, <2>1, BridgeTwoEnds DEF BridgeUnder
<1>7. f \in BridgeUnder(p)
  BY <1>5 DEF BridgeUnder
<1>8. CASE f.sequence # bridge[p].expects \/ ~Bridge!Continues(a, f)
  <2>1. /\ bridge' = [bridge EXCEPT ![p] = [bridge[p] EXCEPT !.pc = "error"]]
        /\ delivered' = delivered
    BY <1>2, <1>3, <1>8 DEF Bridge!ReceiveChunk
  <2>2. \A r \in Peers : bridge'[r] = bridge[r] \/ bridge'[r] = [bridge[r] EXCEPT !.pc = "error"]
    BY <2>1 DEF BridgeType
  <2>3. \A r \in Peers : BridgeLinkInv(r)'
    BY <1>6, <2>1, <2>2, BridgeMovesKeep
  <2>4. bridge' \in [Peers -> BridgeAnyBridge] /\ bridge'[p].pc = "error" /\ bridge'[p].next = bridge[p].next
    BY <1>1, <2>1 DEF BridgeType, BridgeAnyBridge
  <2>5. Bridge!TypeOK'
    BY <1>1, <1>5, <2>1, <2>4, BridgeCapacities DEF Bridge!TypeOK, BridgeType
  <2>6. BridgeType'
    BY <1>1, <1>5, <2>1, <2>4 DEF BridgeType
  <2>. QED BY <2>3, <2>5, <2>6
<1>9. CASE ~(f.sequence # bridge[p].expects \/ ~Bridge!Continues(a, f))
  <2>. DEFINE q == Bridge!Other(p)
              whole == f.index + 1 = f.total
              m == Len(delivered[p]) + 1
  <2>0. /\ f.sequence = bridge[p].expects /\ (a = Bridge!NoAssembly \/ (a.message = f.message /\ a.total = f.total))
        /\ f.index = Len(a.chunks)
    BY <1>9 DEF Bridge!Continues
  <2>1. bridge' = [bridge EXCEPT ![p] = [bridge[p] EXCEPT !.expects = bridge[p].expects + 1,
                      !.assembly = IF whole THEN Bridge!NoAssembly ELSE b]]
    BY <1>1, <1>2, <1>3, <1>4, <1>9 DEF Bridge!ReceiveChunk
  <2>2. delivered' = IF whole THEN [delivered EXCEPT ![p] = Append(delivered[p], b)] ELSE delivered
    BY <1>1, <1>2, <1>3, <1>4, <1>9 DEF Bridge!ReceiveChunk
  <2>3. Bridge!NoAssembly \in BridgeAnyMessage
    BY EmptySeq DEF Bridge!NoAssembly, BridgeAnyMessage
  <2>4. /\ bridge' \in [Peers -> BridgeAnyBridge] /\ bridge'[p].expects = bridge[p].expects + 1
        /\ bridge'[p].assembly = (IF whole THEN Bridge!NoAssembly ELSE b)
        /\ bridge'[p].pc = "select" /\ bridge'[p].next = bridge[p].next
        /\ bridge'[p].chunk = bridge[p].chunk /\ bridge'[p].sends = bridge[p].sends
        /\ \A r \in Peers : r # p => bridge'[r] = bridge[r]
    <3>1. PICK c \in BridgeAnyMessage : c = IF whole THEN Bridge!NoAssembly ELSE b
      BY <2>3
    <3>2. bridge'[p] = [bridge[p] EXCEPT !.expects = bridge[p].expects + 1, !.assembly = c]
      BY <2>1, <3>1 DEF BridgeType
    <3>3. /\ bridge'[p] \in BridgeAnyBridge /\ bridge'[p].expects = bridge[p].expects + 1
          /\ bridge'[p].assembly = c /\ bridge'[p].pc = "select" /\ bridge'[p].next = bridge[p].next
          /\ bridge'[p].chunk = bridge[p].chunk /\ bridge'[p].sends = bridge[p].sends
      <4>1. /\ bridge'[p].expects = bridge[p].expects + 1
            /\ bridge'[p].assembly = c /\ bridge'[p].pc = "select" /\ bridge'[p].next = bridge[p].next
            /\ bridge'[p].chunk = bridge[p].chunk /\ bridge'[p].sends = bridge[p].sends
        BY <1>1, <3>2 DEF BridgeAnyBridge
      <4>2. bridge[p].expects + 1 \in Nat
        BY <1>1 DEF BridgeAnyBridge
      <4>3. bridge'[p] \in BridgeAnyBridge
        BY <1>1, <3>1, <3>2, <4>2 DEF BridgeAnyBridge
      <4>. QED BY <4>1, <4>3
    <3>4. bridge' = [bridge EXCEPT ![p] = bridge'[p]]
      BY <2>1 DEF BridgeType
    <3>. QED BY <3>1, <3>3, <3>4 DEF BridgeType
  <2>5. Bridge!TypeOK'
    BY <1>1, <1>5, <2>4, BridgeCapacities DEF Bridge!TypeOK, BridgeType
  <2>6. /\ delivered' \in [Peers -> Seq(BridgeAnyMessage)] /\ \A r \in Peers : r # p => delivered'[r] = delivered[r]
        /\ delivered'[p] = IF whole THEN Append(delivered[p], b) ELSE delivered[p]
    BY <2>2 DEF BridgeType
  <2>7. BridgeType'
    BY <1>1, <1>5, <2>4, <2>6 DEF BridgeType
  <2>8. q \in Peers /\ q # p /\ Bridge!Other(q) = p /\ bridge'[q] = bridge[q] /\ BridgeLinkInv(p) /\ BridgeLinkInv(q)
        /\ bridge[q] \in BridgeAnyBridge /\ delivered[p] \in Seq(BridgeAnyMessage) /\ Len(delivered[p]) \in Nat
    BY <2>4, BridgeTwoEnds DEF BridgeType
  <2>9. BridgeLinkInv(q)'
    <3>1. BridgeSequenced(q)'
      <4>1. BridgeNextChunk(p)' = BridgeNextChunk(p)
        BY <1>1, <2>4 DEF BridgeNextChunk
      <4>. QED BY <2>4, <2>8, <1>1, <1>6, <4>1 DEF BridgeLinkInv, BridgeSequenced, BridgeGenuine, BridgeFollows
    <3>2. BridgeAssembles(q)' /\ BridgeDelivers(q)'
      BY <2>6, <2>8 DEF BridgeLinkInv, BridgeAssembles, BridgeDelivers
    <3>3. \A n, i : BridgeExpected(q, n, i)' <=> BridgeExpected(q, n, i)
      BY <2>6, <2>8 DEF BridgeExpected
    <3>4. BridgeExpects(q)'
      BY <2>4, <2>8, <3>3, <1>6, <1>1 DEF BridgeLinkInv, BridgeExpects, BridgeNextChunk
    <3>. QED BY <3>1, <3>2, <3>4 DEF BridgeLinkInv
  <2>. HIDE DEF whole, q, m
  <2>10. /\ f.message \in 1..Len(Script[q]) /\ f.total = Script[q][f.message] /\ f.index < f.total
         /\ f.sequence < bridge[q].sends
    BY <1>7, <2>8 DEF BridgeLinkInv, BridgeSequenced, BridgeGenuine, q
  <2>11. BridgeExpected(p, f.message, f.index)
    BY <1>1, <1>7, <2>0, <2>8 DEF BridgeLinkInv, BridgeExpects
  <2>12. /\ f.message = m
         /\ a.chunks = [i \in 1..Len(a.chunks) |-> [of |-> m, index |-> i - 1]]
         /\ Len(a.chunks) \in Nat /\ a.chunks \in Seq(BridgeAnyChunk) /\ m \in Nat
    <3>1. CASE a = Bridge!NoAssembly
      <4>1. a.chunks = <<>> /\ Len(a.chunks) = 0
        BY <3>1 DEF Bridge!NoAssembly
      <4>2. f.message = m
        BY <2>0, <2>11, <3>1, <4>1, <1>3 DEF BridgeExpected, m
      <4>3. <<>> = [i \in 1..0 |-> [of |-> m, index |-> i - 1]]
        OBVIOUS
      <4>. QED BY <4>1, <4>2, <4>3, <2>8 DEF m, BridgeAnyMessage
    <3>2. CASE a # Bridge!NoAssembly
      BY <2>8, <2>11, <3>2, <1>3 DEF BridgeExpected, BridgeLinkInv, BridgeAssembles, m, BridgeAnyMessage
    <3>. QED BY <3>1, <3>2
  <2>13. b.chunks = [i \in 1..Len(b.chunks) |-> [of |-> m, index |-> i - 1]]
         /\ Len(b.chunks) = f.index + 1 /\ b.message = m /\ b.total = Script[q][m]
    <3>. DEFINE c == [of |-> m, index |-> f.index]
                n == Len(a.chunks)
    <3>1. b.chunks = Append(a.chunks, c) /\ b.message = m /\ b.total = Script[q][m] /\ n = f.index
      BY <1>4, <2>0, <2>10, <2>12
    <3>2. c \in BridgeAnyChunk
      BY <2>12 DEF BridgeAnyChunk, BridgeAnyFrame
    <3>3. /\ Len(b.chunks) = n + 1 /\ b.chunks = [i \in 1..(n + 1) |-> b.chunks[i]]
          /\ \A i \in 1..n : b.chunks[i] = a.chunks[i] /\ b.chunks[n + 1] = c
      BY <2>12, <3>1, <3>2
    <3>4. \A i \in 1..(n + 1) : b.chunks[i] = [of |-> m, index |-> i - 1]
      <4>1. TAKE i \in 1..(n + 1)
      <4>2. CASE i \in 1..n
        BY <2>12, <3>3, <4>2
      <4>3. CASE i = n + 1
        <5>1. b.chunks[n + 1] = c
          BY <2>12, <3>1, <3>2
        <5>. QED BY <2>12, <3>1, <4>3, <5>1
      <4>. QED BY <2>12, <4>2, <4>3
    <3>. QED BY <3>1, <3>3, <3>4
  <2>14. m <= Len(Script[q]) /\ Script[q][m] \in 1..6 /\ Len(Script[q]) \in Nat /\ f.index \in Nat
    BY <2>8, <2>10, <2>12, BridgeScripts DEF BridgeAnyFrame
  <2>15. BridgeSequenced(p)'
    <3>1. /\ bridge'[Bridge!Other(p)] = bridge[Bridge!Other(p)] /\ BridgeNextChunk(Bridge!Other(p))' = BridgeNextChunk(Bridge!Other(p))
      BY <2>8 DEF q, BridgeNextChunk
    <3>. QED BY <3>1, <2>8, <1>6 DEF BridgeLinkInv, BridgeSequenced, BridgeGenuine, BridgeFollows
  <2>16. BridgeAssembles(p)' /\ BridgeDelivers(p)'
    <3>1. CASE whole
      <4>1. bridge'[p].assembly = Bridge!NoAssembly /\ delivered'[p] = Append(delivered[p], b)
        BY <2>4, <2>6, <3>1
      <4>2. b = Bridge!Whole(m, Script[q][m])
        <5>1. b.chunks = [i \in 1..Script[q][m] |-> [of |-> m, index |-> i - 1]]
          BY <2>10, <2>12, <2>13, <3>1 DEF whole
        <5>2. b = [message |-> b.message, chunks |-> b.chunks, total |-> b.total]
          BY <1>4
        <5>. QED BY <2>13, <5>1, <5>2 DEF Bridge!Whole
      <4>3. /\ Len(delivered'[p]) = m /\ delivered'[p][m] = b
            /\ \A i \in 1..Len(delivered[p]) : delivered'[p][i] = delivered[p][i]
        BY <4>1, <2>8 DEF m
      <4>4. BridgeDelivers(p) BY <2>8 DEF BridgeLinkInv
      <4>5. Len(delivered'[p]) <= Len(Script[q])
        BY <4>3, <2>14
      <4>6. \A i \in 1..m : delivered'[p][i] = Bridge!Whole(i, Script[q][i])
        <5>1. \A i \in 1..m : i = m \/ i \in 1..Len(delivered[p])
          BY <2>8 DEF m
        <5>. QED BY <4>2, <4>3, <4>4, <5>1 DEF BridgeDelivers, q
      <4>. QED BY <4>1, <4>3, <4>5, <4>6 DEF BridgeAssembles, BridgeDelivers, q, Bridge!Whole
    <3>2. CASE ~whole
      <4>1. bridge'[p].assembly = b /\ delivered'[p] = delivered[p]
        BY <2>4, <2>6, <3>2
      <4>2. BridgeDelivers(p)'
        BY <4>1, <2>8 DEF BridgeLinkInv, BridgeDelivers
      <4>3. Len(b.chunks) > 0 /\ Len(b.chunks) < b.total
        BY <2>10, <2>12, <2>13, <2>14, <3>2 DEF whole
      <4>. QED BY <4>1, <4>2, <4>3, <2>13, <2>14 DEF BridgeAssembles, m, q
    <3>. QED BY <3>1, <3>2
  <2>17. \A n, i : BridgeFollows(f, n, i) => BridgeExpected(p, n, i)'
    <3>1. TAKE n, i
    <3>2. HAVE BridgeFollows(f, n, i)
    <3>3. CASE whole
      <4>1. bridge'[p].assembly = Bridge!NoAssembly /\ delivered'[p] = Append(delivered[p], b)
        BY <2>4, <2>6, <3>3
      <4>2. Len(delivered'[p]) = m
        BY <4>1, <2>8 DEF m
      <4>3. n = m + 1
        BY <3>2, <3>3, <2>10, <2>12, <2>14 DEF BridgeFollows, whole
      <4>. QED BY <4>1, <4>2, <4>3 DEF BridgeExpected
    <3>4. CASE ~whole
      <4>1. bridge'[p].assembly = b
        BY <2>4, <3>4
      <4>2. n = m /\ i = f.index + 1
        BY <3>2, <3>4, <2>10, <2>12, <2>14 DEF BridgeFollows, whole
      <4>3. b # Bridge!NoAssembly
        BY <2>12, <2>13, <2>8 DEF Bridge!NoAssembly, m
      <4>. QED BY <4>1, <4>2, <4>3, <2>13 DEF BridgeExpected
    <3>. QED BY <3>3, <3>4
  <2>18. BridgeExpects(p)'
    <3>1. bridge[p].expects \in Nat /\ bridge[q].sends \in Nat
      BY <1>1, <2>8 DEF BridgeAnyBridge
    <3>2. bridge'[p].expects <= bridge'[q].sends
      BY <2>0, <2>4, <2>8, <2>10, <3>1
    <3>3. ASSUME NEW g \in BridgeUnder(p)', g.sequence = bridge'[p].expects
          PROVE  BridgeFollows(f, g.message, g.index)
      <4>1. g \in BridgeUnder(p) /\ g.sequence = f.sequence + 1
        BY <1>6, <2>0, <2>4, <3>3
      <4>. QED BY <1>7, <2>8, <4>1 DEF BridgeLinkInv, BridgeSequenced
    <3>4. ASSUME bridge[q].pc # "error", bridge'[p].expects = bridge[q].sends
          PROVE  BridgeFollows(f, bridge[q].next, BridgeNextChunk(q))
      BY <1>7, <2>0, <2>4, <2>8, <3>4 DEF BridgeLinkInv, BridgeSequenced, q
    <3>5. BridgeNextChunk(q)' = BridgeNextChunk(q)
      BY <2>8 DEF BridgeNextChunk
    <3>. QED BY <2>8, <2>17, <3>2, <3>3, <3>4, <3>5 DEF BridgeExpects, q
  <2>. QED BY <2>5, <2>7, <2>8, <2>9, <2>15, <2>16, <2>18, BridgeTwoEnds DEF BridgeLinkInv, q
<1>. QED BY <1>8, <1>9

\* The network moves a frame on: TypeOK and the type are kept, and so is the rest.
LEMMA BridgeNetworkInv ==
  ASSUME Bridge!BridgeAssumption, BridgeIInv, NEW p \in Peers,
         Bridge!NetworkStep(p) \/ Bridge!RelayTakes(p) \/ Bridge!RelayWrites(p)
  PROVE  BridgeIInv'
<1>. USE DEF BridgeIInv
<1>0. /\ Bridge!NoFrame \in BridgeAnyFrame /\ bridge' = bridge /\ delivered' = delivered
      /\ Bridge!Other(p) \in Peers /\ Bridge!Other(Bridge!Other(p)) = p /\ Bridge!Other(p) # p
      /\ \A r \in Peers : r = p \/ r = Bridge!Other(p)
  BY BridgeTwoEnds DEF Bridge!NoFrame, BridgeAnyFrame, Bridge!NetworkStep, Bridge!TakeOutgoing, Bridge!WriteSocket, Bridge!ReadSocket, Bridge!HandOver,
         Bridge!RelayTakes, Bridge!RelayWrites
<1>1. SUFFICES /\ Bridge!TypeOK' /\ BridgeType' /\ \A r \in Peers : BridgeUnder(r)' \subseteq BridgeUnder(r)
  BY <1>0, BridgeMovesKeep
<1>2. CASE Bridge!TakeOutgoing(p)
  <2>1. outgoing[p] \in Seq(BridgeAnyFrame) /\ outgoing[p] # <<>>
    BY <1>2 DEF Bridge!TakeOutgoing, BridgeType
  <2>2. /\ outgoing' \in [Peers -> Seq(BridgeAnyFrame)] /\ outgoing'[p] = Tail(outgoing[p])
        /\ writing' \in [Peers -> BridgeAnyFrame] /\ writing'[p] = Head(outgoing[p])
        /\ \A r \in Peers : r # p => outgoing'[r] = outgoing[r] /\ writing'[r] = writing[r]
        /\ UNCHANGED <<bridge, incoming, held, up, down, route, relayed, delivered>>
    BY <1>2, <2>1, BridgeTailSet DEF Bridge!TakeOutgoing, BridgeType
  <2>3. /\ writing'[p] \in Bridge!ToSet(outgoing[p]) /\ Bridge!ToSet(outgoing'[p]) \subseteq Bridge!ToSet(outgoing[p])
        /\ Len(outgoing'[p]) = Len(outgoing[p]) - 1 /\ Len(outgoing[p]) > 0 /\ Len(outgoing[p]) \in Nat
    BY <2>1, <2>2, BridgeTailSet
  <2>4. BridgeType' BY <2>2 DEF BridgeType
  <2>5. Len(outgoing'[p]) \in 0..Frames
    BY <2>1, <2>3, BridgeCapacities DEF Bridge!TypeOK
  <2>6. Bridge!TypeOK'
    BY <2>2, <2>5 DEF Bridge!TypeOK
  <2>7. \A r \in Peers : BridgeUnder(r)' \subseteq BridgeUnder(r)
    <3>1. BridgeUnder(p)' \subseteq BridgeUnder(p)
      BY <1>0, <2>2, <2>3 DEF BridgeUnder, BridgeWaiting
    <3>2. BridgeUnder(Bridge!Other(p))' \subseteq BridgeUnder(Bridge!Other(p))
      BY <1>0, <2>2, <2>3 DEF BridgeUnder, BridgeWaiting
    <3>. QED BY <1>0, <3>1, <3>2
  <2>. QED BY <2>4, <2>6, <2>7
<1>3. CASE Bridge!WriteSocket(p)
  <2>1. /\ up[p] \in Seq(BridgeAnyFrame) /\ writing[p] \in BridgeAnyFrame /\ writing[p] # Bridge!NoFrame
        /\ Len(up[p]) < Socket
    BY <1>3 DEF Bridge!WriteSocket, BridgeType
  <2>2. /\ up' \in [Peers -> Seq(BridgeAnyFrame)] /\ up'[p] = Append(up[p], writing[p])
        /\ writing' \in [Peers -> BridgeAnyFrame] /\ writing'[p] = Bridge!NoFrame
        /\ \A r \in Peers : r # p => up'[r] = up[r] /\ writing'[r] = writing[r]
        /\ UNCHANGED <<bridge, outgoing, incoming, held, down, route, relayed, delivered>>
    BY <1>0, <1>3, <2>1, BridgeAppendSet DEF Bridge!WriteSocket, BridgeType
  <2>3. /\ Bridge!ToSet(up'[p]) = Bridge!ToSet(up[p]) \cup {writing[p]} /\ writing[p] \in BridgeWaiting(writing[p])
        /\ Len(up'[p]) = Len(up[p]) + 1 /\ Len(up[p]) \in Nat /\ BridgeWaiting(writing'[p]) = {}
    BY <2>1, <2>2, BridgeAppendSet DEF BridgeWaiting
  <2>4. BridgeType' BY <2>2 DEF BridgeType
  <2>5. Len(up'[p]) \in 0..Socket
    BY <2>1, <2>3, BridgeCapacities DEF Bridge!TypeOK
  <2>6. Bridge!TypeOK'
    BY <2>2, <2>5 DEF Bridge!TypeOK
  <2>7. \A r \in Peers : BridgeUnder(r)' \subseteq BridgeUnder(r)
    <3>1. BridgeUnder(p)' \subseteq BridgeUnder(p)
      BY <1>0, <2>2, <2>3 DEF BridgeUnder
    <3>2. BridgeUnder(Bridge!Other(p))' \subseteq BridgeUnder(Bridge!Other(p))
      BY <1>0, <2>2, <2>3 DEF BridgeUnder
    <3>. QED BY <1>0, <3>1, <3>2
  <2>. QED BY <2>4, <2>6, <2>7
<1>4. CASE Bridge!ReadSocket(p)
  <2>1. down[p] \in Seq(BridgeAnyFrame) /\ down[p] # <<>>
    BY <1>4 DEF Bridge!ReadSocket, BridgeType
  <2>2. /\ down' \in [Peers -> Seq(BridgeAnyFrame)] /\ down'[p] = Tail(down[p])
        /\ held' \in [Peers -> BridgeAnyFrame] /\ held'[p] = Head(down[p])
        /\ \A r \in Peers : r # p => down'[r] = down[r] /\ held'[r] = held[r]
        /\ UNCHANGED <<bridge, outgoing, incoming, up, route, relayed, delivered, writing>>
    BY <1>4, <2>1, BridgeTailSet DEF Bridge!ReadSocket, BridgeType
  <2>3. /\ held'[p] \in Bridge!ToSet(down[p]) /\ Bridge!ToSet(down'[p]) \subseteq Bridge!ToSet(down[p])
        /\ Len(down'[p]) = Len(down[p]) - 1 /\ Len(down[p]) > 0 /\ Len(down[p]) \in Nat
    BY <2>1, <2>2, BridgeTailSet
  <2>4. BridgeType' BY <2>2 DEF BridgeType
  <2>5. Len(down'[p]) \in 0..Socket
    BY <2>1, <2>3, BridgeCapacities DEF Bridge!TypeOK
  <2>6. Bridge!TypeOK'
    BY <2>2, <2>5 DEF Bridge!TypeOK
  <2>7. \A r \in Peers : BridgeUnder(r)' \subseteq BridgeUnder(r)
    <3>1. BridgeUnder(p)' \subseteq BridgeUnder(p)
      BY <1>0, <2>2, <2>3 DEF BridgeUnder, BridgeWaiting
    <3>2. BridgeUnder(Bridge!Other(p))' \subseteq BridgeUnder(Bridge!Other(p))
      BY <1>0, <2>2, <2>3 DEF BridgeUnder, BridgeWaiting
    <3>. QED BY <1>0, <3>1, <3>2
  <2>. QED BY <2>4, <2>6, <2>7
<1>5. CASE Bridge!HandOver(p)
  <2>1. /\ incoming[p] \in Seq(BridgeAnyFrame) /\ held[p] \in BridgeAnyFrame /\ held[p] # Bridge!NoFrame
        /\ Len(incoming[p]) < Frames
    BY <1>5 DEF Bridge!HandOver, BridgeType
  <2>2. /\ incoming' \in [Peers -> Seq(BridgeAnyFrame)] /\ incoming'[p] = Append(incoming[p], held[p])
        /\ held' \in [Peers -> BridgeAnyFrame] /\ held'[p] = Bridge!NoFrame
        /\ \A r \in Peers : r # p => incoming'[r] = incoming[r] /\ held'[r] = held[r]
        /\ UNCHANGED <<bridge, outgoing, up, down, route, relayed, delivered, writing>>
    BY <1>0, <1>5, <2>1, BridgeAppendSet DEF Bridge!HandOver, BridgeType
  <2>3. /\ Bridge!ToSet(incoming'[p]) = Bridge!ToSet(incoming[p]) \cup {held[p]} /\ held[p] \in BridgeWaiting(held[p])
        /\ Len(incoming'[p]) = Len(incoming[p]) + 1 /\ Len(incoming[p]) \in Nat /\ BridgeWaiting(held'[p]) = {}
    BY <2>1, <2>2, BridgeAppendSet DEF BridgeWaiting
  <2>4. BridgeType' BY <2>2 DEF BridgeType
  <2>5. Len(incoming'[p]) \in 0..Frames
    BY <2>1, <2>3, BridgeCapacities DEF Bridge!TypeOK
  <2>6. Bridge!TypeOK'
    BY <2>2, <2>5 DEF Bridge!TypeOK
  <2>7. \A r \in Peers : BridgeUnder(r)' \subseteq BridgeUnder(r)
    <3>1. BridgeUnder(p)' \subseteq BridgeUnder(p)
      BY <1>0, <2>2, <2>3 DEF BridgeUnder
    <3>2. BridgeUnder(Bridge!Other(p))' \subseteq BridgeUnder(Bridge!Other(p))
      BY <1>0, <2>2, <2>3 DEF BridgeUnder
    <3>. QED BY <1>0, <3>1, <3>2
  <2>. QED BY <2>4, <2>6, <2>7
<1>6. CASE Bridge!RelayTakes(p)
  <2>1. route[p] \in Seq(BridgeAnyFrame) /\ route[p] # <<>>
    BY <1>6 DEF Bridge!RelayTakes, BridgeType
  <2>2. /\ route' \in [Peers -> Seq(BridgeAnyFrame)] /\ route'[p] = Tail(route[p])
        /\ relayed' \in [Peers -> BridgeAnyFrame] /\ relayed'[p] = Head(route[p])
        /\ \A r \in Peers : r # p => route'[r] = route[r] /\ relayed'[r] = relayed[r]
        /\ UNCHANGED <<bridge, outgoing, incoming, held, up, down, delivered, writing>>
    BY <1>6, <2>1, BridgeTailSet DEF Bridge!RelayTakes, BridgeType
  <2>3. /\ relayed'[p] \in Bridge!ToSet(route[p]) /\ Bridge!ToSet(route'[p]) \subseteq Bridge!ToSet(route[p])
        /\ Len(route'[p]) = Len(route[p]) - 1 /\ Len(route[p]) > 0 /\ Len(route[p]) \in Nat
    BY <2>1, <2>2, BridgeTailSet
  <2>4. BridgeType' BY <2>2 DEF BridgeType
  <2>5. Len(route'[p]) \in 0..Queue
    BY <2>1, <2>3, BridgeCapacities DEF Bridge!TypeOK
  <2>6. Bridge!TypeOK'
    BY <2>2, <2>5 DEF Bridge!TypeOK
  <2>7. \A r \in Peers : BridgeUnder(r)' \subseteq BridgeUnder(r)
    <3>1. BridgeUnder(p)' \subseteq BridgeUnder(p)
      BY <1>0, <2>2, <2>3 DEF BridgeUnder, BridgeWaiting
    <3>2. BridgeUnder(Bridge!Other(p))' \subseteq BridgeUnder(Bridge!Other(p))
      BY <1>0, <2>2, <2>3 DEF BridgeUnder, BridgeWaiting
    <3>. QED BY <1>0, <3>1, <3>2
  <2>. QED BY <2>4, <2>6, <2>7
<1>7. CASE Bridge!RelayWrites(p)
  <2>1. /\ down[p] \in Seq(BridgeAnyFrame) /\ relayed[p] \in BridgeAnyFrame /\ relayed[p] # Bridge!NoFrame
        /\ Len(down[p]) < Socket
    BY <1>7 DEF Bridge!RelayWrites, BridgeType
  <2>2. /\ down' \in [Peers -> Seq(BridgeAnyFrame)] /\ down'[p] = Append(down[p], relayed[p])
        /\ relayed' \in [Peers -> BridgeAnyFrame] /\ relayed'[p] = Bridge!NoFrame
        /\ \A r \in Peers : r # p => down'[r] = down[r] /\ relayed'[r] = relayed[r]
        /\ UNCHANGED <<bridge, outgoing, incoming, held, up, route, delivered, writing>>
    BY <1>0, <1>7, <2>1, BridgeAppendSet DEF Bridge!RelayWrites, BridgeType
  <2>3. /\ Bridge!ToSet(down'[p]) = Bridge!ToSet(down[p]) \cup {relayed[p]} /\ relayed[p] \in BridgeWaiting(relayed[p])
        /\ Len(down'[p]) = Len(down[p]) + 1 /\ Len(down[p]) \in Nat /\ BridgeWaiting(relayed'[p]) = {}
    BY <2>1, <2>2, BridgeAppendSet DEF BridgeWaiting
  <2>4. BridgeType' BY <2>2 DEF BridgeType
  <2>5. Len(down'[p]) \in 0..Socket
    BY <2>1, <2>3, BridgeCapacities DEF Bridge!TypeOK
  <2>6. Bridge!TypeOK'
    BY <2>2, <2>5 DEF Bridge!TypeOK
  <2>7. \A r \in Peers : BridgeUnder(r)' \subseteq BridgeUnder(r)
    <3>1. BridgeUnder(p)' \subseteq BridgeUnder(p)
      BY <1>0, <2>2, <2>3 DEF BridgeUnder
    <3>2. BridgeUnder(Bridge!Other(p))' \subseteq BridgeUnder(Bridge!Other(p))
      BY <1>0, <2>2, <2>3 DEF BridgeUnder
    <3>. QED BY <1>0, <3>1, <3>2
  <2>. QED BY <2>4, <2>6, <2>7
<1>. QED BY <1>2, <1>3, <1>4, <1>5, <1>6, <1>7 DEF Bridge!NetworkStep

\* The relay forwards a frame, or drops it and the connection of its sender.
LEMMA BridgeRouteInv ==
  ASSUME Bridge!BridgeAssumption, BridgeIInv, NEW p \in Peers, Bridge!Route(p)
  PROVE  BridgeIInv'
<1>. USE DEF BridgeIInv
<1>. DEFINE q == Bridge!Other(p)
<1>0. q \in Peers /\ q # p /\ Bridge!Other(q) = p /\ \A r \in Peers : r = p \/ r = q
  BY BridgeTwoEnds
<1>. HIDE DEF q
<1>1. up[p] \in Seq(BridgeAnyFrame) /\ up[p] # <<>> /\ route[q] \in Seq(BridgeAnyFrame)
  BY <1>0 DEF Bridge!Route, BridgeType
<1>2. PICK f \in BridgeAnyFrame : f = Head(up[p]) /\ f \in Bridge!ToSet(up[p])
  BY <1>1, BridgeTailSet
<1>3. /\ up' \in [Peers -> Seq(BridgeAnyFrame)] /\ up'[p] = Tail(up[p])
      /\ \A r \in Peers : r # p => up'[r] = up[r]
      /\ UNCHANGED <<outgoing, incoming, held, down, relayed, delivered, writing>>
  BY <1>1, BridgeTailSet DEF Bridge!Route, BridgeType
<1>4. CASE Len(route[q]) < Queue
  <2>1. /\ route' \in [Peers -> Seq(BridgeAnyFrame)] /\ route'[q] = Append(route[q], f)
        /\ \A r \in Peers : r # q => route'[r] = route[r]
        /\ bridge' = bridge
    <3>1. route' = [route EXCEPT ![q] = Append(route[q], f)] /\ bridge' = bridge
      BY <1>2, <1>4 DEF Bridge!Route, q
    <3>2. Append(route[q], f) \in Seq(BridgeAnyFrame)
      BY <1>1, <1>2, BridgeAppendSet
    <3>. QED BY <1>0, <3>1, <3>2 DEF BridgeType
  <2>2. BridgeType' BY <1>3, <2>1 DEF BridgeType
  <2>3. Bridge!TypeOK'
    <3>1. Len(route'[q]) \in 0..Queue
      BY <1>1, <1>2, <1>4, <2>1, BridgeAppendSet, BridgeCapacities
    <3>2. Len(up'[p]) \in 0..Socket
      BY <1>1, <1>3, BridgeTailSet, BridgeCapacities DEF Bridge!TypeOK
    <3>. QED BY <1>0, <1>3, <2>1, <3>1, <3>2 DEF Bridge!TypeOK
  <2>4. \A r \in Peers : BridgeUnder(r)' \subseteq BridgeUnder(r)
    <3>1. Bridge!ToSet(route'[q]) = Bridge!ToSet(route[q]) \cup {f} /\ Bridge!ToSet(up'[p]) \subseteq Bridge!ToSet(up[p])
      BY <1>1, <1>2, <1>3, <2>1, BridgeAppendSet, BridgeTailSet
    <3>2. BridgeUnder(p)' \subseteq BridgeUnder(p)
      BY <1>0, <1>2, <1>3, <2>1, <3>1 DEF BridgeUnder, q
    <3>3. BridgeUnder(q)' \subseteq BridgeUnder(q)
      BY <1>0, <1>2, <1>3, <2>1, <3>1 DEF BridgeUnder
    <3>. QED BY <1>0, <3>2, <3>3
  <2>. QED BY <1>3, <2>1, <2>2, <2>3, <2>4, BridgeMovesKeep
<1>5. CASE ~(Len(route[q]) < Queue)
  <2>1. /\ bridge' = [bridge EXCEPT ![p] = [bridge[p] EXCEPT !.pc = "error"]]
        /\ route' = route
    BY <1>5 DEF Bridge!Route, q
  <2>2. \A r \in Peers : bridge'[r] = bridge[r] \/ bridge'[r] = [bridge[r] EXCEPT !.pc = "error"]
    BY <2>1 DEF BridgeType
  <2>3. bridge' \in [Peers -> BridgeAnyBridge] /\ bridge'[p].pc = "error" /\ bridge'[p].next = bridge[p].next
        /\ \A r \in Peers : r # p => bridge'[r] = bridge[r]
    <3>1. bridge[p] \in BridgeAnyBridge BY DEF BridgeType
    <3>. QED BY <2>1, <3>1 DEF BridgeType, BridgeAnyBridge
  <2>4. BridgeType' BY <1>3, <2>1, <2>3 DEF BridgeType
  <2>5. Bridge!TypeOK'
    BY <1>1, <1>3, <2>1, <2>3, BridgeTailSet, BridgeCapacities DEF Bridge!TypeOK
  <2>6. \A r \in Peers : BridgeUnder(r)' \subseteq BridgeUnder(r)
    <3>1. Bridge!ToSet(up'[p]) \subseteq Bridge!ToSet(up[p])
      BY <1>1, <1>3, BridgeTailSet
    <3>2. BridgeUnder(p)' \subseteq BridgeUnder(p)
      BY <1>0, <1>3, <2>1, <3>1 DEF BridgeUnder, q
    <3>3. BridgeUnder(q)' \subseteq BridgeUnder(q)
      BY <1>0, <1>3, <2>1, <3>1 DEF BridgeUnder
    <3>. QED BY <1>0, <3>2, <3>3
  <2>. QED BY <1>3, <2>2, <2>4, <2>5, <2>6, BridgeMovesKeep
<1>. QED BY <1>4, <1>5

--------------------
\* Nothing is under way at first.
LEMMA BridgeInitInv == ASSUME Bridge!BridgeAssumption, Bridge!Init PROVE BridgeIInv
<1>1. Bridge!NoFrame \in BridgeAnyFrame /\ Bridge!NoAssembly \in BridgeAnyMessage /\ <<>> \in Seq(BridgeAnyFrame) /\ <<>> \in Seq(BridgeAnyMessage)
  BY EmptySeq DEF Bridge!NoFrame, BridgeAnyFrame, Bridge!NoAssembly, BridgeAnyMessage
<1>2. BridgeType
  <2>1. bridge \in [Peers -> BridgeAnyBridge] BY <1>1 DEF Bridge!Init, BridgeAnyBridge
  <2>. QED BY <1>1, <2>1 DEF Bridge!Init, BridgeType
<1>3. Bridge!TypeOK
  <2>1. \A p \in Peers : 1 \in 1..(Len(Script[p]) + 1)
    BY BridgeScripts
  <2>. QED BY <2>1, BridgeCapacities DEF Bridge!Init, Bridge!TypeOK
<1>4. \A p \in Peers : BridgeUnder(p) = {}
  BY BridgeTwoEnds DEF Bridge!Init, BridgeUnder, Bridge!ToSet, BridgeWaiting
<1>5. ASSUME NEW p \in Peers PROVE BridgeLinkInv(p)
  <2>1. Bridge!Other(p) \in Peers /\ Len(Script[Bridge!Other(p)]) \in Nat BY BridgeTwoEnds, BridgeScripts
  <2>2. BridgeSequenced(p) BY <1>4 DEF BridgeSequenced
  <2>3. BridgeAssembles(p) /\ BridgeDelivers(p)
    BY <2>1 DEF Bridge!Init, BridgeAssembles, BridgeDelivers
  <2>4. BridgeExpects(p)
    BY <1>4, <2>1 DEF Bridge!Init, BridgeExpects, BridgeExpected, BridgeNextChunk
  <2>. QED BY <2>2, <2>3, <2>4 DEF BridgeLinkInv
<1>. QED BY <1>2, <1>3, <1>5 DEF BridgeIInv

\* Every step of the bridges, of the network tasks and of the relay keeps the invariant.
LEMMA BridgeNextInv == ASSUME Bridge!BridgeAssumption, BridgeIInv, [Bridge!Next]_Bridge!vars PROVE BridgeIInv'
<1>1. CASE UNCHANGED Bridge!vars
  <2>1. \A p \in Peers : BridgeUnder(p)' = BridgeUnder(p) /\ BridgeNextChunk(p)' = BridgeNextChunk(p)
    BY <1>1 DEF Bridge!vars, BridgeUnder, BridgeNextChunk
  <2>2. \A p \in Peers : bridge'[p] = bridge[p] BY <1>1 DEF Bridge!vars
  <2>3. delivered' = delivered BY <1>1 DEF Bridge!vars
  <2>4. \A p \in Peers : BridgeLinkInv(p)'
    BY <2>1, <2>2, <2>3, BridgeMovesKeep DEF BridgeIInv
  <2>. QED BY <1>1, <2>4 DEF BridgeIInv, Bridge!vars, Bridge!TypeOK, BridgeType
<1>2. ASSUME NEW p \in Peers, Bridge!BridgeStep(p) \/ Bridge!NetworkStep(p) \/ Bridge!RelayStep(p) PROVE BridgeIInv'
  BY <1>2, BridgeTakeOutboundInv, BridgeSendChunkInv, BridgeReceiveChunkInv, BridgeNetworkInv, BridgeRouteInv DEF Bridge!BridgeStep, Bridge!RelayStep
<1>. QED BY <1>1, <1>2 DEF Bridge!Next

\* What was delivered, message by message, is a prefix of what is sent.
LEMMA BridgeDeliversPrefix == ASSUME Bridge!BridgeAssumption, BridgeIInv PROVE Bridge!DeliveredIsAPrefix
<1>1. SUFFICES ASSUME NEW p \in Peers
      PROVE Bridge!IsPrefix(delivered[p], [m \in 1..Len(Script[Bridge!Other(p)]) |-> Bridge!Whole(m, Script[Bridge!Other(p)][m])])
  BY DEF Bridge!DeliveredIsAPrefix
<1>. DEFINE d == delivered[p]
            n == Len(Script[Bridge!Other(p)])
            t == [m \in 1..n |-> Bridge!Whole(m, Script[Bridge!Other(p)][m])]
<1>2. n \in Nat /\ d \in Seq(BridgeAnyMessage)
  BY BridgeTwoEnds, BridgeScripts DEF BridgeIInv, BridgeType
<1>3. Len(d) <= n /\ \A m \in 1..Len(d) : d[m] = t[m]
  <2>1. Len(d) <= n /\ \A m \in 1..Len(d) : d[m] = Bridge!Whole(m, Script[Bridge!Other(p)][m])
    BY DEF BridgeIInv, BridgeLinkInv, BridgeDelivers
  <2>2. \A m \in 1..Len(d) : m \in 1..n BY <1>2, <2>1
  <2>. QED BY <2>1, <2>2
<1>. HIDE DEF d
<1>4. Len(t) = n BY <1>2
<1>. HIDE DEF t, n
<1>5. SubSeq(d, 1, Len(d)) = SubSeq(t, 1, Len(d))
  <2>1. SubSeq(d, 1, Len(d)) = [i \in 1..Len(d) |-> d[i]]
    BY <1>2
  <2>2. SubSeq(t, 1, Len(d)) = [i \in 1..Len(d) |-> t[i]]
    BY <1>2
  <2>. QED BY <1>3, <2>1, <2>2
<1>. QED BY <1>3, <1>4, <1>5 DEF Bridge!IsPrefix, d, t, n

\* What run_peer_bridge hands to the protocol (mews-transport) is what the other
\* end sent, whole messages in their order, none missing, none twice and none put together
\* from two, for any messages and channels of any capacity, and although a bridge drops
\* what it has assembled whenever it has something to send.
THEOREM BridgesDeliver ==
  Bridge!BridgeAssumption => (Bridge!Spec => [](Bridge!TypeOK /\ Bridge!DeliveredIsAPrefix))
<1>1. SUFFICES ASSUME Bridge!BridgeAssumption PROVE Bridge!Spec => [](Bridge!TypeOK /\ Bridge!DeliveredIsAPrefix)
  OBVIOUS
<1>2. Bridge!Init => BridgeIInv BY <1>1, BridgeInitInv
<1>3. BridgeIInv /\ [Bridge!Next]_Bridge!vars => BridgeIInv' BY <1>1, BridgeNextInv
<1>4. BridgeIInv => Bridge!TypeOK /\ Bridge!DeliveredIsAPrefix BY <1>1, BridgeDeliversPrefix DEF BridgeIInv
<1>. QED BY <1>2, <1>3, <1>4, PTL DEF Bridge!Spec


--------------------
(* The pairing through the relay (RelayPairing). *)

CONSTANTS
  host, hub, Slots, NoSlot, relay_Queue, Restarts, Timely, Hasty

VARIABLES
  end, conn, relay_route, queue, budget

Relay == INSTANCE RelayPairing WITH
  Queue <- relay_Queue, route <- relay_route

\* RelayPairing has its own copy of the operators of FiniteSets.
LEMMA RelaySets ==
  /\ \A S : Relay!Cardinality(S) = Cardinality(S)
  /\ \A S : Relay!IsFiniteSet(S) <=> IsFiniteSet(S)
<1>1. \A S : Relay!Cardinality(S) = Cardinality(S)
  BY Zenon DEF Relay!Cardinality, Cardinality
<1>2. \A S : Relay!IsFiniteSet(S) <=> IsFiniteSet(S)
  BY Zenon DEF Relay!IsFiniteSet, IsFiniteSet
<1> QED BY <1>1, <1>2
RelayPcs == {"idle", "connecting", "await1", "await2", "await3", "awaitBinding", "open"}
RelayKinds == {"m1", "m2", "m3", "bindI", "bindR", "dataI", "dataR"}
RelayAnySlot == Slots \cup {NoSlot}
RelayFrameSet == {f \in [kind : RelayKinds, init : Slots, resp : RelayAnySlot] :
                f.resp = NoSlot <=> f.kind = "m1"}
RelayHeld(q) == {q[i] : i \in DOMAIN q}

\* What is known before any agreement: the fields of an attempt follow its state.
RelayBuffers ==
  /\ conn \in [Slots -> [state : {"registering", "live", "ended"}, owner : Relay!Peers,
                         closed : BOOLEAN, up : Seq(RelayFrameSet), down : Seq(RelayFrameSet)]]
  /\ queue \in [Slots -> Seq(RelayFrameSet)]
  /\ \A s \in Slots : Len(queue[s]) <= relay_Queue
  /\ relay_route \in [Relay!Peers -> RelayAnySlot]
RelayAttempts ==
  /\ end \in [Relay!Peers -> [pc : RelayPcs, slot : RelayAnySlot, init : RelayAnySlot, resp : RelayAnySlot]]
  /\ \A p \in Relay!Peers : end[p].pc = "idle" <=> end[p].slot = NoSlot
  /\ \A p \in Relay!Peers : end[p].pc \in {"idle", "connecting"} =>
        end[p].init = NoSlot /\ end[p].resp = NoSlot
  /\ end[host].pc \notin {"await1", "await3"} /\ end[hub].pc # "await2"
  /\ end[host].pc \in {"await2", "awaitBinding", "open"} =>
        /\ end[host].init = end[host].slot
        /\ end[host].resp = NoSlot <=> end[host].pc = "await2"
  /\ end[hub].pc \in {"await1", "await3", "awaitBinding", "open"} =>
        /\ end[hub].resp = end[hub].slot
        /\ end[hub].init = NoSlot <=> end[hub].pc = "await1"
RelaySeparate == end[host].slot # NoSlot => end[host].slot # end[hub].slot
RelayFresh ==
  \A p \in Relay!Peers : end[p].pc = "connecting" =>
    /\ end[Relay!Other(p)].init # end[p].slot /\ end[Relay!Other(p)].resp # end[p].slot
    /\ \A f \in Relay!Frames : f.init # end[p].slot /\ f.resp # end[p].slot

\* What the Host has let go of for its attempt, and what the Hub has.
RelayFinishing(p) == end[p].pc \in {"awaitBinding", "open"}
RelayOfTheHost ==
  /\ \A f \in Relay!Frames : (f.kind \in {"m3", "bindI", "dataI", "bindR", "dataR"} /\ f.init = end[host].init)
        => RelayFinishing(host) /\ f.resp = end[host].resp
  /\ (RelayFinishing(hub) /\ end[hub].init = end[host].init)
        => RelayFinishing(host) /\ end[hub].resp = end[host].resp
RelayOfTheHub ==
  /\ \A f \in Relay!Frames : (f.kind \in {"m2", "m3", "bindI", "dataI", "bindR", "dataR"} /\ f.resp = end[hub].resp)
        => f.init = end[hub].init
  /\ (RelayFinishing(host) /\ end[host].resp = end[hub].resp)
        => end[host].init = end[hub].init
RelayConfirmed ==
  \/ end[host].pc = "open"
  \/ /\ RelayFinishing(host)
     /\ \E f \in Relay!Frames : f.kind \in {"bindR", "dataR"} /\ f.init = end[host].init
RelayNoneAfter ==
  (RelayConfirmed /\ end[hub].resp # end[host].resp) =>
     /\ ~RelayFinishing(hub)
     /\ \A f \in Relay!Frames : f.kind \in {"m3", "bindI", "dataI"} => f.resp # end[hub].resp

RelayIInv == RelayBuffers /\ RelayAttempts /\ RelaySeparate /\ RelayFresh /\ RelayOfTheHost /\ RelayOfTheHub /\ RelayNoneAfter

RelayCarried(c, q) == UNION {RelayHeld(c[s].up) \cup RelayHeld(c[s].down) \cup RelayHeld(q[s]) : s \in Slots}
RelayConns == [state : {"registering", "live", "ended"}, owner : Relay!Peers,
          closed : BOOLEAN, up : Seq(RelayFrameSet), down : Seq(RelayFrameSet)]

\* The frames under way are those in the sockets and the queues.
LEMMA RelayFramesCarried == Relay!Frames = RelayCarried(conn, queue) /\ Relay!Frames' = RelayCarried(conn', queue')
<1>1. Relay!Frames = RelayCarried(conn, queue)
  BY DEF Relay!Frames, RelayCarried, RelayHeld
<1>2. Relay!Frames' = RelayCarried(conn', queue')
  BY DEF Relay!Frames, RelayCarried, RelayHeld
<1> QED BY <1>1, <1>2

\* What a sequence holds after an Append, a Tail or a concatenation.
LEMMA RelayHeldFacts ==
  ASSUME NEW S, NEW q \in Seq(S)
  PROVE  /\ RelayHeld(q) \subseteq S
         /\ q # <<>> => RelayHeld(Tail(q)) \subseteq RelayHeld(q) /\ Head(q) \in RelayHeld(q)
                        /\ Tail(q) \in Seq(S) /\ Len(Tail(q)) = Len(q) - 1
         /\ \A e : RelayHeld(Append(q, e)) \subseteq RelayHeld(q) \cup {e}
         /\ \A e \in S : Append(q, e) \in Seq(S) /\ Len(Append(q, e)) = Len(q) + 1
         /\ \A e : RelayHeld(q \o <<e>>) \subseteq RelayHeld(q) \cup {e}
         /\ \A e, f : RelayHeld(q \o <<e, f>>) \subseteq RelayHeld(q) \cup {e, f}
         /\ \A e \in S : q \o <<e>> \in Seq(S)
         /\ \A e, f \in S : q \o <<e, f>> \in Seq(S)
<1>1. RelayHeld(q) \subseteq S BY DEF RelayHeld
<1>2. ASSUME q # <<>>
      PROVE  RelayHeld(Tail(q)) \subseteq RelayHeld(q) /\ Head(q) \in RelayHeld(q)
             /\ Tail(q) \in Seq(S) /\ Len(Tail(q)) = Len(q) - 1
  <2>1. /\ Len(q) \in Nat /\ Len(q) > 0 /\ DOMAIN q = 1..Len(q) /\ Head(q) = q[1]
        /\ Tail(q) \in Seq(S) /\ Len(Tail(q)) = Len(q) - 1
        /\ \A i \in 1..Len(Tail(q)) : Tail(q)[i] = q[i + 1]
    BY <1>2, HeadTailProperties
  <2>2. DOMAIN Tail(q) = 1..Len(Tail(q)) BY <2>1
  <2>3. ASSUME NEW x \in RelayHeld(Tail(q)) PROVE x \in RelayHeld(q)
    <3>1. PICK i \in 1..Len(Tail(q)) : x = Tail(q)[i] BY <2>2 DEF RelayHeld
    <3> QED BY <3>1, <2>1 DEF RelayHeld
  <2> QED BY <2>1, <2>3 DEF RelayHeld
<1>3. ASSUME NEW e PROVE RelayHeld(Append(q, e)) \subseteq RelayHeld(q) \cup {e}
  BY DEF RelayHeld
<1>4. ASSUME NEW e PROVE RelayHeld(q \o <<e>>) \subseteq RelayHeld(q) \cup {e}
  BY DEF RelayHeld
<1>5. ASSUME NEW e, NEW f PROVE RelayHeld(q \o <<e, f>>) \subseteq RelayHeld(q) \cup {e, f}
  BY DEF RelayHeld
<1>6. \A e \in S : Append(q, e) \in Seq(S) /\ Len(Append(q, e)) = Len(q) + 1 OBVIOUS
<1>7. \A e \in S : q \o <<e>> \in Seq(S) OBVIOUS
<1>8. \A e, f \in S : q \o <<e, f>> \in Seq(S) OBVIOUS
<1> QED BY <1>1, <1>2, <1>3, <1>4, <1>5, <1>6, <1>7, <1>8

\* The empty sequence holds nothing.
LEMMA RelayHeldEmpty == RelayHeld(<<>>) = {}
  BY DEF RelayHeld

\* A socket or a queue that is carried holds nothing else.
LEMMA RelayHolds ==
  ASSUME NEW c, NEW q, NEW s \in Slots
  PROVE  /\ RelayHeld(c[s].up) \subseteq RelayCarried(c, q) /\ RelayHeld(c[s].down) \subseteq RelayCarried(c, q)
         /\ RelayHeld(q[s]) \subseteq RelayCarried(c, q)
  BY DEF RelayCarried

\* A bound on every socket and queue is a bound on what is carried.
LEMMA RelayGrow ==
  ASSUME NEW c, NEW q, NEW N,
         \A s \in Slots : RelayHeld(c[s].up) \subseteq N /\ RelayHeld(c[s].down) \subseteq N
                          /\ RelayHeld(q[s]) \subseteq N
  PROVE  RelayCarried(c, q) \subseteq N
<1> SUFFICES ASSUME NEW f \in RelayCarried(c, q) PROVE f \in N
  OBVIOUS
<1>1. PICK s \in Slots : f \in RelayHeld(c[s].up) \cup RelayHeld(c[s].down) \cup RelayHeld(q[s])
  BY DEF RelayCarried
<1> QED BY <1>1

\* Every frame under way is a frame.
LEMMA RelayFramesAreTyped == ASSUME RelayBuffers PROVE Relay!Frames \subseteq RelayFrameSet
<1>1. ASSUME NEW s \in Slots
      PROVE  RelayHeld(conn[s].up) \subseteq RelayFrameSet /\ RelayHeld(conn[s].down) \subseteq RelayFrameSet
             /\ RelayHeld(queue[s]) \subseteq RelayFrameSet
  <2>1. conn[s].up \in Seq(RelayFrameSet) /\ conn[s].down \in Seq(RelayFrameSet) /\ queue[s] \in Seq(RelayFrameSet)
    BY DEF RelayBuffers
  <2> QED BY <2>1, RelayHeldFacts
<1>2. RelayCarried(conn, queue) \subseteq RelayFrameSet BY <1>1, RelayGrow
<1> QED BY <1>2, RelayFramesCarried

\* Nobody is connected at first.
LEMMA RelayInitInv == ASSUME Relay!PairingAssumption, Relay!Init PROVE RelayIInv
<1>1. Relay!Unused \in RelayConns
  <2>1. <<>> \in Seq(RelayFrameSet) OBVIOUS
  <2> QED BY <2>1 DEF Relay!Unused, RelayConns, Relay!Peers
<1>2. RelayBuffers
  <2>1. conn \in [Slots -> RelayConns] BY <1>1 DEF Relay!Init
  <2>2. /\ queue \in [Slots -> Seq(RelayFrameSet)] /\ \A s \in Slots : Len(queue[s]) <= relay_Queue
        /\ relay_route \in [Relay!Peers -> RelayAnySlot]
    BY DEF Relay!Init, Relay!PairingAssumption, RelayAnySlot
  <2> QED BY <2>1, <2>2 DEF RelayBuffers, RelayConns
<1>3. Relay!Frames = {}
  <2>1. ASSUME NEW s \in Slots
        PROVE  RelayHeld(conn[s].up) = {} /\ RelayHeld(conn[s].down) = {} /\ RelayHeld(queue[s]) = {}
    BY RelayHeldEmpty DEF Relay!Init, Relay!Unused
  <2>2. RelayCarried(conn, queue) = {} BY <2>1 DEF RelayCarried
  <2> QED BY <2>2, RelayFramesCarried
<1>4. RelayAttempts
  <2>1. \A p \in Relay!Peers : end[p] = Relay!Idle BY DEF Relay!Init
  <2> QED BY <2>1 DEF Relay!Init, RelayAttempts, Relay!Idle, RelayPcs, RelayAnySlot, Relay!Peers
<1>5. \A p \in Relay!Peers : end[p] = Relay!Idle BY DEF Relay!Init
<1> QED BY <1>2, <1>3, <1>4, <1>5
    DEF RelayIInv, RelaySeparate, RelayFresh, RelayOfTheHost, RelayOfTheHub, RelayNoneAfter, RelayConfirmed, RelayFinishing, Relay!Idle, Relay!Peers

\* The same bound after a step.
LEMMA RelayTraffic ==
  ASSUME NEW N,
         \A t \in Slots : /\ RelayHeld(conn'[t].up) \subseteq Relay!Frames \cup N
                          /\ RelayHeld(conn'[t].down) \subseteq Relay!Frames \cup N
                          /\ RelayHeld(queue'[t]) \subseteq Relay!Frames \cup N
  PROVE  Relay!Frames' \subseteq Relay!Frames \cup N
<1>1. RelayCarried(conn', queue') \subseteq Relay!Frames \cup N BY RelayGrow
<1> QED BY <1>1, RelayFramesCarried

\* What a socket or a queue holds is under way.
LEMMA RelayHere ==
  ASSUME NEW t \in Slots
  PROVE  /\ RelayHeld(conn[t].up) \subseteq Relay!Frames /\ RelayHeld(conn[t].down) \subseteq Relay!Frames
         /\ RelayHeld(queue[t]) \subseteq Relay!Frames
  BY RelayHolds, RelayFramesCarried

\* A connection of the relay that ends only loses frames.
LEMMA RelayEndsTraffic ==
  ASSUME Relay!PairingAssumption, RelayBuffers, NEW s \in Slots, Relay!Ends(s)
  PROVE  RelayBuffers' /\ Relay!Frames' \subseteq Relay!Frames
<1>0. <<>> \in Seq(RelayFrameSet) /\ Len(<<>>) = 0 OBVIOUS
<1>1. conn' \in [Slots -> RelayConns] BY <1>0 DEF RelayBuffers, RelayConns, Relay!Ends
<1>2. queue' \in [Slots -> Seq(RelayFrameSet)] BY <1>0 DEF RelayBuffers, Relay!Ends
<1>3. \A t \in Slots : Len(queue'[t]) <= relay_Queue
  BY <1>0 DEF RelayBuffers, Relay!Ends, Relay!PairingAssumption
<1>4. relay_route' \in [Relay!Peers -> RelayAnySlot] BY DEF RelayBuffers, Relay!Ends, RelayAnySlot
<1>5. ASSUME NEW t \in Slots
      PROVE  /\ RelayHeld(conn'[t].up) \subseteq Relay!Frames \cup {} /\ RelayHeld(conn'[t].down) \subseteq Relay!Frames \cup {}
             /\ RelayHeld(queue'[t]) \subseteq Relay!Frames \cup {}
  <2>1. /\ conn'[t].up = conn[t].up \/ conn'[t].up = <<>>
        /\ conn'[t].down = conn[t].down
        /\ queue'[t] = queue[t] \/ queue'[t] = <<>>
    BY DEF Relay!Ends, RelayBuffers
  <2> QED BY <2>1, RelayHere, RelayHeldEmpty
<1>6. Relay!Frames' \subseteq Relay!Frames BY <1>5, RelayTraffic
<1> QED BY <1>1, <1>2, <1>3, <1>4, <1>6 DEF RelayBuffers, RelayConns

\* The relay only moves frames or loses them.
LEMMA RelayedTraffic ==
  ASSUME Relay!PairingAssumption, RelayBuffers, NEW s \in Slots, Relay!Relay(s)
  PROVE  RelayBuffers' /\ Relay!Frames' \subseteq Relay!Frames /\ end' = end
<1>0. <<>> \in Seq(RelayFrameSet) /\ Len(<<>>) = 0 /\ relay_Queue \in Nat BY DEF Relay!PairingAssumption
<1>a. conn[s] \in RelayConns /\ conn[s].owner \in Relay!Peers BY DEF RelayBuffers, RelayConns
<1>1. CASE Relay!Register(s)
  <2>1. conn' \in [Slots -> RelayConns] BY <1>1 DEF Relay!Register, RelayBuffers, RelayConns
  <2>2. queue' \in [Slots -> Seq(RelayFrameSet)] /\ \A t \in Slots : Len(queue'[t]) <= relay_Queue
    <3>1. queue' = [t \in Slots |-> IF t = s \/ t = relay_route[conn[s].owner] THEN <<>> ELSE queue[t]]
      BY <1>1 DEF Relay!Register
    <3> QED BY <3>1, <1>0 DEF RelayBuffers
  <2>3. relay_route' \in [Relay!Peers -> RelayAnySlot] BY <1>1 DEF Relay!Register, RelayBuffers, RelayAnySlot
  <2>4. ASSUME NEW t \in Slots
        PROVE  /\ RelayHeld(conn'[t].up) \subseteq Relay!Frames \cup {} /\ RelayHeld(conn'[t].down) \subseteq Relay!Frames \cup {}
               /\ RelayHeld(queue'[t]) \subseteq Relay!Frames \cup {}
    <3>1. /\ conn'[t].up = conn[t].up /\ conn'[t].down = conn[t].down
          /\ queue'[t] = queue[t] \/ queue'[t] = <<>>
      BY <1>1 DEF Relay!Register, RelayBuffers
    <3> QED BY <3>1, RelayHere, RelayHeldEmpty
  <2>5. Relay!Frames' \subseteq Relay!Frames BY <2>4, RelayTraffic
  <2> QED BY <1>1, <2>1, <2>2, <2>3, <2>5 DEF RelayBuffers, RelayConns, Relay!Register
<1>2. CASE Relay!RegistrationFails(s)
  <2>1. conn' \in [Slots -> RelayConns] BY <1>2 DEF Relay!RegistrationFails, RelayBuffers, RelayConns
  <2>4. ASSUME NEW t \in Slots
        PROVE  /\ RelayHeld(conn'[t].up) \subseteq Relay!Frames \cup {} /\ RelayHeld(conn'[t].down) \subseteq Relay!Frames \cup {}
               /\ RelayHeld(queue'[t]) \subseteq Relay!Frames \cup {}
    <3>1. /\ conn'[t].up = conn[t].up /\ conn'[t].down = conn[t].down
          /\ queue'[t] = queue[t]
      BY <1>2 DEF Relay!RegistrationFails, RelayBuffers
    <3> QED BY <3>1, RelayHere
  <2>5. Relay!Frames' \subseteq Relay!Frames BY <2>4, RelayTraffic
  <2> QED BY <1>2, <2>1, <2>5 DEF RelayBuffers, RelayConns, Relay!RegistrationFails
<1>3. CASE Relay!Forward(s)
  <2>1. CASE Relay!Ends(s) BY <2>1, <1>3, RelayEndsTraffic DEF Relay!Forward
  <2>2. CASE ~Relay!Ends(s)
    <3> DEFINE to == relay_route[Relay!Other(conn[s].owner)]
    <3>1. /\ Relay!Carries(s) /\ Len(queue[to]) < relay_Queue /\ conn[s].up # <<>>
          /\ queue' = [queue EXCEPT ![to] = Append(@, Head(conn[s].up))]
          /\ conn' = [conn EXCEPT ![s].up = Tail(@)]
          /\ UNCHANGED <<relay_route, end>>
      BY <1>3, <2>2 DEF Relay!Forward
    <3>2. to \in Slots
      BY <3>1 DEF Relay!Carries, RelayBuffers, Relay!Other, Relay!Peers, RelayAnySlot
    <3>3. PICK u \in Slots : u = to BY <3>2
    <3> HIDE DEF to
    <3>4. conn[s].up \in Seq(RelayFrameSet) /\ queue[u] \in Seq(RelayFrameSet) /\ Len(queue[u]) \in Nat
      BY <1>a DEF RelayConns, RelayBuffers
    <3>5. /\ RelayHeld(Tail(conn[s].up)) \subseteq RelayHeld(conn[s].up) /\ Head(conn[s].up) \in RelayHeld(conn[s].up)
          /\ RelayHeld(conn[s].up) \subseteq RelayFrameSet
          /\ Tail(conn[s].up) \in Seq(RelayFrameSet)
      BY <3>1, <3>4, RelayHeldFacts
    <3>6. PICK f \in RelayFrameSet : f = Head(conn[s].up) BY <3>5
    <3>7. /\ RelayHeld(Append(queue[u], f)) \subseteq RelayHeld(queue[u]) \cup {f}
          /\ Append(queue[u], f) \in Seq(RelayFrameSet) /\ Len(Append(queue[u], f)) = Len(queue[u]) + 1
      BY <3>4, RelayHeldFacts
    <3>8. queue' = [queue EXCEPT ![u] = Append(queue[u], f)] BY <3>1, <3>3, <3>6
    <3>9. Len(queue[u]) < relay_Queue BY <3>1, <3>3
    <3>10. conn' \in [Slots -> RelayConns] BY <3>1, <3>5 DEF RelayBuffers, RelayConns
    <3>11. queue' \in [Slots -> Seq(RelayFrameSet)] BY <3>7, <3>8 DEF RelayBuffers
    <3>12. \A t \in Slots : Len(queue'[t]) <= relay_Queue
      BY <3>4, <3>7, <3>8, <3>9, <1>0 DEF RelayBuffers
    <3>13. f \in Relay!Frames BY <3>5, <3>6, RelayHere
    <3>14. ASSUME NEW t \in Slots
           PROVE  /\ RelayHeld(conn'[t].up) \subseteq Relay!Frames \cup {} /\ RelayHeld(conn'[t].down) \subseteq Relay!Frames \cup {}
                  /\ RelayHeld(queue'[t]) \subseteq Relay!Frames \cup {}
      <4>1. /\ conn'[t].up = conn[t].up \/ conn'[t].up = Tail(conn[s].up)
            /\ conn'[t].down = conn[t].down
        BY <3>1 DEF RelayBuffers
      <4>1a. queue'[t] = queue[t] \/ queue'[t] = Append(queue[u], f)
        BY <3>8 DEF RelayBuffers
      <4>2. RelayHeld(queue'[t]) \subseteq RelayHeld(queue[t]) \cup RelayHeld(queue[u]) \cup {f}
        BY <4>1a, <3>7
      <4>3. RelayHeld(conn'[t].up) \subseteq RelayHeld(conn[t].up) \cup RelayHeld(conn[s].up)
        BY <4>1, <3>5
      <4> QED BY <4>1, <4>2, <4>3, <3>13, RelayHere
    <3>15. Relay!Frames' \subseteq Relay!Frames BY <3>14, RelayTraffic
    <3> QED BY <3>1, <3>10, <3>11, <3>12, <3>15 DEF RelayBuffers, RelayConns
  <2> QED BY <2>1, <2>2
<1>4. CASE Relay!Write(s)
  <2>1. /\ queue[s] # <<>> /\ conn' = [conn EXCEPT ![s].down = Append(@, Head(queue[s]))]
        /\ queue' = [queue EXCEPT ![s] = Tail(@)] /\ UNCHANGED <<relay_route, end>>
    BY <1>4 DEF Relay!Write
  <2>2. conn[s].down \in Seq(RelayFrameSet) /\ queue[s] \in Seq(RelayFrameSet) /\ Len(queue[s]) \in Nat
    BY <1>a DEF RelayConns, RelayBuffers
  <2>3. /\ RelayHeld(Tail(queue[s])) \subseteq RelayHeld(queue[s]) /\ Head(queue[s]) \in RelayHeld(queue[s])
        /\ RelayHeld(queue[s]) \subseteq RelayFrameSet
        /\ Tail(queue[s]) \in Seq(RelayFrameSet) /\ Len(Tail(queue[s])) = Len(queue[s]) - 1
    BY <2>1, <2>2, RelayHeldFacts
  <2>4. PICK f \in RelayFrameSet : f = Head(queue[s]) BY <2>3
  <2>5. /\ RelayHeld(Append(conn[s].down, f)) \subseteq RelayHeld(conn[s].down) \cup {f}
        /\ Append(conn[s].down, f) \in Seq(RelayFrameSet)
    BY <2>2, RelayHeldFacts
  <2>6. conn' = [conn EXCEPT ![s].down = Append(conn[s].down, f)] BY <2>1, <2>4
  <2>7. conn' \in [Slots -> RelayConns] BY <2>5, <2>6 DEF RelayBuffers, RelayConns
  <2>8. queue' \in [Slots -> Seq(RelayFrameSet)] /\ \A t \in Slots : Len(queue'[t]) <= relay_Queue
    BY <2>1, <2>2, <2>3, <1>0 DEF RelayBuffers
  <2>9. f \in Relay!Frames BY <2>3, <2>4, RelayHere
  <2>10. ASSUME NEW t \in Slots
         PROVE  /\ RelayHeld(conn'[t].up) \subseteq Relay!Frames \cup {} /\ RelayHeld(conn'[t].down) \subseteq Relay!Frames \cup {}
                /\ RelayHeld(queue'[t]) \subseteq Relay!Frames \cup {}
    <3>1. /\ conn'[t].up = conn[t].up
          /\ conn'[t].down = conn[t].down \/ conn'[t].down = Append(conn[s].down, f)
          /\ queue'[t] = queue[t] \/ queue'[t] = Tail(queue[s])
      BY <2>1, <2>6 DEF RelayBuffers
    <3>2. RelayHeld(conn'[t].down) \subseteq RelayHeld(conn[t].down) \cup RelayHeld(conn[s].down) \cup {f}
      BY <3>1, <2>5
    <3>3. RelayHeld(queue'[t]) \subseteq RelayHeld(queue[t]) \cup RelayHeld(queue[s])
      BY <3>1, <2>3
    <3> QED BY <3>1, <3>2, <3>3, <2>9, RelayHere
  <2>11. Relay!Frames' \subseteq Relay!Frames BY <2>10, RelayTraffic
  <2> QED BY <2>1, <2>7, <2>8, <2>11 DEF RelayBuffers, RelayConns
<1>5. CASE Relay!RelayEnds(s) BY <1>5, RelayEndsTraffic DEF Relay!RelayEnds
<1> QED BY <1>1, <1>2, <1>3, <1>4, <1>5 DEF Relay!Relay

\* A step of an end adds to what is under way only what it sends.
LEMMA RelayMoves ==
  ASSUME RelayBuffers, NEW N, conn' \in [Slots -> RelayConns], UNCHANGED <<relay_route, queue>>,
         \A t \in Slots : RelayHeld(conn'[t].up) \subseteq Relay!Frames \cup N /\ RelayHeld(conn'[t].down) \subseteq Relay!Frames \cup N
  PROVE  RelayBuffers' /\ Relay!Frames' \subseteq Relay!Frames \cup N
<1>1. ASSUME NEW t \in Slots
      PROVE  /\ RelayHeld(conn'[t].up) \subseteq Relay!Frames \cup N /\ RelayHeld(conn'[t].down) \subseteq Relay!Frames \cup N
             /\ RelayHeld(queue'[t]) \subseteq Relay!Frames \cup N
  BY RelayHere
<1>2. Relay!Frames' \subseteq Relay!Frames \cup N BY <1>1, RelayTraffic
<1> QED BY <1>2 DEF RelayBuffers, RelayConns

\* What a socket holds once an end has written to it.
LEMMA RelaySendingKeeps ==
  ASSUME NEW c \in [Slots -> RelayConns], NEW s, NEW fs \in Seq(RelayFrameSet), NEW N, RelayHeld(fs) \subseteq N,
         \A t \in Slots : RelayHeld(c[t].up) \subseteq N /\ RelayHeld(c[t].down) \subseteq N
  PROVE  /\ Relay!Sending(c, s, fs) \in [Slots -> RelayConns]
         /\ \A t \in Slots : /\ RelayHeld(Relay!Sending(c, s, fs)[t].up) \subseteq N
                             /\ RelayHeld(Relay!Sending(c, s, fs)[t].down) \subseteq N
<1>1. \A t \in Slots : c[t].up \in Seq(RelayFrameSet) BY DEF RelayConns
<1>2. ASSUME NEW t \in Slots
      PROVE  c[t].up \o fs \in Seq(RelayFrameSet) /\ RelayHeld(c[t].up \o fs) \subseteq RelayHeld(c[t].up) \cup RelayHeld(fs)
  BY <1>1 DEF RelayHeld
<1>3. Relay!Sending(c, s, fs) \in [Slots -> RelayConns] BY <1>2 DEF Relay!Sending, RelayConns
<1>4. ASSUME NEW t \in Slots
      PROVE  /\ RelayHeld(Relay!Sending(c, s, fs)[t].up) \subseteq N
             /\ RelayHeld(Relay!Sending(c, s, fs)[t].down) \subseteq N
  <2>1. /\ Relay!Sending(c, s, fs)[t].up = c[t].up \/ Relay!Sending(c, s, fs)[t].up = c[t].up \o fs
        /\ Relay!Sending(c, s, fs)[t].down = c[t].down
    BY DEF Relay!Sending, RelayConns
  <2> QED BY <2>1, <1>2
<1> QED BY <1>3, <1>4

\* What the sequences of one and of two frames hold.
LEMMA RelayHeldFew == \A e, f : RelayHeld(<<e>>) = {e} /\ RelayHeld(<<e, f>>) = {e, f}
  BY DEF RelayHeld

\* The frame an end receives was under way, and the others still are.
LEMMA RelayTakenKeeps ==
  ASSUME RelayBuffers, NEW p, end[p].slot \in Slots, conn[end[p].slot].down # <<>>
  PROVE  /\ Relay!Taken(p) \in [Slots -> RelayConns] /\ Relay!Received(p) \in Relay!Frames /\ Relay!Received(p) \in RelayFrameSet
         /\ \A t \in Slots : RelayHeld(Relay!Taken(p)[t].up) \subseteq Relay!Frames /\ RelayHeld(Relay!Taken(p)[t].down) \subseteq Relay!Frames
<1>0. PICK s \in Slots : s = end[p].slot OBVIOUS
<1>1. conn[s] \in RelayConns /\ conn[s].down \in Seq(RelayFrameSet) BY DEF RelayBuffers, RelayConns
<1>2. /\ RelayHeld(Tail(conn[s].down)) \subseteq RelayHeld(conn[s].down) /\ Head(conn[s].down) \in RelayHeld(conn[s].down)
      /\ RelayHeld(conn[s].down) \subseteq RelayFrameSet /\ Tail(conn[s].down) \in Seq(RelayFrameSet)
  BY <1>0, <1>1, RelayHeldFacts
<1>3. Relay!Taken(p) = [conn EXCEPT ![s].down = Tail(conn[s].down)] BY <1>0 DEF Relay!Taken
<1>4. Relay!Taken(p) \in [Slots -> RelayConns] BY <1>2, <1>3 DEF RelayBuffers, RelayConns
<1>5. ASSUME NEW t \in Slots
      PROVE  RelayHeld(Relay!Taken(p)[t].up) \subseteq Relay!Frames /\ RelayHeld(Relay!Taken(p)[t].down) \subseteq Relay!Frames
  <2>1. /\ Relay!Taken(p)[t].up = conn[t].up
        /\ Relay!Taken(p)[t].down = conn[t].down \/ Relay!Taken(p)[t].down = Tail(conn[s].down)
    BY <1>3 DEF RelayBuffers
  <2>2. RelayHeld(Relay!Taken(p)[t].down) \subseteq RelayHeld(conn[t].down) \cup RelayHeld(conn[s].down) BY <2>1, <1>2
  <2> QED BY <2>1, <2>2, RelayHere
<1>6. Relay!Received(p) \in RelayHeld(conn[s].down) BY <1>0, <1>2 DEF Relay!Received
<1> QED BY <1>2, <1>4, <1>5, <1>6, RelayHere

\* An end that gives up an attempt only loses frames.
LEMMA RelayFailsTraffic ==
  ASSUME RelayBuffers, NEW p \in Relay!Peers, Relay!Fails(p), UNCHANGED <<relay_route, queue>>
  PROVE  RelayBuffers' /\ Relay!Frames' \subseteq Relay!Frames
<1>0. <<>> \in Seq(RelayFrameSet) OBVIOUS
<1>1. conn' \in [Slots -> RelayConns] BY <1>0 DEF Relay!Fails, RelayBuffers, RelayConns
<1>2. ASSUME NEW t \in Slots
      PROVE  RelayHeld(conn'[t].up) \subseteq Relay!Frames \cup {} /\ RelayHeld(conn'[t].down) \subseteq Relay!Frames \cup {}
  <2>1. /\ conn'[t].up = conn[t].up
        /\ conn'[t].down = conn[t].down \/ conn'[t].down = <<>>
    BY DEF Relay!Fails, RelayBuffers
  <2> QED BY <2>1, RelayHere, RelayHeldEmpty
<1>3. RelayBuffers' /\ Relay!Frames' \subseteq Relay!Frames \cup {} BY <1>1, <1>2, RelayMoves
<1> QED BY <1>3

\* The part of the invariant that speaks of the attempts and the frames.
RelayAgreed == RelayAttempts /\ RelaySeparate /\ RelayFresh /\ RelayOfTheHost /\ RelayOfTheHub /\ RelayNoneAfter

\* The agreement of the ends outlives every loss of frames.
LEMMA RelayQuietKeeps ==
  ASSUME RelayAgreed, end' = end, Relay!Frames' \subseteq Relay!Frames
  PROVE  RelayAgreed'
<1>1. RelayAttempts' /\ RelaySeparate' BY DEF RelayAgreed, RelayAttempts, RelaySeparate
<1>2. RelayFresh' BY DEF RelayAgreed, RelayFresh
<1>3. RelayOfTheHost' BY DEF RelayAgreed, RelayOfTheHost, RelayFinishing
<1>4. RelayOfTheHub' BY DEF RelayAgreed, RelayOfTheHub, RelayFinishing
<1>5. RelayConfirmed' => RelayConfirmed BY DEF RelayConfirmed, RelayFinishing
<1>6. RelayNoneAfter' BY <1>5 DEF RelayAgreed, RelayNoneAfter, RelayFinishing
<1> QED BY <1>1, <1>2, <1>3, <1>4, <1>6 DEF RelayAgreed

\* The agreement of the ends outlives an attempt that is given up.
LEMMA RelayFailsKeeps ==
  ASSUME Relay!PairingAssumption, RelayAgreed, Relay!Frames \subseteq RelayFrameSet, Relay!Frames' \subseteq Relay!Frames,
         NEW p \in Relay!Peers, end' = [end EXCEPT ![p] = Relay!Idle]
  PROVE  RelayAgreed'
<1>0. /\ end[host] \in [pc : RelayPcs, slot : RelayAnySlot, init : RelayAnySlot, resp : RelayAnySlot]
      /\ end[hub] \in [pc : RelayPcs, slot : RelayAnySlot, init : RelayAnySlot, resp : RelayAnySlot]
      /\ host # hub /\ NoSlot \notin Slots /\ Relay!Idle \in [pc : RelayPcs, slot : RelayAnySlot, init : RelayAnySlot, resp : RelayAnySlot]
  BY DEF RelayAgreed, RelayAttempts, Relay!Peers, Relay!PairingAssumption, Relay!Idle, RelayPcs, RelayAnySlot
<1>1. \A f \in Relay!Frames : f.init # NoSlot /\ (f.resp = NoSlot => f.kind = "m1")
  BY <1>0 DEF RelayFrameSet
<1>2. /\ end'[p] = Relay!Idle /\ \A q \in Relay!Peers \ {p} : end'[q] = end[q]
      /\ end' \in [Relay!Peers -> [pc : RelayPcs, slot : RelayAnySlot, init : RelayAnySlot, resp : RelayAnySlot]]
  BY <1>0 DEF RelayAgreed, RelayAttempts
<1>3. p = host \/ p = hub BY DEF Relay!Peers
<1>4. end'[host] = end[host] \/ end'[host] = Relay!Idle BY <1>2, <1>3 DEF Relay!Peers
<1>5. end'[hub] = end[hub] \/ end'[hub] = Relay!Idle BY <1>2, <1>3 DEF Relay!Peers
<1>6. RelayAttempts' BY <1>0, <1>2, <1>3, <1>4, <1>5 DEF RelayAgreed, RelayAttempts, Relay!Peers, Relay!Idle
<1>7. RelaySeparate' BY <1>0, <1>4, <1>5 DEF RelayAgreed, RelaySeparate, Relay!Idle
<1>8. RelayFresh'
  <2>1. ASSUME NEW q \in Relay!Peers, end'[q].pc = "connecting"
        PROVE  /\ end'[Relay!Other(q)].init # end'[q].slot /\ end'[Relay!Other(q)].resp # end'[q].slot
               /\ \A f \in Relay!Frames' : f.init # end'[q].slot /\ f.resp # end'[q].slot
    <3>1. end'[q] = end[q] /\ end[q].pc = "connecting" /\ end[q].slot # NoSlot
      BY <1>2, <2>1 DEF Relay!Idle, RelayAgreed, RelayAttempts
    <3>2. end'[Relay!Other(q)] = end[Relay!Other(q)] \/ end'[Relay!Other(q)] = Relay!Idle
      BY <1>4, <1>5 DEF Relay!Other
    <3> QED BY <3>1, <3>2 DEF RelayAgreed, RelayFresh, Relay!Idle
  <2> QED BY <2>1 DEF RelayFresh
<1>9. RelayOfTheHost'
  BY <1>0, <1>1, <1>4, <1>5 DEF RelayAgreed, RelayAttempts, RelayOfTheHost, RelayFinishing, Relay!Idle, Relay!Peers
<1>10. RelayOfTheHub'
  BY <1>0, <1>1, <1>4, <1>5 DEF RelayAgreed, RelayAttempts, RelayOfTheHub, RelayFinishing, Relay!Idle, Relay!Peers
<1>11. RelayNoneAfter'
  <2> SUFFICES ASSUME RelayConfirmed', end'[hub].resp # end'[host].resp
               PROVE  ~RelayFinishing(hub)' /\ \A f \in Relay!Frames' : f.kind \in {"m3", "bindI", "dataI"} => f.resp # end'[hub].resp
    BY DEF RelayNoneAfter
  <2>1. end'[host] = end[host] /\ RelayConfirmed
    BY <1>4 DEF RelayConfirmed, RelayFinishing, Relay!Idle
  <2>2. CASE end'[hub] = end[hub]
    BY <2>1, <2>2 DEF RelayAgreed, RelayNoneAfter, RelayFinishing
  <2>3. CASE end'[hub] = Relay!Idle
    BY <2>3, <1>1 DEF RelayFinishing, Relay!Idle
  <2> QED BY <2>2, <2>3, <1>5
<1> QED BY <1>6, <1>7, <1>8, <1>9, <1>10, <1>11 DEF RelayAgreed

RelayEndType == [pc : RelayPcs, slot : RelayAnySlot, init : RelayAnySlot, resp : RelayAnySlot]

\* An attempt begins with a connection of which nobody has heard.
LEMMA RelayConnectInv ==
  ASSUME Relay!PairingAssumption, RelayIInv, NEW p \in Relay!Peers, Relay!Connect(p)
  PROVE  RelayIInv'
<1> USE DEF RelayIInv
<1>0. PICK s \in Slots :
        /\ ~Relay!Remembered(s)
        /\ conn' = [conn EXCEPT ![s] = [state |-> "registering", owner |-> p, closed |-> FALSE,
                                        up |-> <<>>, down |-> <<>>]]
        /\ end' = [end EXCEPT ![p] = [Relay!Idle EXCEPT !.pc = "connecting", !.slot = s]]
        /\ end[p].pc = "idle" /\ UNCHANGED <<relay_route, queue>>
  BY DEF Relay!Connect
<1>a. <<>> \in Seq(RelayFrameSet) OBVIOUS
<1>b. conn' \in [Slots -> RelayConns] BY <1>0, <1>a DEF RelayBuffers, RelayConns
<1>c. ASSUME NEW t \in Slots
      PROVE  RelayHeld(conn'[t].up) \subseteq Relay!Frames \cup {} /\ RelayHeld(conn'[t].down) \subseteq Relay!Frames \cup {}
  <2>1. /\ conn'[t].up = conn[t].up \/ conn'[t].up = <<>>
        /\ conn'[t].down = conn[t].down \/ conn'[t].down = <<>>
    BY <1>0 DEF RelayBuffers
  <2> QED BY <2>1, RelayHere, RelayHeldEmpty
<1>d. RelayBuffers' /\ Relay!Frames' \subseteq Relay!Frames \cup {} BY <1>0, <1>b, <1>c, RelayMoves
<1>e. Relay!Frames \subseteq RelayFrameSet BY RelayFramesAreTyped
<1>1. /\ end[host] \in RelayEndType /\ end[hub] \in RelayEndType
      /\ host # hub /\ NoSlot \notin Slots
  BY DEF RelayAttempts, Relay!Peers, Relay!PairingAssumption, RelayEndType
<1>2. /\ \A q \in Relay!Peers : end[q].slot # s /\ end[q].init # s /\ end[q].resp # s
      /\ \A f \in Relay!Frames : f.init # s /\ f.resp # s
  BY <1>0 DEF Relay!Remembered
<1>3. /\ end'[p].pc = "connecting" /\ end'[p].slot = s /\ end'[p].init = NoSlot /\ end'[p].resp = NoSlot
      /\ end' \in [Relay!Peers -> RelayEndType] /\ \A q \in Relay!Peers \ {p} : end'[q] = end[q]
  BY <1>0 DEF RelayAttempts, Relay!Idle, RelayEndType, RelayPcs, RelayAnySlot
<1>4. (p = host /\ end'[hub] = end[hub]) \/ (p = hub /\ end'[host] = end[host])
  BY <1>1, <1>3 DEF Relay!Peers
<1>5. RelayAttempts'
  BY <1>1, <1>3, <1>4 DEF RelayAttempts, Relay!Peers, RelayEndType
<1>6. RelaySeparate' BY <1>2, <1>3, <1>4 DEF RelaySeparate, Relay!Peers
<1>7. RelayFresh'
  <2>1. ASSUME NEW q \in Relay!Peers, end'[q].pc = "connecting"
        PROVE  /\ end'[Relay!Other(q)].init # end'[q].slot /\ end'[Relay!Other(q)].resp # end'[q].slot
               /\ \A f \in Relay!Frames' : f.init # end'[q].slot /\ f.resp # end'[q].slot
    <3>1. CASE q = p
      <4>1. end'[Relay!Other(q)] = end[Relay!Other(q)] /\ Relay!Other(q) \in Relay!Peers
        BY <3>1, <1>1, <1>4 DEF Relay!Other, Relay!Peers
      <4> QED BY <3>1, <4>1, <1>2, <1>3, <1>d
    <3>2. CASE q # p
      <4>1. end'[q] = end[q] /\ Relay!Other(q) = p /\ end[q].slot # NoSlot
        BY <3>2, <1>1, <1>3, <2>1 DEF Relay!Other, Relay!Peers, RelayAttempts
      <4> QED BY <4>1, <2>1, <1>d, <1>3 DEF RelayFresh
    <3> QED BY <3>1, <3>2
  <2> QED BY <2>1 DEF RelayFresh
<1>8. \A f \in Relay!Frames : f.init # NoSlot /\ (f.resp = NoSlot => f.kind = "m1")
  BY <1>e, <1>1 DEF RelayFrameSet
<1>9. RelayOfTheHost'
  BY <1>1, <1>3, <1>4, <1>8, <1>d DEF RelayAttempts, RelayOfTheHost, RelayFinishing, Relay!Peers
<1>10. RelayOfTheHub'
  BY <1>1, <1>3, <1>4, <1>8, <1>d DEF RelayAttempts, RelayOfTheHub, RelayFinishing, Relay!Peers
<1>11. RelayNoneAfter'
  <2> SUFFICES ASSUME RelayConfirmed', end'[hub].resp # end'[host].resp
               PROVE  ~RelayFinishing(hub)' /\ \A f \in Relay!Frames' : f.kind \in {"m3", "bindI", "dataI"} => f.resp # end'[hub].resp
    BY DEF RelayNoneAfter
  <2>1. p = hub /\ end'[host] = end[host]
    BY <1>3, <1>4 DEF RelayConfirmed, RelayFinishing
  <2> QED BY <2>1, <1>3, <1>8, <1>d DEF RelayFinishing
<1> QED BY <1>d, <1>5, <1>6, <1>7, <1>9, <1>10, <1>11

\* A frame of the handshake or of the channel is a frame.
LEMMA RelayFrameTyped ==
  ASSUME NEW k \in RelayKinds, NEW i \in Slots, NEW r \in RelayAnySlot, r = NoSlot <=> k = "m1"
  PROVE  /\ Relay!Frame(k, i, r) \in RelayFrameSet
         /\ Relay!Frame(k, i, r).kind = k /\ Relay!Frame(k, i, r).init = i /\ Relay!Frame(k, i, r).resp = r
  BY DEF Relay!Frame, RelayFrameSet

\* The fields of a frame.
LEMMA RelayFrameFields ==
  \A k, i, r : Relay!Frame(k, i, r).kind = k /\ Relay!Frame(k, i, r).init = i /\ Relay!Frame(k, i, r).resp = r
  BY DEF Relay!Frame

\* One more frame in the socket of a slot.
LEMMA RelaySendOne ==
  ASSUME RelayBuffers, NEW c \in [Slots -> RelayConns], NEW s, NEW f \in RelayFrameSet,
         \A t \in Slots : RelayHeld(c[t].up) \subseteq Relay!Frames /\ RelayHeld(c[t].down) \subseteq Relay!Frames,
         conn' = Relay!Sending(c, s, <<f>>), UNCHANGED <<relay_route, queue>>
  PROVE  RelayBuffers' /\ Relay!Frames' \subseteq Relay!Frames \cup {f}
<1>1. <<f>> \in Seq(RelayFrameSet) /\ RelayHeld(<<f>>) = {f} BY RelayHeldFew
<1>2. \A t \in Slots : RelayHeld(c[t].up) \subseteq Relay!Frames \cup {f} /\ RelayHeld(c[t].down) \subseteq Relay!Frames \cup {f}
  OBVIOUS
<1>3. PICK N : N = Relay!Frames \cup {f} OBVIOUS
<1>4. /\ conn' \in [Slots -> RelayConns]
      /\ \A t \in Slots : RelayHeld(conn'[t].up) \subseteq N /\ RelayHeld(conn'[t].down) \subseteq N
  BY <1>1, <1>2, <1>3, RelaySendingKeeps
<1> QED BY <1>3, <1>4, RelayMoves

\* Two more frames in the socket of a slot.
LEMMA RelaySendTwo ==
  ASSUME RelayBuffers, NEW c \in [Slots -> RelayConns], NEW s, NEW f \in RelayFrameSet, NEW g \in RelayFrameSet,
         \A t \in Slots : RelayHeld(c[t].up) \subseteq Relay!Frames /\ RelayHeld(c[t].down) \subseteq Relay!Frames,
         conn' = Relay!Sending(c, s, <<f, g>>), UNCHANGED <<relay_route, queue>>
  PROVE  RelayBuffers' /\ Relay!Frames' \subseteq Relay!Frames \cup {f, g}
<1>1. <<f, g>> \in Seq(RelayFrameSet) /\ RelayHeld(<<f, g>>) = {f, g} BY RelayHeldFew
<1>2. \A t \in Slots : RelayHeld(c[t].up) \subseteq Relay!Frames \cup {f, g} /\ RelayHeld(c[t].down) \subseteq Relay!Frames \cup {f, g}
  OBVIOUS
<1>3. PICK N : N = Relay!Frames \cup {f, g} OBVIOUS
<1>4. /\ conn' \in [Slots -> RelayConns]
      /\ \A t \in Slots : RelayHeld(conn'[t].up) \subseteq N /\ RelayHeld(conn'[t].down) \subseteq N
  BY <1>1, <1>2, <1>3, RelaySendingKeeps
<1> QED BY <1>3, <1>4, RelayMoves

\* The Host sends its first message with the nonce of its connection.
LEMMA RelayAcceptedByHost ==
  ASSUME Relay!PairingAssumption, RelayIInv, Relay!Accepted(host)
  PROVE  RelayIInv'
<1> USE DEF RelayIInv
<1>1. /\ end[host] \in RelayEndType /\ end[hub] \in RelayEndType
      /\ host # hub /\ NoSlot \notin Slots
  BY DEF RelayAttempts, Relay!Peers, Relay!PairingAssumption, RelayEndType
<1>2. PICK s \in Slots : s = end[host].slot
  BY <1>1 DEF Relay!Accepted, RelayAttempts, RelayEndType, RelayAnySlot, Relay!Peers
<1>3. PICK f : f = Relay!Frame("m1", s, NoSlot)  OBVIOUS
<1>4. f \in RelayFrameSet /\ f.kind = "m1" /\ f.init = s /\ f.resp = NoSlot
  BY <1>1, <1>3, RelayFrameTyped DEF RelayKinds, RelayAnySlot
<1>5. /\ end[host].pc = "connecting" /\ end' = [end EXCEPT ![host].pc = "await2", ![host].init = s]
      /\ conn' = Relay!Sending(conn, s, <<f>>) /\ UNCHANGED <<relay_route, queue>>
  BY <1>2, <1>3 DEF Relay!Accepted
<1>6. RelayBuffers' /\ Relay!Frames' \subseteq Relay!Frames \cup {f}
  <2>1. conn \in [Slots -> RelayConns] BY DEF RelayBuffers, RelayConns
  <2>2. \A t \in Slots : RelayHeld(conn[t].up) \subseteq Relay!Frames /\ RelayHeld(conn[t].down) \subseteq Relay!Frames
    BY RelayHere
  <2> QED BY <2>1, <2>2, <1>4, <1>5, RelaySendOne
<1>7. /\ end'[host].pc = "await2" /\ end'[host].slot = s /\ end'[host].init = s /\ end'[host].resp = NoSlot
      /\ end'[hub] = end[hub] /\ end' \in [Relay!Peers -> RelayEndType]
  BY <1>1, <1>2, <1>5 DEF RelayAttempts, Relay!Peers, RelayEndType, RelayPcs, RelayAnySlot
<1>8. RelayAttempts'
  BY <1>1, <1>7 DEF RelayAttempts, Relay!Peers, RelayEndType
<1>9. end[hub].init # s /\ end[hub].resp # s /\ \A g \in Relay!Frames : g.init # s /\ g.resp # s
  <2>1. Relay!Other(host) = hub BY DEF Relay!Other
  <2> QED BY <2>1, <1>2, <1>5 DEF RelayFresh, Relay!Peers
<1>10. RelaySeparate' BY <1>2, <1>7 DEF RelaySeparate
<1>11. RelayFresh'
  <2>1. ASSUME end'[hub].pc = "connecting"
        PROVE  /\ end'[host].init # end'[hub].slot /\ end'[host].resp # end'[hub].slot
               /\ \A g \in Relay!Frames' : g.init # end'[hub].slot /\ g.resp # end'[hub].slot
    <3>1. end[hub].slot # s /\ end[hub].slot # NoSlot
      BY <1>1, <1>2, <1>7, <2>1 DEF RelaySeparate, RelayAttempts, Relay!Peers
    <3>2. Relay!Other(hub) = host BY <1>1 DEF Relay!Other
    <3>3. \A g \in Relay!Frames : g.init # end[hub].slot /\ g.resp # end[hub].slot
      BY <3>2, <1>7, <2>1 DEF RelayFresh, Relay!Peers
    <3> QED BY <3>1, <3>3, <1>4, <1>6, <1>7
  <2>2. Relay!Other(hub) = host BY <1>1 DEF Relay!Other
  <2> QED BY <2>1, <2>2, <1>7 DEF RelayFresh, Relay!Peers
<1>12. RelayOfTheHost'
  BY <1>4, <1>6, <1>7, <1>9 DEF RelayOfTheHost, RelayFinishing
<1>13. RelayOfTheHub'
  BY <1>4, <1>6, <1>7 DEF RelayOfTheHub, RelayFinishing
<1>14. RelayNoneAfter' BY <1>7 DEF RelayNoneAfter, RelayConfirmed, RelayFinishing
<1> QED BY <1>6, <1>8, <1>10, <1>11, <1>12, <1>13, <1>14

\* The Hub waits for a first message.
LEMMA RelayAcceptedByHub ==
  ASSUME Relay!PairingAssumption, RelayIInv, Relay!Accepted(hub)
  PROVE  RelayIInv'
<1> USE DEF RelayIInv
<1>1. /\ end[host] \in RelayEndType /\ end[hub] \in RelayEndType
      /\ host # hub /\ NoSlot \notin Slots
  BY DEF RelayAttempts, Relay!Peers, Relay!PairingAssumption, RelayEndType
<1>2. PICK s \in Slots : s = end[hub].slot
  BY <1>1 DEF Relay!Accepted, RelayAttempts, RelayEndType, RelayAnySlot, Relay!Peers
<1>5. /\ end[hub].pc = "connecting" /\ end' = [end EXCEPT ![hub].pc = "await1", ![hub].resp = s]
      /\ UNCHANGED <<conn, relay_route, queue>>
  BY <1>1, <1>2 DEF Relay!Accepted
<1>6. RelayBuffers' /\ Relay!Frames' = Relay!Frames
  BY <1>5 DEF RelayBuffers, Relay!Frames
<1>7. /\ end'[hub].pc = "await1" /\ end'[hub].slot = s /\ end'[hub].init = NoSlot /\ end'[hub].resp = s
      /\ end'[host] = end[host] /\ end' \in [Relay!Peers -> RelayEndType]
  BY <1>1, <1>2, <1>5 DEF RelayAttempts, Relay!Peers, RelayEndType, RelayPcs, RelayAnySlot
<1>8. RelayAttempts'
  BY <1>1, <1>7 DEF RelayAttempts, Relay!Peers, RelayEndType
<1>9. end[host].init # s /\ end[host].resp # s /\ \A g \in Relay!Frames : g.init # s /\ g.resp # s
  <2>1. Relay!Other(hub) = host BY <1>1 DEF Relay!Other
  <2> QED BY <2>1, <1>2, <1>5 DEF RelayFresh, Relay!Peers
<1>10. RelaySeparate' BY <1>2, <1>7 DEF RelaySeparate
<1>11. RelayFresh'
  <2>1. ASSUME end'[host].pc = "connecting"
        PROVE  /\ end'[hub].init # end'[host].slot /\ end'[hub].resp # end'[host].slot
               /\ \A g \in Relay!Frames' : g.init # end'[host].slot /\ g.resp # end'[host].slot
    <3>1. end[host].slot # s /\ end[host].slot # NoSlot
      BY <1>1, <1>2, <1>7, <2>1 DEF RelaySeparate, RelayAttempts, Relay!Peers
    <3>3. \A g \in Relay!Frames : g.init # end[host].slot /\ g.resp # end[host].slot
      BY <1>7, <2>1 DEF RelayFresh, Relay!Peers
    <3> QED BY <3>1, <3>3, <1>6, <1>7
  <2>2. Relay!Other(host) = hub BY DEF Relay!Other
  <2> QED BY <2>1, <2>2, <1>7 DEF RelayFresh, Relay!Peers
<1>12. RelayOfTheHost'
  BY <1>6, <1>7, <1>9 DEF RelayOfTheHost, RelayFinishing
<1>13. RelayOfTheHub'
  BY <1>6, <1>7, <1>9 DEF RelayOfTheHub, RelayFinishing
<1>14. RelayNoneAfter' BY <1>6, <1>7, <1>9 DEF RelayNoneAfter, RelayConfirmed, RelayFinishing
<1> QED BY <1>6, <1>8, <1>10, <1>11, <1>12, <1>13, <1>14

\* The type of an end, and that there are two.
LEMMA RelayEndFacts ==
  ASSUME Relay!PairingAssumption, RelayAttempts
  PROVE  /\ end[host] \in RelayEndType /\ end[hub] \in RelayEndType /\ end \in [Relay!Peers -> RelayEndType]
         /\ host # hub /\ NoSlot \notin Slots /\ Relay!Other(host) = hub /\ Relay!Other(hub) = host
         /\ \A p \in Relay!Peers : end[p].pc # "idle" => end[p].slot \in Slots
  BY DEF RelayAttempts, Relay!Peers, Relay!PairingAssumption, RelayEndType, Relay!Other, RelayAnySlot

\* The Host answers the second message of the handshake with the third.
LEMMA RelayHostReceivesInv ==
  ASSUME Relay!PairingAssumption, RelayIInv, Relay!HostReceives
  PROVE  RelayIInv'
<1> USE DEF RelayIInv
<1>1. /\ end[host] \in RelayEndType /\ end[hub] \in RelayEndType /\ end \in [Relay!Peers -> RelayEndType]
      /\ host # hub /\ NoSlot \notin Slots /\ Relay!Other(host) = hub /\ Relay!Other(hub) = host
      /\ end[host].slot \in Slots
  BY RelayEndFacts DEF Relay!HostReceives, Relay!Receives, Relay!Peers
<1>2. PICK s \in Slots : s = end[host].slot BY <1>1
<1>3. PICK f : f = Relay!Received(host) OBVIOUS
<1>4. /\ Relay!Taken(host) \in [Slots -> RelayConns] /\ f \in Relay!Frames /\ f \in RelayFrameSet
      /\ \A t \in Slots : RelayHeld(Relay!Taken(host)[t].up) \subseteq Relay!Frames /\ RelayHeld(Relay!Taken(host)[t].down) \subseteq Relay!Frames
  BY <1>1, <1>3, RelayTakenKeeps DEF Relay!HostReceives, Relay!Receives
<1>5. end[host].pc = "await2" /\ UNCHANGED <<relay_route, queue>>  BY DEF Relay!HostReceives, Relay!Receives
<1>a. Relay!Frames \subseteq RelayFrameSet BY RelayFramesAreTyped
<1>6. CASE f.kind = "m2" /\ Relay!Reads(host, f)
  <2>0. PICK r : r = f.resp OBVIOUS
  <2>1. f.kind = "m2" /\ f.init = s /\ f.resp = r /\ r \in Slots
    BY <1>1, <1>2, <1>4, <1>5, <1>6, <2>0 DEF Relay!Reads, RelayAttempts, RelayFrameSet, RelayAnySlot
  <2>2. PICK g, h : g = Relay!Frame("m3", s, r) /\ h = Relay!Frame("bindI", s, r)  OBVIOUS
  <2>3. /\ g \in RelayFrameSet /\ g.kind = "m3" /\ g.init = s /\ g.resp = r
        /\ h \in RelayFrameSet /\ h.kind = "bindI" /\ h.init = s /\ h.resp = r
    <3>1. r \in RelayAnySlot /\ r # NoSlot BY <1>1, <2>1 DEF RelayAnySlot
    <3> QED BY <2>2, <3>1, RelayFrameTyped DEF RelayKinds
  <2>4. /\ end' = [end EXCEPT ![host].pc = "awaitBinding", ![host].resp = r]
        /\ conn' = Relay!Sending(Relay!Taken(host), s, <<g, h>>)
    BY <1>2, <1>3, <1>6, <2>0, <2>2 DEF Relay!HostReceives
  <2>5. RelayBuffers' /\ Relay!Frames' \subseteq Relay!Frames \cup {g, h} BY <1>4, <1>5, <2>3, <2>4, RelaySendTwo
  <2>6. /\ end'[host].pc = "awaitBinding" /\ end'[host].slot = s /\ end'[host].init = s
        /\ end'[host].resp = r /\ end'[hub] = end[hub] /\ end' \in [Relay!Peers -> RelayEndType]
    <3>1. end[host].init = s BY <1>2, <1>5 DEF RelayAttempts
    <3> QED BY <1>1, <1>2, <2>1, <2>4, <3>1 DEF Relay!Peers, RelayEndType, RelayPcs, RelayAnySlot
  <2>7. RelayAttempts' BY <1>1, <2>1, <2>6 DEF RelayAttempts, Relay!Peers, RelayEndType
  <2>8. RelaySeparate' BY <1>2, <2>6 DEF RelaySeparate
  <2>9. RelayFresh'
    <3>1. ASSUME end'[hub].pc = "connecting"
          PROVE  /\ end'[host].init # end'[hub].slot /\ end'[host].resp # end'[hub].slot
                 /\ \A x \in Relay!Frames' : x.init # end'[hub].slot /\ x.resp # end'[hub].slot
      <4>1. end[hub].slot # s
        BY <1>1, <1>2 DEF RelaySeparate
      <4>2. \A x \in Relay!Frames : x.init # end[hub].slot /\ x.resp # end[hub].slot
        BY <2>6, <3>1 DEF RelayFresh, Relay!Peers
      <4> QED BY <1>4, <2>1, <2>3, <2>5, <2>6, <4>1, <4>2
    <3> QED BY <1>1, <3>1, <2>6 DEF RelayFresh, Relay!Peers
  <2>10. RelayOfTheHost'
    <3>0. end[host].init = s /\ ~RelayFinishing(host) BY <1>2, <1>5 DEF RelayAttempts, RelayFinishing
    <3> QED BY <2>3, <2>5, <2>6, <3>0 DEF RelayOfTheHost, RelayFinishing
  <2>11. RelayOfTheHub'
    <3>1. r = end[hub].resp => s = end[hub].init BY <1>4, <2>1 DEF RelayOfTheHub
    <3> QED BY <2>3, <2>5, <2>6, <3>1 DEF RelayOfTheHub, RelayFinishing
  <2>12. RelayNoneAfter'
    <3>0. end[host].init = s /\ ~RelayFinishing(host) BY <1>2, <1>5 DEF RelayAttempts, RelayFinishing
    <3>1. \A x \in Relay!Frames : x.kind \in {"bindR", "dataR"} => x.init # s
      BY <3>0 DEF RelayOfTheHost
    <3>2. ~RelayConfirmed' BY <2>3, <2>5, <2>6, <3>1 DEF RelayConfirmed
    <3> QED BY <3>2 DEF RelayNoneAfter
  <2> QED BY <2>5, <2>7, <2>8, <2>9, <2>10, <2>11, <2>12
<1>7. CASE ~(f.kind = "m2" /\ Relay!Reads(host, f))
  <2>1. Relay!Fails(host) BY <1>3, <1>7 DEF Relay!HostReceives
  <2>2. RelayBuffers' /\ Relay!Frames' \subseteq Relay!Frames BY <2>1, <1>5, RelayFailsTraffic DEF Relay!Peers
  <2>3. RelayAgreed' BY <2>1, <2>2, <1>a, RelayFailsKeeps DEF Relay!Fails, RelayAgreed, Relay!Peers
  <2> QED BY <2>2, <2>3 DEF RelayAgreed
<1> QED BY <1>6, <1>7

\* The Hub answers a first message with its own nonce.
LEMMA RelayHubReceivesFirstInv ==
  ASSUME Relay!PairingAssumption, RelayIInv, Relay!HubReceivesFirst
  PROVE  RelayIInv'
<1> USE DEF RelayIInv
<1>1. /\ end[host] \in RelayEndType /\ end[hub] \in RelayEndType /\ end \in [Relay!Peers -> RelayEndType]
      /\ host # hub /\ NoSlot \notin Slots /\ Relay!Other(host) = hub /\ Relay!Other(hub) = host
      /\ end[hub].slot \in Slots
  BY RelayEndFacts DEF Relay!HubReceivesFirst, Relay!Receives, Relay!Peers
<1>2. PICK s \in Slots : s = end[hub].slot BY <1>1
<1>3. PICK f : f = Relay!Received(hub) OBVIOUS
<1>4. /\ Relay!Taken(hub) \in [Slots -> RelayConns] /\ f \in Relay!Frames /\ f \in RelayFrameSet
      /\ \A t \in Slots : RelayHeld(Relay!Taken(hub)[t].up) \subseteq Relay!Frames /\ RelayHeld(Relay!Taken(hub)[t].down) \subseteq Relay!Frames
  BY <1>1, <1>3, RelayTakenKeeps DEF Relay!HubReceivesFirst, Relay!Receives
<1>5. end[hub].pc = "await1" /\ UNCHANGED <<relay_route, queue>>  BY DEF Relay!HubReceivesFirst, Relay!Receives
<1>a. Relay!Frames \subseteq RelayFrameSet BY RelayFramesAreTyped
<1>6. CASE f.kind = "m1"
  <2>0. PICK i \in Slots : i = f.init BY <1>4 DEF RelayFrameSet
  <2>2. PICK g : g = Relay!Frame("m2", i, s)  OBVIOUS
  <2>3. g \in RelayFrameSet /\ g.kind = "m2" /\ g.init = i /\ g.resp = s
    BY <1>1, <2>2, RelayFrameTyped DEF RelayKinds, RelayAnySlot
  <2>4. /\ end' = [end EXCEPT ![hub].pc = "await3", ![hub].init = i]
        /\ conn' = Relay!Sending(Relay!Taken(hub), s, <<g>>)
    BY <1>2, <1>3, <1>6, <2>0, <2>2 DEF Relay!HubReceivesFirst
  <2>5. RelayBuffers' /\ Relay!Frames' \subseteq Relay!Frames \cup {g} BY <1>4, <1>5, <2>3, <2>4, RelaySendOne
  <2>a. end[hub].resp = s /\ end[hub].init = NoSlot BY <1>2, <1>5 DEF RelayAttempts
  <2>6. /\ end'[hub].pc = "await3" /\ end'[hub].slot = s /\ end'[hub].init = i
        /\ end'[hub].resp = s /\ end'[host] = end[host] /\ end' \in [Relay!Peers -> RelayEndType]
    BY <1>1, <1>2, <2>a, <2>4 DEF Relay!Peers, RelayEndType, RelayPcs, RelayAnySlot
  <2>7. RelayAttempts' BY <1>1, <2>6 DEF RelayAttempts, Relay!Peers, RelayEndType
  <2>8. RelaySeparate' BY <1>2, <2>6 DEF RelaySeparate
  <2>9. RelayFresh'
    <3>1. ASSUME end'[host].pc = "connecting"
          PROVE  /\ end'[hub].init # end'[host].slot /\ end'[hub].resp # end'[host].slot
                 /\ \A x \in Relay!Frames' : x.init # end'[host].slot /\ x.resp # end'[host].slot
      <4>1. end[host].slot # s
        BY <1>1, <1>2, <2>6, <3>1 DEF RelaySeparate
      <4>2. \A x \in Relay!Frames : x.init # end[host].slot /\ x.resp # end[host].slot
        BY <2>6, <3>1 DEF RelayFresh, Relay!Peers
      <4> QED BY <1>4, <2>0, <2>3, <2>5, <2>6, <4>1, <4>2
    <3> QED BY <1>1, <3>1, <2>6 DEF RelayFresh, Relay!Peers
  <2>10. RelayOfTheHost'
    BY <2>3, <2>5, <2>6 DEF RelayOfTheHost, RelayFinishing
  <2>11. RelayOfTheHub'
    <3>1. \A x \in Relay!Frames : x.init # NoSlot BY <1>1, <1>a DEF RelayFrameSet
    <3>2. \A x \in Relay!Frames : x.kind \in {"m2", "m3", "bindI", "dataI", "bindR", "dataR"} => x.resp # s
      BY <2>a, <3>1 DEF RelayOfTheHub
    <3>3. ~(RelayFinishing(host) /\ end[host].resp = s)
      <4>1. RelayFinishing(host) => end[host].init # NoSlot
        BY <1>1 DEF RelayFinishing, RelayAttempts, Relay!Peers
      <4> QED BY <4>1, <2>a DEF RelayOfTheHub
    <3> QED BY <2>3, <2>5, <2>6, <3>2, <3>3 DEF RelayOfTheHub, RelayFinishing
  <2>12. RelayNoneAfter'
    <3>1. RelayConfirmed' => RelayConfirmed BY <2>3, <2>5, <2>6 DEF RelayConfirmed, RelayFinishing
    <3> QED BY <3>1, <2>a, <2>3, <2>5, <2>6 DEF RelayNoneAfter, RelayFinishing
  <2> QED BY <2>5, <2>7, <2>8, <2>9, <2>10, <2>11, <2>12
<1>7. CASE f.kind # "m1"
  <2>1. Relay!Fails(hub) BY <1>3, <1>7 DEF Relay!HubReceivesFirst
  <2>2. RelayBuffers' /\ Relay!Frames' \subseteq Relay!Frames BY <2>1, <1>5, RelayFailsTraffic DEF Relay!Peers
  <2>3. RelayAgreed' BY <2>1, <2>2, <1>a, RelayFailsKeeps DEF Relay!Fails, RelayAgreed, Relay!Peers
  <2> QED BY <2>2, <2>3 DEF RelayAgreed
<1> QED BY <1>6, <1>7

\* The Hub accepts a third message only to its own second one.
LEMMA RelayHubReceivesLastInv ==
  ASSUME Relay!PairingAssumption, RelayIInv, Relay!HubReceivesLast
  PROVE  RelayIInv'
<1> USE DEF RelayIInv
<1>1. /\ end[host] \in RelayEndType /\ end[hub] \in RelayEndType /\ end \in [Relay!Peers -> RelayEndType]
      /\ host # hub /\ NoSlot \notin Slots /\ Relay!Other(host) = hub /\ Relay!Other(hub) = host
      /\ end[hub].slot \in Slots
  BY RelayEndFacts DEF Relay!HubReceivesLast, Relay!Receives, Relay!Peers
<1>2. PICK s \in Slots : s = end[hub].slot BY <1>1
<1>3. PICK f : f = Relay!Received(hub) OBVIOUS
<1>4. /\ Relay!Taken(hub) \in [Slots -> RelayConns] /\ f \in Relay!Frames /\ f \in RelayFrameSet
      /\ \A t \in Slots : RelayHeld(Relay!Taken(hub)[t].up) \subseteq Relay!Frames /\ RelayHeld(Relay!Taken(hub)[t].down) \subseteq Relay!Frames
  BY <1>1, <1>3, RelayTakenKeeps DEF Relay!HubReceivesLast, Relay!Receives
<1>5. end[hub].pc = "await3" /\ UNCHANGED <<relay_route, queue>>  BY DEF Relay!HubReceivesLast, Relay!Receives
<1>a. Relay!Frames \subseteq RelayFrameSet BY RelayFramesAreTyped
<1>6. CASE f.kind = "m3" /\ Relay!Reads(hub, f)
  <2>a. end[hub].resp = s BY <1>2, <1>5 DEF RelayAttempts
  <2>0. PICK i \in Slots : i = f.init BY <1>4 DEF RelayFrameSet
  <2>1. f.kind = "m3" /\ f.init = i /\ f.resp = s /\ end[hub].init = i
    BY <1>1, <1>6, <2>0, <2>a DEF Relay!Reads
  <2>2. PICK g : g = Relay!Frame("bindR", i, s)  OBVIOUS
  <2>3. g \in RelayFrameSet /\ g.kind = "bindR" /\ g.init = i /\ g.resp = s
    BY <1>1, <2>2, RelayFrameTyped DEF RelayKinds, RelayAnySlot
  <2>4. /\ end' = [end EXCEPT ![hub].pc = "awaitBinding"]
        /\ conn' = Relay!Sending(Relay!Taken(hub), s, <<g>>)
    BY <1>2, <1>3, <1>6, <2>0, <2>2 DEF Relay!HubReceivesLast
  <2>5. RelayBuffers' /\ Relay!Frames' \subseteq Relay!Frames \cup {g} BY <1>4, <1>5, <2>3, <2>4, RelaySendOne
  <2>6. /\ end'[hub].pc = "awaitBinding" /\ end'[hub].slot = s /\ end'[hub].init = i
        /\ end'[hub].resp = s /\ end'[host] = end[host] /\ end' \in [Relay!Peers -> RelayEndType]
    BY <1>1, <1>2, <2>a, <2>1, <2>4 DEF Relay!Peers, RelayEndType, RelayPcs, RelayAnySlot
  <2>7. RelayAttempts' BY <1>1, <2>6 DEF RelayAttempts, Relay!Peers, RelayEndType
  <2>8. RelaySeparate' BY <1>2, <2>6 DEF RelaySeparate
  <2>9. RelayFresh'
    <3>1. ASSUME end'[host].pc = "connecting"
          PROVE  /\ end'[hub].init # end'[host].slot /\ end'[hub].resp # end'[host].slot
                 /\ \A x \in Relay!Frames' : x.init # end'[host].slot /\ x.resp # end'[host].slot
      <4>1. end[host].slot # s
        BY <1>1, <1>2, <2>6, <3>1 DEF RelaySeparate
      <4>2. \A x \in Relay!Frames : x.init # end[host].slot /\ x.resp # end[host].slot
        BY <2>6, <3>1 DEF RelayFresh, Relay!Peers
      <4> QED BY <1>4, <2>0, <2>3, <2>5, <2>6, <4>1, <4>2
    <3> QED BY <1>1, <3>1, <2>6 DEF RelayFresh, Relay!Peers
  <2>b. i = end[host].init => RelayFinishing(host) /\ s = end[host].resp
    BY <1>4, <2>1 DEF RelayOfTheHost
  <2>10. RelayOfTheHost'
    BY <2>3, <2>5, <2>6, <2>b DEF RelayOfTheHost, RelayFinishing
  <2>11. RelayOfTheHub'
    BY <2>a, <2>1, <2>3, <2>5, <2>6 DEF RelayOfTheHub, RelayFinishing
  <2>12. RelayNoneAfter'
    <3>1. (RelayConfirmed' /\ s # end[host].resp) => RelayConfirmed
      BY <2>3, <2>5, <2>6, <2>b DEF RelayConfirmed, RelayFinishing
    <3>2. ~(RelayConfirmed /\ s # end[host].resp)
      BY <1>4, <2>1, <2>a DEF RelayNoneAfter
    <3> QED BY <3>1, <3>2, <2>6 DEF RelayNoneAfter
  <2> QED BY <2>5, <2>7, <2>8, <2>9, <2>10, <2>11, <2>12
<1>7. CASE ~(f.kind = "m3" /\ Relay!Reads(hub, f))
  <2>1. Relay!Fails(hub) BY <1>3, <1>7 DEF Relay!HubReceivesLast
  <2>2. RelayBuffers' /\ Relay!Frames' \subseteq Relay!Frames BY <2>1, <1>5, RelayFailsTraffic DEF Relay!Peers
  <2>3. RelayAgreed' BY <2>1, <2>2, <1>a, RelayFailsKeeps DEF Relay!Fails, RelayAgreed, Relay!Peers
  <2> QED BY <2>2, <2>3 DEF RelayAgreed
<1> QED BY <1>6, <1>7

\* The binding confirms the channel of which both hold the keys.
LEMMA RelayReceiveBindingInv ==
  ASSUME Relay!PairingAssumption, RelayIInv, NEW p \in Relay!Peers, Relay!ReceiveBinding(p)
  PROVE  RelayIInv'
<1> USE DEF RelayIInv
<1>1. /\ end[host] \in RelayEndType /\ end[hub] \in RelayEndType /\ end \in [Relay!Peers -> RelayEndType]
      /\ host # hub /\ NoSlot \notin Slots /\ Relay!Other(host) = hub /\ Relay!Other(hub) = host
      /\ end[p].slot \in Slots
  BY RelayEndFacts DEF Relay!ReceiveBinding, Relay!Receives
<1>3. PICK f : f = Relay!Received(p) OBVIOUS
<1>4. /\ Relay!Taken(p) \in [Slots -> RelayConns] /\ f \in Relay!Frames /\ f \in RelayFrameSet
      /\ \A t \in Slots : RelayHeld(Relay!Taken(p)[t].up) \subseteq Relay!Frames /\ RelayHeld(Relay!Taken(p)[t].down) \subseteq Relay!Frames
  BY <1>1, <1>3, RelayTakenKeeps DEF Relay!ReceiveBinding, Relay!Receives
<1>5. end[p].pc = "awaitBinding" /\ UNCHANGED <<relay_route, queue>>  BY DEF Relay!ReceiveBinding, Relay!Receives
<1>a. Relay!Frames \subseteq RelayFrameSet BY RelayFramesAreTyped
<1> DEFINE good == f.kind = (IF p = host THEN "bindR" ELSE "bindI") /\ Relay!Reads(p, f)
<1>6. CASE good
  <2>1. end' = [end EXCEPT ![p].pc = "open"] /\ conn' = Relay!Taken(p)
    BY <1>3, <1>6 DEF Relay!ReceiveBinding
  <2>2. RelayBuffers' /\ Relay!Frames' \subseteq Relay!Frames
    <3>1. \A t \in Slots : RelayHeld(conn'[t].up) \subseteq Relay!Frames \cup {} /\ RelayHeld(conn'[t].down) \subseteq Relay!Frames \cup {}
      BY <1>4, <2>1
    <3>2. RelayBuffers' /\ Relay!Frames' \subseteq Relay!Frames \cup {}
      BY <1>4, <1>5, <2>1, <3>1, RelayMoves
    <3> QED BY <3>2
  <2>3. end[p] \in RelayEndType BY <1>1
  <2>4. /\ end'[p].pc = "open" /\ end'[p].slot = end[p].slot /\ end'[p].init = end[p].init
        /\ end'[p].resp = end[p].resp /\ \A q \in Relay!Peers \ {p} : end'[q] = end[q]
        /\ end' \in [Relay!Peers -> RelayEndType]
    BY <1>1, <2>1, <2>3 DEF RelayEndType, RelayPcs
  <2>5. \A q \in Relay!Peers : /\ end'[q].slot = end[q].slot /\ end'[q].init = end[q].init
                               /\ end'[q].resp = end[q].resp
                               /\ end'[q].pc = end[q].pc \/ (end[q].pc = "awaitBinding" /\ end'[q].pc = "open")
    BY <1>5, <2>4
  <2>6. \A q \in Relay!Peers : RelayFinishing(q)' <=> RelayFinishing(q)
    BY <2>5 DEF RelayFinishing
  <2>7. host \in Relay!Peers /\ hub \in Relay!Peers BY DEF Relay!Peers
  <2>8. RelayAttempts'
    BY <1>1, <2>4, <2>5, <2>7 DEF RelayAttempts, RelayEndType
  <2>9. RelaySeparate' BY <2>5, <2>7 DEF RelaySeparate
  <2>10. RelayFresh'
    <3>1. \A q \in Relay!Peers : Relay!Other(q) \in Relay!Peers BY DEF Relay!Other, Relay!Peers
    <3>2. \A q \in Relay!Peers : end'[q].pc = "connecting" => end[q].pc = "connecting"
      BY <2>5
    <3> QED BY <2>2, <2>5, <3>1, <3>2 DEF RelayFresh
  <2>11. RelayOfTheHost' BY <2>2, <2>5, <2>6, <2>7 DEF RelayOfTheHost
  <2>12. RelayOfTheHub' BY <2>2, <2>5, <2>6, <2>7 DEF RelayOfTheHub
  <2>13. RelayConfirmed' => RelayConfirmed
    <3>1. CASE p = host
      <4>1. f.kind = "bindR" /\ f.init = end[host].init  BY <1>6, <3>1 DEF Relay!Reads
      <4> QED BY <1>4, <1>5, <3>1, <4>1 DEF RelayConfirmed, RelayFinishing
    <3>2. CASE p # host
      <4>1. end'[host] = end[host] BY <2>4, <2>7, <3>2
      <4> QED BY <2>2, <4>1 DEF RelayConfirmed, RelayFinishing
    <3> QED BY <3>1, <3>2
  <2>14. RelayNoneAfter' BY <2>2, <2>5, <2>6, <2>7, <2>13 DEF RelayNoneAfter
  <2> QED BY <2>2, <2>8, <2>9, <2>10, <2>11, <2>12, <2>14
<1>7. CASE ~good
  <2>1. Relay!Fails(p) BY <1>3, <1>7 DEF Relay!ReceiveBinding
  <2>2. RelayBuffers' /\ Relay!Frames' \subseteq Relay!Frames BY <2>1, <1>5, RelayFailsTraffic
  <2>3. RelayAgreed' BY <2>1, <2>2, <1>a, RelayFailsKeeps DEF Relay!Fails, RelayAgreed
  <2> QED BY <2>2, <2>3 DEF RelayAgreed
<1> QED BY <1>6, <1>7

\* Data is taken only from the channel that is open.
LEMMA RelayReceiveDataInv ==
  ASSUME Relay!PairingAssumption, RelayIInv, NEW p \in Relay!Peers, Relay!ReceiveData(p)
  PROVE  RelayIInv'
<1> USE DEF RelayIInv
<1>1. end[p].slot \in Slots
  BY RelayEndFacts DEF Relay!ReceiveData, Relay!Receives
<1>3. PICK f : f = Relay!Received(p) OBVIOUS
<1>4. /\ Relay!Taken(p) \in [Slots -> RelayConns]
      /\ \A t \in Slots : RelayHeld(Relay!Taken(p)[t].up) \subseteq Relay!Frames /\ RelayHeld(Relay!Taken(p)[t].down) \subseteq Relay!Frames
  BY <1>1, <1>3, RelayTakenKeeps DEF Relay!ReceiveData, Relay!Receives
<1>5. UNCHANGED <<relay_route, queue>> BY DEF Relay!ReceiveData, Relay!Receives
<1>a. Relay!Frames \subseteq RelayFrameSet BY RelayFramesAreTyped
<1>6. CASE conn' = Relay!Taken(p) /\ UNCHANGED end
  <2>1. \A t \in Slots : RelayHeld(conn'[t].up) \subseteq Relay!Frames \cup {} /\ RelayHeld(conn'[t].down) \subseteq Relay!Frames \cup {}
    BY <1>4, <1>6
  <2>2. RelayBuffers' /\ Relay!Frames' \subseteq Relay!Frames \cup {}
    BY <1>4, <1>5, <1>6, <2>1, RelayMoves
  <2>3. RelayAgreed' BY <1>6, <2>2, RelayQuietKeeps DEF RelayAgreed
  <2> QED BY <2>2, <2>3 DEF RelayAgreed
<1>7. CASE Relay!Fails(p)
  <2>2. RelayBuffers' /\ Relay!Frames' \subseteq Relay!Frames BY <1>7, <1>5, RelayFailsTraffic
  <2>3. RelayAgreed' BY <1>7, <2>2, <1>a, RelayFailsKeeps DEF Relay!Fails, RelayAgreed
  <2> QED BY <2>2, <2>3 DEF RelayAgreed
<1> QED BY <1>6, <1>7 DEF Relay!ReceiveData

\* An open end sends over the channel it holds.
LEMMA RelaySendInv ==
  ASSUME Relay!PairingAssumption, RelayIInv, NEW p \in Relay!Peers, Relay!Send(p)
  PROVE  RelayIInv'
<1> USE DEF RelayIInv
<1>1. /\ end[host] \in RelayEndType /\ end[hub] \in RelayEndType /\ end \in [Relay!Peers -> RelayEndType]
      /\ host # hub /\ NoSlot \notin Slots /\ Relay!Other(host) = hub /\ Relay!Other(hub) = host
      /\ end[p].slot \in Slots /\ end[p].pc = "open"
  BY RelayEndFacts DEF Relay!Send
<1>2. PICK k : k = IF p = host THEN "dataI" ELSE "dataR"  OBVIOUS
<1>a. k \in RelayKinds /\ k # "m1"  BY <1>2 DEF RelayKinds
<1>3. PICK f : f = Relay!Frame(k, end[p].init, end[p].resp) OBVIOUS
<1>4. p = host \/ p = hub BY DEF Relay!Peers
<1>5. end[p].init \in Slots /\ end[p].resp \in Slots
  BY <1>1, <1>4 DEF RelayAttempts, RelayEndType, RelayAnySlot
<1>6. f \in RelayFrameSet /\ f.kind = k /\ f.init = end[p].init /\ f.resp = end[p].resp
  <2>1. end[p].resp \in RelayAnySlot /\ end[p].resp # NoSlot BY <1>1, <1>5 DEF RelayAnySlot
  <2> QED BY <1>a, <1>3, <1>5, <2>1, RelayFrameTyped
<1>7. conn' = Relay!Sending(conn, end[p].slot, <<f>>) /\ UNCHANGED <<end, relay_route, queue>>
  BY <1>2, <1>3 DEF Relay!Send
<1>8. RelayBuffers' /\ Relay!Frames' \subseteq Relay!Frames \cup {f}
  <2>1. conn \in [Slots -> RelayConns] BY DEF RelayBuffers, RelayConns
  <2>2. \A t \in Slots : RelayHeld(conn[t].up) \subseteq Relay!Frames /\ RelayHeld(conn[t].down) \subseteq Relay!Frames
    BY RelayHere
  <2> QED BY <2>1, <2>2, <1>6, <1>7, RelaySendOne
<1>9. RelayAttempts' /\ RelaySeparate' BY <1>7 DEF RelayAttempts, RelaySeparate
<1>10. RelayFresh'
  <2>1. ASSUME NEW q \in Relay!Peers, end'[q].pc = "connecting"
        PROVE  /\ end'[Relay!Other(q)].init # end'[q].slot /\ end'[Relay!Other(q)].resp # end'[q].slot
               /\ \A g \in Relay!Frames' : g.init # end'[q].slot /\ g.resp # end'[q].slot
    <3>1. end'[q] = end[q] /\ end'[Relay!Other(q)] = end[Relay!Other(q)] /\ p = Relay!Other(q)
      BY <1>1, <1>4, <1>7, <2>1 DEF Relay!Peers
    <3> QED BY <2>1, <3>1, <1>6, <1>8 DEF RelayFresh
  <2> QED BY <2>1 DEF RelayFresh
<1>11. CASE p = host
  <2>1. k = "dataI"  BY <1>2, <1>11
  <2>2. RelayOfTheHost'
    BY <1>1, <1>6, <1>7, <1>8, <1>11 DEF RelayOfTheHost, RelayFinishing
  <2>3. RelayOfTheHub'
    <3>1. end[host].resp = end[hub].resp => end[host].init = end[hub].init
      BY <1>1, <1>11 DEF RelayOfTheHub, RelayFinishing
    <3> QED BY <1>6, <1>7, <1>8, <1>11, <3>1 DEF RelayOfTheHub, RelayFinishing
  <2>4. RelayConfirmed' => RelayConfirmed BY <1>1, <1>11 DEF RelayConfirmed
  <2>5. RelayNoneAfter'
    BY <1>6, <1>7, <1>8, <1>11, <2>4 DEF RelayNoneAfter, RelayFinishing
  <2> QED BY <1>8, <1>9, <1>10, <2>2, <2>3, <2>5
<1>12. CASE p = hub
  <2>1. k = "dataR"  BY <1>1, <1>2, <1>12
  <2>b. end[hub].init = end[host].init => RelayFinishing(host) /\ end[hub].resp = end[host].resp
    BY <1>1, <1>12 DEF RelayOfTheHost, RelayFinishing
  <2>2. RelayOfTheHost'
    BY <1>6, <1>7, <1>8, <1>12, <2>b DEF RelayOfTheHost, RelayFinishing
  <2>3. RelayOfTheHub'
    BY <1>6, <1>7, <1>8, <1>12 DEF RelayOfTheHub, RelayFinishing
  <2>4. (RelayConfirmed' /\ end[hub].resp # end[host].resp) => RelayConfirmed
    BY <1>6, <1>7, <1>8, <1>12, <2>b DEF RelayConfirmed, RelayFinishing
  <2>5. RelayNoneAfter'
    BY <1>6, <1>7, <1>8, <1>12, <2>1, <2>4 DEF RelayNoneAfter, RelayFinishing
  <2> QED BY <1>8, <1>9, <1>10, <2>2, <2>3, <2>5
<1> QED BY <1>4, <1>11, <1>12

\* A step that changes nothing keeps the invariant.
LEMMA RelayStutterInv == ASSUME RelayIInv, UNCHANGED Relay!vars PROVE RelayIInv'
<1>1. Relay!Frames' = Relay!Frames /\ RelayBuffers' BY DEF Relay!vars, Relay!Frames, RelayIInv, RelayBuffers
<1>2. RelayAgreed' BY <1>1, RelayQuietKeeps DEF RelayIInv, RelayAgreed, Relay!vars
<1> QED BY <1>1, <1>2 DEF RelayIInv, RelayAgreed

\* Every step of the ends and of the relay keeps the invariant.
LEMMA RelayNextInv ==
  ASSUME Relay!PairingAssumption, RelayIInv, [Relay!Next]_Relay!vars
  PROVE  RelayIInv'
<1>a. Relay!Frames \subseteq RelayFrameSet BY RelayFramesAreTyped DEF RelayIInv
<1>f. ASSUME NEW p \in Relay!Peers, Relay!Fails(p), UNCHANGED <<relay_route, queue>> PROVE RelayIInv'
  <2>2. RelayBuffers' /\ Relay!Frames' \subseteq Relay!Frames BY <1>f, RelayFailsTraffic DEF RelayIInv
  <2>3. RelayAgreed' BY <1>f, <2>2, <1>a, RelayFailsKeeps DEF Relay!Fails, RelayAgreed, RelayIInv
  <2> QED BY <2>2, <2>3 DEF RelayAgreed, RelayIInv
<1>1. ASSUME NEW s \in Slots, Relay!Relay(s) PROVE RelayIInv'
  <2>1. RelayBuffers' /\ Relay!Frames' \subseteq Relay!Frames /\ end' = end BY <1>1, RelayedTraffic DEF RelayIInv
  <2>2. RelayAgreed' BY <2>1, RelayQuietKeeps DEF RelayIInv, RelayAgreed
  <2> QED BY <2>1, <2>2 DEF RelayIInv, RelayAgreed
<1>2. ASSUME NEW p \in Relay!Peers, Relay!Peer(p) PROVE RelayIInv'
  <2>1. CASE Relay!Connect(p) BY <2>1, RelayConnectInv
  <2>2. CASE Relay!Accepted(p) BY <2>2, RelayAcceptedByHost, RelayAcceptedByHub DEF Relay!Peers
  <2>3. CASE Relay!ReceiveBinding(p) BY <2>3, RelayReceiveBindingInv
  <2>4. CASE Relay!ReceiveData(p) BY <2>4, RelayReceiveDataInv
  <2>5. CASE Relay!LosesConnection(p) BY <2>5, <1>f DEF Relay!LosesConnection
  <2>6. CASE Relay!GiveUp(p) BY <2>6, <1>f DEF Relay!GiveUp
  <2>7. CASE Relay!Send(p) BY <2>7, RelaySendInv
  <2>8. CASE Relay!Restart(p) BY <2>8, <1>f DEF Relay!Restart
  <2> QED BY <1>2, <2>1, <2>2, <2>3, <2>4, <2>5, <2>6, <2>7, <2>8 DEF Relay!Peer
<1>3. CASE UNCHANGED Relay!vars BY <1>3, RelayStutterInv
<1> QED BY <1>1, <1>2, <1>3, RelayHostReceivesInv, RelayHubReceivesFirstInv, RelayHubReceivesLastInv DEF Relay!Next

\* What the invariant says of the ends is that two open ones hold one channel.
LEMMA RelayInvAgrees == ASSUME Relay!PairingAssumption, RelayIInv PROVE Relay!TypeOK /\ Relay!OpenEndsAgree
<1>1. Relay!TypeOK
  BY DEF RelayIInv, RelayBuffers, RelayAttempts, Relay!TypeOK, RelayPcs, RelayAnySlot
<1>2. Relay!OpenEndsAgree
  <2> SUFFICES ASSUME end[host].pc = "open" /\ end[hub].pc = "open"
               PROVE  end[host].init = end[hub].init /\ end[host].resp = end[hub].resp
    BY DEF Relay!OpenEndsAgree
  <2>1. end[hub].resp = end[host].resp BY DEF RelayIInv, RelayNoneAfter, RelayConfirmed, RelayFinishing
  <2> QED BY <2>1 DEF RelayIInv, RelayOfTheHub, RelayFinishing
<1> QED BY <1>1, <1>2

\* Two ends that both hold an established channel (mews-transport, over
\* mews-relay) hold the same one, for any number of connections, queues of any length and
\* frames that are lost or arrive late: a channel is bound to the nonces of both ends.
THEOREM OpenEndsHoldOneChannel ==
  Relay!PairingAssumption => (Relay!Spec => [](Relay!TypeOK /\ Relay!OpenEndsAgree))
<1> SUFFICES ASSUME Relay!PairingAssumption PROVE Relay!Spec => [](Relay!TypeOK /\ Relay!OpenEndsAgree)
  OBVIOUS
<1>1. Relay!Init => RelayIInv BY RelayInitInv
<1>2. RelayIInv /\ [Relay!Next]_Relay!vars => RelayIInv' BY RelayNextInv
<1>3. RelayIInv => Relay!TypeOK /\ Relay!OpenEndsAgree BY RelayInvAgrees
<1> QED BY <1>1, <1>2, <1>3, PTL DEF Relay!Spec

\* A step that takes a route away ends the connection the route led to.
LEMMA RelayRouteStep ==
  ASSUME Relay!PairingAssumption, RelayIInv, [Relay!Next]_Relay!vars, NEW p \in Relay!Peers, relay_route[p] # NoSlot, relay_route'[p] = NoSlot
  PROVE  conn'[relay_route[p]].state = "ended"
<1>1. relay_route[p] \in Slots /\ relay_route'[p] # relay_route[p] BY DEF RelayIInv, RelayBuffers, RelayAnySlot
<1>2. ASSUME NEW s \in Slots, Relay!Ends(s) PROVE conn'[relay_route[p]].state = "ended"
  <2>1. relay_route[p] = s BY <1>1, <1>2 DEF Relay!Ends, RelayIInv, RelayBuffers
  <2> QED BY <1>2, <2>1 DEF Relay!Ends, RelayIInv, RelayBuffers
<1>3. PICK s \in Slots : Relay!Register(s) \/ Relay!Forward(s) \/ Relay!RelayEnds(s)
  <2>1. ASSUME NEW q \in Relay!Peers, Relay!Peer(q) PROVE relay_route' = relay_route
    BY <2>1 DEF Relay!Peer, Relay!Connect, Relay!Accepted, Relay!ReceiveBinding, Relay!ReceiveData, Relay!Receives, Relay!LosesConnection,
                Relay!GiveUp, Relay!Send, Relay!Restart
  <2>2. Relay!HostReceives \/ Relay!HubReceivesFirst \/ Relay!HubReceivesLast => relay_route' = relay_route
    BY DEF Relay!HostReceives, Relay!HubReceivesFirst, Relay!HubReceivesLast, Relay!Receives
  <2>3. \A s \in Slots : Relay!RegistrationFails(s) \/ Relay!Write(s) => relay_route' = relay_route
    BY DEF Relay!RegistrationFails, Relay!Write
  <2>4. UNCHANGED Relay!vars => relay_route' = relay_route BY DEF Relay!vars
  <2> QED BY <1>1, <2>1, <2>2, <2>3, <2>4 DEF Relay!Next, Relay!Relay
<1>4. CASE Relay!Register(s)
  <2>1. relay_route'[p] = s \/ relay_route'[p] = relay_route[p] BY <1>4 DEF Relay!Register, RelayIInv, RelayBuffers
  <2> QED BY <1>1, <2>1 DEF Relay!PairingAssumption
<1>5. CASE Relay!Forward(s)
  BY <1>1, <1>2, <1>5 DEF Relay!Forward
<1>6. CASE Relay!RelayEnds(s) BY <1>2, <1>6 DEF Relay!RelayEnds
<1> QED BY <1>3, <1>4, <1>5, <1>6

\* A connection of the relay that ends takes only its own route along
\* (serve_connection in mews-relay), never that of its successor.
THEOREM RoutesOutliveOldConnections ==
  Relay!PairingAssumption => (Relay!Spec => Relay!OnlyItsOwnRoute)
<1> SUFFICES ASSUME Relay!PairingAssumption PROVE Relay!Spec => Relay!OnlyItsOwnRoute
  OBVIOUS
<1>1. Relay!Init => RelayIInv BY RelayInitInv
<1>2. RelayIInv /\ [Relay!Next]_Relay!vars => RelayIInv' BY RelayNextInv
<1>3. RelayIInv /\ [Relay!Next]_Relay!vars =>
        [\A p \in Relay!Peers : (relay_route[p] # NoSlot /\ relay_route'[p] = NoSlot) => conn'[relay_route[p]].state = "ended"]_Relay!vars
  BY RelayRouteStep
<1> QED BY <1>1, <1>2, <1>3, PTL DEF Relay!Spec, Relay!OnlyItsOwnRoute

=============================================================================
