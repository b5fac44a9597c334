----------------------------- MODULE McpBridge -----------------------------
(***************************************************************************)
(* The Turn-scoped MCP bridge of an external Harness (mews-acp/src/mcp.rs) *)
(* with the prompt loop that serves it (request_with_dispatch in rpc.rs).  *)
(* The loop selects between the Turn's cancellation, the next MCP          *)
(* connection, the prompt's deadline and the Harness's next line, and      *)
(* drops whatever it was doing in the branches that lose.  The Host's      *)
(* catalog is reloaded behind the bridge's back.                           *)
(***************************************************************************)
EXTENDS Naturals, Sequences

CONSTANTS
    Tools,          \* names in the Host's catalogs, natives included
    Native,         \* is_native_mews_tool
    SkillTools,     \* ACP_SKILL_TOOL_NAMES
    Allowed,        \* the names the Agent's patterns allow
    HasSkills,      \* the Agent has skills
    MaxReloads,     \* bound: catalog reloads
    MaxRequests     \* bound: MCP requests of the Harness

\* The skill tools are not the Host's, and the bounds are numbers.
ASSUME BridgeAssumption ==
    /\ Native \subseteq Tools /\ SkillTools \cap Tools = {}
    /\ HasSkills \in BOOLEAN
    /\ MaxReloads \in Nat /\ MaxRequests \in Nat

VARIABLES
    host,           \* the Host's catalog: generation and extension tools
    bridge,         \* TurnMcpBridge
    conn,           \* the connection being handled
    requests,       \* requests so far
    log,            \* hook_outcomes, with the executions between them
    prompt,         \* request_with_dispatch: "open" or how it ended
    cancelled,      \* the Turn's token
    unknown,        \* call ids whose effect started and was never observed
    abandoned       \* calls in flight when the Harness itself spoke again

vars == <<host, bridge, conn, requests, log, prompt, cancelled, unknown, abandoned>>

NoConnection == [pc |-> "none", method |-> "none", tool |-> "none",
                 stateless |-> FALSE, id |-> 0, answer |-> "none"]

\* for_extensions_and_skills: the snapshot of the Agent's extension tools,
\* without native names, as far as the Agent may use them.
Granted(tools) ==
    ((tools \ Native) \cap Allowed) \cup (IF HasSkills THEN SkillTools ELSE {})

Init ==
    /\ host \in [generation : {1}, tools : SUBSET Tools]
    /\ bridge = [tools |-> Granted(host.tools), generation |-> host.generation,
                 active |-> TRUE, nextCall |-> 1, uncertain |-> FALSE, version |-> "none"]
    /\ conn = NoConnection
    /\ requests = 0
    /\ log = <<>>
    /\ prompt = "open"
    /\ cancelled = FALSE
    /\ unknown = {} /\ abandoned = {}

\* The watcher of the registry (module HostTools).
Reload ==
    /\ host.generation <= MaxReloads
    /\ \E tools \in SUBSET Tools :
          host' = [generation |-> host.generation + 1, tools |-> tools]
    /\ UNCHANGED <<bridge, conn, requests, log, prompt, cancelled, unknown, abandoned>>

Cancel ==
    /\ ~cancelled /\ cancelled' = TRUE
    /\ UNCHANGED <<host, bridge, conn, requests, log, prompt, unknown, abandoned>>

--------------------
(* A connection *)

\* (notifications/initialized is handled as tools/list is: a result, and no change.)
Methods == {"initialize", "discover", "tools/list", "tools/call", "other"}

\* protocol_for_http_request: the stateless protocol is asked for by each
\* request, whose headers must then repeat it; initialize is always legacy.
Stateless(m, asked) == asked /\ m # "initialize"

\* accept_and_handle, one connection at a time, up to the request's protocol:
\* HTTP that is refused is answered, HTTP that cannot be read ends the prompt
\* with an error (the loop's `result?`).
Accept ==
    /\ prompt = "open" /\ conn.pc = "none" /\ requests < MaxRequests
    /\ requests' = requests + 1
    /\ \/ \E m \in Methods, s \in BOOLEAN, t \in Tools \cup SkillTools :
             conn' = [NoConnection EXCEPT !.pc = "handle", !.method = m,
                         !.tool = IF m = "tools/call" THEN t ELSE "none",
                         !.stateless = Stateless(m, s)]
       \/ conn' = [NoConnection EXCEPT !.pc = "respond", !.answer = "refused"]
    /\ UNCHANGED <<host, bridge, log, prompt, cancelled, unknown, abandoned>>

Malformed ==
    /\ prompt = "open" /\ conn.pc = "none" /\ requests < MaxRequests
    /\ requests' = requests + 1
    /\ prompt' = "error"
    /\ UNCHANGED <<host, bridge, conn, log, cancelled, unknown, abandoned>>

Available == bridge.active /\ ~cancelled
Answers(a) == conn' = [conn EXCEPT !.pc = "respond", !.answer = a]
Entry(event, ok, generation) ==
    [id |-> conn.id, event |-> event, ok |-> ok, tool |-> conn.tool,
     generation |-> generation]
Record(hook, ok) == log' = Append(log, Entry(hook, ok, bridge.generation))

\* handle_inner, everything but tools/call; initialize must name a version.
Handle ==
    /\ conn.pc = "handle"
    /\ conn.method # "tools/call" \/ ~Available
    /\ IF ~Available THEN Answers("unavailable") /\ UNCHANGED bridge
       ELSE CASE conn.method = "initialize" ->
                   \/ /\ \E v \in {"known", "latest"} : bridge' = [bridge EXCEPT !.version = v]
                      /\ Answers("result")
                   \/ Answers("invalid request") /\ UNCHANGED bridge
              [] conn.method = "discover" /\ ~conn.stateless ->
                   Answers("method not found") /\ UNCHANGED bridge
              [] conn.method = "other" -> Answers("method not found") /\ UNCHANGED bridge
              [] OTHER -> Answers("result") /\ UNCHANGED bridge
    /\ UNCHANGED <<host, requests, log, prompt, cancelled, unknown, abandoned>>

\* Mutant: the bridge looks at the Host's catalog of the moment.
CallsWhatTheHostHas ==
    /\ conn.pc = "handle" /\ conn.method = "tools/call" /\ Available
    /\ IF conn.tool \notin Granted(host.tools)
       THEN Answers("unknown tool") /\ UNCHANGED bridge
       ELSE /\ bridge' = [bridge EXCEPT !.nextCall = @ + 1, !.generation = host.generation]
            /\ conn' = [conn EXCEPT !.pc = "validate", !.id = bridge.nextCall]
    /\ UNCHANGED <<host, requests, log, prompt, cancelled, unknown, abandoned>>

\* Mutant: the counter of calls is read and not advanced.
CallsUnderOneId ==
    /\ conn.pc = "handle" /\ conn.method = "tools/call" /\ Available
    /\ IF conn.tool \notin bridge.tools THEN Answers("unknown tool")
       ELSE conn' = [conn EXCEPT !.pc = "validate", !.id = bridge.nextCall]
    /\ UNCHANGED <<host, bridge, requests, log, prompt, cancelled, unknown, abandoned>>

\* call: a tool the Turn was not granted, or none, is refused before it has an id.
Call ==
    /\ conn.pc = "handle" /\ conn.method = "tools/call" /\ Available
    /\ IF conn.tool \notin bridge.tools
       THEN Answers("unknown tool") /\ UNCHANGED bridge
       ELSE /\ bridge' = [bridge EXCEPT !.nextCall = @ + 1]
            /\ conn' = [conn EXCEPT !.pc = "validate", !.id = bridge.nextCall]
    /\ UNCHANGED <<host, requests, log, prompt, cancelled, unknown, abandoned>>

\* catalog.validate: arguments against the snapshot's schema.
Validate ==
    /\ conn.pc = "validate"
    /\ \/ conn' = [conn EXCEPT !.pc = "before"] /\ UNCHANGED log
       \/ Answers("tool error") /\ Record("before_tool", FALSE)
    /\ UNCHANGED <<host, bridge, requests, prompt, cancelled, unknown, abandoned>>

\* preserve_effect_uncertainty
Uncertain == bridge' = [bridge EXCEPT !.uncertain = TRUE]

\* Mutant: a hook that fails lets the tool run.
BeforeToolFailsOpen ==
    /\ conn.pc = "before"
    /\ \E ok \in BOOLEAN : Record("before_tool", ok)
    /\ conn' = [conn EXCEPT !.pc = "execute"]
    /\ UNCHANGED <<host, bridge, requests, prompt, cancelled, unknown, abandoned>>

\* before_tool on the Host, at the call's generation: an error (a catalog that
\* moved on, a failed or cancelled hook, a lost answer), an invalid decision
\* or a block keeps the tool from running.
BeforeTool ==
    /\ conn.pc = "before"
    /\ \/ /\ host.generation = bridge.generation
          /\ conn' = [conn EXCEPT !.pc = "execute"]
          /\ Record("before_tool", TRUE)
          /\ UNCHANGED bridge
       \/ /\ Answers("tool error")
          /\ Record("before_tool", FALSE)
          /\ UNCHANGED bridge \/ Uncertain
    /\ UNCHANGED <<host, requests, prompt, cancelled, unknown, abandoned>>

Executes ==
    /\ log' = Append(log, Entry("execute", TRUE, host.generation))
    /\ unknown' = unknown \cup {conn.id}
    /\ conn' = [conn EXCEPT !.pc = "running"]

\* The skill tools are answered from the snapshot; any other tool is sent to
\* the Host, which refuses it at another generation or after a cancellation.
Execute ==
    /\ conn.pc = "execute"
    /\ IF conn.tool \in SkillTools \/ cancelled \/ host.generation # bridge.generation
       THEN conn' = [conn EXCEPT !.pc = "after"] /\ UNCHANGED <<log, unknown>>
       ELSE Executes
    /\ UNCHANGED <<host, bridge, requests, prompt, cancelled, abandoned>>

\* Mutant: an effect of unknown outcome is reported as any failed tool.
ForgetsUncertainty ==
    /\ conn.pc = "running"
    /\ conn' = [conn EXCEPT !.pc = "after"]
    /\ \E observed \in BOOLEAN :
          unknown' = IF observed THEN unknown \ {conn.id} ELSE unknown
    /\ UNCHANGED <<host, bridge, requests, log, prompt, cancelled, abandoned>>

\* The Host's answer, or EffectUncertain when there is none.
ToolAnswers ==
    /\ conn.pc = "running"
    /\ conn' = [conn EXCEPT !.pc = "after"]
    /\ \/ unknown' = unknown \ {conn.id} /\ UNCHANGED bridge
       \/ Uncertain /\ UNCHANGED unknown
    /\ UNCHANGED <<host, requests, log, prompt, cancelled, abandoned>>

\* Mutant: a result that a hook has failed on is answered without a record.
AfterToolUnrecorded ==
    /\ conn.pc = "after"
    /\ \/ Answers("tool result") /\ Record("after_tool", TRUE)
       \/ Answers("tool result") /\ UNCHANGED log
    /\ UNCHANGED <<host, bridge, requests, prompt, cancelled, unknown, abandoned>>

\* after_tool: it may replace the value, its failure changes nothing.
AfterTool ==
    /\ conn.pc = "after"
    /\ Answers("tool result")
    /\ \/ /\ host.generation = bridge.generation
          /\ Record("after_tool", TRUE) /\ UNCHANGED bridge
       \/ /\ Record("after_tool", FALSE)
          /\ UNCHANGED bridge \/ Uncertain
    /\ UNCHANGED <<host, requests, prompt, cancelled, unknown, abandoned>>

\* The response is written and the connection closed.  Bound: the log keeps
\* the entries of the call at hand.
Respond ==
    /\ conn.pc = "respond"
    /\ conn' = NoConnection
    /\ log' = <<>>
    /\ UNCHANGED <<host, bridge, requests, prompt, cancelled, unknown, abandoned>>

--------------------
(* The prompt loop *)

\* The branch that serves the connection is dropped because the Harness spoke,
\* not because it is over.
Abandon == abandoned' = abandoned \cup ({conn.id} \ {0})

\* Any line of the Harness ends the branch that serves the connection.
HarnessWritesUpdate ==
    /\ prompt = "open" /\ conn.pc # "none"
    /\ conn' = NoConnection
    /\ log' = <<>>
    /\ Abandon
    /\ UNCHANGED <<host, bridge, requests, prompt, cancelled, unknown>>

\* The answer to the prompt, which a Harness may write while it has an MCP
\* request in flight.
PromptAnswered ==
    /\ prompt = "open"
    /\ prompt' = "answered"
    /\ conn' = NoConnection /\ log' = <<>>
    /\ Abandon
    /\ UNCHANGED <<host, bridge, requests, cancelled, unknown>>

\* The deadline and the cancellation drop the branches as well; the outcome
\* of the prompt is then uncertain by itself (module AcpSession).
PromptEnds ==
    /\ prompt = "open"
    /\ prompt' = IF cancelled THEN "cancelled" ELSE "error"
    /\ conn' = NoConnection /\ log' = <<>>
    /\ UNCHANGED <<host, bridge, requests, cancelled, unknown, abandoned>>

\* Mutant: only an answered prompt revokes.
RevokesAnswered ==
    /\ prompt = "answered" /\ bridge.active
    /\ bridge' = [bridge EXCEPT !.active = FALSE]
    /\ UNCHANGED <<host, conn, requests, log, prompt, cancelled, unknown, abandoned>>

\* revoke, then drain_hook_outcomes and take_effect_uncertainty.
Revoke ==
    /\ prompt # "open" /\ bridge.active
    /\ bridge' = [bridge EXCEPT !.active = FALSE]
    /\ prompt' = IF prompt = "answered" /\ bridge.uncertain THEN "uncertain" ELSE prompt
    /\ UNCHANGED <<host, conn, requests, log, cancelled, unknown, abandoned>>

Serve ==
    \/ Handle \/ Call \/ Validate \/ BeforeTool \/ Execute \/ ToolAnswers
    \/ AfterTool \/ Respond

Next ==
    \/ Reload \/ Cancel \/ Accept \/ Malformed \/ Serve
    \/ HarnessWritesUpdate \/ PromptAnswered \/ PromptEnds \/ Revoke

\* The loop is polled, its deadline passes, and the Turn revokes the bridge.
Fairness ==
    WF_vars(PromptEnds) /\ WF_vars(Revoke)

Spec == Init /\ [][Next]_vars /\ Fairness

--------------------
(* Properties *)

Grants == (Tools \cup SkillTools)
Pcs == {"none", "handle", "validate", "before", "execute", "running", "after", "respond"}
AnswerKinds == {"none", "refused", "unavailable", "result", "method not found", "invalid request",
                "unknown tool", "tool error", "tool result"}
Entries == [id : 1..MaxRequests, event : {"before_tool", "execute", "after_tool"},
            ok : BOOLEAN, tool : Grants, generation : 1..(MaxReloads + 1)]

\* The type of the bridge, the connection and the log; ids are drawn in turn.
TypeOK ==
    /\ host \in [generation : 1..(MaxReloads + 1), tools : SUBSET Tools]
    /\ bridge \in [tools : SUBSET Grants, generation : 1..(MaxReloads + 1),
                   active : BOOLEAN, nextCall : 1..(MaxRequests + 1),
                   uncertain : BOOLEAN, version : {"none", "known", "latest"}]
    /\ conn \in [pc : Pcs, method : Methods \cup {"none"}, tool : Grants \cup {"none"},
                 stateless : BOOLEAN, id : 0..MaxRequests, answer : AnswerKinds]
    /\ conn.id < bridge.nextCall
    /\ requests \in 0..MaxRequests
    /\ log \in Seq(Entries)
    /\ prompt \in {"open", "answered", "cancelled", "error", "uncertain"}
    /\ cancelled \in BOOLEAN
    /\ unknown \subseteq 1..MaxRequests /\ abandoned \subseteq 1..MaxRequests

Executions == {i \in DOMAIN log : log[i].event = "execute"}

\* An extension runs only after the before_tool hooks accepted that very call, of
\* the same tool in the same catalog.
HooksGateExecution ==
    \A i \in Executions :
        \E j \in 1..(i - 1) : log[j] = [log[i] EXCEPT !.event = "before_tool", !.ok = TRUE]

\* Catalog changes cannot add authority to an existing Turn: what runs was in
\* the catalog when the Turn began, allowed to its Agent and not native, and
\* the Host still serves that same catalog.
AuthorityIsFixed ==
    [][\A i \in DOMAIN log' \ DOMAIN log :
          log'[i].event = "execute" =>
             /\ log'[i].tool \in bridge.tools \cap Allowed
             /\ log'[i].tool \notin Native
             /\ log'[i].generation = 1]_vars

Records(hook) == {i \in DOMAIN log : log[i].event = hook}

\* Every answered call has its outcomes on record, in order: one of before_tool,
\* and one of after_tool exactly when the former was accepted.
OutcomesAreRecorded ==
    conn.pc = "respond" /\ conn.id # 0 =>
        \E i \in DOMAIN log :
           /\ Records("before_tool") = {i}
           /\ log[i].ok <=> Records("after_tool") # {}
           /\ \A j \in Records("after_tool") : i < j /\ Records("after_tool") = {j}

\* An extension effect whose outcome nobody observed makes the Turn's outcome
\* uncertain: a prompt that ends as answered has none, but of the calls the Harness
\* did not wait for.
UncertaintyReachesTheTurn ==
    prompt = "answered" /\ ~bridge.active => unknown \subseteq abandoned

\* What a Harness does through the bridge of its Turn is gated and on record: the
\* type, the gate, the record and the uncertainty (TurnMcpBridge::call).
BridgedCallsAreGated ==
    /\ TypeOK
    /\ HooksGateExecution /\ OutcomesAreRecorded /\ UncertaintyReachesTheTurn

\* Every Turn ends with its capability revoked.
CapabilityIsRevoked == <>(~bridge.active)

============================================================================
