----------------------------- MODULE HostTools -----------------------------
(***************************************************************************)
(* The Host's tool registry (mews-host/src/tools).  Agent-owned extension  *)
(* files are edited at any time; a watcher compares their fingerprint with *)
(* the last one it loaded, reads them again one replica after the other    *)
(* and installs a new catalog under the next generation.  A tool call      *)
(* carries the generation of the catalog it was validated against through  *)
(* its before_tool hooks, its execution and its after_tool hooks, while    *)
(* the watcher goes on.                                                    *)
(***************************************************************************)
EXTENDS Naturals, FiniteSets

CONSTANTS
    Agents,         \* the Agent replicas under <root>/agents
    Names,          \* tool names an extension may use
    Native,         \* the native MEWS tools, also possible extension names
    Calls,          \* tool calls of the Turns on this Host
    Nothing,        \* no tool, no catalog
    MaxEdits        \* bound: edits of extension files

\* What the constants must satisfy; every instance assumes it.
ToolsAssumption ==
    /\ MaxEdits \in Nat
    /\ IsFiniteSet(Native)
    /\ Nothing \notin Names \cup Native \cup Agents

VARIABLES
    disk,           \* Agent -> its extension files, stamped by their last edit
    edits,          \* edits so far
    registry,       \* RegistryState: generation, tools and hooks
    fingerprint,    \* extension_fingerprint: Agent -> stamp
    watcher,        \* watch_agent_extensions
    catalog,        \* the watch channel of the catalog
    hub,            \* the Hub's copy of it
    calls           \* Call -> the call and how far it is

vars == <<disk, edits, registry, fingerprint, watcher, catalog, hub, calls>>

\* One replica's files: what they declare, whether they load at all (syntax,
\* known hooks, unique and unreserved names), and their metadata.
Files == [tools : SUBSET (Names \cup Native), hooks : BOOLEAN, loads : BOOLEAN,
          stamp : 0..MaxEdits]

NoFiles == [tools |-> {}, hooks |-> FALSE, loads |-> TRUE, stamp |-> 0]
Sleeping == [pc |-> "sleep", todo |-> {}, stamps |-> [a \in Agents |-> 0],
             loaded |-> [a \in Agents |-> NoFiles]]
NotMade == [pc |-> "none", agent |-> Nothing, offered |-> Nothing,
            generation |-> 0, gate |-> {}, hooks |-> {}, ran |-> Nothing]

\* definitions: native tools belong to nobody, extension tools to one Agent.
Tool(a, n, s) == [agent |-> a, name |-> n, stamp |-> s]
NativeTools == {Tool(Nothing, n, 0) : n \in Native}
ExtensionTools(d) == UNION {{Tool(a, n, d[a].stamp) : n \in d[a].tools} : a \in Agents}
Hooks(d) == {Tool(a, Nothing, d[a].stamp) : a \in {b \in Agents : d[b].hooks}}

\* with_agent_extensions: the defaults are registered one by one, and then
\* the (still empty) extensions.
Init ==
    /\ disk = [a \in Agents |-> NoFiles]
    /\ edits = 0
    /\ registry = [generation |-> Cardinality(Native) + 1, tools |-> NativeTools,
                   hooks |-> {}]
    /\ fingerprint = [a \in Agents |-> 0]
    /\ watcher = Sleeping
    /\ catalog = registry
    /\ hub = registry
    /\ calls = [c \in Calls |-> NotMade]

--------------------
(* The files and the watcher *)

\* Someone edits an Agent's extensions, at any time.
Edit(a) ==
    /\ edits < MaxEdits
    /\ edits' = edits + 1
    /\ \E f \in Files : /\ f.stamp = edits + 1
                        /\ disk' = [disk EXCEPT ![a] = f]
    /\ UNCHANGED <<registry, fingerprint, watcher, catalog, hub, calls>>

\* Mutant: the walk starts with a replica that is gone.
LooksBlindly ==
    /\ watcher.pc = "sleep"
    /\ watcher' = [Sleeping EXCEPT !.pc = "compare", !.todo = Agents \cup {Nothing}]
    /\ UNCHANGED <<disk, edits, registry, fingerprint, catalog, hub, calls>>

\* watch_agent_extensions and the head of reload_agent_extensions_if_changed:
\* every replica's metadata is read, and nothing is done when it is known.
Look ==
    /\ watcher.pc = "sleep"
    /\ watcher' = [Sleeping EXCEPT !.pc = "compare", !.todo = Agents]
    /\ UNCHANGED <<disk, edits, registry, fingerprint, catalog, hub, calls>>

ScanNext(pc) ==
    /\ watcher.pc = pc
    /\ \E a \in watcher.todo :
          watcher' = [watcher EXCEPT !.todo = @ \ {a}, !.stamps[a] = disk[a].stamp]
    /\ UNCHANGED <<disk, edits, registry, fingerprint, catalog, hub, calls>>

\* resource_fingerprint, a directory walk.
Scan == ScanNext("compare") \/ ScanNext("fingerprint")

Compare ==
    /\ watcher.pc = "compare" /\ watcher.todo = {}
    /\ watcher' = IF watcher.stamps = fingerprint THEN Sleeping
                  ELSE [watcher EXCEPT !.pc = "fingerprint", !.todo = Agents]
    /\ UNCHANGED <<disk, edits, registry, fingerprint, catalog, hub, calls>>

StartLoading ==
    /\ watcher.pc = "fingerprint" /\ watcher.todo = {}
    /\ watcher' = [watcher EXCEPT !.pc = "load", !.todo = Agents]
    /\ UNCHANGED <<disk, edits, registry, fingerprint, catalog, hub, calls>>

\* runtime_extensions reads the replicas one after the other; one that does
\* not load ends the reload and leaves everything as it was.
Load(a) ==
    /\ watcher.pc = "load" /\ a \in watcher.todo
    /\ watcher' = IF disk[a].loads
                  THEN [watcher EXCEPT !.todo = @ \ {a}, !.loaded[a] = disk[a]]
                  ELSE Sleeping
    /\ UNCHANGED <<disk, edits, registry, fingerprint, catalog, hub, calls>>

Conflicts(d) == \E a \in Agents : d[a].tools \cap Native # {}

\* Mutant: the new tools are installed under the old generation.
AppliesInPlace ==
    /\ watcher.pc = "load" /\ watcher.todo = {}
    /\ registry' = [registry EXCEPT !.tools = NativeTools \cup ExtensionTools(watcher.loaded),
                                    !.hooks = Hooks(watcher.loaded)]
    /\ watcher' = [watcher EXCEPT !.pc = "publish"]
    /\ UNCHANGED <<disk, edits, fingerprint, catalog, hub, calls>>

\* apply_extensions: a name of a native tool refuses the whole catalog (as
\* does one too large to encode); otherwise tools, hooks and generation are
\* replaced under one lock.
ApplyExtensions ==
    /\ watcher.pc = "load" /\ watcher.todo = {}
    /\ IF Conflicts(watcher.loaded)
       THEN watcher' = Sleeping /\ UNCHANGED registry
       ELSE /\ registry' = [generation |-> registry.generation + 1,
                            tools |-> NativeTools \cup ExtensionTools(watcher.loaded),
                            hooks |-> Hooks(watcher.loaded)]
            /\ watcher' = [watcher EXCEPT !.pc = "publish"]
    /\ UNCHANGED <<disk, edits, fingerprint, catalog, hub, calls>>

\* Mutant: the fingerprint is taken after the load.
FingerprintsLate ==
    /\ watcher.pc = "publish"
    /\ catalog' = registry
    /\ fingerprint' = [a \in Agents |-> disk[a].stamp]
    /\ watcher' = Sleeping
    /\ UNCHANGED <<disk, edits, registry, hub, calls>>

\* The tail of apply_extensions and reload_extensions, after the lock.
Publish ==
    /\ watcher.pc = "publish"
    /\ catalog' = registry
    /\ fingerprint' = watcher.stamps
    /\ watcher' = Sleeping
    /\ UNCHANGED <<disk, edits, registry, hub, calls>>

\* serve_host forwards the latest catalog to the Hub.
CatalogChanged ==
    /\ hub # catalog
    /\ hub' = catalog
    /\ UNCHANGED <<disk, edits, registry, fingerprint, watcher, catalog, calls>>

--------------------
(* Tool calls *)

Goes(c, pc) == calls' = [calls EXCEPT ![c].pc = pc]
Current(c) == calls[c].generation = registry.generation

\* A model turn (native, or an ACP Turn's MCP bridge) offers an Agent its own
\* and the native tools of the catalog it has; the call keeps its generation.
Validate(c) ==
    /\ calls[c].pc = "none"
    /\ \E a \in Agents : \E snapshot \in {hub, registry} :
          \E t \in {u \in snapshot.tools : u.agent \in {a, Nothing}} :
             calls' = [calls EXCEPT ![c] =
                [NotMade EXCEPT !.pc = "before", !.agent = a, !.offered = t,
                    !.generation = snapshot.generation,
                    !.gate = {h \in snapshot.hooks : h.agent = a}]]
    /\ UNCHANGED <<disk, edits, registry, fingerprint, watcher, catalog, hub>>

\* execute_hooks_at_generation: the hooks are copied under the lock, and run
\* after it.
BeforeTool(c) ==
    /\ calls[c].pc = "before"
    /\ calls' = [calls EXCEPT ![c].pc = IF Current(c) THEN "hooks" ELSE "refused",
                     ![c].hooks = IF Current(c)
                                  THEN {h \in registry.hooks : h.agent = calls[c].agent}
                                  ELSE {}]
    /\ UNCHANGED <<disk, edits, registry, fingerprint, watcher, catalog, hub>>

\* The hooks of the extensions run in turn; an error or a block ends the call.
HooksRan(c) ==
    /\ calls[c].pc = "hooks"
    /\ \/ Goes(c, "execute")
       \/ calls[c].hooks # {} /\ Goes(c, "refused")
    /\ UNCHANGED <<disk, edits, registry, fingerprint, watcher, catalog, hub>>

\* execute_at_generation's lookup: the Agent's extension before a native tool.
Lookup(a, n) ==
    LET own == {t \in registry.tools : t.agent = a /\ t.name = n}
        native == {t \in registry.tools : t.agent = Nothing /\ t.name = n}
    IN  IF own # {} THEN own ELSE native

\* Mutant: whatever has the name is executed.
ExecutesByName(c) ==
    /\ calls[c].pc = "execute"
    /\ \E t \in Lookup(calls[c].agent, calls[c].offered.name) :
          calls' = [calls EXCEPT ![c].pc = "running", ![c].ran = t]
    /\ UNCHANGED <<disk, edits, registry, fingerprint, watcher, catalog, hub>>

\* execute_at_generation: the tool is looked up and copied under the lock, and
\* runs after it.
Execute(c) ==
    /\ calls[c].pc = "execute"
    /\ IF Current(c)
       THEN \E t \in Lookup(calls[c].agent, calls[c].offered.name) :
               calls' = [calls EXCEPT ![c].pc = "running", ![c].ran = t]
       ELSE Goes(c, "refused")
    /\ UNCHANGED <<disk, edits, registry, fingerprint, watcher, catalog, hub>>

\* after_tool at the same generation: refused when the catalog has moved on,
\* which cannot undo the call.
AfterTool(c) ==
    /\ calls[c].pc = "running"
    /\ Goes(c, IF Current(c) THEN "done" ELSE "unhooked")
    /\ UNCHANGED <<disk, edits, registry, fingerprint, watcher, catalog, hub>>

\* Bound: a finished call makes room for the next one.
Forget(c) ==
    /\ calls[c].pc \in {"done", "unhooked", "refused"}
    /\ calls' = [calls EXCEPT ![c] = NotMade]
    /\ UNCHANGED <<disk, edits, registry, fingerprint, watcher, catalog, hub>>

--------------------

Watch ==
    \/ Look \/ Scan \/ Compare \/ StartLoading \/ \E a \in Agents : Load(a)
    \/ ApplyExtensions \/ Publish

CallStep(c) ==
    Validate(c) \/ BeforeTool(c) \/ HooksRan(c) \/ Execute(c) \/ AfterTool(c) \/ Forget(c)

Next ==
    \/ \E a \in Agents : Edit(a)
    \/ Watch
    \/ CatalogChanged
    \/ \E c \in Calls : CallStep(c)

\* The watcher wakes every two seconds, and the connection forwards.
Fairness ==
    WF_vars(Watch) /\ WF_vars(CatalogChanged)

Spec == Init /\ [][Next]_vars /\ Fairness

--------------------
(* Properties *)

\* The type of the files, the registry, the watcher and the calls.
TypeOK ==
    /\ disk \in [Agents -> Files]
    /\ edits \in 0..MaxEdits
    /\ registry.generation \in Nat
    /\ fingerprint \in [Agents -> 0..MaxEdits]
    /\ watcher.pc \in {"sleep", "compare", "fingerprint", "load", "publish"}
    /\ watcher.todo \subseteq Agents
    /\ \A c \in Calls :
          calls[c].pc \in {"none", "before", "hooks", "execute", "running",
                           "done", "unhooked", "refused"}

\* A call executes exactly the definition its arguments were validated
\* against, from the same version of the extension's files, however the
\* catalog is reloaded between the offer and the execution.
RunsWhatWasOffered ==
    \A c \in Calls : calls[c].ran # Nothing => calls[c].ran = calls[c].offered

\* The before_tool hooks that let a call pass are those that belong to the
\* catalog the executed tool came from: a reload can neither add a tool past
\* old hooks nor run it under hooks of another version.
GatedByItsOwnHooks ==
    \A c \in Calls : calls[c].ran # Nothing => calls[c].hooks = calls[c].gate

\* What an offer promises of the call that takes it.
ToolsRunAsOffered == TypeOK /\ RunsWhatWasOffered /\ GatedByItsOwnHooks

Loadable == (\A a \in Agents : disk[a].loads) /\ ~Conflicts(disk)

\* When the files are left alone and can be loaded, the Hub ends up with
\* their tools, even if they changed while they were being read.
EditsAreServed ==
    <>[](Loadable => hub.tools = NativeTools \cup ExtensionTools(disk))

============================================================================
