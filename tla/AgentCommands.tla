--------------------------- MODULE AgentCommands ---------------------------
(***************************************************************************)
(* The commands that create, rename and archive an Agent, with the client  *)
(* that retries them.  A command changes the Agent table and the Agent's   *)
(* directory on the Hub's machine, and a rename also the copy on a joined  *)
(* Host; the table, the journal and a receipt under the request's ID       *)
(* commit together, the directories do not.  A client whose connection     *)
(* breaks, or who is answered with an error, sends the same request again  *)
(* with the same request ID; a client of a joined Host goes through a      *)
(* proxy, which gives every attempt an ID of its own and answers for the   *)
(* Hub when it waits too long.                                             *)
(*                                                                         *)
(* The contents of the copies are the subject of AgentSync: here they      *)
(* agree, and a directory is known by the Agent it belongs to.  Of an      *)
(* Agent's definition only this matters here: whether its soul and config  *)
(* are still those that a creation writes.                                 *)
(***************************************************************************)
EXTENDS Naturals, Sequences, FiniteSets

CONSTANTS
    Clients,
    Command,      \* client -> [op, slug, new]
    Proxied,      \* the clients of the joined Host
    Slugs,
    MaxAttempts,  \* attempts of a client, the first one included (6 in the code)
    MaxCrashes,   \* bound on the crashes of the Hub
    MaxDrops,     \* bound on lost answers of the Host and proxy timeouts
    MaxFaults,    \* bound on failures of the directory's rename
    None

\* What the constants must satisfy; every instance assumes it.
CommandsAreKnown ==
    \A c \in Clients : /\ Command[c].op \in {"create", "rename", "archive"}
                       /\ {Command[c].slug, Command[c].new} \subseteq Slugs

VARIABLES
    agents,     \* agent -> [slug, live, created]: created, as a creation makes it
    receipts,   \* <<operation, request ID>> -> the Agent and slug of its result
    dirs,       \* slug -> the Agent of the directory, 0 before its ID is written
    replica,    \* slug -> the Agent of the Host's directory
    client,     \* client -> [n, answer]: its current attempt
    task,       \* <<client, attempt>> -> the Hub's handler of the attempt
    applied,    \* clients whose command took effect
    phantom,    \* clients refused because of their own earlier attempt
    crashes, drops, faults

vars == <<agents, receipts, dirs, replica, client, task, applied, phantom,
          crashes, drops, faults>>

Attempts == 1..MaxAttempts
NoTask == [at |-> "none", seen |-> None]

\* The request ID an attempt carries when it reaches the Hub.
RequestId(c, n) == IF c \in Proxied THEN <<c, n>> ELSE <<c, 1>>

Slug(c) == Command[c].slug
NewSlug(c) == Command[c].new
At(c, n, pc) == task[<<c, n>>].at = pc

Init ==
    /\ agents \in {<<[slug |-> "a", live |-> TRUE, created |-> x]>> : x \in BOOLEAN}
    /\ receipts = [k \in {} |-> None]
    /\ dirs = [s \in Slugs |-> IF s = "a" THEN 1 ELSE None]
    /\ replica \in {[s \in Slugs |-> IF s = "a" THEN x ELSE None] : x \in {1, None}}
    /\ client = [c \in Clients |-> [n |-> 0, answer |-> None]]
    /\ task = [t \in Clients \X Attempts |-> NoTask]
    /\ applied = {} /\ phantom = {}
    /\ crashes = 0 /\ drops = 0 /\ faults = 0

--------------------
(* The client.                                                             *)

\* The next attempt of a retry-safe request, on a new connection, or the error.
Retried(c) ==
    IF client[c].n < MaxAttempts
    THEN [n |-> client[c].n + 1, answer |-> None]
    ELSE [n |-> client[c].n, answer |-> "error"]

Waits(c, n) == client[c].n = n /\ client[c].answer = None

Started(cl, ts) ==
    [t \in DOMAIN ts |->
        IF cl[t[1]].n = t[2] /\ cl[t[1]].answer = None /\ client[t[1]].n # t[2]
        THEN [NoTask EXCEPT !.at = "start"] ELSE ts[t]]

Send(c) ==
    /\ client[c].n = 0
    /\ client' = [client EXCEPT ![c].n = 1]
    /\ task' = Started(client', task)
    /\ UNCHANGED <<agents, receipts, dirs, replica, applied, phantom, crashes, drops, faults>>

\* The handler's answer: an attempt the client has given up on is not heard.
Answer(c, n, result) ==
    /\ client' = [client EXCEPT ![c] =
          CASE ~Waits(c, n) -> client[c]
            [] Waits(c, n) /\ result = "ok" -> [client[c] EXCEPT !.answer = "ok"]
            [] OTHER -> Retried(c)]
    /\ task' = Started(client', [task EXCEPT ![<<c, n>>].at = "done"])
    /\ phantom' = IF result = "refused" /\ c \in applied THEN phantom \cup {c} ELSE phantom

Goto(c, n, pc) ==
    /\ task' = [task EXCEPT ![<<c, n>>].at = pc]
    /\ UNCHANGED <<client, phantom>>

\* The proxy answers for the Hub after 30 s; the handler goes on.
ProxyTimeout(c) ==
    /\ c \in Proxied /\ drops < MaxDrops
    /\ client[c].n > 0 /\ client[c].answer = None
    /\ drops' = drops + 1
    /\ client' = [client EXCEPT ![c] = Retried(c)]
    /\ task' = Started(client', task)
    /\ UNCHANGED <<agents, receipts, dirs, replica, applied, phantom, crashes, faults>>

--------------------
(* The Agent table: one transaction, with a receipt.                       *)

Live(s) == {i \in DOMAIN agents : agents[i].slug = s /\ agents[i].live}
NeverTaken(s) == FALSE
SlugTaken(s) == \E i \in DOMAIN agents : agents[i].slug = s
AgentOf(s) == CHOOSE i \in Live(s) : TRUE
NewAgent(s) == [slug |-> s, live |-> TRUE, created |-> TRUE]

\* An edit of the directory becomes the Agent's next revision (AgentSync).
EditAgent(i) ==
    /\ agents[i].live /\ agents[i].created /\ dirs[agents[i].slug] = i
    /\ agents' = [agents EXCEPT ![i].created = FALSE]
    /\ UNCHANGED <<receipts, dirs, replica, client, task, applied, phantom, crashes, drops, faults>>

\* (No receipt is looked up.)
ForgetsReceipts(op, c, n) == FALSE

Replays(op, c, n) == <<op, RequestId(c, n)>> \in DOMAIN receipts

Recorded(op, c, n, i, s) ==
    [k \in DOMAIN receipts \cup {<<op, RequestId(c, n)>>} |->
        IF k = <<op, RequestId(c, n)>> THEN [agent |-> i, slug |-> s] ELSE receipts[k]]

\* transact_command for a rename: a receipt is replayed, an unknown slug or a
\* slug in use (by an archived Agent too) is refused.
RenameCommits(op, c, n, s, t) ==
    /\ ~Replays(op, c, n) /\ Live(s) # {} /\ ~SlugTaken(t)
    /\ agents' = [agents EXCEPT ![AgentOf(s)].slug = t]
    /\ receipts' = Recorded(op, c, n, AgentOf(s), t)
    /\ applied' = applied \cup {c}

RenameReplays(op, c, n) ==
    /\ Replays(op, c, n)
    /\ UNCHANGED <<agents, receipts, applied>>

RenameRefused(op, c, n, s, t) ==
    /\ ~Replays(op, c, n) /\ (Live(s) = {} \/ SlugTaken(t))
    /\ UNCHANGED <<agents, receipts, applied>>

StoreRename(op, c, n, s, t) == RenameCommits(op, c, n, s, t) \/ RenameReplays(op, c, n)

--------------------
(* The rename.                                                             *)

Moved(s, t) == [dirs EXCEPT ![s] = None, ![t] = dirs[s]]

\* replay_agent_rename: the directory was moved already, or the table was
\* changed and the directory was not.
MoveDone(c) == dirs[Slug(c)] = None /\ dirs[NewSlug(c)] # None
MovePending(c) ==
    dirs[Slug(c)] # None /\ dirs[NewSlug(c)] = None /\ Live(Slug(c)) = {}

\* (The table's change is replayed, the directory stays where it is.)
ReplaysWithoutMove(c, n, pc) ==
    /\ MoveDone(c) \/ MovePending(c)
    /\ \/ /\ StoreRename("rename", c, n, Slug(c), NewSlug(c))
          /\ UNCHANGED dirs
          /\ Goto(c, n, pc)
       \/ /\ RenameRefused("rename", c, n, Slug(c), NewSlug(c))
          /\ UNCHANGED dirs
          /\ Answer(c, n, "refused")

ReplayAgentRename(c, n, pc) ==
    /\ MoveDone(c) \/ MovePending(c)
    /\ \/ /\ StoreRename("rename", c, n, Slug(c), NewSlug(c))
          /\ dirs' = IF MovePending(c) THEN Moved(Slug(c), NewSlug(c)) ELSE dirs
          /\ Goto(c, n, pc)
       \/ /\ RenameRefused("rename", c, n, Slug(c), NewSlug(c))
          /\ UNCHANGED dirs
          /\ Answer(c, n, "refused")

\* Preflight: the old slug's directory is brought up to date, which creates it
\* when it is missing, and the Host's copies are read.
BeginRename(c, n) ==
    /\ At(c, n, "start") /\ Command[c].op = "rename"
    /\ \/ ReplayAgentRename(c, n, "new")
       \/ /\ ~MoveDone(c) /\ ~MovePending(c)
          /\ IF Live(Slug(c)) = {}
             THEN Answer(c, n, "refused") /\ UNCHANGED dirs
             ELSE Goto(c, n, "old") /\ dirs' = [dirs EXCEPT ![Slug(c)] = AgentOf(Slug(c))]
          /\ UNCHANGED <<agents, receipts, applied>>
    /\ UNCHANGED <<replica, crashes, drops, faults>>

ReadOldReplica(c, n, from, to) ==
    /\ At(c, n, from)
    /\ task' = [task EXCEPT ![<<c, n>>] = [at |-> to, seen |-> replica[Slug(c)]]]
    /\ UNCHANGED <<agents, receipts, dirs, replica, client, applied, phantom, crashes, drops, faults>>

\* rename_agent: after the await everything is checked again; a directory that
\* cannot be moved takes the change of the table back.
CommitRename(c, n) ==
    /\ At(c, n, "commit")
    /\ \/ ReplayAgentRename(c, n, "push") /\ UNCHANGED faults
       \/ /\ ~MoveDone(c) /\ ~MovePending(c)
          /\ Live(Slug(c)) = {} \/ dirs[NewSlug(c)] # None
          /\ Answer(c, n, "refused")
          /\ UNCHANGED <<agents, receipts, dirs, applied, faults>>
       \/ /\ ~MoveDone(c) /\ ~MovePending(c)
          /\ Live(Slug(c)) # {} /\ dirs[NewSlug(c)] = None
          /\ \/ /\ StoreRename("rename", c, n, Slug(c), NewSlug(c))
                /\ dirs' = Moved(Slug(c), NewSlug(c))
                /\ Goto(c, n, "push")
             \/ /\ RenameRefused("rename", c, n, Slug(c), NewSlug(c))
                /\ Answer(c, n, "refused") /\ UNCHANGED dirs
          /\ UNCHANGED faults
    /\ UNCHANGED <<replica, crashes, drops>>

\* The move fails after the commit: rollback_agent_rename, a command of its own
\* under the same request ID.
MoveFails(c, n) ==
    /\ At(c, n, "commit") /\ faults < MaxFaults
    /\ ~MoveDone(c) /\ ~MovePending(c)
    /\ Live(Slug(c)) # {} /\ dirs[NewSlug(c)] = None
    /\ ~SlugTaken(NewSlug(c))
    /\ ~Replays("rename", c, n) /\ ~Replays("rollback", c, n)
    /\ LET i == AgentOf(Slug(c)) IN
       receipts' = [k \in DOMAIN receipts \cup {<<"rename", RequestId(c, n)>>,
                                                <<"rollback", RequestId(c, n)>>} |->
                      CASE k = <<"rename", RequestId(c, n)>> -> [agent |-> i, slug |-> NewSlug(c)]
                        [] k = <<"rollback", RequestId(c, n)>> -> [agent |-> i, slug |-> Slug(c)]
                        [] OTHER -> receipts[k]]
    /\ faults' = faults + 1
    /\ UNCHANGED <<agents, dirs, replica, applied, crashes, drops>>
    /\ Answer(c, n, "failed")

\* After a replay the Host's copy may have been moved already.
ReadNewReplica(c, n) ==
    /\ At(c, n, "new")
    /\ IF replica[NewSlug(c)] # None
       THEN Answer(c, n, "ok")
       ELSE Goto(c, n, "previous")
    /\ UNCHANGED <<agents, receipts, dirs, replica, applied, crashes, drops, faults>>

\* materialize_agent on the Host, with the previous slug.
HostAccepts(c, n) ==
    replica[Slug(c)] = task[<<c, n>>].seen /\ replica[NewSlug(c)] = None

PushReplica(c, n) ==
    /\ At(c, n, "push")
    /\ \/ /\ HostAccepts(c, n)
          /\ replica' = [replica EXCEPT ![Slug(c)] = None,
                                        ![NewSlug(c)] = receipts[<<"rename", RequestId(c, n)>>].agent]
          /\ \/ Answer(c, n, "ok") /\ UNCHANGED drops
             \/ Answer(c, n, "failed") /\ drops < MaxDrops /\ drops' = drops + 1
       \/ /\ ~HostAccepts(c, n) \/ drops < MaxDrops
          /\ drops' = IF HostAccepts(c, n) THEN drops + 1 ELSE drops
          /\ Answer(c, n, "failed") /\ UNCHANGED replica
    /\ UNCHANGED <<agents, receipts, dirs, applied, crashes, faults>>

--------------------
(* The other two commands.                                                 *)

\* (An existing directory is removed with the refusal.)
RemovesOnError(c, n) ==
    /\ At(c, n, "start") /\ Command[c].op = "create" /\ dirs[Slug(c)] # None
    /\ dirs' = [dirs EXCEPT ![Slug(c)] = None]
    /\ Answer(c, n, "refused")
    /\ UNCHANGED <<agents, receipts, applied, replica, crashes, drops, faults>>

\* A directory that is there already is the creation's own only if the Agent of the
\* slug still has the soul and the config that were asked for.
AsCreated(s) == Live(s) # {} /\ agents[AgentOf(s)].created

CreateAgent(c, n) ==
    /\ At(c, n, "start") /\ Command[c].op = "create"
    /\ IF dirs[Slug(c)] # None
       THEN /\ IF AsCreated(Slug(c))
               THEN Answer(c, n, "ok") /\ dirs' = [dirs EXCEPT ![Slug(c)] = AgentOf(Slug(c))]
               ELSE Answer(c, n, "refused") /\ UNCHANGED dirs
            /\ UNCHANGED <<agents, receipts, applied>>
       ELSE \/ /\ Replays("create", c, n)
               /\ dirs' = [dirs EXCEPT ![Slug(c)] = receipts[<<"create", RequestId(c, n)>>].agent]
               /\ Answer(c, n, "ok") /\ UNCHANGED <<agents, receipts, applied>>
            \/ /\ ~Replays("create", c, n) /\ SlugTaken(Slug(c))
               /\ Answer(c, n, "refused") /\ UNCHANGED <<agents, receipts, dirs, applied>>
            \/ /\ ~Replays("create", c, n) /\ ~SlugTaken(Slug(c))
               /\ agents' = Append(agents, NewAgent(Slug(c)))
               /\ receipts' = Recorded("create", c, n, Len(agents'), Slug(c))
               /\ dirs' = [dirs EXCEPT ![Slug(c)] = Len(agents')]
               /\ applied' = applied \cup {c}
               /\ Answer(c, n, "ok")
    /\ UNCHANGED <<replica, crashes, drops, faults>>

ArchiveAgent(c, n) ==
    /\ At(c, n, "start") /\ Command[c].op = "archive"
    /\ \/ /\ Replays("archive", c, n)
          /\ Answer(c, n, "ok") /\ UNCHANGED <<agents, receipts, applied>>
       \/ /\ ~Replays("archive", c, n) /\ Live(Slug(c)) = {}
          /\ Answer(c, n, "refused") /\ UNCHANGED <<agents, receipts, applied>>
       \/ /\ ~Replays("archive", c, n) /\ Live(Slug(c)) # {}
          /\ agents' = [agents EXCEPT ![AgentOf(Slug(c))].live = FALSE]
          /\ receipts' = Recorded("archive", c, n, AgentOf(Slug(c)), Slug(c))
          /\ applied' = applied \cup {c}
          /\ Answer(c, n, "ok")
    /\ UNCHANGED <<dirs, replica, crashes, drops, faults>>

--------------------
(* The Hub stops: every handler ends, and every client waiting for it has a *)
(* broken connection.  It may stop inside a handler: after the rename's    *)
(* commit, after the creation of a directory, after the Agent's commit.    *)

Broken == [c \in Clients |->
    IF client[c].n > 0 /\ client[c].answer = None THEN Retried(c) ELSE client[c]]

Crash ==
    /\ crashes < MaxCrashes /\ crashes' = crashes + 1
    /\ client' = Broken
    /\ task' = Started(client', [t \in DOMAIN task |->
                 IF task[t].at = "none" THEN NoTask ELSE [NoTask EXCEPT !.at = "done"]])
    /\ UNCHANGED <<replica, phantom, drops, faults>>
    /\ \/ UNCHANGED <<agents, receipts, dirs, applied>>
       \/ \E c \in Clients, n \in Attempts :
            /\ At(c, n, "commit")
            /\ ~MoveDone(c) /\ ~MovePending(c) /\ dirs[NewSlug(c)] = None
            /\ RenameCommits("rename", c, n, Slug(c), NewSlug(c))
            /\ UNCHANGED dirs
       \/ \E c \in Clients, n \in Attempts :
            /\ At(c, n, "start") /\ Command[c].op = "create" /\ dirs[Slug(c)] = None
            /\ dirs' = [dirs EXCEPT ![Slug(c)] = 0]
            /\ \/ UNCHANGED <<agents, receipts, applied>>
               \/ /\ ~Replays("create", c, n) /\ ~SlugTaken(Slug(c))
                  /\ agents' = Append(agents, NewAgent(Slug(c)))
                  /\ receipts' = Recorded("create", c, n, Len(agents'), Slug(c))
                  /\ applied' = applied \cup {c}

Handle(c, n) ==
    \/ BeginRename(c, n)
    \/ ReadOldReplica(c, n, "old", "commit")
    \/ ReadOldReplica(c, n, "previous", "push")
    \/ CommitRename(c, n)
    \/ ReadNewReplica(c, n)
    \/ PushReplica(c, n)
    \/ CreateAgent(c, n)
    \/ ArchiveAgent(c, n)

Next ==
    \/ \E c \in Clients : Send(c) \/ ProxyTimeout(c)
    \/ \E c \in Clients, n \in Attempts : Handle(c, n) \/ MoveFails(c, n)
    \/ \E i \in DOMAIN agents : EditAgent(i)
    \/ Crash

\* The Hub runs its handlers and the Host answers.
Fairness ==
    \A c \in Clients : /\ WF_vars(Send(c))
                       /\ \A n \in Attempts : WF_vars(Handle(c, n))

Spec == Init /\ [][Next]_vars /\ Fairness

--------------------
Finished ==
    /\ \A c \in Clients : client[c].answer # None
    /\ \A t \in DOMAIN task : task[t].at \in {"none", "done"}

\* Every variable keeps its type, and no two Agents share a slug, whether they
\* are archived or not.
TypeOK ==
    /\ \A i \in DOMAIN agents : agents[i] \in [slug : Slugs, live : BOOLEAN, created : BOOLEAN]
    /\ \A i, j \in DOMAIN agents : agents[i].slug = agents[j].slug => i = j
    /\ \A s \in Slugs : {dirs[s], replica[s]} \subseteq {None} \cup 0..Len(agents)
    /\ \A c \in Clients : client[c].n \in 0..MaxAttempts

\* "Replay the receipt and finish any pending local move" (rename_agent): a retry is
\* never refused because of what an earlier attempt of the same request did, except a
\* creation whose Agent was edited before the retry found its directory.
NoPhantomRefusal ==
    \A c \in phantom : /\ Command[c].op = "create"
                       /\ \E i \in DOMAIN agents : agents[i].slug = Slug(c) /\ ~agents[i].created

\* When every client has been answered, every Agent's directory and the Host's copy
\* are under the slug the table has for it: no command that was answered with
\* success, retried, or taken back leaves them apart.
CopiesFollowTheTable ==
    (Finished /\ \A c \in applied : client[c].answer = "ok") =>
        \A i \in DOMAIN agents, s \in Slugs :
            /\ agents[i].slug = s => dirs[s] = i
            /\ agents[i].slug # s => dirs[s] # i /\ replica[s] # i
            /\ (agents[i].slug = s /\ \E c \in applied : Command[c] = [op |-> "rename", slug |-> "a", new |-> s])
                  => replica[s] = i

\* A rename whose client goes on retrying is completed, wherever the Hub stopped.
RenamesComplete ==
    \A c \in Clients : Command[c].op = "rename" => <>(client[c].answer = "ok")
=============================================================================
