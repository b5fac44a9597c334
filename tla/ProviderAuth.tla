---------------------------- MODULE ProviderAuth ----------------------------
(***************************************************************************)
(* Credentials and the model catalog of the router: auth.json and          *)
(* models.json, the requests of the router that use and change them, and   *)
(* the refresh of access tokens that have expired.  Every request is a     *)
(* task of its own; the tasks run on several threads.                      *)
(*                                                                         *)
(* A refresh token is good once: the provider answers it with a new access *)
(* token and a new refresh token.  A credential is a token: which login it *)
(* descends from, and how many refreshes ago.                              *)
(***************************************************************************)
EXTENDS Naturals, FiniteSets

CONSTANTS
    Providers,  \* a set of numbers: the order of the providers in auth.json
    Tasks,      \* requests to the router
    Free,       \* nobody holds a lock
    MaxLogins,  \* bound: logins
    MaxTokens,  \* bound: tokens of a login
    MaxFaults   \* bound: requests dropped, answers lost, restarts of the router

\* The providers are few and numbered from 1, nobody is not a request, and there is a login at first.
ASSUME AuthAssumption ==
    /\ Providers \subseteq Nat \ {0} /\ IsFiniteSet(Providers)
    /\ Free \notin Tasks
    /\ {MaxLogins, MaxTokens} \subseteq Nat \ {0} /\ MaxFaults \in Nat

NoToken == [login |-> 0, n |-> 0]

VARIABLES
    auth,       \* auth.json: the token of every provider, or NoToken
    catalog,    \* models.json: the login the models of a provider were found with, or 0
    task,       \* every request: what it is about, where it stands, what it holds
    locks,      \* holders of AUTH_WRITE, catalog_lock and the refresh lock of a provider
    expired,    \* tokens whose access token has expired
    newest,     \* the provider's side: the last token of every login
    logins,     \* logins so far
    chosen,     \* history: the login last set for a provider, 0 once it is removed
    refused,    \* history: logins of which the provider refused a refresh token
    lost,       \* history: logins of which an answer with a new token was lost
    faults

vars == <<auth, catalog, task, locks, expired, newest, logins, chosen, refused, lost, faults>>

Idle == [op |-> "none", pc |-> "idle", provider |-> 0, token |-> NoToken, then |-> "",
         todo |-> {}, found |-> {},
         auth |-> [p \in Providers |-> NoToken], catalog |-> [p \in Providers |-> 0]]

Unlocked == [auth |-> Free, catalog |-> Free, refresh |-> [p \in Providers |-> Free]]

Init ==
    /\ auth \in [Providers -> {NoToken, [login |-> 1, n |-> 1]}]
    /\ Cardinality({p \in Providers : auth[p] # NoToken}) = 1
    /\ catalog = [p \in Providers |-> 0]
    /\ task = [t \in Tasks |-> Idle]
    /\ locks = Unlocked
    /\ expired = {}
    /\ newest = [l \in 1..MaxLogins |-> 1]
    /\ logins = 1
    /\ chosen = [p \in Providers |-> auth[p].login]
    /\ refused = {} /\ lost = {} /\ faults = 0

Goto(t, pc) == task' = [task EXCEPT ![t].pc = pc]
Others == UNCHANGED <<expired, newest, logins, chosen, refused, lost, faults>>

--------------------
(* Requests begin.                                                         *)

\* Generate, GenerateStream: the credential of one provider.
Call(t, p) ==
    /\ task[t] = Idle
    /\ task' = [task EXCEPT ![t] = [Idle EXCEPT !.op = "call", !.pc = "load", !.provider = p]]
    /\ UNCHANGED <<auth, catalog, locks>> /\ Others

\* SetAuth, with what a login has given.
SetAuth(t, p) ==
    /\ task[t] = Idle /\ logins < MaxLogins
    /\ logins' = logins + 1
    /\ task' = [task EXCEPT ![t] = [Idle EXCEPT !.op = "set", !.pc = "write", !.provider = p,
                                               !.todo = {p}, !.then = "next", !.token = [login |-> logins + 1, n |-> 1]]]
    /\ UNCHANGED <<auth, catalog, locks, expired, newest, chosen, refused, lost, faults>>

RemoveAuth(t, p) ==
    /\ task[t] = Idle
    /\ task' = [task EXCEPT ![t] = [Idle EXCEPT !.op = "remove", !.pc = "write", !.provider = p,
                                               !.then = "catalog"]]
    /\ UNCHANGED <<auth, catalog, locks>> /\ Others

\* RefreshModels of every provider that has a credential.
RefreshModels(t) ==
    /\ task[t] = Idle
    /\ task' = [task EXCEPT ![t] = [Idle EXCEPT !.op = "models", !.pc = "next",
                                               !.todo = {p \in Providers : auth[p] # NoToken}]]
    /\ UNCHANGED <<auth, catalog, locks>> /\ Others

--------------------
(* current_credential.                                                     *)

Expired(token) == token \in expired

\* Where a request goes that has no credential: a call has failed, a discovery takes
\* the next provider.
WithoutCredential(t) == IF task[t].op = "call" THEN "done" ELSE "next"

\* What a request does with the credential it finds in auth.json.
Takes(t, token, stale) ==
    [task EXCEPT ![t].token = token,
                 ![t].pc = IF token = NoToken THEN WithoutCredential(t)
                           ELSE IF Expired(token) THEN stale ELSE "use"]

ReadCredential(t) ==
    /\ task[t].pc = "load"
    /\ task' = Takes(t, auth[task[t].provider], "lock")
    /\ UNCHANGED <<auth, catalog, locks>> /\ Others

\* (The token that was read before the wait is presented.)
LockRefreshOnly(t) ==
    LET p == task[t].provider IN
    /\ task[t].pc = "lock" /\ locks.refresh[p] = Free
    /\ Goto(t, "sent")
    /\ locks' = [locks EXCEPT !.refresh[p] = t]
    /\ UNCHANGED <<auth, catalog>> /\ Others

\* The lock is taken and the credential read again; only one that is still expired is
\* refreshed, with the lock held.
LockRefresh(t) ==
    LET p == task[t].provider IN
    /\ task[t].pc = "lock" /\ locks.refresh[p] = Free
    /\ task' = Takes(t, auth[p], "sent")
    /\ locks' = IF task'[t].pc = "sent" THEN [locks EXCEPT !.refresh[p] = t] ELSE locks
    /\ UNCHANGED <<auth, catalog>> /\ Others

\* (The lock stays with a request that has ended.)
KeepsLock(t) == locks

\* The guard is dropped.
ReleaseRefresh(t) ==
    [locks EXCEPT !.refresh = [p \in Providers |-> IF @[p] = t THEN Free ELSE @[p]]]

\* The provider takes the token and answers with the next one.
Rotate(t) ==
    LET token == task[t].token IN
    /\ task[t].pc = "sent" /\ newest[token.login] = token.n
    /\ newest' = [newest EXCEPT ![token.login] = token.n + 1]
    /\ Goto(t, "rotated")
    /\ UNCHANGED <<auth, catalog, locks, expired, logins, chosen, refused, lost, faults>>

\* The provider has seen this token before.
Refuse(t) ==
    LET token == task[t].token IN
    /\ task[t].pc = "sent" /\ newest[token.login] # token.n
    /\ refused' = refused \cup {token.login}
    /\ Goto(t, WithoutCredential(t))
    /\ locks' = ReleaseRefresh(t)
    /\ UNCHANGED <<auth, catalog, expired, newest, logins, chosen, lost, faults>>

\* The answer arrives: it is written like any credential.
Answer(t) ==
    /\ task[t].pc = "rotated"
    /\ task' = [task EXCEPT ![t].pc = "write", ![t].then = "use", ![t].token.n = @ + 1]
    /\ UNCHANGED <<auth, catalog, locks>> /\ Others

\* A login whose new token the request is the only one to know.
Losing(t) == IF task[t].pc = "rotated" \/ (task[t].pc \in {"write", "writing"} /\ task[t].then = "use")
             THEN {task[t].token.login} ELSE {}

\* The answer does not arrive, before or after the provider took the token.
AnswerLost(t) ==
    /\ task[t].pc \in {"sent", "rotated"} /\ faults < MaxFaults
    /\ faults' = faults + 1
    /\ lost' = lost \cup Losing(t)
    /\ Goto(t, WithoutCredential(t))
    /\ locks' = ReleaseRefresh(t)
    /\ UNCHANGED <<auth, catalog, expired, newest, logins, chosen, refused>>

--------------------
(* AuthStore::set and remove: read, change and replace auth.json.          *)

\* (The file is read without the lock.)
ReadAuthUnlocked(t) ==
    /\ task[t].pc = "write"
    /\ ~(task[t].op = "remove" /\ auth[task[t].provider] = NoToken)
    /\ task' = [task EXCEPT ![t].pc = "writing", ![t].auth = auth]
    /\ UNCHANGED <<auth, catalog, locks>> /\ Others

ReadAuth(t) ==
    /\ task[t].pc = "write" /\ locks.auth = Free
    /\ ~(task[t].op = "remove" /\ auth[task[t].provider] = NoToken)
    /\ task' = [task EXCEPT ![t].pc = "writing", ![t].auth = auth]
    /\ locks' = [locks EXCEPT !.auth = t]
    /\ UNCHANGED <<auth, catalog>> /\ Others

\* "provider is not authenticated"
NothingToRemove(t) ==
    /\ task[t].pc = "write" /\ locks.auth = Free
    /\ task[t].op = "remove" /\ auth[task[t].provider] = NoToken
    /\ Goto(t, "done")
    /\ UNCHANGED <<auth, catalog, locks>> /\ Others

\* The file is replaced.  A refreshed credential is then used; one that was set is
\* used to discover the provider's models; the models of a removed one are removed.
WriteAuth(t) ==
    LET p == task[t].provider IN
    /\ task[t].pc = "writing"
    /\ auth' = [task[t].auth EXCEPT ![p] = task[t].token]
    /\ chosen' = IF task[t].then = "use" THEN chosen ELSE [chosen EXCEPT ![p] = task[t].token.login]
    /\ task' = [task EXCEPT ![t].pc = task[t].then, ![t].auth = Idle.auth]
    /\ locks' = [ReleaseRefresh(t) EXCEPT !.auth = Free]
    /\ UNCHANGED <<catalog, expired, newest, logins, refused, lost, faults>>

--------------------
(* refresh_models and update_catalog.                                      *)

\* The next provider is asked for its models; after the last one the catalog is due.
NextProvider(t) ==
    LET todo == task[t].todo
        p == CHOOSE p \in todo : \A q \in todo : p <= q
    IN /\ task[t].pc = "next"
       /\ task' = IF todo = {} THEN [task EXCEPT ![t].pc = "catalog"]
                  ELSE [task EXCEPT ![t].pc = "load", ![t].provider = p, ![t].todo = @ \ {p}]
       /\ UNCHANGED <<auth, catalog, locks>> /\ Others

\* The credential is used: a call ends, a discovery goes on with the next provider,
\* with or without the models of this one.
Use(t) ==
    /\ task[t].pc = "use"
    /\ \/ task[t].op = "call" /\ Goto(t, "done")
       \/ task[t].op # "call" /\ Goto(t, "next")
       \/ /\ task[t].op # "call"
          /\ task' = [task EXCEPT ![t].pc = "next", ![t].found = @ \cup {[provider |-> task[t].provider,
                                                                         login |-> task[t].token.login]}]
    /\ UNCHANGED <<auth, catalog, locks>> /\ Others

\* (The file is read without the lock.)
ReadCatalogUnlocked(t) ==
    /\ task[t].pc = "catalog"
    /\ task' = [task EXCEPT ![t].pc = "updating", ![t].catalog = catalog]
    /\ UNCHANGED <<auth, catalog, locks>> /\ Others

ReadCatalog(t) ==
    /\ task[t].pc = "catalog" /\ locks.catalog = Free
    /\ task' = [task EXCEPT ![t].pc = "updating", ![t].catalog = catalog]
    /\ locks' = [locks EXCEPT !.catalog = t]
    /\ UNCHANGED <<auth, catalog>> /\ Others

\* What was found is put in, what was removed is taken out; the rest is as it was read.
Updated(t) ==
    [p \in Providers |->
        IF \E f \in task[t].found : f.provider = p
        THEN (CHOOSE f \in task[t].found : f.provider = p).login
        ELSE IF task[t].op = "remove" /\ task[t].provider = p THEN 0
        ELSE task[t].catalog[p]]

WriteCatalog(t) ==
    /\ task[t].pc = "updating"
    /\ catalog' = Updated(t)
    /\ task' = [task EXCEPT ![t].pc = "done", ![t].catalog = Idle.catalog]
    /\ locks' = [locks EXCEPT !.catalog = Free]
    /\ UNCHANGED auth /\ Others

--------------------
(* The client, the clock and the process.                                  *)

\* The client of a call goes away: the future is dropped where it waits.
Drop(t) ==
    /\ task[t].op = "call" /\ task[t].pc \in {"lock", "sent", "rotated", "use"} /\ faults < MaxFaults
    /\ faults' = faults + 1
    /\ lost' = lost \cup Losing(t)
    /\ Goto(t, "done")
    /\ locks' = ReleaseRefresh(t)
    /\ UNCHANGED <<auth, catalog, expired, newest, logins, chosen, refused>>

\* An access token expires (or will within a minute).
Expire(p) ==
    /\ auth[p] # NoToken /\ auth[p].n < MaxTokens /\ ~Expired(auth[p])
    /\ expired' = expired \cup {auth[p]}
    /\ UNCHANGED <<auth, catalog, task, locks, newest, logins, chosen, refused, lost, faults>>

\* The router's process ends and is started again: files are replaced by a rename,
\* so each is as it was before or after a write.
Restart ==
    /\ faults < MaxFaults
    /\ faults' = faults + 1
    /\ lost' = lost \cup UNION {Losing(t) : t \in Tasks}
    /\ task' = [t \in Tasks |-> IF task[t].pc = "idle" THEN task[t] ELSE [task[t] EXCEPT !.pc = "done"]]
    /\ locks' = Unlocked
    /\ UNCHANGED <<auth, catalog, expired, newest, logins, chosen, refused>>

Step(t) ==
    \/ ReadCredential(t) \/ LockRefresh(t) \/ Rotate(t) \/ Refuse(t) \/ Answer(t)
    \/ ReadAuth(t) \/ NothingToRemove(t) \/ WriteAuth(t)
    \/ NextProvider(t) \/ Use(t) \/ ReadCatalog(t) \/ WriteCatalog(t)

Begin(t) == RefreshModels(t) \/ \E p \in Providers : Call(t, p) \/ SetAuth(t, p) \/ RemoveAuth(t, p)

Next ==
    \/ \E t \in Tasks : Begin(t) \/ Step(t) \/ AnswerLost(t) \/ Drop(t)
    \/ \E p \in Providers : Expire(p)
    \/ Restart
    \/ (\A t \in Tasks : task[t].pc = "done") /\ UNCHANGED vars

\* Every task goes on, and a silent provider runs into the client's timeouts.
Fairness ==
    \A t \in Tasks : WF_vars(Step(t))

Spec == Init /\ [][Next]_vars /\ Fairness

--------------------
Tokens == [login : 1..MaxLogins, n : 1..MaxTokens]
AuthFile == [Providers -> Tokens \cup {NoToken}]
CatalogFile == [Providers -> 0..MaxLogins]
Models == [provider : Providers, login : 1..MaxLogins]
Pcs == {"idle", "load", "lock", "sent", "rotated", "write", "writing", "next", "use", "catalog",
        "updating", "done"}
Request ==
    [op : {"none", "call", "set", "remove", "models"}, pc : Pcs,
     provider : Providers \cup {0}, token : Tokens \cup {NoToken},
     then : {"", "next", "catalog", "use"}, todo : SUBSET Providers, found : SUBSET Models,
     auth : AuthFile, catalog : CatalogFile]
Holders == Tasks \cup {Free}

\* Every variable keeps its type, and a refresh lock is held by a request that is
\* about to refresh.
TypeOK ==
    /\ auth \in AuthFile /\ catalog \in CatalogFile
    /\ task \in [Tasks -> Request]
    /\ locks \in [auth : Holders, catalog : Holders, refresh : [Providers -> Holders]]
    /\ \A p \in Providers :
          locks.refresh[p] = Free \/ task[locks.refresh[p]].pc \in {"sent", "rotated", "write", "writing"}
    /\ expired \subseteq Tokens /\ newest \in [1..MaxLogins -> 1..MaxTokens]
    /\ logins \in 1..MaxLogins /\ chosen \in CatalogFile
    /\ refused \cup lost \subseteq 1..MaxLogins /\ faults \in 0..MaxFaults

\* "Another request may have refreshed while this request waited.": however many
\* requests find the same expired token, and whatever is set, removed or dropped
\* meanwhile, a provider never sees a refresh token twice unless the answer to the
\* first time was lost.
RefusedOnlyIfLost == refused \subseteq lost

\* What must hold of the credentials in every state.
CredentialsAreExact == TypeOK /\ RefusedOnlyIfLost

\* "concurrent_updates_do_not_overwrite_each_other": a write of auth.json changes the
\* entry of its own provider only.
AuthUpdatesAreKept ==
    [][\A p \in Providers : auth'[p] # auth[p] =>
          \E t \in Tasks : task[t].pc = "writing" /\ task[t].provider = p /\ auth'[p] = task[t].token]_vars

\* "concurrent_catalog_updates_preserve_each_provider": a write of models.json changes
\* the entries of the providers it is about only.
CatalogUpdatesAreKept ==
    [][\A p \in Providers : catalog'[p] # catalog[p] =>
          \E t \in Tasks : /\ task[t].pc = "updating"
                           /\ \/ \E f \in task[t].found : f.provider = p /\ f.login = catalog'[p]
                              \/ task[t].op = "remove" /\ task[t].provider = p]_vars

\* No write undoes what another request has written.
UpdatesAreKept == AuthUpdatesAreKept /\ CatalogUpdatesAreKept

\* Every request is answered, whatever becomes of the others.
RequestsEnd == \A t \in Tasks : task[t].pc # "idle" ~> task[t].pc = "done"

\* "a new login replaces that provider's credential", and "Remove a provider
\* credential": what is stored is of the login that was set last.
LoginReplaces == \A p \in Providers : auth[p] = NoToken \/ auth[p].login = chosen[p]
=============================================================================
