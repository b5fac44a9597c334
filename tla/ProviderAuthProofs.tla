-------------------------- MODULE ProviderAuthProofs --------------------------
(***************************************************************************)
(* Proofs about ProviderAuth, for any providers and requests and any       *)
(* number of logins, tokens and faults: no refresh token is presented      *)
(* twice unless an answer was lost, and no write of auth.json or           *)
(* models.json undoes another.  The first needs to know, of every login,   *)
(* where its newest token is: in the file, or with the one request that    *)
(* holds the provider's refresh lock.                                      *)
(*                                                                         *)
(* Then, through INSTANCE, the two halves of a Channel: the lanes of its   *)
(* deliveries (ChannelDelivery), and its conversations (ChannelRuntime).   *)
(***************************************************************************)
EXTENDS ProviderAuth, FiniteSetTheorems, WellFoundedInduction, SequenceTheorems, TLAPS

\* What request r is doing: it is about to replace auth.json; it brings the token of a
\* new login; it knows a token that is in no file; it is refreshing, with the lock held.
Writes(r) == r.pc \in {"write", "writing"}
New(r) == Writes(r) /\ r.then = "next"
InFlight(r) == r.pc = "rotated" \/ (Writes(r) /\ r.then = "use")
Refreshes(r) == r.pc = "sent" \/ InFlight(r)
Holds(r) == Refreshes(r) \/ New(r)

\* How far the provider is ahead of what request r knows.
Ahead(r) == IF r.pc = "rotated" THEN 1 ELSE 0

\* What a request has at hand where it stands.
Fits(r) ==
    /\ r.pc \in {"load", "lock", "sent", "rotated", "write", "writing", "use"} => r.provider \in Providers
    /\ r.pc \in {"sent", "rotated", "use"} => r.token \in Tokens
    /\ r.pc \in {"sent", "rotated"} => r.token \in expired
    /\ Writes(r) => \/ r.then \in {"use", "next"} /\ r.token \in Tokens
                    \/ r.then = "catalog" /\ r.token = NoToken
    /\ r.op = "remove" =>
         r.pc \in {"write", "writing", "catalog", "updating", "done"} /\ r.then = "catalog"
    /\ r.token.login <= logins

\* The locks that request t holds, and that what it has read is still so.
Locked(t) ==
    /\ Refreshes(task[t]) => locks.refresh[task[t].provider] = t
    /\ task[t].pc = "writing" => locks.auth = t /\ task[t].auth = auth
    /\ task[t].pc = "updating" => locks.catalog = t /\ task[t].catalog = catalog

\* Request t holds the refresh lock of provider p for a reason.
Keeper(p, t) == locks.refresh[p] = t => Refreshes(task[t]) /\ task[t].provider = p

\* Every login is of one provider: it is stored at most once, and a request that holds
\* one of its tokens holds it alone, for that provider.
Sorted == \A p, q \in Providers : (auth[p].login = auth[q].login /\ auth[p].login # 0) => p = q
AtHome(t, p) ==
    (Holds(task[t]) /\ auth[p].login = task[t].token.login) => p = task[t].provider /\ ~New(task[t])
Alone(t, u) ==
    (Holds(task[t]) /\ Holds(task[u]) /\ task[t].token.login = task[u].token.login) => t = u

\* Unless an answer was lost, what a request holds is the newest token, and so is what
\* the file has, but for a token in flight.
Knows(t) ==
    LET r == task[t] IN
    (Holds(r) /\ r.token.login \notin lost) => newest[r.token.login] = r.token.n + Ahead(r)
Stored(p) ==
    (auth[p] # NoToken /\ auth[p].login \notin lost) =>
        \/ auth[p].n = newest[auth[p].login]
        \/ \E t \in Tasks : InFlight(task[t]) /\ task[t].token.login = auth[p].login

\* A token that expires is not the last one the bound allows, and logins to come have
\* not been refreshed.
Bounded ==
    /\ \A x \in expired : x.n < MaxTokens
    /\ \A p \in Providers : auth[p].login <= logins
    /\ \A l \in 1..MaxLogins : l > logins => newest[l] = 1

\* Where the newest token of every login is.
Whereabouts ==
    /\ \A p \in Providers, t \in Tasks : Keeper(p, t)
    /\ Sorted
    /\ \A t \in Tasks, p \in Providers : AtHome(t, p)
    /\ \A t, u \in Tasks : Alone(t, u)
    /\ \A t \in Tasks : Knows(t)
    /\ \A p \in Providers : Stored(p)

IInv ==
    /\ TypeOK /\ Bounded /\ RefusedOnlyIfLost
    /\ \A t \in Tasks : Fits(task[t])
    /\ \A t \in Tasks : Locked(t)
    /\ Whereabouts

--------------------
(* Facts about the data.                                                   *)

\* Any providers that are to be asked have a first one.
LEMMA FirstProvider ==
  ASSUME NEW T \in SUBSET Providers, T # {}
  PROVE  (CHOOSE p \in T : \A q \in T : p <= q) \in T
<1>1. T \subseteq Nat
  BY AuthAssumption
<1>2. PICK x \in T : \A y \in T : ~(<<y, x>> \in OpToRel(<, Nat))
  BY <1>1, NatLessThanWellFounded, WFMin, Zenon
<1>3. \A y \in T : ~(y < x)
  <2> SUFFICES ASSUME NEW y \in T, y < x PROVE FALSE
    OBVIOUS
  <2>1. <<y, x>> \in OpToRel(<, Nat)
    BY <1>1 DEF OpToRel
  <2> QED
    BY <2>1, <1>2
<1>4. \A y \in T : x <= y
  BY <1>1, <1>3
<1> QED
  BY <1>4

\* A request before it begins.
LEMMA IdleType == Idle \in Request
<1>1. [p \in Providers |-> NoToken] \in AuthFile
  BY DEF AuthFile
<1>2. [p \in Providers |-> 0] \in CatalogFile
  BY AuthAssumption DEF CatalogFile
<1> QED
  BY <1>1, <1>2 DEF Idle, Request, Pcs

\* The parts of a token.
LEMMA TokenParts ==
  /\ NoToken.login = 0 /\ NoToken.n = 0 /\ NoToken \notin Tokens
  /\ \A x \in Tokens :
        /\ x.login \in 1..MaxLogins /\ x.n \in 1..MaxTokens /\ x.login # 0 /\ x # NoToken
        /\ x.login \in Nat /\ x.n \in Nat
  /\ \A x, y \in Tokens : x.login = y.login /\ x.n = y.n => x = y
BY AuthAssumption DEF NoToken, Tokens

\* The fields of a request.
LEMMA RequestParts ==
  ASSUME NEW r \in Request
  PROVE  /\ r.pc \in Pcs /\ r.provider \in Providers \cup {0} /\ r.token \in Tokens \cup {NoToken}
         /\ r.then \in {"", "next", "catalog", "use"} /\ r.todo \subseteq Providers
         /\ r.found \subseteq Models /\ r.auth \in AuthFile /\ r.catalog \in CatalogFile
BY DEF Request

\* Request r neither takes nor gives up a token as it becomes s.
Keeps(r, s) ==
    /\ Holds(s) <=> Holds(r)
    /\ Holds(r) => /\ s.token = r.token /\ s.provider = r.provider /\ s.then = r.then
                   /\ Refreshes(s) <=> Refreshes(r)
                   /\ New(s) <=> New(r)
                   /\ InFlight(s) <=> InFlight(r)
                   /\ Ahead(s) = Ahead(r)

\* A step in which no request takes or gives up a token, and that touches no refresh
\* lock, leaves the tokens where they are.
LEMMA TokensStay ==
  ASSUME TypeOK, Whereabouts, UNCHANGED <<auth, newest, lost>>, locks'.refresh = locks.refresh,
         \A t \in Tasks : Keeps(task[t], task'[t])
  PROVE  Whereabouts'
<1>1. \A t \in Tasks : /\ Refreshes(task'[t]) <=> Refreshes(task[t])
                       /\ InFlight(task'[t]) <=> InFlight(task[t])
                       /\ Holds(task'[t]) <=> Holds(task[t])
                       /\ Holds(task[t]) =>
                            /\ task'[t].token = task[t].token /\ task'[t].provider = task[t].provider
                            /\ New(task'[t]) <=> New(task[t])
                            /\ Ahead(task'[t]) = Ahead(task[t])
  BY DEF Keeps, Holds, Refreshes, InFlight
<1>2. \A p \in Providers, t \in Tasks : Keeper(p, t)'
  BY <1>1 DEF Whereabouts, Keeper, Holds
<1>3. Sorted'
  BY DEF Whereabouts, Sorted
<1>4. \A t \in Tasks, p \in Providers : AtHome(t, p)'
  BY <1>1 DEF Whereabouts, AtHome
<1>5. \A t, u \in Tasks : Alone(t, u)'
  BY <1>1 DEF Whereabouts, Alone
<1>6. \A t \in Tasks : Knows(t)'
  BY <1>1 DEF Whereabouts, Knows
<1>7. \A p \in Providers : Stored(p)'
  BY <1>1 DEF Whereabouts, Stored, Holds, Refreshes
<1> QED
  BY <1>2, <1>3, <1>4, <1>5, <1>6, <1>7 DEF Whereabouts

\* A step of request t that moves no token and touches no lock and no file.
LEMMA QuietStep ==
  ASSUME IInv, NEW t \in Tasks, NEW s \in Request, task' = [task EXCEPT ![t] = s],
         UNCHANGED <<auth, catalog, locks, expired, newest, logins, chosen, refused, lost, faults>>,
         Fits(s), Keeps(task[t], s), s.pc \notin {"writing", "updating"}
  PROVE  IInv'
<1>1. task \in [Tasks -> Request] /\ task' \in [Tasks -> Request]
  BY DEF IInv, TypeOK
<1>2. task'[t] = s /\ \A u \in Tasks \ {t} : task'[u] = task[u]
  BY <1>1
<1>3. Whereabouts'
  <2>1. \A u \in Tasks : Keeps(task[u], task'[u])
    BY <1>2 DEF Keeps
  <2> QED
    BY <2>1, TokensStay DEF IInv
<1>4. TypeOK'
  <2>1. \A p \in Providers :
           (locks.refresh[p] = Free \/ task[locks.refresh[p]].pc \in {"sent", "rotated", "write", "writing"})'
    <3>1. \A p \in Providers, u \in Tasks : Keeper(p, u)'
      BY <1>3 DEF Whereabouts
    <3>2. locks'.refresh \in [Providers -> Holders]
      BY DEF IInv, TypeOK
    <3> QED
      BY <3>1, <3>2 DEF Keeper, Refreshes, InFlight, Writes, Holders
  <2> QED
    BY <2>1, <1>1 DEF IInv, TypeOK
<1>5. Bounded' /\ RefusedOnlyIfLost'
  BY DEF IInv, Bounded, RefusedOnlyIfLost
<1>6. \A u \in Tasks : Fits(task[u])'
  BY <1>2 DEF IInv, Fits
<1>7. \A u \in Tasks : Locked(u)'
  <2>1. CASE Refreshes(s)
    BY <2>1, <1>2 DEF IInv, Locked, Keeps, Holds
  <2>2. CASE ~Refreshes(s)
    BY <2>2, <1>2 DEF IInv, Locked
  <2> QED
    BY <2>1, <2>2
<1> QED
  BY <1>3, <1>4, <1>5, <1>6, <1>7 DEF IInv

--------------------
(* The steps of one request.                                               *)

\* What the invariant says of request t before its step.
LEMMA Before ==
  ASSUME IInv, NEW t \in Tasks
  PROVE  /\ task[t] \in Request /\ task \in [Tasks -> Request]
         /\ Fits(task[t]) /\ Locked(t)
         /\ auth \in AuthFile /\ catalog \in CatalogFile
         /\ logins \in 1..MaxLogins
         /\ \A p \in Providers : auth[p] \in Tokens \cup {NoToken} /\ auth[p].login <= logins
BY DEF IInv, TypeOK, AuthFile, Bounded

\* What a request that begins looks like.
LEMMA IdleParts ==
  /\ Idle.op = "none" /\ Idle.pc = "idle" /\ Idle.provider = 0 /\ Idle.token = NoToken
  /\ Idle.then = "" /\ Idle.todo = {} /\ Idle.found = {}
  /\ Idle.auth \in AuthFile /\ Idle.catalog \in CatalogFile /\ ~Holds(Idle)
BY IdleType, RequestParts DEF Idle, Holds, Refreshes, InFlight, New, Writes

\* A call begins with no token.
LEMMA CallStep ==
  ASSUME IInv, NEW t \in Tasks, NEW p \in Providers, Call(t, p)
  PROVE  IInv'
<1> DEFINE s == [Idle EXCEPT !.op = "call", !.pc = "load", !.provider = p]
<1>1. s \in Request /\ s.pc = "load" /\ s.provider = p /\ s.token = NoToken /\ s.op = "call"
  BY IdleType DEF Request, Idle, Pcs
<1>2. Fits(s) /\ ~Holds(s) /\ ~Holds(task[t])
  BY <1>1, IdleParts, Before, TokenParts DEF Call, Fits, Holds, Refreshes, InFlight, New, Writes
<1>3. task' = [task EXCEPT ![t] = s]
  BY DEF Call
<1>4. UNCHANGED <<auth, catalog, locks, expired, newest, logins, chosen, refused, lost, faults>>
  BY DEF Call, Others
<1> HIDE DEF s
<1> QED
  BY <1>1, <1>2, <1>3, <1>4, QuietStep DEF Keeps

\* A removal begins with no token.
LEMMA RemoveAuthStep ==
  ASSUME IInv, NEW t \in Tasks, NEW p \in Providers, RemoveAuth(t, p)
  PROVE  IInv'
<1> DEFINE s == [Idle EXCEPT !.op = "remove", !.pc = "write", !.provider = p, !.then = "catalog"]
<1>1. /\ s \in Request /\ s.pc = "write" /\ s.provider = p /\ s.token = NoToken
      /\ s.then = "catalog"
  BY IdleType DEF Request, Idle, Pcs
<1>2. Fits(s) /\ ~Holds(s) /\ ~Holds(task[t])
  BY <1>1, IdleParts, Before, TokenParts DEF RemoveAuth, Fits, Holds, Refreshes, InFlight, New, Writes
<1>3. task' = [task EXCEPT ![t] = s]
  BY DEF RemoveAuth
<1>4. UNCHANGED <<auth, catalog, locks, expired, newest, logins, chosen, refused, lost, faults>>
  BY DEF RemoveAuth, Others
<1> HIDE DEF s
<1> QED
  BY <1>1, <1>2, <1>3, <1>4, QuietStep DEF Keeps

\* A discovery begins with no token.
LEMMA RefreshModelsStep ==
  ASSUME IInv, NEW t \in Tasks, RefreshModels(t)
  PROVE  IInv'
<1> DEFINE s == [Idle EXCEPT !.op = "models", !.pc = "next",
                             !.todo = {p \in Providers : auth[p] # NoToken}]
<1>1. s \in Request /\ s.pc = "next" /\ s.token = NoToken /\ s.op = "models"
  BY IdleType DEF Request, Idle, Pcs
<1>2. Fits(s) /\ ~Holds(s) /\ ~Holds(task[t])
  BY <1>1, IdleParts, Before, TokenParts DEF RefreshModels, Fits, Holds, Refreshes, InFlight, New, Writes
<1>3. task' = [task EXCEPT ![t] = s]
  BY DEF RefreshModels
<1>4. UNCHANGED <<auth, catalog, locks, expired, newest, logins, chosen, refused, lost, faults>>
  BY DEF RefreshModels, Others
<1> HIDE DEF s
<1> QED
  BY <1>1, <1>2, <1>3, <1>4, QuietStep DEF Keeps

\* What a request takes from auth.json, when it is not about to refresh.
LEMMA TakesQuietly ==
  ASSUME IInv, NEW t \in Tasks, task[t].pc \in {"load", "lock"}, NEW stale \in {"lock", "sent"},
         task' = Takes(t, auth[task[t].provider], stale), task'[t].pc # "sent",
         UNCHANGED <<auth, catalog, locks, expired, newest, logins, chosen, refused, lost, faults>>
  PROVE  IInv'
<1> DEFINE r == task[t]
           x == auth[r.provider]
           c == IF x = NoToken THEN WithoutCredential(t) ELSE IF Expired(x) THEN stale ELSE "use"
           s == [r EXCEPT !.token = x, !.pc = c]
<1>1. r \in Request /\ r.provider \in Providers /\ x \in Tokens \cup {NoToken} /\ x.login <= logins
  BY Before DEF Fits
<1>2. task' = [task EXCEPT ![t] = s]
  BY Before DEF Takes
<1>3. c \in {"done", "next", "lock", "sent", "use"} /\ (c = "use" => x # NoToken)
  BY DEF WithoutCredential
<1>4. s \in Request /\ s.token = x /\ s.pc = c /\ s.provider = r.provider /\ s.op = r.op
  BY <1>1, <1>3 DEF Request, Pcs
<1>5. task'[t] = s
  BY <1>2, Before
<1>6. ~Holds(r) /\ ~Holds(s)
  BY <1>3, <1>4, <1>5 DEF Holds, Refreshes, InFlight, New, Writes
<1>7. Fits(s)
  BY <1>1, <1>3, <1>4, <1>5, Before DEF Fits, Writes
<1> HIDE DEF s, c, x
<1> QED
  BY <1>2, <1>3, <1>4, <1>6, <1>7, QuietStep DEF Keeps

\* The credential is read without a lock, and not refreshed yet.
LEMMA ReadCredentialStep ==
  ASSUME IInv, NEW t \in Tasks, ReadCredential(t)
  PROVE  IInv'
<1>1. task'[t].pc # "sent"
  BY Before DEF ReadCredential, Takes, WithoutCredential
<1> QED
  BY <1>1, TakesQuietly DEF ReadCredential, Others

\* A removal ends when there is nothing to remove.
LEMMA NothingToRemoveStep ==
  ASSUME IInv, NEW t \in Tasks, NothingToRemove(t)
  PROVE  IInv'
<1> DEFINE s == [task[t] EXCEPT !.pc = "done"]
<1>1. s \in Request /\ s.pc = "done" /\ s.token = task[t].token /\ s.then = task[t].then
  BY Before DEF Request, Pcs
<1>2. task' = [task EXCEPT ![t] = s]
  BY DEF NothingToRemove, Goto
<1>3. Fits(s) /\ ~Holds(s)
  BY <1>1, Before DEF Fits, Holds, Refreshes, InFlight, New, Writes
<1>4. ~Holds(task[t])
  BY Before DEF NothingToRemove, Fits, Holds, Refreshes, InFlight, New, Writes
<1>5. UNCHANGED <<auth, catalog, locks, expired, newest, logins, chosen, refused, lost, faults>>
  BY DEF NothingToRemove, Others
<1> HIDE DEF s
<1> QED
  BY <1>1, <1>2, <1>3, <1>4, <1>5, QuietStep DEF Keeps

\* A discovery goes on with the first provider left, or with the catalog.
LEMMA NextProviderStep ==
  ASSUME IInv, NEW t \in Tasks, NextProvider(t)
  PROVE  IInv'
<1> DEFINE r == task[t]
           p == CHOOSE p \in r.todo : \A q \in r.todo : p <= q
<1>0. UNCHANGED <<auth, catalog, locks, expired, newest, logins, chosen, refused, lost, faults>>
  BY DEF NextProvider, Others
<1>1. r \in Request /\ r.pc = "next" /\ ~Holds(r) /\ r.todo \subseteq Providers
  BY Before, RequestParts DEF NextProvider, Holds, Refreshes, InFlight, New, Writes
<1>2. CASE r.todo = {}
  <2> DEFINE s == [r EXCEPT !.pc = "catalog"]
  <2>1. s \in Request /\ s.pc = "catalog" /\ s.token = r.token /\ s.op = r.op
    BY <1>1 DEF Request, Pcs
  <2>2. task' = [task EXCEPT ![t] = s]
    BY <1>2 DEF NextProvider
  <2>3. Fits(s) /\ ~Holds(s)
    BY <2>1, <1>1, Before DEF Fits, Holds, Refreshes, InFlight, New, Writes
  <2> HIDE DEF s
  <2> QED
    BY <1>0, <1>1, <2>1, <2>2, <2>3, QuietStep DEF Keeps
<1>3. CASE r.todo # {}
  <2>1. p \in Providers
    BY <1>1, <1>3, FirstProvider
  <2> DEFINE s == [r EXCEPT !.pc = "load", !.provider = p, !.todo = r.todo \ {p}]
  <2>2. s \in Request /\ s.pc = "load" /\ s.token = r.token /\ s.provider = p /\ s.op = r.op
    BY <1>1, <2>1 DEF Request, Pcs
  <2>3. task' = [task EXCEPT ![t] = s]
    <3>1. task' = [task EXCEPT ![t].pc = "load", ![t].provider = p, ![t].todo = @ \ {p}]
      BY <1>3, Zenon DEF NextProvider
    <3> HIDE DEF p
    <3> QED
      BY <3>1, Before
  <2>4. Fits(s) /\ ~Holds(s)
    BY <2>1, <2>2, <1>1, Before DEF Fits, Holds, Refreshes, InFlight, New, Writes
  <2> HIDE DEF s
  <2> QED
    BY <1>0, <1>1, <2>2, <2>3, <2>4, QuietStep DEF Keeps
<1> QED
  BY <1>2, <1>3

\* A token that is used is the file's, so that nothing is given up.
LEMMA UseStep ==
  ASSUME IInv, NEW t \in Tasks, Use(t)
  PROVE  IInv'
<1> DEFINE r == task[t]
<1>0. UNCHANGED <<auth, catalog, locks, expired, newest, logins, chosen, refused, lost, faults>>
  BY DEF Use, Others
<1>1. /\ r \in Request /\ r.pc = "use" /\ ~Holds(r) /\ r.provider \in Providers
      /\ r.token \in Tokens /\ r.found \subseteq Models /\ r.op # "remove"
  BY Before, RequestParts DEF Use, Fits, Holds, Refreshes, InFlight, New, Writes
<1>2. ASSUME NEW c \in {"done", "next"}, Goto(t, c) PROVE IInv'
  <2> DEFINE s == [r EXCEPT !.pc = c]
  <2>1. s \in Request /\ s.pc = c /\ s.token = r.token /\ s.op = r.op
    BY <1>1 DEF Request, Pcs
  <2>2. task' = [task EXCEPT ![t] = s]
    BY <1>2 DEF Goto
  <2>3. Fits(s) /\ ~Holds(s)
    BY <2>1, <1>1, Before DEF Fits, Holds, Refreshes, InFlight, New, Writes
  <2> HIDE DEF s
  <2> QED
    BY <1>0, <1>1, <2>1, <2>2, <2>3, QuietStep DEF Keeps
<1>3. ASSUME task' = [task EXCEPT ![t].pc = "next",
                                  ![t].found = @ \cup {[provider |-> r.provider, login |-> r.token.login]}]
      PROVE IInv'
  <2> DEFINE f == r.found \cup {[provider |-> r.provider, login |-> r.token.login]}
             s == [r EXCEPT !.pc = "next", !.found = f]
  <2>1. f \subseteq Models
    BY <1>1, TokenParts DEF Models
  <2>2. s \in Request /\ s.pc = "next" /\ s.token = r.token /\ s.op = r.op
    BY <2>1, <1>1 DEF Request, Pcs
  <2>3. task' = [task EXCEPT ![t] = s]
    BY <1>3, Before
  <2>4. Fits(s) /\ ~Holds(s)
    BY <2>2, <1>1, Before DEF Fits, Holds, Refreshes, InFlight, New, Writes
  <2> HIDE DEF s
  <2> QED
    BY <1>0, <1>1, <2>2, <2>3, <2>4, QuietStep DEF Keeps
<1> QED
  BY <1>2, <1>3 DEF Use

\* The files are read with their lock held.
LEMMA ReadAuthStep ==
  ASSUME IInv, NEW t \in Tasks, ReadAuth(t)
  PROVE  IInv'
<1> DEFINE r == task[t]
           s == [r EXCEPT !.pc = "writing", !.auth = auth]
<1>0. UNCHANGED <<auth, catalog, expired, newest, logins, chosen, refused, lost, faults>>
  BY DEF ReadAuth, Others
<1>1. r \in Request /\ r.pc = "write"
  BY Before DEF ReadAuth
<1>2. /\ s \in Request /\ s.pc = "writing" /\ s.token = r.token /\ s.provider = r.provider
      /\ s.then = r.then /\ s.op = r.op /\ s.auth = auth
  BY <1>1, Before DEF Request, Pcs
<1>3. task' = [task EXCEPT ![t] = s]
  BY Before DEF ReadAuth
<1>4. task'[t] = s /\ (\A u \in Tasks \ {t} : task'[u] = task[u]) /\ task' \in [Tasks -> Request]
  BY <1>2, <1>3, Before
<1>5. locks' = [locks EXCEPT !.auth = t] /\ locks.auth = Free
  BY DEF ReadAuth
<1>6. /\ locks'.refresh = locks.refresh /\ locks'.catalog = locks.catalog /\ locks'.auth = t
      /\ locks' \in [auth : Holders, catalog : Holders, refresh : [Providers -> Holders]]
  BY <1>5 DEF IInv, TypeOK, Holders
<1>7. Keeps(r, s) /\ Fits(s) /\ (Refreshes(s) <=> Refreshes(r))
  BY <1>1, <1>2, Before DEF Keeps, Fits, Holds, Refreshes, InFlight, New, Writes, Ahead
<1> HIDE DEF s
<1>8. Whereabouts'
  <2>1. \A u \in Tasks : Keeps(task[u], task'[u])
    BY <1>4, <1>7 DEF Keeps
  <2> QED
    BY <2>1, <1>0, <1>6, TokensStay DEF IInv
<1>9. TypeOK'
  <2>1. \A p \in Providers :
           (locks.refresh[p] = Free \/ task[locks.refresh[p]].pc \in {"sent", "rotated", "write", "writing"})'
    BY <1>6, <1>8 DEF Whereabouts, Keeper, Refreshes, InFlight, Writes, Holders
  <2> QED
    BY <2>1, <1>0, <1>4, <1>6 DEF IInv, TypeOK
<1>10. Bounded' /\ RefusedOnlyIfLost'
  BY <1>0 DEF IInv, Bounded, RefusedOnlyIfLost
<1>11. \A u \in Tasks : Fits(task[u])'
  BY <1>0, <1>4, <1>7 DEF IInv, Fits
<1>12. \A u \in Tasks : Locked(u)'
  <2>1. Locked(t)'
    BY <1>0, <1>2, <1>4, <1>6, <1>7, Before DEF Locked
  <2>2. ASSUME NEW u \in Tasks, u # t PROVE Locked(u)'
    BY <2>2, <1>0, <1>4, <1>5, <1>6, AuthAssumption DEF IInv, Locked
  <2> QED
    BY <2>1, <2>2
<1> QED
  BY <1>8, <1>9, <1>10, <1>11, <1>12 DEF IInv

\* models.json is read with its lock held.
LEMMA ReadCatalogStep ==
  ASSUME IInv, NEW t \in Tasks, ReadCatalog(t)
  PROVE  IInv'
<1> DEFINE r == task[t]
           s == [r EXCEPT !.pc = "updating", !.catalog = catalog]
<1>0. UNCHANGED <<auth, catalog, expired, newest, logins, chosen, refused, lost, faults>>
  BY DEF ReadCatalog, Others
<1>1. r \in Request /\ r.pc = "catalog"
  BY Before DEF ReadCatalog
<1>2. s \in Request /\ s.pc = "updating" /\ s.token = r.token /\ s.op = r.op /\ s.then = r.then /\ s.catalog = catalog
  BY <1>1, Before DEF Request, Pcs
<1>3. task' = [task EXCEPT ![t] = s]
  BY Before DEF ReadCatalog
<1>4. task'[t] = s /\ (\A u \in Tasks \ {t} : task'[u] = task[u]) /\ task' \in [Tasks -> Request]
  BY <1>2, <1>3, Before
<1>5. locks' = [locks EXCEPT !.catalog = t] /\ locks.catalog = Free
  BY DEF ReadCatalog
<1>6. /\ locks'.refresh = locks.refresh /\ locks'.auth = locks.auth /\ locks'.catalog = t
      /\ locks' \in [auth : Holders, catalog : Holders, refresh : [Providers -> Holders]]
  BY <1>5 DEF IInv, TypeOK, Holders
<1>7. ~Holds(r) /\ ~Holds(s) /\ Fits(s)
  BY <1>1, <1>2, Before DEF Fits, Holds, Refreshes, InFlight, New, Writes
<1> HIDE DEF s
<1>8. Whereabouts'
  <2>1. \A u \in Tasks : Keeps(task[u], task'[u])
    BY <1>4, <1>7 DEF Keeps
  <2> QED
    BY <2>1, <1>0, <1>6, TokensStay DEF IInv
<1>9. TypeOK'
  <2>1. \A p \in Providers :
           (locks.refresh[p] = Free \/ task[locks.refresh[p]].pc \in {"sent", "rotated", "write", "writing"})'
    BY <1>6, <1>8 DEF Whereabouts, Keeper, Refreshes, InFlight, Writes, Holders
  <2> QED
    BY <2>1, <1>0, <1>4, <1>6 DEF IInv, TypeOK
<1>10. Bounded' /\ RefusedOnlyIfLost'
  BY <1>0 DEF IInv, Bounded, RefusedOnlyIfLost
<1>11. \A u \in Tasks : Fits(task[u])'
  BY <1>0, <1>4, <1>7 DEF IInv, Fits
<1>12. \A u \in Tasks : Locked(u)'
  <2>1. Locked(t)'
    BY <1>0, <1>2, <1>4, <1>6, <1>7, Before DEF Locked, Holds
  <2>2. ASSUME NEW u \in Tasks, u # t PROVE Locked(u)'
    BY <2>2, <1>0, <1>4, <1>5, <1>6, AuthAssumption DEF IInv, Locked
  <2> QED
    BY <2>1, <2>2
<1> QED
  BY <1>8, <1>9, <1>10, <1>11, <1>12 DEF IInv

\* The catalog that replaces models.json.
LEMMA UpdatedType ==
  ASSUME IInv, NEW t \in Tasks
  PROVE  Updated(t) \in CatalogFile
<1>1. task[t].found \subseteq Models /\ task[t].catalog \in CatalogFile
  BY Before, RequestParts
<1>2. ASSUME NEW p \in Providers PROVE Updated(t)[p] \in 0..MaxLogins
  <2>1. CASE \E f \in task[t].found : f.provider = p
    <3>1. (CHOOSE f \in task[t].found : f.provider = p) \in Models
      BY <2>1, <1>1
    <3> QED
      BY <3>1, <2>1, AuthAssumption DEF Updated, Models
  <2>2. CASE ~\E f \in task[t].found : f.provider = p
    BY <2>2, <1>1, AuthAssumption DEF Updated, CatalogFile
  <2> QED
    BY <2>1, <2>2
<1> QED
  BY <1>2 DEF Updated, CatalogFile

\* models.json is replaced and its lock released.
LEMMA WriteCatalogStep ==
  ASSUME IInv, NEW t \in Tasks, WriteCatalog(t)
  PROVE  IInv'
<1> DEFINE r == task[t]
           s == [r EXCEPT !.pc = "done", !.catalog = Idle.catalog]
<1>0. UNCHANGED <<auth, expired, newest, logins, chosen, refused, lost, faults>>
  BY DEF WriteCatalog, Others
<1>1. r \in Request /\ r.pc = "updating"
  BY Before DEF WriteCatalog
<1>2. s \in Request /\ s.pc = "done" /\ s.token = r.token /\ s.op = r.op /\ s.then = r.then
  BY <1>1, IdleParts DEF Request, Pcs
<1>3. task' = [task EXCEPT ![t] = s]
  BY Before DEF WriteCatalog
<1>4. task'[t] = s /\ (\A u \in Tasks \ {t} : task'[u] = task[u]) /\ task' \in [Tasks -> Request]
  BY <1>2, <1>3, Before
<1>5. locks' = [locks EXCEPT !.catalog = Free] /\ locks.catalog = t
  BY <1>1, Before DEF WriteCatalog, Locked
<1>6. /\ locks'.refresh = locks.refresh /\ locks'.auth = locks.auth
      /\ locks' \in [auth : Holders, catalog : Holders, refresh : [Providers -> Holders]]
  BY <1>5 DEF IInv, TypeOK, Holders
<1>7. ~Holds(r) /\ ~Holds(s) /\ Fits(s)
  BY <1>1, <1>2, Before DEF Fits, Holds, Refreshes, InFlight, New, Writes
<1>8. catalog' \in CatalogFile
  BY UpdatedType DEF WriteCatalog
<1> HIDE DEF s
<1>9. Whereabouts'
  <2>1. \A u \in Tasks : Keeps(task[u], task'[u])
    BY <1>4, <1>7 DEF Keeps
  <2> QED
    BY <2>1, <1>0, <1>6, TokensStay DEF IInv
<1>10. TypeOK'
  <2>1. \A p \in Providers :
           (locks.refresh[p] = Free \/ task[locks.refresh[p]].pc \in {"sent", "rotated", "write", "writing"})'
    BY <1>6, <1>9 DEF Whereabouts, Keeper, Refreshes, InFlight, Writes, Holders
  <2> QED
    BY <2>1, <1>0, <1>4, <1>6, <1>8 DEF IInv, TypeOK
<1>11. Bounded' /\ RefusedOnlyIfLost'
  BY <1>0 DEF IInv, Bounded, RefusedOnlyIfLost
<1>12. \A u \in Tasks : Fits(task[u])'
  BY <1>0, <1>4, <1>7 DEF IInv, Fits
<1>13. \A u \in Tasks : Locked(u)'
  <2>1. Locked(t)'
    BY <1>2, <1>4, <1>7 DEF Locked, Holds
  <2>2. ASSUME NEW u \in Tasks, u # t PROVE Locked(u)'
    BY <2>2, <1>0, <1>4, <1>5, <1>6 DEF IInv, Locked
  <2> QED
    BY <2>1, <2>2
<1> QED
  BY <1>9, <1>10, <1>11, <1>12, <1>13 DEF IInv

--------------------
(* The steps that move tokens.                                             *)

\* A new login is not stored, and no other request has a token of it.
LEMMA SetAuthStep ==
  ASSUME IInv, NEW t \in Tasks, NEW p \in Providers, SetAuth(t, p)
  PROVE  IInv'
<1> DEFINE x == [login |-> logins + 1, n |-> 1]
           s == [Idle EXCEPT !.op = "set", !.pc = "write", !.provider = p, !.todo = {p},
                             !.then = "next", !.token = x]
<1>0. /\ UNCHANGED <<auth, catalog, locks, expired, newest, chosen, refused, lost, faults>>
      /\ logins' = logins + 1 /\ logins < MaxLogins /\ task[t] = Idle
  BY DEF SetAuth
<1>1. logins \in 1..MaxLogins /\ logins' \in 1..MaxLogins /\ x \in Tokens
  BY <1>0, Before, AuthAssumption DEF Tokens
<1>2. /\ s \in Request /\ s.pc = "write" /\ s.token = x /\ s.then = "next" /\ s.op = "set"
      /\ s.provider = p
  BY IdleType, <1>1 DEF Request, Idle, Pcs
<1>3. task' = [task EXCEPT ![t] = s]
  BY DEF SetAuth
<1>4. task'[t] = s /\ (\A u \in Tasks \ {t} : task'[u] = task[u]) /\ task' \in [Tasks -> Request]
  BY <1>2, <1>3, Before
<1>5. /\ ~Holds(task[t]) /\ Holds(s) /\ New(s) /\ ~Refreshes(s) /\ ~InFlight(s) /\ Ahead(s) = 0
  BY <1>0, <1>1, <1>2, IdleParts DEF Holds, Refreshes, InFlight, New, Writes, Ahead
<1>6. x.login = logins' /\ x.n = 1
  BY <1>0
<1>7. \A u \in Tasks : task[u].token.login <= logins /\ task[u].token.login \in Nat
  <2> SUFFICES ASSUME NEW u \in Tasks
               PROVE  task[u].token.login <= logins /\ task[u].token.login \in Nat
    OBVIOUS
  <2>1. task[u].token \in Tokens \cup {NoToken}
    BY Before, RequestParts
  <2> QED
    BY <2>1, Before, TokenParts DEF Fits
<1>8. \A q \in Providers : auth[q].login <= logins /\ auth[q].login \in Nat
  BY Before, TokenParts
<1>9. newest[x.login] = 1
  <2>1. \A l \in 1..MaxLogins : l > logins => newest[l] = 1
    BY DEF IInv, Bounded
  <2> QED
    BY <2>1, <1>0, <1>1, <1>6
<1> HIDE DEF s, x
<1>10. Whereabouts'
  <2>1. \A q \in Providers, u \in Tasks : Keeper(q, u)'
    BY <1>0, <1>4, <1>5 DEF IInv, Whereabouts, Keeper, Holds
  <2>2. Sorted'
    BY <1>0 DEF IInv, Whereabouts, Sorted
  <2>3. ASSUME NEW u \in Tasks, NEW q \in Providers PROVE AtHome(u, q)'
    <3>1. CASE u = t
      BY <3>1, <1>0, <1>1, <1>2, <1>4, <1>6, <1>8 DEF AtHome
    <3>2. CASE u # t
      BY <3>2, <1>0, <1>4 DEF IInv, Whereabouts, AtHome
    <3> QED
      BY <3>1, <3>2
  <2>4. ASSUME NEW u \in Tasks, NEW v \in Tasks PROVE Alone(u, v)'
    BY <1>0, <1>1, <1>2, <1>4, <1>6, <1>7 DEF IInv, Whereabouts, Alone
  <2>5. ASSUME NEW u \in Tasks PROVE Knows(u)'
    <3>1. CASE u = t
      BY <3>1, <1>0, <1>2, <1>4, <1>5, <1>6, <1>9 DEF Knows
    <3>2. CASE u # t
      BY <3>2, <1>0, <1>4 DEF IInv, Whereabouts, Knows
    <3> QED
      BY <3>1, <3>2
  <2>6. ASSUME NEW q \in Providers PROVE Stored(q)'
    BY <1>0, <1>4, <1>5 DEF IInv, Whereabouts, Stored, Holds, Refreshes
  <2> QED
    BY <2>1, <2>2, <2>3, <2>4, <2>5, <2>6 DEF Whereabouts
<1>11. TypeOK'
  <2>1. \A q \in Providers :
           (locks.refresh[q] = Free \/ task[locks.refresh[q]].pc \in {"sent", "rotated", "write", "writing"})'
    <3>1. locks'.refresh \in [Providers -> Holders]
      BY <1>0 DEF IInv, TypeOK
    <3> QED
      BY <3>1, <1>10 DEF Whereabouts, Keeper, Refreshes, InFlight, Writes, Holders
  <2> QED
    BY <2>1, <1>0, <1>1, <1>4 DEF IInv, TypeOK
<1>12. Bounded' /\ RefusedOnlyIfLost'
  BY <1>0, <1>1, <1>8 DEF IInv, Bounded, RefusedOnlyIfLost
<1>13. \A u \in Tasks : Fits(task[u])'
  <2>1. ASSUME NEW u \in Tasks, u # t PROVE Fits(task[u])'
    BY <2>1, <1>0, <1>1, <1>4, <1>7 DEF IInv, Fits
  <2>2. Fits(task[t])'
    BY <1>1, <1>2, <1>4, <1>6 DEF Fits, Writes
  <2> QED
    BY <2>1, <2>2
<1>14. \A u \in Tasks : Locked(u)'
  BY <1>0, <1>2, <1>4, <1>5 DEF IInv, Locked
<1> QED
  BY <1>10, <1>11, <1>12, <1>13, <1>14 DEF IInv

\* The credential is read again under the refresh lock: nobody has a newer token.
LEMMA LockRefreshStep ==
  ASSUME IInv, NEW t \in Tasks, LockRefresh(t)
  PROVE  IInv'
<1> DEFINE r == task[t]
           p == r.provider
           x == auth[p]
           s == [r EXCEPT !.token = x, !.pc = "sent"]
<1>0. /\ UNCHANGED <<auth, catalog, expired, newest, logins, chosen, refused, lost, faults>>
      /\ r.pc = "lock" /\ locks.refresh[p] = Free /\ task' = Takes(t, auth[p], "sent")
  BY DEF LockRefresh, Others
<1>1. CASE task'[t].pc # "sent"
  <2>1. UNCHANGED locks
    BY <1>1 DEF LockRefresh
  <2> QED
    BY <1>0, <1>1, <2>1, TakesQuietly
<1>2. CASE task'[t].pc = "sent"
  <2>1. r \in Request /\ p \in Providers /\ x \in Tokens \cup {NoToken} /\ x.login <= logins /\ ~Holds(r)
    BY <1>0, Before DEF Fits, Holds, Refreshes, InFlight, New, Writes
  <2>2. x # NoToken /\ x \in expired
    BY <1>0, <1>2, Before DEF Takes, WithoutCredential, Expired
  <2>3. task' = [task EXCEPT ![t] = s]
    BY <1>0, <2>2, Before DEF Takes, Expired
  <2>4. /\ s \in Request /\ s.pc = "sent" /\ s.token = x /\ s.provider = p /\ s.op = r.op
    BY <2>1 DEF Request, Pcs
  <2>5. task'[t] = s /\ (\A u \in Tasks \ {t} : task'[u] = task[u]) /\ task' \in [Tasks -> Request]
    BY <2>3, <2>4, Before
  <2>6. locks' = [locks EXCEPT !.refresh[p] = t]
    BY <1>2 DEF LockRefresh
  <2>7. /\ locks'.auth = locks.auth /\ locks'.catalog = locks.catalog
        /\ locks'.refresh = [locks.refresh EXCEPT ![p] = t]
        /\ locks.refresh \in [Providers -> Holders] /\ locks'.refresh \in [Providers -> Holders]
        /\ locks' \in [auth : Holders, catalog : Holders, refresh : [Providers -> Holders]]
    BY <2>6, <2>1 DEF IInv, TypeOK, Holders
  <2>8. /\ Holds(s) /\ Refreshes(s) /\ ~New(s) /\ ~InFlight(s) /\ Ahead(s) = 0
    BY <1>0, <2>1, <2>2, <2>4, Before DEF Fits, Holds, Refreshes, InFlight, New, Writes, Ahead
  <2> HIDE DEF s
  <2>9. \A u \in Tasks : Holds(task[u]) => task[u].token.login # x.login
    <3> SUFFICES ASSUME NEW u \in Tasks, Holds(task[u]), task[u].token.login = x.login PROVE FALSE
      OBVIOUS
    <3>1. p = task[u].provider /\ ~New(task[u])
      BY <2>1 DEF IInv, Whereabouts, AtHome
    <3>2. locks.refresh[p] = u
      BY <3>1 DEF IInv, Locked, Holds
    <3> QED
      BY <3>2, <1>0, AuthAssumption
  <2>10. Whereabouts'
    <3>1. ASSUME NEW q \in Providers, NEW u \in Tasks PROVE Keeper(q, u)'
      <4>1. CASE u = t
        BY <4>1, <2>1, <2>4, <2>5, <2>7, <2>8 DEF IInv, Whereabouts, Keeper, Holds
      <4>2. CASE u # t
        BY <4>2, <2>5, <2>7 DEF IInv, Whereabouts, Keeper
      <4> QED
        BY <4>1, <4>2
    <3>2. Sorted'
      BY <1>0 DEF IInv, Whereabouts, Sorted
    <3>3. ASSUME NEW u \in Tasks, NEW q \in Providers PROVE AtHome(u, q)'
      <4>1. CASE u = t
        BY <4>1, <1>0, <2>1, <2>2, <2>4, <2>5, <2>8, TokenParts DEF IInv, Whereabouts, AtHome, Sorted
      <4>2. CASE u # t
        BY <4>2, <1>0, <2>5 DEF IInv, Whereabouts, AtHome
      <4> QED
        BY <4>1, <4>2
    <3>4. \A u, v \in Tasks : Alone(u, v)'
      BY <2>4, <2>5, <2>9 DEF IInv, Whereabouts, Alone
    <3>5. ASSUME NEW u \in Tasks PROVE Knows(u)'
      <4>1. CASE u = t
        <5>1. x.login \notin lost => x.n = newest[x.login]
          BY <2>1, <2>2, <2>9 DEF IInv, Whereabouts, Stored, Holds, Refreshes
        <5> QED
          BY <4>1, <5>1, <1>0, <2>1, <2>2, <2>4, <2>5, <2>8, TokenParts DEF Knows
      <4>2. CASE u # t
        BY <4>2, <1>0, <2>5 DEF IInv, Whereabouts, Knows
      <4> QED
        BY <4>1, <4>2
    <3>6. \A q \in Providers : Stored(q)'
      BY <1>0, <2>1, <2>5 DEF IInv, Whereabouts, Stored, Holds, Refreshes
    <3> QED
      BY <3>1, <3>2, <3>3, <3>4, <3>5, <3>6 DEF Whereabouts
  <2>11. TypeOK'
    <3>1. \A q \in Providers :
             (locks.refresh[q] = Free \/ task[locks.refresh[q]].pc \in {"sent", "rotated", "write", "writing"})'
      BY <2>7, <2>10 DEF Whereabouts, Keeper, Refreshes, InFlight, Writes, Holders
    <3> QED
      BY <3>1, <1>0, <2>5, <2>7 DEF IInv, TypeOK
  <2>12. Bounded' /\ RefusedOnlyIfLost'
    BY <1>0 DEF IInv, Bounded, RefusedOnlyIfLost
  <2>13. \A u \in Tasks : Fits(task[u])'
    <3>1. ASSUME NEW u \in Tasks, u # t PROVE Fits(task[u])'
      BY <3>1, <1>0, <2>5 DEF IInv, Fits
    <3>2. Fits(task[t])'
      BY <1>0, <2>1, <2>2, <2>4, <2>5, Before DEF Fits, Writes
    <3> QED
      BY <3>1, <3>2
  <2>14. \A u \in Tasks : Locked(u)'
    <3>1. Locked(t)'
      BY <2>1, <2>4, <2>5, <2>7 DEF Locked
    <3>2. ASSUME NEW u \in Tasks, u # t PROVE Locked(u)'
      BY <3>2, <1>0, <2>5, <2>7, AuthAssumption DEF IInv, Locked
    <3> QED
      BY <3>1, <3>2
  <2> QED
    BY <2>10, <2>11, <2>12, <2>13, <2>14 DEF IInv
<1> QED
  BY <1>1, <1>2

\* The provider goes ahead of the request that holds the token.
LEMMA RotateStep ==
  ASSUME IInv, NEW t \in Tasks, Rotate(t)
  PROVE  IInv'
<1> DEFINE r == task[t]
           x == r.token
           s == [r EXCEPT !.pc = "rotated"]
<1>0. /\ UNCHANGED <<auth, catalog, locks, expired, logins, chosen, refused, lost, faults>>
      /\ r.pc = "sent" /\ newest[x.login] = x.n
      /\ newest' = [newest EXCEPT ![x.login] = x.n + 1] /\ task' = [task EXCEPT ![t].pc = "rotated"]
  BY DEF Rotate, Goto
<1>1. /\ r \in Request /\ r.provider \in Providers /\ x \in Tokens /\ x \in expired /\ x.n < MaxTokens
      /\ x.login <= logins
  BY <1>0, Before DEF Fits, IInv, Bounded
<1>2. /\ s \in Request /\ s.pc = "rotated" /\ s.token = x /\ s.provider = r.provider /\ s.op = r.op
      /\ s.then = r.then
  BY <1>1 DEF Request, Pcs
<1>3. task' = [task EXCEPT ![t] = s]
  BY <1>0, Before
<1>4. task'[t] = s /\ (\A u \in Tasks \ {t} : task'[u] = task[u]) /\ task' \in [Tasks -> Request]
  BY <1>2, <1>3, Before
<1>5. /\ Holds(r) /\ Refreshes(r) /\ ~New(r) /\ Holds(s) /\ Refreshes(s) /\ ~New(s) /\ InFlight(s)
      /\ Ahead(s) = 1 /\ ~InFlight(r)
  BY <1>0, <1>2 DEF Holds, Refreshes, InFlight, New, Writes, Ahead
<1>6. /\ newest' \in [1..MaxLogins -> 1..MaxTokens] /\ newest'[x.login] = x.n + 1
      /\ \A l \in 1..MaxLogins : l # x.login => newest'[l] = newest[l]
  <2>1. newest \in [1..MaxLogins -> 1..MaxTokens] /\ x.login \in 1..MaxLogins /\ x.n + 1 \in 1..MaxTokens
    BY <1>1, AuthAssumption DEF IInv, TypeOK, Tokens
  <2> QED
    BY <2>1, <1>0
<1> HIDE DEF s
<1>7. \A u \in Tasks : (Holds(task[u]) /\ u # t) => task[u].token.login # x.login
  BY <1>5 DEF IInv, Whereabouts, Alone
<1>8. \A u \in Tasks : Holds(task[u]) => task[u].token \in Tokens
  BY Before DEF Fits, Holds, Refreshes, InFlight, New, Writes
<1>9. Whereabouts'
  <2>1. \A q \in Providers, u \in Tasks : Keeper(q, u)'
    BY <1>0, <1>2, <1>4, <1>5 DEF IInv, Whereabouts, Keeper
  <2>2. Sorted'
    BY <1>0 DEF IInv, Whereabouts, Sorted
  <2>3. \A u \in Tasks, q \in Providers : AtHome(u, q)'
    BY <1>0, <1>2, <1>4, <1>5 DEF IInv, Whereabouts, AtHome
  <2>4. \A u, v \in Tasks : Alone(u, v)'
    BY <1>2, <1>4, <1>5 DEF IInv, Whereabouts, Alone
  <2>5. ASSUME NEW u \in Tasks PROVE Knows(u)'
    <3>1. CASE u = t
      BY <3>1, <1>2, <1>4, <1>5, <1>6 DEF Knows
    <3>2. CASE u # t
      <4>1. ASSUME Holds(task[u]), task[u].token.login \notin lost
            PROVE  newest'[task[u].token.login] = task[u].token.n + Ahead(task[u])
        <5>1. task[u].token.login \in 1..MaxLogins /\ task[u].token.login # x.login
          BY <4>1, <3>2, <1>7, <1>8, TokenParts
        <5>2. newest[task[u].token.login] = task[u].token.n + Ahead(task[u])
          BY <4>1 DEF IInv, Whereabouts, Knows
        <5> QED
          BY <5>1, <5>2, <1>6
      <4> QED
        BY <4>1, <3>2, <1>0, <1>4 DEF Knows
    <3> QED
      BY <3>1, <3>2
  <2>6. ASSUME NEW q \in Providers PROVE Stored(q)'
    <3>1. CASE auth[q].login = x.login
      BY <3>1, <1>0, <1>2, <1>4, <1>5 DEF Stored
    <3>2. CASE auth[q].login # x.login /\ auth[q] # NoToken
      <4>1. auth[q].login \in 1..MaxLogins
        BY <3>2, Before, TokenParts
      <4>2. newest'[auth[q].login] = newest[auth[q].login]
        BY <4>1, <3>2, <1>6
      <4> QED
        BY <4>2, <1>0, <1>4, <1>5 DEF IInv, Whereabouts, Stored
    <3>3. CASE auth[q] = NoToken
      BY <3>3, <1>0 DEF Stored
    <3> QED
      BY <3>1, <3>2, <3>3
  <2> QED
    BY <2>1, <2>2, <2>3, <2>4, <2>5, <2>6 DEF Whereabouts
<1>10. TypeOK'
  <2>1. \A q \in Providers :
           (locks.refresh[q] = Free \/ task[locks.refresh[q]].pc \in {"sent", "rotated", "write", "writing"})'
    <3>1. locks'.refresh \in [Providers -> Holders]
      BY <1>0 DEF IInv, TypeOK
    <3> QED
      BY <3>1, <1>9 DEF Whereabouts, Keeper, Refreshes, InFlight, Writes, Holders
  <2> QED
    BY <2>1, <1>0, <1>4, <1>6 DEF IInv, TypeOK
<1>11. Bounded' /\ RefusedOnlyIfLost'
  <2>1. ASSUME NEW l \in 1..MaxLogins, l > logins PROVE newest'[l] = 1
    <3>1. x.login \in Nat /\ logins \in Nat /\ l \in Nat
      BY <1>1, TokenParts, Before, AuthAssumption
    <3>2. l # x.login
      BY <2>1, <3>1, <1>1
    <3> QED
      BY <3>2, <2>1, <1>6 DEF IInv, Bounded
  <2> QED
    BY <2>1, <1>0 DEF IInv, Bounded, RefusedOnlyIfLost
<1>12. \A u \in Tasks : Fits(task[u])'
  <2>1. ASSUME NEW u \in Tasks, u # t PROVE Fits(task[u])'
    BY <2>1, <1>0, <1>4 DEF IInv, Fits
  <2>2. Fits(task[t])'
    BY <1>0, <1>1, <1>2, <1>4, Before DEF Fits, Writes
  <2> QED
    BY <2>1, <2>2
<1>13. \A u \in Tasks : Locked(u)'
  BY <1>0, <1>2, <1>4, <1>5 DEF IInv, Locked
<1> QED
  BY <1>9, <1>10, <1>11, <1>12, <1>13 DEF IInv

\* The request catches up with the provider.
LEMMA AnswerStep ==
  ASSUME IInv, NEW t \in Tasks, Answer(t)
  PROVE  IInv'
<1> DEFINE r == task[t]
           y == [r.token EXCEPT !.n = r.token.n + 1]
           s == [r EXCEPT !.pc = "write", !.then = "use", !.token = y]
<1>0. /\ UNCHANGED <<auth, catalog, locks, expired, newest, logins, chosen, refused, lost, faults>>
      /\ r.pc = "rotated"
      /\ task' = [task EXCEPT ![t].pc = "write", ![t].then = "use", ![t].token.n = @ + 1]
  BY DEF Answer, Others
<1>1. /\ r \in Request /\ r.provider \in Providers /\ r.token \in Tokens /\ r.token.n < MaxTokens
      /\ r.token.login <= logins /\ r.op # "remove"
  BY <1>0, Before DEF Fits, IInv, Bounded
<1>2. y \in Tokens /\ y.login = r.token.login /\ y.n = r.token.n + 1
  BY <1>1, AuthAssumption DEF Tokens
<1>3. /\ s \in Request /\ s.pc = "write" /\ s.token = y /\ s.provider = r.provider /\ s.op = r.op
      /\ s.then = "use"
  BY <1>1, <1>2 DEF Request, Pcs
<1>4. task' = [task EXCEPT ![t] = s]
  BY <1>0, Before
<1>5. task'[t] = s /\ (\A u \in Tasks \ {t} : task'[u] = task[u]) /\ task' \in [Tasks -> Request]
  BY <1>3, <1>4, Before
<1>6. /\ Holds(r) /\ Refreshes(r) /\ ~New(r) /\ InFlight(r) /\ Ahead(r) = 1
      /\ Holds(s) /\ Refreshes(s) /\ ~New(s) /\ InFlight(s) /\ Ahead(s) = 0
  BY <1>0, <1>3 DEF Holds, Refreshes, InFlight, New, Writes, Ahead
<1> HIDE DEF s, y
<1>7. Whereabouts'
  <2>1. \A q \in Providers, u \in Tasks : Keeper(q, u)'
    BY <1>0, <1>3, <1>5, <1>6 DEF IInv, Whereabouts, Keeper
  <2>2. Sorted'
    BY <1>0 DEF IInv, Whereabouts, Sorted
  <2>3. \A u \in Tasks, q \in Providers : AtHome(u, q)'
    BY <1>0, <1>2, <1>3, <1>5, <1>6 DEF IInv, Whereabouts, AtHome
  <2>4. \A u, v \in Tasks : Alone(u, v)'
    BY <1>2, <1>3, <1>5, <1>6 DEF IInv, Whereabouts, Alone
  <2>5. ASSUME NEW u \in Tasks PROVE Knows(u)'
    <3>1. CASE u = t
      <4>1. r.token.login \notin lost => newest[r.token.login] = r.token.n + 1
        BY <1>6 DEF IInv, Whereabouts, Knows
      <4>2. r.token.n + 1 \in Nat
        BY <1>1, TokenParts
      <4> QED
        BY <3>1, <4>1, <4>2, <1>0, <1>2, <1>3, <1>5, <1>6 DEF Knows
    <3>2. CASE u # t
      BY <3>2, <1>0, <1>5 DEF IInv, Whereabouts, Knows
    <3> QED
      BY <3>1, <3>2
  <2>6. \A q \in Providers : Stored(q)'
    BY <1>0, <1>2, <1>3, <1>5, <1>6 DEF IInv, Whereabouts, Stored
  <2> QED
    BY <2>1, <2>2, <2>3, <2>4, <2>5, <2>6 DEF Whereabouts
<1>8. TypeOK'
  <2>1. \A q \in Providers :
           (locks.refresh[q] = Free \/ task[locks.refresh[q]].pc \in {"sent", "rotated", "write", "writing"})'
    <3>1. locks'.refresh \in [Providers -> Holders]
      BY <1>0 DEF IInv, TypeOK
    <3> QED
      BY <3>1, <1>7 DEF Whereabouts, Keeper, Refreshes, InFlight, Writes, Holders
  <2> QED
    BY <2>1, <1>0, <1>5 DEF IInv, TypeOK
<1>9. Bounded' /\ RefusedOnlyIfLost'
  BY <1>0 DEF IInv, Bounded, RefusedOnlyIfLost
<1>10. \A u \in Tasks : Fits(task[u])'
  <2>1. ASSUME NEW u \in Tasks, u # t PROVE Fits(task[u])'
    BY <2>1, <1>0, <1>5 DEF IInv, Fits
  <2>2. Fits(task[t])'
    BY <1>0, <1>1, <1>2, <1>3, <1>5 DEF Fits, Writes
  <2> QED
    BY <2>1, <2>2
<1>11. \A u \in Tasks : Locked(u)'
  BY <1>0, <1>3, <1>5, <1>6 DEF IInv, Locked
<1> QED
  BY <1>7, <1>8, <1>9, <1>10, <1>11 DEF IInv

\* A request gives up: its lock is released, and what it alone knew is lost.
LEMMA GivesUp ==
  ASSUME IInv, NEW t \in Tasks, NEW c \in {"done", "next"}, task[t].op # "remove", Goto(t, c),
         locks' = ReleaseRefresh(t), UNCHANGED <<auth, catalog, expired, newest, logins, chosen>>,
         task[t].pc \in {"lock", "sent", "rotated", "use"},
         lost' = lost \cup Losing(t), refused' \subseteq lost', faults' \in 0..MaxFaults
  PROVE  IInv'
<1> DEFINE r == task[t]
           s == [r EXCEPT !.pc = c]
<1>1. /\ r \in Request /\ s \in Request /\ s.pc = c /\ s.token = r.token /\ s.op = r.op
      /\ r.provider \in Providers
  BY ZenonT(60), Before DEF Request, Pcs, Fits
<1>2. task' = [task EXCEPT ![t] = s]
  BY Before DEF Goto
<1>3. task'[t] = s /\ (\A u \in Tasks \ {t} : task'[u] = task[u]) /\ task' \in [Tasks -> Request]
  BY <1>1, <1>2, Before
<1>4. ~Holds(s) /\ ~Refreshes(s) /\ ~InFlight(s) /\ ~New(s)
  BY <1>1 DEF Holds, Refreshes, InFlight, New, Writes
<1>5. InFlight(r) => r.token.login \in lost'
  BY DEF InFlight, Writes, Losing
<1>6. lost \subseteq lost' /\ lost' \subseteq 1..MaxLogins
  <2>1. r.pc = "rotated" => r.token.login \in 1..MaxLogins
    BY Before, TokenParts DEF Fits
  <2> QED
    BY <2>1 DEF IInv, TypeOK, Losing
<1>7. /\ locks'.auth = locks.auth /\ locks'.catalog = locks.catalog
      /\ locks'.refresh = [p \in Providers |-> IF locks.refresh[p] = t THEN Free ELSE locks.refresh[p]]
      /\ locks.refresh \in [Providers -> Holders] /\ locks'.refresh \in [Providers -> Holders]
      /\ locks' \in [auth : Holders, catalog : Holders, refresh : [Providers -> Holders]]
  BY DEF IInv, TypeOK, Holders, ReleaseRefresh
<1> HIDE DEF s
<1>8. Whereabouts'
  <2>1. ASSUME NEW q \in Providers, NEW u \in Tasks PROVE Keeper(q, u)'
    BY <1>3, <1>7, AuthAssumption DEF IInv, Whereabouts, Keeper
  <2>2. Sorted'
    BY DEF IInv, Whereabouts, Sorted
  <2>3. \A u \in Tasks, q \in Providers : AtHome(u, q)'
    BY <1>3, <1>4 DEF IInv, Whereabouts, AtHome
  <2>4. \A u, v \in Tasks : Alone(u, v)'
    BY <1>3, <1>4 DEF IInv, Whereabouts, Alone
  <2>5. \A u \in Tasks : Knows(u)'
    BY <1>3, <1>4, <1>6 DEF IInv, Whereabouts, Knows
  <2>6. \A q \in Providers : Stored(q)'
    BY <1>3, <1>4, <1>5, <1>6 DEF IInv, Whereabouts, Stored
  <2> QED
    BY <2>1, <2>2, <2>3, <2>4, <2>5, <2>6 DEF Whereabouts
<1>9. TypeOK'
  <2>1. \A q \in Providers :
           (locks.refresh[q] = Free \/ task[locks.refresh[q]].pc \in {"sent", "rotated", "write", "writing"})'
    BY <1>7, <1>8 DEF Whereabouts, Keeper, Refreshes, InFlight, Writes, Holders
  <2> QED
    BY <2>1, <1>3, <1>6, <1>7 DEF IInv, TypeOK
<1>10. Bounded' /\ RefusedOnlyIfLost'
  BY DEF IInv, Bounded, RefusedOnlyIfLost
<1>11. \A u \in Tasks : Fits(task[u])'
  <2>1. ASSUME NEW u \in Tasks, u # t PROVE Fits(task[u])'
    BY <2>1, <1>3 DEF IInv, Fits
  <2>2. Fits(task[t])'
    BY <1>1, <1>3, Before DEF Fits, Writes
  <2> QED
    BY <2>1, <2>2
<1>12. \A u \in Tasks : Locked(u)'
  <2>1. Locked(t)'
    BY <1>1, <1>3, <1>4 DEF Locked
  <2>2. ASSUME NEW u \in Tasks, u # t PROVE Locked(u)'
    <3>1. task'[u] = task[u]
      BY <2>2, <1>3
    <3>2. Locked(u) /\ (Refreshes(task[u]) => task[u].provider \in Providers)
      BY Before DEF Fits, Refreshes, InFlight, Writes
    <3> QED
      BY <2>2, <3>1, <3>2, <1>7 DEF Locked
  <2> QED
    BY <2>1, <2>2
<1> QED
  BY <1>8, <1>9, <1>10, <1>11, <1>12 DEF IInv

\* A refresh token is refused only if it is not the newest of its login.
LEMMA RefuseStep ==
  ASSUME IInv, NEW t \in Tasks, Refuse(t)
  PROVE  IInv'
<1>1. task[t].pc = "sent" /\ newest[task[t].token.login] # task[t].token.n /\ task[t].token \in Tokens
  BY Before DEF Refuse, Fits
<1>2. task[t].op # "remove" /\ Losing(t) = {}
  BY <1>1, Before DEF Fits, Losing
<1>3. task[t].token.login \in lost
  <2>1. Holds(task[t]) /\ Ahead(task[t]) = 0
    BY <1>1 DEF Holds, Refreshes, Ahead
  <2> QED
    BY <2>1, <1>1, TokenParts DEF IInv, Whereabouts, Knows
<1>4. WithoutCredential(t) \in {"done", "next"}
  BY DEF WithoutCredential
<1>5. refused' \subseteq lost' /\ lost' = lost \cup Losing(t) /\ faults' \in 0..MaxFaults
  BY <1>2, <1>3 DEF Refuse, IInv, RefusedOnlyIfLost, TypeOK
<1>6. /\ Goto(t, WithoutCredential(t)) /\ locks' = ReleaseRefresh(t)
      /\ UNCHANGED <<auth, catalog, expired, newest, logins, chosen>>
  BY DEF Refuse
<1> QED
  BY <1>1, <1>2, <1>4, <1>5, <1>6, GivesUp

\* An answer that is lost ends the refresh.
LEMMA AnswerLostStep ==
  ASSUME IInv, NEW t \in Tasks, AnswerLost(t)
  PROVE  IInv'
<1>1. task[t].pc \in {"sent", "rotated"} /\ task[t].op # "remove"
  BY Before DEF AnswerLost, Fits
<1>2. WithoutCredential(t) \in {"done", "next"}
  BY DEF WithoutCredential
<1>3. refused' \subseteq lost' /\ lost' = lost \cup Losing(t) /\ faults' \in 0..MaxFaults
  BY AuthAssumption DEF AnswerLost, IInv, RefusedOnlyIfLost, TypeOK
<1>4. /\ Goto(t, WithoutCredential(t)) /\ locks' = ReleaseRefresh(t)
      /\ UNCHANGED <<auth, catalog, expired, newest, logins, chosen>>
  BY DEF AnswerLost
<1> QED
  BY <1>1, <1>2, <1>3, <1>4, GivesUp

\* So does a client that goes away.
LEMMA DropStep ==
  ASSUME IInv, NEW t \in Tasks, Drop(t)
  PROVE  IInv'
<1>1. task[t].pc \in {"lock", "sent", "rotated", "use"} /\ task[t].op # "remove"
  BY DEF Drop
<1>2. refused' \subseteq lost' /\ lost' = lost \cup Losing(t) /\ faults' \in 0..MaxFaults
  BY AuthAssumption DEF Drop, IInv, RefusedOnlyIfLost, TypeOK
<1>3. /\ Goto(t, "done") /\ locks' = ReleaseRefresh(t)
      /\ UNCHANGED <<auth, catalog, expired, newest, logins, chosen>>
  BY DEF Drop
<1> QED
  BY <1>1, <1>2, <1>3, GivesUp

\* auth.json is replaced by what was read, but for the provider's own entry.
LEMMA WriteAuthStep ==
  ASSUME IInv, NEW t \in Tasks, WriteAuth(t)
  PROVE  IInv'
<1> DEFINE r == task[t]
           p == r.provider
           x == r.token
           s == [r EXCEPT !.pc = r.then, !.auth = Idle.auth]
<1>0. /\ UNCHANGED <<catalog, expired, newest, logins, refused, lost, faults>>
      /\ r.pc = "writing" /\ auth' = [r.auth EXCEPT ![p] = x]
      /\ locks' = [ReleaseRefresh(t) EXCEPT !.auth = Free]
      /\ task' = [task EXCEPT ![t].pc = task[t].then, ![t].auth = Idle.auth]
      /\ chosen' = IF r.then = "use" THEN chosen ELSE [chosen EXCEPT ![p] = x.login]
  BY DEF WriteAuth
<1>1. /\ r \in Request /\ p \in Providers /\ Writes(r) /\ x \in Tokens \cup {NoToken}
      /\ \/ r.then \in {"use", "next"} /\ x \in Tokens
         \/ r.then = "catalog" /\ x = NoToken
      /\ x.login <= logins /\ (r.op = "remove" => r.then = "catalog")
  BY <1>0, Before, RequestParts DEF Fits, Writes
<1>2. locks.auth = t /\ auth' = [auth EXCEPT ![p] = x]
  BY <1>0, Before DEF Locked
<1>3. auth' \in AuthFile /\ auth'[p] = x /\ \A q \in Providers \ {p} : auth'[q] = auth[q]
  BY <1>1, <1>2, Before DEF AuthFile
<1>4. /\ s \in Request /\ s.pc = r.then /\ s.token = x /\ s.provider = p /\ s.op = r.op
      /\ s.then = r.then
  BY <1>1, IdleParts DEF Request, Pcs
<1>5. task' = [task EXCEPT ![t] = s]
  BY <1>0, Before
<1>6. task'[t] = s /\ (\A u \in Tasks \ {t} : task'[u] = task[u]) /\ task' \in [Tasks -> Request]
  BY <1>4, <1>5, Before
<1>7. /\ ~Holds(s) /\ ~Refreshes(s) /\ ~InFlight(s) /\ ~New(s)
      /\ (r.then \in {"use", "next"} => Holds(r)) /\ Ahead(r) = 0
  BY <1>0, <1>1, <1>4 DEF Holds, Refreshes, InFlight, New, Writes, Ahead
<1>8. /\ locks'.auth = Free /\ locks'.catalog = locks.catalog
      /\ locks'.refresh = [q \in Providers |-> IF locks.refresh[q] = t THEN Free ELSE locks.refresh[q]]
      /\ locks.refresh \in [Providers -> Holders] /\ locks'.refresh \in [Providers -> Holders]
      /\ locks' \in [auth : Holders, catalog : Holders, refresh : [Providers -> Holders]]
  BY <1>0 DEF IInv, TypeOK, Holders, ReleaseRefresh
<1> HIDE DEF s
<1>9. \A q \in Providers \ {p} : x # NoToken => auth[q].login # x.login
  BY <1>1, <1>7 DEF IInv, Whereabouts, AtHome
<1>10. \A u \in Tasks \ {t} : (Holds(task[u]) /\ x # NoToken) => task[u].token.login # x.login
  BY <1>1, <1>7 DEF IInv, Whereabouts, Alone
<1>11. \A u \in Tasks : Holds(task[u]) => task[u].token.login # 0
  BY Before, TokenParts DEF Fits, Holds, Refreshes, InFlight, New, Writes
<1>12. Whereabouts'
  <2>1. ASSUME NEW q \in Providers, NEW u \in Tasks PROVE Keeper(q, u)'
    BY <1>6, <1>8, AuthAssumption DEF IInv, Whereabouts, Keeper
  <2>2. Sorted'
    BY <1>1, <1>3, <1>9, TokenParts DEF IInv, Whereabouts, Sorted
  <2>3. ASSUME NEW u \in Tasks, NEW q \in Providers PROVE AtHome(u, q)'
    <3>1. CASE u = t
      BY <3>1, <1>6, <1>7 DEF AtHome
    <3>2. CASE u # t /\ q # p
      BY <3>2, <1>3, <1>6 DEF IInv, Whereabouts, AtHome
    <3>3. CASE u # t /\ q = p
      BY <3>3, <1>3, <1>6, <1>10, <1>11, TokenParts DEF AtHome
    <3> QED
      BY <3>1, <3>2, <3>3
  <2>4. \A u, v \in Tasks : Alone(u, v)'
    BY <1>6, <1>7 DEF IInv, Whereabouts, Alone
  <2>5. \A u \in Tasks : Knows(u)'
    BY <1>0, <1>6, <1>7 DEF IInv, Whereabouts, Knows
  <2>6. ASSUME NEW q \in Providers PROVE Stored(q)'
    <3>1. CASE q = p
      <4>1. (x # NoToken /\ x.login \notin lost) => newest[x.login] = x.n
        BY <1>1, <1>7, TokenParts DEF IInv, Whereabouts, Knows
      <4> QED
        BY <3>1, <4>1, <1>0, <1>3 DEF Stored
    <3>2. CASE q # p
      <4>1. ASSUME auth[q] # NoToken, NEW u \in Tasks, InFlight(task[u]), task[u].token.login = auth[q].login
            PROVE  InFlight(task'[u]) /\ task'[u].token.login = auth[q].login
        <5>1. u # t
          BY <4>1, <3>2, <1>9, <1>11 DEF Holds, Refreshes, NoToken
        <5> QED
          BY <4>1, <5>1, <1>6
      <4>2. ASSUME auth[q] # NoToken, auth[q].login \notin lost
            PROVE  \/ auth[q].n = newest[auth[q].login]
                   \/ \E u \in Tasks : InFlight(task'[u]) /\ task'[u].token.login = auth[q].login
        <5>1. CASE auth[q].n = newest[auth[q].login]
          BY <5>1
        <5>2. CASE \E u \in Tasks : InFlight(task[u]) /\ task[u].token.login = auth[q].login
          BY <5>2, <4>1, <4>2
        <5> QED
          BY <5>1, <5>2, <4>2 DEF IInv, Whereabouts, Stored
      <4>3. auth'[q] = auth[q] /\ newest' = newest /\ lost' = lost
        BY <3>2, <1>0, <1>3
      <4> QED
        BY <4>2, <4>3 DEF Stored
    <3> QED
      BY <3>1, <3>2
  <2> QED
    BY <2>1, <2>2, <2>3, <2>4, <2>5, <2>6 DEF Whereabouts
<1>13. TypeOK'
  <2>1. \A q \in Providers :
           (locks.refresh[q] = Free \/ task[locks.refresh[q]].pc \in {"sent", "rotated", "write", "writing"})'
    BY <1>8, <1>12 DEF Whereabouts, Keeper, Refreshes, InFlight, Writes, Holders
  <2>2. chosen' \in CatalogFile
    <3>1. x.login \in 0..MaxLogins
      BY <1>1, TokenParts, AuthAssumption
    <3> QED
      BY <3>1, <1>0, <1>1 DEF IInv, TypeOK, CatalogFile
  <2> QED
    BY <2>1, <2>2, <1>0, <1>3, <1>6, <1>8 DEF IInv, TypeOK
<1>14. Bounded' /\ RefusedOnlyIfLost'
  BY <1>0, <1>1, <1>3 DEF IInv, Bounded, RefusedOnlyIfLost
<1>15. \A u \in Tasks : Fits(task[u])'
  <2>1. ASSUME NEW u \in Tasks, u # t PROVE Fits(task[u])'
    BY <2>1, <1>0, <1>6 DEF IInv, Fits
  <2>2. Fits(task[t])'
    BY <1>0, <1>1, <1>4, <1>6 DEF Fits, Writes
  <2> QED
    BY <2>1, <2>2
<1>16. \A u \in Tasks : Locked(u)'
  <2>1. Locked(t)'
    BY <1>1, <1>4, <1>6, <1>7 DEF Locked
  <2>2. ASSUME NEW u \in Tasks, u # t PROVE Locked(u)'
    <3>1. task'[u] = task[u]
      BY <2>2, <1>6
    <3>2. Locked(u) /\ (Refreshes(task[u]) => task[u].provider \in Providers)
      BY Before DEF Fits, Refreshes, InFlight, Writes
    <3>3. task[u].pc # "writing"
      BY <2>2, <3>2, <1>2 DEF Locked
    <3> QED
      BY <2>2, <3>1, <3>2, <3>3, <1>0, <1>8 DEF Locked
  <2> QED
    BY <2>1, <2>2
<1> QED
  BY <1>12, <1>13, <1>14, <1>15, <1>16 DEF IInv

--------------------
(* The clock, the process, and the theorems.                               *)

\* Only a stored token that is not the last one allowed expires.
LEMMA ExpireStep ==
  ASSUME IInv, NEW p \in Providers, Expire(p)
  PROVE  IInv'
<1>1. /\ UNCHANGED <<auth, catalog, task, locks, newest, logins, chosen, refused, lost, faults>>
      /\ expired' = expired \cup {auth[p]} /\ auth[p] \in Tokens /\ auth[p].n < MaxTokens
  BY DEF Expire, IInv, TypeOK, AuthFile
<1>2. TypeOK' /\ Bounded' /\ RefusedOnlyIfLost'
  BY <1>1 DEF IInv, TypeOK, Bounded, RefusedOnlyIfLost
<1>3. \A t \in Tasks : Fits(task[t])'
  BY <1>1 DEF IInv, Fits
<1>4. \A t \in Tasks : Locked(t)'
  BY <1>1 DEF IInv, Locked
<1>5. Whereabouts'
  BY <1>1 DEF IInv, Whereabouts, Keeper, Sorted, AtHome, Alone, Knows, Stored
<1> QED
  BY <1>2, <1>3, <1>4, <1>5 DEF IInv

\* The process takes what its requests alone knew with it.
LEMMA RestartStep ==
  ASSUME IInv, Restart
  PROVE  IInv'
<1>1. /\ UNCHANGED <<auth, catalog, expired, newest, logins, chosen, refused>>
      /\ lost' = lost \cup UNION {Losing(t) : t \in Tasks} /\ locks' = Unlocked
      /\ faults' = faults + 1 /\ faults < MaxFaults
      /\ task' = [t \in Tasks |-> IF task[t].pc = "idle" THEN task[t] ELSE [task[t] EXCEPT !.pc = "done"]]
  BY DEF Restart
<1>2. ASSUME NEW t \in Tasks
      PROVE  /\ task'[t] \in Request /\ task'[t].pc \in {"idle", "done"}
             /\ task'[t].token = task[t].token /\ task'[t].op = task[t].op
             /\ task'[t].then = task[t].then /\ ~Holds(task'[t])
             /\ InFlight(task[t]) => task[t].token.login \in lost'
  <2>1. task[t] \in Request
    BY Before
  <2>2. /\ task'[t] \in Request /\ task'[t].pc \in {"idle", "done"}
        /\ task'[t].token = task[t].token /\ task'[t].op = task[t].op
        /\ task'[t].then = task[t].then
    <3>1. CASE task[t].pc = "idle"
      BY <3>1, <2>1, <1>1
    <3>2. CASE task[t].pc # "idle"
      BY <3>2, <2>1, <1>1 DEF Request, Pcs
    <3> QED
      BY <3>1, <3>2
  <2>3. ~Holds(task'[t])
    BY <2>2 DEF Holds, Refreshes, InFlight, New, Writes
  <2>4. InFlight(task[t]) => task[t].token.login \in Losing(t)
    BY DEF InFlight, Writes, Losing
  <2> QED
    BY <2>2, <2>3, <2>4, <1>1
<1>3. lost \subseteq lost' /\ lost' \subseteq 1..MaxLogins
  <2>1. ASSUME NEW t \in Tasks PROVE Losing(t) \subseteq 1..MaxLogins
    <3>1. InFlight(task[t]) => task[t].token \in Tokens
      BY Before DEF InFlight, Writes, Fits
    <3> QED
      BY <3>1, TokenParts DEF Losing, InFlight, Writes
  <2> QED
    BY <2>1, <1>1 DEF IInv, TypeOK
<1>4. /\ locks'.refresh = [p \in Providers |-> Free]
      /\ locks' \in [auth : Holders, catalog : Holders, refresh : [Providers -> Holders]]
  BY <1>1 DEF Unlocked, Holders
<1>5. TypeOK' /\ Bounded' /\ RefusedOnlyIfLost'
  <2>1. task' \in [Tasks -> Request]
    BY <1>1, <1>2
  <2>2. faults' \in 0..MaxFaults
    BY <1>1, AuthAssumption DEF IInv, TypeOK
  <2> QED
    BY <2>1, <2>2, <1>1, <1>3, <1>4 DEF IInv, TypeOK, Bounded, RefusedOnlyIfLost
<1>6. \A t \in Tasks : Fits(task[t])'
  BY <1>1, <1>2, Before DEF Fits, Writes
<1>7. \A t \in Tasks : Locked(t)'
  BY <1>2 DEF Locked, Holds
<1>8. Whereabouts'
  <2>1. \A p \in Providers, t \in Tasks : Keeper(p, t)'
    BY <1>4, AuthAssumption DEF Keeper
  <2>2. Sorted'
    BY <1>1 DEF IInv, Whereabouts, Sorted
  <2>3. \A t \in Tasks, p \in Providers : AtHome(t, p)'
    BY <1>2 DEF AtHome
  <2>4. \A t, u \in Tasks : Alone(t, u)'
    BY <1>2 DEF Alone
  <2>5. \A t \in Tasks : Knows(t)'
    BY <1>2 DEF Knows
  <2>6. \A p \in Providers : Stored(p)'
    BY <1>1, <1>2, <1>3 DEF IInv, Whereabouts, Stored
  <2> QED
    BY <2>1, <2>2, <2>3, <2>4, <2>5, <2>6 DEF Whereabouts
<1> QED
  BY <1>5, <1>6, <1>7, <1>8 DEF IInv

\* At first one provider has the first login's first token.
LEMMA InitIInv == Init => IInv
<1> SUFFICES ASSUME Init PROVE IInv
  OBVIOUS
<1>1. /\ task = [t \in Tasks |-> Idle] /\ locks = Unlocked /\ expired = {}
      /\ newest = [l \in 1..MaxLogins |-> 1] /\ logins = 1 /\ refused = {} /\ lost = {} /\ faults = 0
      /\ catalog = [p \in Providers |-> 0] /\ chosen = [p \in Providers |-> auth[p].login]
      /\ auth \in [Providers -> {NoToken, [login |-> 1, n |-> 1]}]
  BY DEF Init
<1>2. PICK q : {p \in Providers : auth[p] # NoToken} = {q}
  <2>1. IsFiniteSet({p \in Providers : auth[p] # NoToken})
    BY AuthAssumption, FS_Subset
  <2>2. Cardinality({p \in Providers : auth[p] # NoToken}) = 1
    BY DEF Init
  <2> QED
    BY <2>1, <2>2, FS_Singleton
<1>3. \A t \in Tasks : task[t] = Idle /\ ~Holds(task[t]) /\ ~Refreshes(task[t])
  BY <1>1, IdleParts DEF Holds
<1>4. [login |-> 1, n |-> 1] \in Tokens
  BY AuthAssumption DEF Tokens
<1>5. \A p \in Providers : /\ auth[p] \in Tokens \cup {NoToken} /\ auth[p].login \in {0, 1}
                           /\ auth[p] # NoToken => auth[p].login = 1 /\ auth[p].n = 1
                           /\ auth[p].login # 0 => p = q
  BY <1>1, <1>2, <1>4, TokenParts
<1>6. TypeOK
  <2>1. task \in [Tasks -> Request]
    BY <1>1, IdleType
  <2>2. auth \in AuthFile /\ catalog \in CatalogFile /\ chosen \in CatalogFile
    BY <1>1, <1>5, AuthAssumption DEF AuthFile, CatalogFile
  <2>3. /\ locks \in [auth : Holders, catalog : Holders, refresh : [Providers -> Holders]]
        /\ \A p \in Providers : locks.refresh[p] = Free
    BY <1>1 DEF Unlocked, Holders
  <2>4. newest \in [1..MaxLogins -> 1..MaxTokens] /\ logins \in 1..MaxLogins /\ faults \in 0..MaxFaults
    BY <1>1, AuthAssumption
  <2> QED
    BY <2>1, <2>2, <2>3, <2>4, <1>1 DEF TypeOK
<1>7. Bounded /\ RefusedOnlyIfLost
  BY <1>1, <1>5 DEF Bounded, RefusedOnlyIfLost
<1>8. \A t \in Tasks : Fits(task[t])
  <2>1. Idle.op = "none" /\ Idle.pc = "idle" /\ Idle.token.login = 0
    BY IdleParts, TokenParts
  <2>2. Fits(Idle)
    BY <2>1, <1>1 DEF Fits, Writes
  <2> QED
    BY <2>2, <1>3
<1>9. \A t \in Tasks : Locked(t)
  BY <1>3, IdleParts DEF Locked
<1>10. Whereabouts
  <2>1. \A p \in Providers, t \in Tasks : Keeper(p, t)
    BY <1>1, AuthAssumption DEF Keeper, Unlocked
  <2>2. Sorted
    BY <1>5 DEF Sorted
  <2>3. \A p \in Providers : Stored(p)
    BY <1>1, <1>4, <1>5, AuthAssumption DEF Stored
  <2> QED
    BY <2>1, <2>2, <2>3, <1>3 DEF Whereabouts, AtHome, Alone, Knows
<1> QED
  BY <1>6, <1>7, <1>8, <1>9, <1>10 DEF IInv

\* Every step keeps the invariant.
LEMMA NextIInv == IInv /\ [Next]_vars => IInv'
<1> SUFFICES ASSUME IInv, [Next]_vars PROVE IInv'
  OBVIOUS
<1>1. ASSUME UNCHANGED vars PROVE IInv'
  <2>1. TypeOK' /\ Bounded' /\ RefusedOnlyIfLost'
    BY <1>1 DEF vars, IInv, TypeOK, Bounded, RefusedOnlyIfLost
  <2>2. (\A t \in Tasks : Fits(task[t]))' /\ (\A t \in Tasks : Locked(t))'
    BY <1>1 DEF vars, IInv, Fits, Locked
  <2>3. Whereabouts'
    BY <1>1 DEF vars, IInv, Whereabouts, Keeper, Sorted, AtHome, Alone, Knows, Stored
  <2> QED
    BY <2>1, <2>2, <2>3 DEF IInv
<1>2. ASSUME NEW t \in Tasks, Begin(t) PROVE IInv'
  BY <1>2, RefreshModelsStep, CallStep, SetAuthStep, RemoveAuthStep DEF Begin
<1>3. ASSUME NEW t \in Tasks, Step(t) PROVE IInv'
  BY <1>3, ReadCredentialStep, LockRefreshStep, RotateStep, RefuseStep, AnswerStep, ReadAuthStep,
     NothingToRemoveStep, WriteAuthStep, NextProviderStep, UseStep, ReadCatalogStep,
     WriteCatalogStep DEF Step
<1>4. ASSUME NEW t \in Tasks, AnswerLost(t) \/ Drop(t) PROVE IInv'
  BY <1>4, AnswerLostStep, DropStep
<1>5. ASSUME NEW p \in Providers, Expire(p) PROVE IInv'
  BY <1>5, ExpireStep
<1> QED
  BY <1>1, <1>2, <1>3, <1>4, <1>5, RestartStep DEF Next

\* The inductive invariant holds in every state.
THEOREM InvariantHolds == Spec => []IInv
<1>1. Init => IInv
  BY InitIInv
<1>2. IInv /\ [Next]_vars => IInv'
  BY NextIInv
<1> QED
  BY <1>1, <1>2, PTL DEF Spec

\* Every variable keeps its type, and a refresh lock is held by a request that is about
\* to refresh.
THEOREM TypeCorrect == Spec => []TypeOK
<1>1. IInv => TypeOK
  BY DEF IInv
<1> QED
  BY <1>1, InvariantHolds, PTL

\* A provider never sees a refresh token twice unless the answer to the first time was
\* lost, however many requests find the same expired token.
THEOREM RefreshesOnce == Spec => []RefusedOnlyIfLost
<1>1. IInv => RefusedOnlyIfLost
  BY DEF IInv
<1> QED
  BY <1>1, InvariantHolds, PTL

\* Both, as the runs check them together.
THEOREM CredentialsStayExact == Spec => []CredentialsAreExact
<1>1. IInv => CredentialsAreExact
  BY DEF IInv, CredentialsAreExact
<1> QED
  BY <1>1, InvariantHolds, PTL

\* What one step does to the entries of auth.json.
AuthEdit ==
    \A p \in Providers : auth'[p] # auth[p] =>
        \E t \in Tasks : task[t].pc = "writing" /\ task[t].provider = p /\ auth'[p] = task[t].token

\* What one step does to the entries of models.json.
CatalogEdit ==
    \A p \in Providers : catalog'[p] # catalog[p] =>
        \E t \in Tasks : /\ task[t].pc = "updating"
                         /\ \/ \E f \in task[t].found : f.provider = p /\ f.login = catalog'[p]
                            \/ task[t].op = "remove" /\ task[t].provider = p

\* The files change in two actions only.
LEMMA WhoWrites ==
  ASSUME [Next]_vars
  PROVE  /\ UNCHANGED auth \/ \E t \in Tasks : WriteAuth(t)
         /\ UNCHANGED catalog \/ \E t \in Tasks : WriteCatalog(t)
<1>1. ASSUME NEW t \in Tasks, Begin(t) PROVE UNCHANGED <<auth, catalog>>
  BY <1>1 DEF Begin, RefreshModels, Call, SetAuth, RemoveAuth
<1>2. ASSUME NEW t \in Tasks, Step(t), ~WriteAuth(t), ~WriteCatalog(t) PROVE UNCHANGED <<auth, catalog>>
  BY <1>2 DEF Step, ReadCredential, LockRefresh, Rotate, Refuse, Answer, ReadAuth, NothingToRemove,
     NextProvider, Use, ReadCatalog
<1>3. ASSUME NEW t \in Tasks, WriteAuth(t) PROVE UNCHANGED catalog
  BY <1>3 DEF WriteAuth
<1>4. ASSUME NEW t \in Tasks, WriteCatalog(t) PROVE UNCHANGED auth
  BY <1>4 DEF WriteCatalog
<1>5. ASSUME NEW t \in Tasks, AnswerLost(t) \/ Drop(t) PROVE UNCHANGED <<auth, catalog>>
  BY <1>5 DEF AnswerLost, Drop
<1>6. ASSUME NEW p \in Providers, Expire(p) PROVE UNCHANGED <<auth, catalog>>
  BY <1>6 DEF Expire
<1>7. Restart => UNCHANGED <<auth, catalog>>
  BY DEF Restart
<1>8. UNCHANGED vars => UNCHANGED <<auth, catalog>>
  BY DEF vars
<1> QED
  BY <1>1, <1>2, <1>3, <1>4, <1>5, <1>6, <1>7, <1>8 DEF Next

\* What is written to auth.json is what it held, but for one entry.
LEMMA AuthEditStep ==
  ASSUME IInv, [Next]_vars
  PROVE  AuthEdit
<1>1. ASSUME NEW t \in Tasks, WriteAuth(t) PROVE AuthEdit
  <2>1. /\ task[t].pc = "writing" /\ task[t].provider \in Providers /\ task[t].auth = auth
        /\ auth' = [auth EXCEPT ![task[t].provider] = task[t].token] /\ auth \in AuthFile
    BY <1>1, Before DEF WriteAuth, Locked, Fits
  <2> QED
    BY <2>1 DEF AuthEdit, AuthFile
<1> QED
  BY <1>1, WhoWrites DEF AuthEdit

\* What is written to models.json is what it held, but for the entries the request is about.
LEMMA CatalogEditStep ==
  ASSUME IInv, [Next]_vars
  PROVE  CatalogEdit
<1>1. ASSUME NEW t \in Tasks, WriteCatalog(t) PROVE CatalogEdit
  <2>1. task[t].pc = "updating" /\ task[t].catalog = catalog /\ catalog' = Updated(t)
    BY <1>1, Before DEF WriteCatalog, Locked
  <2>2. ASSUME NEW p \in Providers, catalog'[p] # catalog[p]
        PROVE  \/ \E f \in task[t].found : f.provider = p /\ f.login = catalog'[p]
               \/ task[t].op = "remove" /\ task[t].provider = p
    <3>1. CASE \E f \in task[t].found : f.provider = p
      <4>1. PICK g \in task[t].found : g.provider = p /\ g = CHOOSE f \in task[t].found : f.provider = p
        BY <3>1
      <4> QED
        BY <4>1, <3>1, <2>1 DEF Updated
    <3>2. CASE ~\E f \in task[t].found : f.provider = p
      BY <3>2, <2>1, <2>2 DEF Updated
    <3> QED
      BY <3>1, <3>2
  <2> QED
    BY <2>1, <2>2 DEF CatalogEdit
<1> QED
  BY <1>1, WhoWrites DEF CatalogEdit

\* A write of auth.json changes the entry of its own provider only, to what the request
\* brings; a write of models.json those of the providers it is about.
THEOREM NoWriteUndoesAnother == Spec => UpdatesAreKept
<1>1. IInv /\ [Next]_vars => AuthEdit /\ CatalogEdit
  BY AuthEditStep, CatalogEditStep
<1> QED
  BY <1>1, InvariantHolds, PTL DEF Spec, UpdatesAreKept, AuthUpdatesAreKept, CatalogUpdatesAreKept, AuthEdit, CatalogEdit

--------------------
(* The deliveries of a Channel (ChannelDelivery). *)

CONSTANTS
  Dests, Load, Workers, Pending, MaxRetries

VARIABLES
  submitted, permits, incoming, closed, listening, lanes_pc, lanes, ready,
  active, sends, delayed, settled, retries

Lanes == INSTANCE ChannelDelivery WITH
  pc <- lanes_pc

\* ChannelDelivery has its own copy of the operators of FiniteSets.
LEMMA LanesSets ==
  /\ \A S : Lanes!Cardinality(S) = Cardinality(S)
  /\ \A S : Lanes!IsFiniteSet(S) <=> IsFiniteSet(S)
<1>1. \A S : Lanes!Cardinality(S) = Cardinality(S)
  BY Zenon DEF Lanes!Cardinality, Cardinality
<1>2. \A S : Lanes!IsFiniteSet(S) <=> IsFiniteSet(S)
  BY Zenon DEF Lanes!IsFiniteSet, IsFiniteSet
<1> QED BY <1>1, <1>2
\* Everything a destination may be sent.
LanesItem == [dest : Dests, n : Nat]

LanesTyped ==
  /\ submitted \in [Dests -> Nat] /\ permits \in Nat /\ retries \in Nat
  /\ incoming \in Seq(LanesItem) /\ lanes \in [Dests -> Seq(LanesItem)] /\ ready \in Seq(Dests)
  /\ active \subseteq Dests /\ sends \subseteq LanesItem /\ delayed \subseteq LanesItem
  /\ settled \in [Dests -> Seq(Nat)] /\ lanes_pc \in {"top", "select", "returned"}

\* A destination is active for one delivery, which runs or is set aside.
LanesBusy ==
  /\ active = {x.dest : x \in sends \cup delayed}
  /\ Lanes!OneAtATime
  /\ sends \cap delayed = {}

\* The deliveries of d that have left its lane, and those that have left the channel.
LanesGone(d) == Len(settled[d]) + (IF d \in active THEN 1 ELSE 0)
LanesTaken(d) == LanesGone(d) + Len(lanes[d])

\* Those of d are settled, under way, in its lane and in the channel, in this order.
LanesInLane(d) ==
  /\ \A x \in sends \cup delayed : x.dest = d => x.n = Len(settled[d]) + 1
  /\ \A i \in 1..Len(lanes[d]) : lanes[d][i] = [dest |-> d, n |-> LanesGone(d) + i]
LanesInChannel(d) ==
  /\ LanesTaken(d) <= submitted[d]
  /\ \A i \in 1..Len(incoming) : incoming[i].dest = d =>
        incoming[i].n \in (LanesTaken(d) + 1)..submitted[d]
  /\ \A k \in (LanesTaken(d) + 1)..submitted[d] : \E i \in 1..Len(incoming) : incoming[i] = [dest |-> d, n |-> k]
LanesInOrder ==
  \A i, j \in 1..Len(incoming) : i < j /\ incoming[i].dest = incoming[j].dest => incoming[i].n < incoming[j].n

\* Every delivery that is submitted and not settled holds a permit.
LanesOwed == {x \in LanesItem : Len(settled[x.dest]) < x.n /\ x.n <= submitted[x.dest]}
LanesPermitted == Lanes!IsFiniteSet(LanesOwed) /\ permits + Lanes!Cardinality(LanesOwed) = Pending
LanesWorking == Lanes!IsFiniteSet(sends) /\ Lanes!Cardinality(sends) <= Workers

\* A lane that holds something is served or will be looked at.
LanesRemembered == \A d \in Dests : lanes[d] # <<>> => d \in active \/ Lanes!Contains(ready, d)
LanesWaits == lanes_pc = "select" => Lanes!Cardinality(sends) = Workers \/ ready = <<>>

LanesIInv ==
  /\ LanesTyped /\ LanesBusy /\ LanesInOrder /\ LanesPermitted /\ LanesWorking /\ LanesRemembered /\ LanesWaits /\ Lanes!SettledInOrder
  /\ \A d \in Dests : LanesInLane(d) /\ LanesInChannel(d)

--------------------
\* What the provers need of the constants, in parts.
LEMMA LanesConstant == ASSUME Lanes!DeliveryAssumption PROVE Workers \in Nat \ {0} /\ Pending \in Nat /\ MaxRetries \in Nat
  BY DEF Lanes!DeliveryAssumption

\* A delivery is a destination and a number.
LEMMA LanesItems == \A x \in LanesItem : x = [dest |-> x.dest, n |-> x.n] /\ x.dest \in Dests /\ x.n \in Nat
  BY DEF LanesItem

\* The places of a destination are numbers, and they follow each other.
LEMMA LanesLengths ==
  ASSUME LanesTyped, NEW d \in Dests
  PROVE  /\ Len(settled[d]) \in Nat /\ Len(lanes[d]) \in Nat /\ LanesGone(d) \in Nat /\ LanesTaken(d) \in Nat
         /\ submitted[d] \in Nat /\ Len(incoming) \in Nat
         /\ Len(settled[d]) <= LanesGone(d) /\ LanesGone(d) <= LanesTaken(d)
<1>1. settled[d] \in Seq(Nat) /\ lanes[d] \in Seq(LanesItem) /\ submitted[d] \in Nat /\ incoming \in Seq(LanesItem) BY DEF LanesTyped
<1>2. Len(settled[d]) \in Nat /\ Len(lanes[d]) \in Nat /\ Len(incoming) \in Nat BY <1>1
<1>3. LanesGone(d) \in {Len(settled[d]), Len(settled[d]) + 1}
  <2>1. CASE d \in active BY <2>1 DEF LanesGone
  <2>2. CASE d \notin active BY <1>2, <2>2 DEF LanesGone
  <2> QED BY <2>1, <2>2
<1>4. LanesGone(d) \in Nat BY <1>2, <1>3
<1>5. LanesTaken(d) = LanesGone(d) + Len(lanes[d]) BY DEF LanesTaken
<1>6. ASSUME NEW a \in Nat, NEW b \in Nat, NEW g \in {a, a + 1}
      PROVE  g \in Nat /\ g + b \in Nat /\ a <= g /\ g <= g + b
  OBVIOUS
<1>7. LanesTaken(d) \in Nat /\ Len(settled[d]) <= LanesGone(d) /\ LanesGone(d) <= LanesTaken(d)
  BY <1>2, <1>3, <1>5, <1>6
<1> QED BY <1>1, <1>2, <1>4, <1>7

\* What the counts need of arithmetic.
LEMMA LanesSums ==
  /\ \A a \in Nat : a + 0 = a /\ a + 1 \in Nat
  /\ \A a, b \in Nat : (a + 1) + b = a + (b + 1) /\ a + b \in Nat /\ (b # 0 => (a + 1) + (b - 1) = a + b)
  OBVIOUS

\* Nothing has been submitted at first.
LEMMA LanesInitInv == ASSUME Lanes!DeliveryAssumption, Lanes!Init PROVE LanesIInv
<1> USE DEF Lanes!Init
<1>0. Len(<<>>) = 0 /\ \A S : <<>> \in Seq(S) OBVIOUS
<1>1. LanesTyped BY <1>0, LanesConstant DEF LanesTyped
<1>2. LanesBusy BY DEF LanesBusy, Lanes!OneAtATime
<1>3. LanesInOrder BY <1>0 DEF LanesInOrder
<1>4. LanesPermitted
  <2>1. LanesOwed = {}
    <3>1. \A x \in LanesItem : x.dest \in Dests /\ x.n \in Nat BY LanesItems
    <3> QED BY <1>0, <3>1 DEF LanesOwed
  <2> QED BY <2>1, FS_EmptySet, LanesSets, LanesConstant DEF LanesPermitted
<1>5. LanesWorking BY FS_EmptySet, LanesSets, LanesConstant DEF LanesWorking
<1>6. LanesRemembered /\ LanesWaits BY DEF LanesRemembered, LanesWaits
<1>7. Lanes!SettledInOrder BY <1>0 DEF Lanes!SettledInOrder
<1>8. ASSUME NEW d \in Dests PROVE LanesInLane(d) /\ LanesInChannel(d)
  BY <1>0 DEF LanesInLane, LanesInChannel, LanesGone, LanesTaken
<1> QED BY <1>1, <1>2, <1>3, <1>4, <1>5, <1>6, <1>7, <1>8 DEF LanesIInv

\* One more, and one less, in a finite set.
LEMMA LanesOneMore ==
  ASSUME NEW S, Lanes!IsFiniteSet(S), NEW x, x \notin S
  PROVE  Lanes!IsFiniteSet(S \cup {x}) /\ Lanes!Cardinality(S \cup {x}) = Lanes!Cardinality(S) + 1 /\ Lanes!Cardinality(S) \in Nat
  BY FS_AddElement, FS_CardinalityType, LanesSets
\* One element less in a finite set.
LEMMA LanesOneLess ==
  ASSUME NEW S, Lanes!IsFiniteSet(S), NEW x \in S
  PROVE  Lanes!IsFiniteSet(S \ {x}) /\ Lanes!Cardinality(S \ {x}) = Lanes!Cardinality(S) - 1 /\ Lanes!Cardinality(S) \in Nat
  BY FS_RemoveElement, FS_CardinalityType, LanesSets

\* Where nothing changes of d.
LEMMA LanesDestKept ==
  ASSUME LanesTyped, NEW d \in Dests, LanesInLane(d), LanesInChannel(d),
         settled'[d] = settled[d], lanes'[d] = lanes[d], submitted'[d] = submitted[d],
         d \in active <=> d \in active', incoming' = incoming,
         \A x \in sends' \cup delayed' : x.dest = d => x \in sends \cup delayed
  PROVE  LanesInLane(d)' /\ LanesInChannel(d)'
<1>1. LanesGone(d)' = LanesGone(d) /\ LanesTaken(d)' = LanesTaken(d) BY DEF LanesGone, LanesTaken
<1> QED BY <1>1 DEF LanesInLane, LanesInChannel

\* A delivery is submitted with a permit and gets the next number.
LEMMA LanesSubmitInv == ASSUME Lanes!DeliveryAssumption, LanesIInv, NEW e \in Dests, Lanes!Submit(e) PROVE LanesIInv'
<1> DEFINE x == [dest |-> e, n |-> submitted[e] + 1]
<1> USE DEF Lanes!Submit
<1>0. /\ LanesTyped /\ LanesInOrder /\ LanesPermitted /\ incoming \in Seq(LanesItem) /\ submitted[e] \in Nat /\ x \in LanesItem
      /\ \A d \in Dests : LanesInLane(d) /\ LanesInChannel(d)
  BY DEF LanesIInv, LanesTyped, LanesItem
<1>1. LanesTyped' BY <1>0, LanesConstant DEF LanesTyped
<1>2. /\ Len(incoming') = Len(incoming) + 1 /\ incoming'[Len(incoming) + 1] = x /\ Len(incoming) \in Nat
      /\ \A i \in 1..Len(incoming) : incoming'[i] = incoming[i] /\ incoming[i] \in LanesItem
  BY <1>0
<1>3. /\ submitted'[e] = submitted[e] + 1 /\ \A d \in Dests \ {e} : submitted'[d] = submitted[d]
  BY <1>0 DEF LanesTyped
<1>4. LanesBusy' /\ LanesWorking' /\ LanesRemembered' /\ LanesWaits' /\ Lanes!SettledInOrder'
  BY DEF LanesIInv, LanesBusy, LanesWorking, LanesRemembered, LanesWaits, Lanes!SettledInOrder, Lanes!OneAtATime
<1>5. LanesInOrder'
  <2> SUFFICES ASSUME NEW i \in 1..(Len(incoming) + 1), NEW j \in 1..(Len(incoming) + 1), i < j,
                      incoming'[i].dest = incoming'[j].dest
               PROVE  incoming'[i].n < incoming'[j].n
    BY <1>2 DEF LanesInOrder
  <2>1. i \in 1..Len(incoming) /\ incoming'[i] = incoming[i] /\ incoming[i].dest \in Dests /\ incoming[i].n \in Nat
    BY <1>2, LanesItems
  <2>2. CASE j \in 1..Len(incoming) BY <1>0, <1>2, <2>1, <2>2 DEF LanesInOrder
  <2>3. CASE j = Len(incoming) + 1
    <3>1. incoming[i].n \in (LanesTaken(e) + 1)..submitted[e] BY <1>0, <1>2, <2>1, <2>3 DEF LanesInChannel
    <3>2. LanesTaken(e) \in Nat BY <1>0, LanesLengths
    <3> QED BY <1>0, <1>2, <2>1, <2>3, <3>1, <3>2
  <2> QED BY <2>2, <2>3, <1>2
<1>6. LanesPermitted'
  <2>1. x \notin LanesOwed BY <1>0 DEF LanesOwed
  <2>2. LanesOwed' = LanesOwed \cup {x}
    <3>0. Len(settled[e]) <= submitted[e] /\ Len(settled[e]) \in Nat
      <4>1. LanesTaken(e) <= submitted[e] BY <1>0 DEF LanesInChannel
      <4> QED BY <1>0, <4>1, LanesLengths
    <3>1. ASSUME NEW y \in LanesItem PROVE y \in LanesOwed' <=> y \in LanesOwed \cup {x}
      <4>0. y = [dest |-> y.dest, n |-> y.n] /\ y.dest \in Dests /\ y.n \in Nat BY LanesItems
      <4>1. CASE y.dest = e
        <5>1. y = x <=> y.n = submitted[e] + 1 BY <4>0, <4>1
        <5> QED BY <4>0, <4>1, <5>1, <1>0, <1>3, <3>0 DEF LanesOwed
      <4>2. CASE y.dest # e
        <5>1. y # x BY <4>2
        <5> QED BY <4>0, <4>2, <5>1, <1>3 DEF LanesOwed
      <4> QED BY <4>1, <4>2
    <3>2. LanesOwed' \subseteq LanesItem /\ LanesOwed \cup {x} \subseteq LanesItem BY <1>0 DEF LanesOwed, LanesItem
    <3> QED BY <3>1, <3>2
  <2>3. Lanes!IsFiniteSet(LanesOwed) /\ permits + Lanes!Cardinality(LanesOwed) = Pending BY <1>0 DEF LanesPermitted
  <2>4. Lanes!IsFiniteSet(LanesOwed') /\ Lanes!Cardinality(LanesOwed') = Lanes!Cardinality(LanesOwed) + 1 /\ Lanes!Cardinality(LanesOwed) \in Nat
    BY <2>1, <2>2, <2>3, LanesOneMore
  <2>5. permits' = permits - 1 /\ permits \in Nat BY <1>0 DEF LanesTyped
  <2> QED BY <2>3, <2>4, <2>5 DEF LanesPermitted
<1>7. ASSUME NEW d \in Dests PROVE LanesInLane(d)' /\ LanesInChannel(d)'
  <2>1. LanesGone(d)' = LanesGone(d) /\ LanesTaken(d)' = LanesTaken(d) BY DEF LanesGone, LanesTaken
  <2>2. LanesInLane(d)' BY <1>0, <2>1 DEF LanesInLane
  <2>3. LanesTaken(d) \in Nat /\ submitted[d] \in Nat BY <1>0, LanesLengths
  <2>4. CASE d # e
    <3>1. LanesTaken(d) <= submitted[d] BY <1>0 DEF LanesInChannel
    <3>2. ASSUME NEW i \in 1..Len(incoming)', incoming'[i].dest = d
          PROVE  incoming'[i].n \in (LanesTaken(d) + 1)..submitted[d]
      <4>1. i \in 1..Len(incoming) BY <1>2, <2>4, <3>2
      <4> QED BY <1>0, <1>2, <3>2, <4>1 DEF LanesInChannel
    <3>3. ASSUME NEW k \in (LanesTaken(d) + 1)..submitted[d]
          PROVE  \E i \in 1..Len(incoming)' : incoming'[i] = [dest |-> d, n |-> k]
      <4>1. PICK i \in 1..Len(incoming) : incoming[i] = [dest |-> d, n |-> k] BY <1>0 DEF LanesInChannel
      <4> QED BY <1>2, <4>1
    <3> QED BY <1>3, <2>1, <2>2, <2>4, <3>1, <3>2, <3>3 DEF LanesInChannel
  <2>5. CASE d = e
    <3>1. LanesTaken(d) <= submitted[d] BY <1>0 DEF LanesInChannel
    <3>2. ASSUME NEW i \in 1..Len(incoming)', incoming'[i].dest = d
          PROVE  incoming'[i].n \in (LanesTaken(d) + 1)..(submitted[d] + 1)
      <4>1. CASE i \in 1..Len(incoming)
        <5>1. incoming[i].n \in (LanesTaken(d) + 1)..submitted[d] BY <1>0, <1>2, <3>2, <4>1 DEF LanesInChannel
        <5> QED BY <1>2, <2>3, <4>1, <5>1
      <4>2. CASE i = Len(incoming) + 1 BY <1>2, <2>3, <2>5, <3>1, <4>2
      <4> QED BY <1>2, <4>1, <4>2
    <3>3. ASSUME NEW k \in (LanesTaken(d) + 1)..(submitted[d] + 1)
          PROVE  \E i \in 1..Len(incoming)' : incoming'[i] = [dest |-> d, n |-> k]
      <4>1. CASE k = submitted[d] + 1 BY <1>2, <2>5, <4>1
      <4>2. CASE k \in (LanesTaken(d) + 1)..submitted[d]
        <5>1. PICK i \in 1..Len(incoming) : incoming[i] = [dest |-> d, n |-> k] BY <1>0, <4>2 DEF LanesInChannel
        <5> QED BY <1>2, <5>1
      <4> QED BY <2>3, <4>1, <4>2
    <3> QED BY <1>3, <2>1, <2>2, <2>3, <2>5, <3>1, <3>2, <3>3 DEF LanesInChannel
  <2> QED BY <2>2, <2>4, <2>5
<1> QED BY <1>1, <1>4, <1>5, <1>6, <1>7 DEF LanesIInv


\* The end of the producers changes no delivery.
LEMMA LanesCloseInv == ASSUME LanesIInv, Lanes!Close PROVE LanesIInv'
<1> USE DEF Lanes!Close
<1>1. LanesTyped' /\ LanesBusy' /\ LanesInOrder' /\ LanesPermitted' /\ LanesWorking' /\ LanesRemembered' /\ LanesWaits' /\ Lanes!SettledInOrder'
  BY DEF LanesIInv, LanesTyped, LanesBusy, Lanes!OneAtATime, LanesInOrder, LanesPermitted, LanesOwed, LanesWorking, LanesRemembered, LanesWaits, Lanes!SettledInOrder
<1>2. ASSUME NEW d \in Dests PROVE LanesInLane(d)' /\ LanesInChannel(d)'
  BY DEF LanesIInv, LanesInLane, LanesInChannel, LanesGone, LanesTaken
<1> QED BY <1>1, <1>2 DEF LanesIInv

\* Neither does the wait in the select, which begins when there is nothing to start.
LEMMA LanesQuietInv ==
  ASSUME LanesIInv, Lanes!Select \/ Lanes!NoticeClosed \/ UNCHANGED Lanes!vars PROVE LanesIInv'
<1> USE DEF Lanes!Select, Lanes!NoticeClosed, Lanes!vars, Lanes!producers
<1>1. UNCHANGED <<submitted, permits, incoming, lanes, ready, active, sends, delayed, settled, retries>>
  OBVIOUS
<1>2. /\ LanesTyped' /\ LanesBusy' /\ LanesInOrder' /\ LanesPermitted' /\ LanesWorking' /\ LanesRemembered' /\ Lanes!SettledInOrder'
  BY <1>1 DEF LanesIInv, LanesTyped, LanesBusy, Lanes!OneAtATime, LanesInOrder, LanesPermitted, LanesOwed, LanesWorking, LanesRemembered, Lanes!SettledInOrder
<1>3. LanesWaits' BY <1>1 DEF LanesIInv, LanesWaits
<1>4. ASSUME NEW d \in Dests PROVE LanesInLane(d)' /\ LanesInChannel(d)'
  BY <1>1 DEF LanesIInv, LanesInLane, LanesInChannel, LanesGone, LanesTaken
<1> QED BY <1>2, <1>3, <1>4 DEF LanesIInv

\* What is not settled does not change in a step of the dispatcher that settles nothing.
LEMMA LanesOwedKept ==
  ASSUME LanesPermitted, UNCHANGED <<submitted, settled, permits>> PROVE LanesPermitted'
  BY DEF LanesPermitted, LanesOwed

\* What is appended to a queue is in it, and so is what was in it.
LEMMA LanesContainsAppend ==
  ASSUME NEW S, NEW q \in Seq(S), NEW e \in S
  PROVE  Lanes!Contains(Append(q, e), e) /\ \A y : Lanes!Contains(q, y) => Lanes!Contains(Append(q, e), y)
  BY DEF Lanes!Contains

\* A repeated delivery goes back to the front of its lane, before its successors.
LEMMA LanesDueInv == ASSUME LanesIInv, NEW x \in delayed, Lanes!Due(x) PROVE LanesIInv'
<1> USE DEF Lanes!Due, Lanes!producers
<1>0. /\ LanesTyped /\ LanesBusy /\ lanes[x.dest] \in Seq(LanesItem) /\ x \in LanesItem /\ x.dest \in Dests
      /\ x = [dest |-> x.dest, n |-> x.n] /\ x.dest \in active
      /\ \A d \in Dests : LanesInLane(d) /\ LanesInChannel(d)
  BY LanesItems DEF LanesIInv, LanesTyped, LanesBusy
<1> DEFINE e == x.dest
<1>1. /\ lanes'[e] = <<x>> \o lanes[e] /\ \A d \in Dests \ {e} : lanes'[d] = lanes[d]
      /\ lanes' \in [Dests -> Seq(LanesItem)]
  <2>1. <<x>> \o lanes[e] \in Seq(LanesItem) BY <1>0
  <2> QED BY <1>0, <2>1 DEF LanesTyped
<1>2. /\ Len(lanes'[e]) = Len(lanes[e]) + 1 /\ lanes'[e][1] = x
      /\ \A i \in 2..(Len(lanes[e]) + 1) : lanes'[e][i] = lanes[e][i - 1]
      /\ Len(lanes[e]) \in Nat
  BY <1>0, <1>1
<1>3. LanesTyped' BY <1>0, <1>1 DEF LanesTyped
<1>4. LanesBusy'
  <2>1. \A y \in sends' \cup delayed' : y.dest # e /\ y \in sends \cup delayed
    BY <1>0 DEF LanesBusy, Lanes!OneAtATime
  <2> QED BY <1>0, <2>1 DEF LanesBusy, Lanes!OneAtATime
<1>5. LanesInOrder' /\ LanesWorking' /\ Lanes!SettledInOrder' /\ LanesWaits'
  BY DEF LanesIInv, LanesInOrder, LanesWorking, Lanes!SettledInOrder, LanesWaits
<1>6. LanesPermitted' BY LanesOwedKept DEF LanesIInv
<1>7. LanesRemembered'
  <2>1. Lanes!Contains(ready', e) /\ \A y : Lanes!Contains(ready, y) => Lanes!Contains(ready', y)
    BY <1>0, LanesContainsAppend DEF LanesTyped
  <2>2. ASSUME NEW d \in Dests, lanes'[d] # <<>> PROVE d \in active' \/ Lanes!Contains(ready', d)
    <3>1. CASE d = e BY <2>1, <3>1
    <3>2. CASE d # e BY <1>1, <2>1, <2>2, <3>2 DEF LanesIInv, LanesRemembered
    <3> QED BY <3>1, <3>2
  <2> QED BY <2>2 DEF LanesRemembered
<1>8. ASSUME NEW d \in Dests PROVE LanesInLane(d)' /\ LanesInChannel(d)'
  <2>1. CASE d # e
    BY <1>0, <1>1, <2>1, LanesDestKept
  <2>2. CASE d = e
    <3>0. Len(settled[d]) \in Nat /\ Len(lanes[d]) \in Nat BY <1>0, LanesLengths
    <3>a. LanesGone(d) = Len(settled[d]) + 1 /\ LanesGone(d)' = Len(settled[d]) + 0
      BY <1>0, <2>2 DEF LanesGone
    <3>b. LanesTaken(d) = LanesGone(d) + Len(lanes[d]) /\ LanesTaken(d)' = LanesGone(d)' + (Len(lanes[d]) + 1)
      BY <1>2, <2>2 DEF LanesTaken
    <3>1. /\ LanesGone(d) = Len(settled[d]) + 1 /\ LanesGone(d)' = Len(settled[d]) /\ Len(settled[d]) \in Nat
          /\ LanesTaken(d)' = LanesTaken(d)
      <4> HIDE DEF Lanes!Due
      <4>1. Len(settled[d]) + 0 = Len(settled[d]) BY <3>0, LanesSums
      <4>2. (Len(settled[d]) + 1) + Len(lanes[d]) = Len(settled[d]) + (Len(lanes[d]) + 1) BY <3>0, LanesSums
      <4>3. LanesGone(d)' = Len(settled[d]) BY <3>a, <4>1
      <4>4. LanesTaken(d)' = LanesTaken(d) BY <3>a, <3>b, <4>2, <4>3, Zenon
      <4> QED BY <3>0, <3>a, <4>3, <4>4
    <3>2. x.n = Len(settled[d]) + 1 BY <1>0, <2>2 DEF LanesInLane
    <3>3. ASSUME NEW i \in 1..Len(lanes[d])' PROVE lanes'[d][i] = [dest |-> d, n |-> LanesGone(d)' + i]
      <4>1. CASE i = 1 BY <1>0, <1>2, <2>2, <3>1, <3>2, <4>1
      <4>2. CASE i \in 2..(Len(lanes[d]) + 1)
        <5>1. i - 1 \in 1..Len(lanes[d]) BY <1>2, <2>2, <4>2
        <5>2. lanes[d][i - 1] = [dest |-> d, n |-> LanesGone(d) + (i - 1)] BY <1>0, <5>1 DEF LanesInLane
        <5>3. LanesGone(d) + (i - 1) = LanesGone(d)' + i BY <3>1, <4>2
        <5>4. lanes'[d][i] = lanes[d][i - 1] BY <1>2, <2>2, <4>2
        <5> QED BY <5>2, <5>3, <5>4
      <4> QED BY <1>2, <2>2, <4>1, <4>2
    <3>4. \A y \in sends' \cup delayed' : y.dest # d BY <1>0, <2>2 DEF LanesBusy, Lanes!OneAtATime
    <3>5. LanesInLane(d)' BY <3>3, <3>4 DEF LanesInLane
    <3> QED BY <1>0, <3>1, <3>5 DEF LanesInChannel
  <2> QED BY <2>1, <2>2
<1> QED BY <1>3, <1>4, <1>5, <1>6, <1>7, <1>8 DEF LanesIInv

\* What is in a queue and is not its head is in its tail.
LEMMA LanesContainsTail ==
  ASSUME NEW S, NEW q \in Seq(S), q # <<>>, NEW y, Lanes!Contains(q, y), y # Head(q)
  PROVE  Lanes!Contains(Tail(q), y)
<1>1. PICK i \in 1..Len(q) : q[i] = y BY DEF Lanes!Contains
<1>2. i # 1 /\ Len(q) \in Nat BY <1>1
<1>3. Len(Tail(q)) = Len(q) - 1 /\ Tail(q)[i - 1] = q[i] /\ i - 1 \in 1..(Len(q) - 1) BY <1>1, <1>2
<1> QED BY <1>1, <1>3 DEF Lanes!Contains

\* The head of a ready lane is sent unless its destination is active.
LEMMA LanesStartSendInv == ASSUME Lanes!DeliveryAssumption, LanesIInv, Lanes!StartSend PROVE LanesIInv'
<1> USE DEF Lanes!StartSend, Lanes!producers
<1>a. ready \in Seq(Dests) /\ ready # <<>> /\ Head(ready) \in Dests
  BY DEF LanesIInv, LanesTyped
<1>b. PICK e \in Dests : e = Head(ready) BY <1>a
<1>0. /\ LanesTyped /\ LanesBusy /\ LanesWorking /\ ready \in Seq(Dests) /\ ready # <<>> /\ e \in Dests
      /\ lanes[e] \in Seq(LanesItem)
      /\ \A d \in Dests : LanesInLane(d) /\ LanesInChannel(d)
  BY <1>a DEF LanesIInv, LanesTyped
<1>1. ready' = Tail(ready) /\ Tail(ready) \in Seq(Dests)
      /\ \A d \in Dests \ {e} : Lanes!Contains(ready, d) => Lanes!Contains(ready', d)
  BY <1>0, <1>b, LanesContainsTail
<1>2. LanesInOrder' /\ Lanes!SettledInOrder' /\ LanesWaits' /\ LanesPermitted'
  <2>1. LanesPermitted' BY LanesOwedKept DEF LanesIInv
  <2> QED BY <2>1 DEF LanesIInv, LanesInOrder, Lanes!SettledInOrder, LanesWaits
<1>3. CASE e \in active \/ lanes[e] = <<>>
  <2>1. UNCHANGED <<lanes, active, sends>> BY <1>3, <1>b
  <2>2. LanesTyped' /\ LanesBusy' /\ LanesWorking' BY <1>0, <1>1, <2>1 DEF LanesTyped, LanesBusy, Lanes!OneAtATime, LanesWorking
  <2>3. LanesRemembered'
    <3>1. ASSUME NEW d \in Dests, lanes[d] # <<>> PROVE d \in active \/ Lanes!Contains(ready', d)
      BY <1>1, <1>3, <3>1 DEF LanesIInv, LanesRemembered
    <3> QED BY <2>1, <3>1 DEF LanesRemembered
  <2>4. ASSUME NEW d \in Dests PROVE LanesInLane(d)' /\ LanesInChannel(d)'
    BY <1>0, <2>1, LanesDestKept
  <2> QED BY <1>2, <2>2, <2>3, <2>4 DEF LanesIInv
<1>4. CASE e \notin active /\ lanes[e] # <<>>
  <2> DEFINE x == Head(lanes[e])
  <2>1. /\ sends' = sends \cup {x} /\ lanes' = [lanes EXCEPT ![e] = Tail(@)] /\ active' = active \cup {e}
    BY <1>4, <1>b
  <2>2. /\ Len(lanes[e]) \in Nat \ {0} /\ x = lanes[e][1] /\ Tail(lanes[e]) \in Seq(LanesItem) /\ x \in LanesItem
        /\ Len(Tail(lanes[e])) = Len(lanes[e]) - 1
        /\ \A i \in 1..(Len(lanes[e]) - 1) : Tail(lanes[e])[i] = lanes[e][i + 1]
    BY <1>0, <1>4
  <2>3. /\ lanes'[e] = Tail(lanes[e]) /\ \A d \in Dests \ {e} : lanes'[d] = lanes[d]
        /\ lanes' \in [Dests -> Seq(LanesItem)]
    BY <1>0, <2>1, <2>2 DEF LanesTyped
  <2>a. LanesGone(e) = Len(settled[e]) + 0 /\ LanesGone(e)' = Len(settled[e]) + 1
    <3>1. e \notin active /\ e \in active' /\ settled' = settled BY <1>4, <2>1
    <3> HIDE DEF Lanes!StartSend
    <3> QED BY <3>1 DEF LanesGone
  <2>c. settled' = settled OBVIOUS
  <2>b. LanesGone(e) = Len(settled[e]) /\ LanesGone(e)' = LanesGone(e) + 1 /\ LanesGone(e) \in Nat
    <3>1. Len(settled[e]) \in Nat BY <1>0, LanesLengths
    <3> HIDE DEF Lanes!StartSend
    <3> QED BY <2>a, <3>1
  <2>4. x = [dest |-> e, n |-> Len(settled[e]) + 1]
    <3>1. 1 \in 1..Len(lanes[e]) BY <2>2
    <3>2. lanes[e][1] = [dest |-> e, n |-> LanesGone(e) + 1] BY <1>0, <3>1 DEF LanesInLane
    <3> QED BY <2>2, <2>b, <3>2
  <2>5. LanesTyped' BY <1>0, <1>1, <2>1, <2>2, <2>3 DEF LanesTyped
  <2>6. \A y \in sends \cup delayed : y.dest # e BY <1>0, <1>4 DEF LanesBusy
  <2>7. LanesBusy'
    <3>1. active' = {y.dest : y \in sends' \cup delayed'} BY <1>0, <2>1, <2>4 DEF LanesBusy
    <3>2. Lanes!OneAtATime' BY <1>0, <2>1, <2>4, <2>6 DEF LanesBusy, Lanes!OneAtATime
    <3>3. sends' \cap delayed' = {} BY <1>0, <2>1, <2>4, <2>6 DEF LanesBusy
    <3> QED BY <3>1, <3>2, <3>3 DEF LanesBusy
  <2>8. LanesWorking'
    <3>1. x \notin sends BY <2>4, <2>6
    <3>2. Lanes!IsFiniteSet(sends) /\ Lanes!Cardinality(sends) < Workers BY <1>0 DEF LanesWorking
    <3>3. Lanes!IsFiniteSet(sends') /\ Lanes!Cardinality(sends') = Lanes!Cardinality(sends) + 1 /\ Lanes!Cardinality(sends) \in Nat
      BY <2>1, <3>1, <3>2, LanesOneMore
    <3> QED BY <3>2, <3>3, LanesConstant DEF LanesWorking
  <2>9. LanesRemembered'
    <3>1. ASSUME NEW d \in Dests, lanes'[d] # <<>> PROVE d \in active' \/ Lanes!Contains(ready', d)
      <4>1. CASE d = e BY <2>1, <4>1
      <4>2. CASE d # e BY <1>1, <2>1, <2>3, <3>1, <4>2 DEF LanesIInv, LanesRemembered
      <4> QED BY <4>1, <4>2
    <3> QED BY <3>1 DEF LanesRemembered
  <2>10. ASSUME NEW d \in Dests PROVE LanesInLane(d)' /\ LanesInChannel(d)'
    <3>1. CASE d # e
      <4>1. \A y \in sends' \cup delayed' : y.dest = d => y \in sends \cup delayed BY <2>1, <2>4, <3>1
      <4> QED BY <1>0, <2>1, <2>3, <3>1, <4>1, LanesDestKept
    <3>2. CASE d = e
      <4>1. \A y \in sends' \cup delayed' : y.dest = d => y.n = Len(settled[d]) + 1
        BY <2>1, <2>4, <2>6, <3>2
      <4>2. ASSUME NEW i \in 1..(Len(lanes[e]) - 1) PROVE lanes'[e][i] = [dest |-> e, n |-> LanesGone(e)' + i]
        <5> HIDE DEF Lanes!StartSend, x
        <5>1. i \in Nat /\ i + 1 \in 1..Len(lanes[e]) BY <2>2
        <5>2. lanes[e][i + 1] = [dest |-> e, n |-> LanesGone(e) + (i + 1)] BY <1>0, <5>1 DEF LanesInLane
        <5>a. (LanesGone(e) + 1) + i = LanesGone(e) + (i + 1) BY <2>b, <5>1, LanesSums
        <5>3. LanesGone(e) + (i + 1) = LanesGone(e)' + i BY <2>b, <5>a, Zenon
        <5>4. lanes'[e][i] = lanes[e][i + 1] BY <2>2, <2>3
        <5> QED BY <5>2, <5>3, <5>4
      <4>a. Len(lanes'[e]) = Len(lanes[e]) - 1 BY <2>2, <2>3
      <4>3. LanesInLane(d)'
        <5> HIDE DEF Lanes!StartSend, x
        <5>1. \A i \in 1..Len(lanes[e])' : lanes'[e][i] = [dest |-> e, n |-> LanesGone(e)' + i]
          BY <4>2, <4>a, Zenon
        <5>2. \A y \in sends' \cup delayed' : y.dest = e => y.n = Len(settled'[e]) + 1
          BY <3>2, <4>1, <2>c
        <5>3. LanesInLane(e)' BY <5>1, <5>2 DEF LanesInLane
        <5> QED BY <3>2, <5>3, Zenon
      <4>4. LanesTaken(e) = LanesGone(e) + Len(lanes[e]) /\ LanesTaken(e)' = LanesGone(e)' + (Len(lanes[e]) - 1)
        <5> HIDE DEF Lanes!StartSend, x
        <5> QED BY <4>a DEF LanesTaken
      <4>5. LanesTaken(d)' = LanesTaken(d)
        <5> HIDE DEF Lanes!StartSend, x
        <5>1. Len(lanes[e]) \in Nat BY <2>2
        <5>2. Len(lanes[e]) # 0 BY <2>2
        <5>3. (LanesGone(e) + 1) + (Len(lanes[e]) - 1) = LanesGone(e) + Len(lanes[e]) BY <2>b, <5>1, <5>2, LanesSums
        <5> QED BY <3>2, <2>b, <4>4, <5>3, Zenon
      <4> QED BY <1>0, <4>3, <4>5 DEF LanesInChannel
    <3> QED BY <3>1, <3>2
  <2> QED BY <1>2, <2>5, <2>7, <2>8, <2>9, <2>10 DEF LanesIInv
<1> QED BY <1>3, <1>4

\* A delivery that is set aside keeps its destination and its permit.
LEMMA LanesRetryInv == ASSUME Lanes!DeliveryAssumption, LanesIInv, NEW x \in sends, Lanes!Retry(x) PROVE LanesIInv'
<1> USE DEF Lanes!Retry, Lanes!producers
<1>0. LanesTyped /\ LanesBusy /\ LanesWorking /\ \A d \in Dests : LanesInLane(d) /\ LanesInChannel(d) BY DEF LanesIInv
<1>1. sends' \cup delayed' = sends \cup delayed OBVIOUS
<1>2. LanesTyped'
  <2>1. retries' \in Nat BY <1>0 DEF LanesTyped
  <2>2. sends' \subseteq LanesItem /\ delayed' \subseteq LanesItem BY <1>0 DEF LanesTyped
  <2> QED BY <1>0, <2>1, <2>2 DEF LanesTyped
<1>3. LanesBusy'
  <2>1. sends' \cap delayed' = {} BY <1>0 DEF LanesBusy
  <2> QED BY <1>0, <1>1, <2>1 DEF LanesBusy, Lanes!OneAtATime
<1>4. LanesWorking'
  <2>1. Lanes!IsFiniteSet(sends) /\ Lanes!Cardinality(sends) <= Workers BY <1>0 DEF LanesWorking
  <2>2. Lanes!IsFiniteSet(sends') /\ Lanes!Cardinality(sends') = Lanes!Cardinality(sends) - 1 /\ Lanes!Cardinality(sends) \in Nat
    BY <2>1, LanesOneLess
  <2>3. Workers \in Nat BY LanesConstant
  <2> HIDE DEF Lanes!Retry
  <2> QED BY <2>1, <2>2, <2>3 DEF LanesWorking
<1>5. LanesPermitted' BY LanesOwedKept DEF LanesIInv
<1>6. LanesInOrder' /\ Lanes!SettledInOrder' /\ LanesWaits' /\ LanesRemembered'
  BY DEF LanesIInv, LanesInOrder, Lanes!SettledInOrder, LanesWaits, LanesRemembered
<1>7. ASSUME NEW d \in Dests PROVE LanesInLane(d)' /\ LanesInChannel(d)' BY <1>0, <1>1, LanesDestKept
<1> QED BY <1>2, <1>3, <1>4, <1>5, <1>6, <1>7 DEF LanesIInv

\* The delivery that settles is the next of its destination, and returns its permit.
LEMMA LanesSettleInv == ASSUME Lanes!DeliveryAssumption, LanesIInv, NEW x \in sends, Lanes!Settle(x) PROVE LanesIInv'
<1> USE DEF Lanes!Settle, Lanes!producers
<1> DEFINE e == x.dest
           k == Len(settled[e])
<1>0. /\ LanesTyped /\ LanesBusy /\ LanesWorking /\ x \in LanesItem /\ e \in Dests /\ x = [dest |-> e, n |-> x.n] /\ x.n \in Nat
      /\ e \in active /\ settled[e] \in Seq(Nat) /\ k \in Nat /\ ready \in Seq(Dests)
      /\ \A d \in Dests : LanesInLane(d) /\ LanesInChannel(d)
  <2> HIDE DEF Lanes!Settle
  <2>1. LanesTyped /\ LanesBusy /\ LanesWorking /\ \A d \in Dests : LanesInLane(d) /\ LanesInChannel(d) BY DEF LanesIInv
  <2>2. x \in LanesItem /\ ready \in Seq(Dests) BY <2>1 DEF LanesTyped
  <2>3. e \in Dests /\ x = [dest |-> e, n |-> x.n] /\ x.n \in Nat BY <2>2, LanesItems
  <2>4. e \in active BY <2>1 DEF LanesBusy
  <2>5. settled[e] \in Seq(Nat) /\ k \in Nat BY <2>1, <2>3 DEF LanesTyped
  <2> QED BY <2>1, <2>2, <2>3, <2>4, <2>5
<1>1. x.n = k + 1 BY <1>0 DEF LanesInLane
<1>2. /\ settled'[e] = Append(settled[e], x.n) /\ \A d \in Dests \ {e} : settled'[d] = settled[d]
      /\ Append(settled[e], x.n) \in Seq(Nat)
      /\ Len(settled'[e]) = k + 1 /\ settled'[e][k + 1] = k + 1
      /\ \A i \in 1..k : settled'[e][i] = settled[e][i]
  BY <1>0, <1>1 DEF LanesTyped
<1>3. /\ ready' \in Seq(Dests) /\ \A d \in Dests : Lanes!Contains(ready, d) => Lanes!Contains(ready', d)
      /\ lanes[e] # <<>> => Lanes!Contains(ready', e)
  <2>1. CASE lanes[e] # <<>>
    <3>1. ready' = Append(ready, e) BY <2>1
    <3> QED BY <1>0, <3>1, LanesContainsAppend
  <2>2. CASE lanes[e] = <<>>
    <3>1. ready' = ready BY <2>2
    <3> QED BY <1>0, <2>2, <3>1
  <2> QED BY <2>1, <2>2
<1>4. LanesTyped'
  <2>1. settled' \in [Dests -> Seq(Nat)] BY <1>0, <1>2 DEF LanesTyped
  <2>2. permits' \in Nat /\ lanes_pc' \in {"top", "select", "returned"}  BY <1>0 DEF LanesTyped
  <2>3. active' \subseteq Dests /\ sends' \subseteq LanesItem BY <1>0 DEF LanesTyped
  <2> QED BY <1>0, <1>3, <2>1, <2>2, <2>3 DEF LanesTyped
<1>5. \A y \in sends' \cup delayed' : y.dest # e /\ y \in sends \cup delayed
  BY <1>0 DEF LanesBusy, Lanes!OneAtATime
<1>6. LanesBusy' BY <1>0, <1>5 DEF LanesBusy, Lanes!OneAtATime
<1>7. LanesWorking'
  <2>1. Lanes!IsFiniteSet(sends) /\ Lanes!Cardinality(sends) <= Workers BY <1>0 DEF LanesWorking
  <2>2. Lanes!IsFiniteSet(sends') /\ Lanes!Cardinality(sends') = Lanes!Cardinality(sends) - 1 /\ Lanes!Cardinality(sends) \in Nat
    BY <2>1, LanesOneLess
  <2> QED BY <2>1, <2>2, LanesConstant DEF LanesWorking
<1>8. LanesWaits' /\ LanesInOrder'
  BY DEF LanesIInv, LanesWaits, LanesInOrder
<1>9. Lanes!SettledInOrder'
  <2>1. ASSUME NEW d \in Dests PROVE settled'[d] = [i \in 1..Len(settled'[d]) |-> i]
    <3>1. CASE d # e BY <1>2, <3>1 DEF LanesIInv, Lanes!SettledInOrder
    <3>2. CASE d = e
      <4>1. \A i \in 1..k : settled[e][i] = i BY <1>0 DEF LanesIInv, Lanes!SettledInOrder
      <4>2. \A i \in 1..(k + 1) : settled'[e][i] = i BY <1>0, <1>2, <4>1
      <4>3. settled'[e] \in Seq(Nat) BY <1>2
      <4>4. settled'[e] = [i \in 1..Len(settled'[e]) |-> settled'[e][i]]
        <5> HIDE DEF Lanes!Settle, e
        <5> QED BY <4>3
      <4> HIDE DEF k
      <4> QED BY <1>2, <3>2, <4>2, <4>4
    <3> QED BY <3>1, <3>2
  <2> QED BY <2>1 DEF Lanes!SettledInOrder
<1>10. LanesRemembered'
  <2>1. ASSUME NEW d \in Dests, lanes[d] # <<>> PROVE d \in active' \/ Lanes!Contains(ready', d)
    <3>1. CASE d = e BY <1>3, <2>1, <3>1
    <3>2. CASE d # e
      <4>1. d \in active \/ Lanes!Contains(ready, d) BY <2>1 DEF LanesIInv, LanesRemembered
      <4> QED BY <1>3, <3>2, <4>1
    <3> QED BY <3>1, <3>2
  <2> QED BY <2>1 DEF LanesRemembered
<1>11. LanesPermitted'
  <2>0. k + 1 <= submitted[e] /\ submitted[e] \in Nat
    <3>1. LanesGone(e) = k + 1 BY <1>0 DEF LanesGone
    <3>2. LanesGone(e) <= LanesTaken(e) /\ LanesTaken(e) \in Nat /\ submitted[e] \in Nat BY <1>0, LanesLengths
    <3>3. LanesTaken(e) <= submitted[e] BY <1>0 DEF LanesInChannel
    <3> QED BY <1>0, <3>1, <3>2, <3>3
  <2>1. x \in LanesOwed BY <1>0, <1>1, <2>0 DEF LanesOwed
  <2>2. LanesOwed' = LanesOwed \ {x}
    <3>1. ASSUME NEW y \in LanesItem PROVE y \in LanesOwed' <=> y \in LanesOwed \ {x}
      <4>0. y = [dest |-> y.dest, n |-> y.n] /\ y.dest \in Dests /\ y.n \in Nat BY LanesItems
      <4>1. CASE y.dest = e
        <5>1. y = x <=> y.n = k + 1 BY <1>0, <1>1, <4>0, <4>1
        <5>2. y \in LanesOwed' <=> k + 1 < y.n /\ y.n <= submitted[e] BY <1>2, <4>1 DEF LanesOwed
        <5>3. y \in LanesOwed <=> k < y.n /\ y.n <= submitted[e] BY <4>1 DEF LanesOwed
        <5> QED BY <1>0, <4>0, <5>1, <5>2, <5>3
      <4>2. CASE y.dest # e
        <5>1. y # x BY <4>2
        <5> QED BY <1>2, <4>0, <4>2, <5>1 DEF LanesOwed
      <4> QED BY <4>1, <4>2
    <3>2. LanesOwed' \subseteq LanesItem /\ LanesOwed \ {x} \subseteq LanesItem BY DEF LanesOwed
    <3> QED BY <3>1, <3>2
  <2>3. Lanes!IsFiniteSet(LanesOwed) /\ permits + Lanes!Cardinality(LanesOwed) = Pending BY DEF LanesIInv, LanesPermitted
  <2>4. Lanes!IsFiniteSet(LanesOwed') /\ Lanes!Cardinality(LanesOwed') = Lanes!Cardinality(LanesOwed) - 1 /\ Lanes!Cardinality(LanesOwed) \in Nat
    BY <2>1, <2>2, <2>3, LanesOneLess
  <2>5. permits' = permits + 1 /\ permits \in Nat BY <1>0 DEF LanesTyped
  <2> QED BY <2>3, <2>4, <2>5 DEF LanesPermitted
<1>12. ASSUME NEW d \in Dests PROVE LanesInLane(d)' /\ LanesInChannel(d)'
  <2>1. CASE d # e BY <1>0, <1>2, <1>5, <2>1, LanesDestKept
  <2>2. CASE d = e
    <3>1. LanesGone(d) = k + 1 /\ LanesGone(d)' = (k + 1) + 0 BY <1>0, <1>2, <2>2 DEF LanesGone
    <3>2. LanesGone(d)' = LanesGone(d) /\ LanesTaken(d)' = LanesTaken(d) BY <1>0, <3>1 DEF LanesTaken
    <3>3. LanesInLane(d)' BY <1>0, <1>5, <2>2, <3>2 DEF LanesInLane
    <3> QED BY <1>0, <3>2, <3>3 DEF LanesInChannel
  <2> QED BY <2>1, <2>2
<1> QED BY <1>4, <1>6, <1>7, <1>8, <1>9, <1>10, <1>11, <1>12 DEF LanesIInv

\* What leaves the channel is the next of its destination, and goes to the end of its
\* lane.
LEMMA LanesAcceptInv == ASSUME LanesIInv, Lanes!Accept PROVE LanesIInv'
<1> USE DEF Lanes!Accept, Lanes!producers
<1> DEFINE x == Head(incoming)
           e == x.dest
           k == Len(incoming)
<1>0. /\ LanesTyped /\ LanesBusy /\ LanesWorking /\ LanesInOrder /\ incoming \in Seq(LanesItem) /\ incoming # <<>> /\ ready \in Seq(Dests)
      /\ \A d \in Dests : LanesInLane(d) /\ LanesInChannel(d)
  BY DEF LanesIInv, LanesTyped
<1>1. /\ k \in Nat \ {0} /\ x = incoming[1] /\ x \in LanesItem /\ Tail(incoming) \in Seq(LanesItem)
      /\ Len(incoming') = k - 1 /\ \A i \in 1..(k - 1) : incoming'[i] = incoming[i + 1]
      /\ incoming' = Tail(incoming)
  BY <1>0
<1>2. e \in Dests /\ x = [dest |-> e, n |-> x.n] /\ x.n \in Nat BY <1>1, LanesItems
<1>3. /\ lanes[e] \in Seq(LanesItem) /\ Len(lanes[e]) \in Nat
      /\ lanes'[e] = Append(lanes[e], x) /\ \A d \in Dests \ {e} : lanes'[d] = lanes[d]
      /\ lanes' \in [Dests -> Seq(LanesItem)] /\ Len(lanes'[e]) = Len(lanes[e]) + 1
      /\ lanes'[e][Len(lanes[e]) + 1] = x /\ \A i \in 1..Len(lanes[e]) : lanes'[e][i] = lanes[e][i]
  <2>1. lanes[e] \in Seq(LanesItem) /\ Append(lanes[e], x) \in Seq(LanesItem) BY <1>0, <1>1, <1>2 DEF LanesTyped
  <2>2. lanes'[e] = Append(lanes[e], x) /\ (\A d \in Dests \ {e} : lanes'[d] = lanes[d])
        /\ lanes' \in [Dests -> Seq(LanesItem)]
    BY <1>0, <1>2, <2>1 DEF LanesTyped
  <2> QED BY <1>1, <2>1, <2>2
<1>4. /\ ready' \in Seq(Dests) /\ \A d \in Dests : Lanes!Contains(ready, d) => Lanes!Contains(ready', d)
      /\ e \notin active /\ lanes[e] = <<>> => Lanes!Contains(ready', e)
  <2>1. CASE e \notin active /\ lanes[e] = <<>>
    <3>1. ready' = Append(ready, e) BY <2>1
    <3> QED BY <1>0, <1>2, <3>1, LanesContainsAppend
  <2>2. CASE ~(e \notin active /\ lanes[e] = <<>>)
    <3>1. ready' = ready BY <2>2
    <3> QED BY <1>0, <2>2, <3>1
  <2> QED BY <2>1, <2>2
<1>5. LanesTyped' BY <1>0, <1>1, <1>3, <1>4 DEF LanesTyped
<1>6. LanesBusy' /\ LanesWorking' /\ LanesWaits' /\ Lanes!SettledInOrder'
  BY DEF LanesIInv, LanesBusy, Lanes!OneAtATime, LanesWorking, LanesWaits, Lanes!SettledInOrder
<1>7. LanesPermitted' BY LanesOwedKept DEF LanesIInv
<1>8. LanesInOrder'
  <2> SUFFICES ASSUME NEW i \in 1..(k - 1), NEW j \in 1..(k - 1), i < j, incoming'[i].dest = incoming'[j].dest
               PROVE  incoming'[i].n < incoming'[j].n
    BY <1>1 DEF LanesInOrder
  <2>1. i + 1 \in 1..k /\ j + 1 \in 1..k /\ i + 1 < j + 1 BY <1>1
  <2> QED BY <1>0, <1>1, <2>1 DEF LanesInOrder
<1>9. LanesRemembered'
  <2>1. ASSUME NEW d \in Dests, lanes'[d] # <<>> PROVE d \in active' \/ Lanes!Contains(ready', d)
    <3>1. CASE d = e
      <4>1. e \in active \/ Lanes!Contains(ready, e) \/ (e \notin active /\ lanes[e] = <<>>)
        BY <1>2 DEF LanesIInv, LanesRemembered
      <4> QED BY <1>2, <1>4, <3>1, <4>1
    <3>2. CASE d # e
      <4>1. d \in active \/ Lanes!Contains(ready, d) BY <1>3, <2>1, <3>2 DEF LanesIInv, LanesRemembered
      <4> QED BY <1>4, <4>1
    <3> QED BY <3>1, <3>2
  <2> QED BY <2>1 DEF LanesRemembered
<1>10. x.n = LanesTaken(e) + 1 /\ LanesTaken(e) \in Nat /\ submitted[e] \in Nat /\ LanesTaken(e) + 1 <= submitted[e]
  <2>1. LanesTaken(e) \in Nat /\ submitted[e] \in Nat BY <1>0, <1>2, LanesLengths
  <2>2. 1 \in 1..k BY <1>1
  <2>3. x.n \in (LanesTaken(e) + 1)..submitted[e] BY <1>0, <1>1, <1>2, <2>2 DEF LanesInChannel
  <2>4. LanesTaken(e) + 1 \in (LanesTaken(e) + 1)..submitted[e] BY <1>2, <2>1, <2>3
  <2>5. PICK i \in 1..k : incoming[i] = [dest |-> e, n |-> LanesTaken(e) + 1] BY <1>0, <1>2, <2>4 DEF LanesInChannel
  <2>6. CASE i = 1 BY <1>1, <1>2, <2>1, <2>3, <2>5, <2>6
  <2>7. CASE i # 1
    <3>1. 1 < i BY <2>5, <2>7
    <3>2. i \in 1..Len(incoming) /\ 1 \in 1..Len(incoming) /\ incoming[1].dest = incoming[i].dest
      BY <1>1, <2>2, <2>5
    <3>3. incoming[1].n < incoming[i].n
      <4> HIDE DEF Lanes!Accept, x, e, k
      <4> QED BY <1>0, <3>1, <3>2 DEF LanesInOrder
    <3> QED BY <1>1, <1>2, <2>1, <2>3, <2>5, <3>3
  <2> QED BY <2>6, <2>7
<1>11. ASSUME NEW d \in Dests PROVE LanesInLane(d)' /\ LanesInChannel(d)'
  <2>0. /\ LanesGone(d)' = LanesGone(d) /\ LanesGone(d) \in Nat /\ LanesTaken(d) \in Nat /\ submitted[d] \in Nat /\ Len(lanes[d]) \in Nat
    BY <1>0, LanesLengths DEF LanesGone
  <2>a. LanesTaken(d)' = LanesGone(d) + Len(lanes'[d]) /\ LanesTaken(d) = LanesGone(d) + Len(lanes[d]) BY <2>0 DEF LanesTaken
  <2>1. CASE d # e
    <3>1. LanesTaken(d)' = LanesTaken(d) BY <1>3, <2>1, <2>a
    <3>2. LanesInLane(d)' BY <1>0, <1>3, <2>0, <2>1 DEF LanesInLane
    <3>3. ASSUME NEW i \in 1..Len(incoming'), incoming'[i].dest = d
          PROVE  incoming'[i].n \in (LanesTaken(d) + 1)..submitted[d]
      <4>1. i + 1 \in 1..k /\ incoming'[i] = incoming[i + 1] BY <1>1
      <4> QED BY <1>0, <3>3, <4>1 DEF LanesInChannel
    <3>4. ASSUME NEW n \in (LanesTaken(d) + 1)..submitted[d]
          PROVE  \E i \in 1..Len(incoming') : incoming'[i] = [dest |-> d, n |-> n]
      <4>1. PICK i \in 1..k : incoming[i] = [dest |-> d, n |-> n] BY <1>0 DEF LanesInChannel
      <4>2. i # 1 BY <1>1, <1>2, <2>1, <4>1
      <4>3. i - 1 \in 1..(k - 1) /\ incoming'[i - 1] = incoming[i]
        <5>1. i - 1 \in 1..(k - 1) /\ (i - 1) + 1 = i BY <1>1, <4>2
        <5> QED BY <1>1, <5>1
      <4> QED BY <1>1, <4>1, <4>3
    <3>5. LanesTaken(d) <= submitted[d] BY <1>0 DEF LanesInChannel
    <3> QED BY <3>1, <3>2, <3>3, <3>4, <3>5 DEF LanesInChannel
  <2>2. CASE d = e
    <3>1. LanesTaken(d)' = LanesTaken(d) + 1 BY <1>3, <2>0, <2>2, <2>a
    <3>2. LanesInLane(d)'
      <4>1. ASSUME NEW i \in 1..(Len(lanes[d]) + 1) PROVE lanes'[d][i] = [dest |-> d, n |-> LanesGone(d) + i]
        <5>1. CASE i \in 1..Len(lanes[d]) BY <1>0, <1>3, <2>2, <5>1 DEF LanesInLane
        <5>2. CASE i = Len(lanes[d]) + 1
          <6>1. LanesGone(d) + i = LanesTaken(d) + 1 BY <2>0, <2>a, <5>2
          <6> QED BY <1>2, <1>3, <1>10, <2>2, <5>2, <6>1
        <5> QED BY <2>0, <5>1, <5>2
      <4> QED BY <1>0, <1>3, <2>0, <2>2, <4>1 DEF LanesInLane
    <3>3. ASSUME NEW i \in 1..Len(incoming'), incoming'[i].dest = d
          PROVE  incoming'[i].n \in (LanesTaken(d) + 2)..submitted[d]
      <4>1. i + 1 \in 1..k /\ 1 \in 1..k /\ 1 < i + 1 /\ incoming'[i] = incoming[i + 1] BY <1>1
      <4>2. incoming[i + 1].n \in (LanesTaken(d) + 1)..submitted[d] BY <1>0, <3>3, <4>1 DEF LanesInChannel
      <4>3. incoming[1].n < incoming[i + 1].n BY <1>0, <1>1, <2>2, <3>3, <4>1 DEF LanesInOrder
      <4> QED BY <1>1, <1>10, <2>0, <2>2, <4>1, <4>2, <4>3
    <3>4. ASSUME NEW n \in (LanesTaken(d) + 2)..submitted[d]
          PROVE  \E i \in 1..Len(incoming') : incoming'[i] = [dest |-> d, n |-> n]
      <4>0. n \in (LanesTaken(d) + 1)..submitted[d] /\ n # LanesTaken(d) + 1 BY <2>0
      <4>1. PICK i \in 1..k : incoming[i] = [dest |-> d, n |-> n] BY <1>0, <4>0 DEF LanesInChannel
      <4>2. i # 1
        <5>1. incoming[1].n = LanesTaken(d) + 1 BY <1>1, <1>10, <2>2
        <5> QED BY <4>0, <4>1, <5>1
      <4>3. i - 1 \in 1..(k - 1) /\ incoming'[i - 1] = incoming[i]
        <5>1. i - 1 \in 1..(k - 1) /\ (i - 1) + 1 = i BY <1>1, <4>2
        <5> QED BY <1>1, <5>1
      <4> QED BY <1>1, <4>1, <4>3
    <3>5. (LanesTaken(d) + 1) + 1 = LanesTaken(d) + 2 /\ LanesTaken(d) + 1 <= submitted[d] BY <1>10, <2>0, <2>2
    <3>6. submitted' = submitted OBVIOUS
    <3> HIDE DEF k
    <3> QED BY <3>1, <3>2, <3>3, <3>4, <3>5, <3>6 DEF LanesInChannel
  <2> QED BY <2>1, <2>2
<1> QED BY <1>5, <1>6, <1>7, <1>8, <1>9, <1>11 DEF LanesIInv

\* Every step of the producers and of the dispatcher keeps the invariant.
LEMMA LanesNextInv == ASSUME Lanes!DeliveryAssumption, LanesIInv, [Lanes!Next]_Lanes!vars PROVE LanesIInv'
<1>1. CASE \E d \in Dests : Lanes!Submit(d) BY <1>1, LanesSubmitInv
<1>2. CASE Lanes!Close BY <1>2, LanesCloseInv
<1>3. CASE Lanes!StartSend BY <1>3, LanesStartSendInv
<1>4. CASE Lanes!Accept BY <1>4, LanesAcceptInv
<1>5. CASE Lanes!Select \/ Lanes!NoticeClosed \/ UNCHANGED Lanes!vars BY <1>5, LanesQuietInv
<1>6. CASE \E x \in delayed : Lanes!Due(x) BY <1>6, LanesDueInv
<1>7. CASE \E x \in sends : Lanes!Settle(x) \/ Lanes!Retry(x) BY <1>7, LanesSettleInv, LanesRetryInv
<1> QED BY <1>1, <1>2, <1>3, <1>4, <1>5, <1>6, <1>7 DEF Lanes!Next, Lanes!Dispatch

\* What the invariant says of the deliveries is what the dispatcher promises.
LEMMA LanesInvIsExact == ASSUME Lanes!DeliveryAssumption, LanesIInv PROVE Lanes!TypeOK /\ Lanes!OneAtATime /\ Lanes!SettledInOrder /\ Lanes!NoLaneForgotten
<1>1. Lanes!OneAtATime /\ Lanes!SettledInOrder BY DEF LanesIInv, LanesBusy
<1>2. Lanes!NoLaneForgotten
  <2>1. ASSUME lanes_pc = "select", NEW d \in Dests, lanes[d] # <<>>, d \notin active
        PROVE  Lanes!Contains(ready, d) /\ Lanes!Cardinality(sends) = Workers
    <3>1. Lanes!Contains(ready, d) BY <2>1 DEF LanesIInv, LanesRemembered
    <3>2. ready # <<>> BY <3>1 DEF Lanes!Contains
    <3> QED BY <2>1, <3>1, <3>2 DEF LanesIInv, LanesWaits
  <2> QED BY <2>1 DEF Lanes!NoLaneForgotten
<1>3. Lanes!TypeOK
  <2> DEFINE P == sends \cup delayed \cup Lanes!Range(incoming) \cup UNION {Lanes!Range(lanes[d]) : d \in Dests}
  <2>0. LanesTyped /\ LanesPermitted /\ \A d \in Dests : LanesInLane(d) /\ LanesInChannel(d) BY DEF LanesIInv
  <2>1. ASSUME NEW x \in P PROVE x \in LanesOwed
    <3>0. /\ \/ x \in sends \cup delayed
             \/ \E i \in 1..Len(incoming) : incoming[i] = x
             \/ \E e \in Dests : \E i \in 1..Len(lanes[e]) : lanes[e][i] = x
          /\ x \in LanesItem
      <4>1. incoming \in Seq(LanesItem) /\ \A e \in Dests : lanes[e] \in Seq(LanesItem) BY <2>0 DEF LanesTyped
      <4>2. \A q \in Seq(LanesItem) : Lanes!Range(q) = {q[i] : i \in 1..Len(q)} /\ \A i \in 1..Len(q) : q[i] \in LanesItem
        BY DEF Lanes!Range
      <4>3. CASE x \in sends \cup delayed BY <2>0, <4>3 DEF LanesTyped
      <4>4. CASE x \in Lanes!Range(incoming)
        <5>1. PICK i \in 1..Len(incoming) : incoming[i] = x BY <4>1, <4>2, <4>4
        <5> QED BY <4>1, <4>2, <5>1
      <4>5. CASE x \in UNION {Lanes!Range(lanes[d]) : d \in Dests}
        <5>1. PICK e \in Dests : x \in Lanes!Range(lanes[e]) BY <4>5
        <5>2. PICK i \in 1..Len(lanes[e]) : lanes[e][i] = x BY <4>1, <4>2, <5>1
        <5> QED BY <4>1, <4>2, <5>1, <5>2
      <4> QED BY <4>3, <4>4, <4>5
    <3>1. x \in LanesItem /\ x.dest \in Dests /\ x.n \in Nat /\ x = [dest |-> x.dest, n |-> x.n]
      BY <3>0, LanesItems
    <3>2. PICK d \in Dests : d = x.dest BY <3>1
    <3>3. /\ Len(settled[d]) \in Nat /\ Len(lanes[d]) \in Nat /\ LanesGone(d) \in Nat /\ LanesTaken(d) \in Nat
          /\ submitted[d] \in Nat /\ Len(settled[d]) <= LanesGone(d) /\ LanesGone(d) <= LanesTaken(d)
          /\ LanesTaken(d) <= submitted[d] /\ LanesTaken(d) = LanesGone(d) + Len(lanes[d])
      BY <2>0, LanesLengths DEF LanesInChannel, LanesTaken
    <3>4. CASE x \in sends \cup delayed
      <4>1. x.n = Len(settled[d]) + 1 BY <2>0, <3>2, <3>4 DEF LanesInLane
      <4>2. d \in active BY <3>2, <3>4 DEF LanesIInv, LanesBusy
      <4>3. LanesGone(d) = Len(settled[d]) + 1 BY <4>2 DEF LanesGone
      <4>4. Len(settled[d]) < x.n /\ x.n <= submitted[d]
        <5>1. \A a, b, c \in Nat : a + 1 <= b /\ b <= c => a < a + 1 /\ a + 1 <= c OBVIOUS
        <5> HIDE DEF P
        <5> QED BY <3>3, <4>1, <4>3, <5>1, Zenon
      <4> QED BY <3>1, <3>2, <4>4 DEF LanesOwed
    <3>5. CASE \E i \in 1..Len(incoming) : incoming[i] = x
      <4>1. PICK i \in 1..Len(incoming) : incoming[i] = x BY <3>5
      <4>2. x.n \in (LanesTaken(d) + 1)..submitted[d] BY <2>0, <3>2, <4>1 DEF LanesInChannel
      <4> QED BY <3>1, <3>2, <3>3, <4>2 DEF LanesOwed
    <3>6. CASE \E e \in Dests : \E i \in 1..Len(lanes[e]) : lanes[e][i] = x
      <4>0. PICK e \in Dests : \E i \in 1..Len(lanes[e]) : lanes[e][i] = x BY <3>6
      <4>1. PICK i \in 1..Len(lanes[e]) : lanes[e][i] = x BY <4>0
      <4>2. LanesInLane(e) BY <2>0
      <4>3. x = [dest |-> e, n |-> LanesGone(e) + i] BY <4>1, <4>2 DEF LanesInLane
      <4>4. e = d /\ x.n = LanesGone(d) + i BY <3>2, <4>3
      <4>5. i \in 1..Len(lanes[d]) BY <4>1, <4>4
      <4>6. Len(settled[d]) < x.n /\ x.n <= submitted[d]
        <5> HIDE DEF P
        <5> QED BY <3>3, <4>4, <4>5
      <4> QED BY <3>1, <3>2, <4>6 DEF LanesOwed
    <3> QED BY <3>0, <3>4, <3>5, <3>6
  <2>2. P \subseteq LanesOwed BY <2>1
  <2>3. Lanes!IsFiniteSet(LanesOwed) /\ permits \in Nat /\ permits + Lanes!Cardinality(LanesOwed) = Pending BY <2>0 DEF LanesPermitted, LanesTyped
  <2> HIDE DEF P
  <2>4. Lanes!Cardinality(P) <= Lanes!Cardinality(LanesOwed) /\ Lanes!Cardinality(P) \in Nat /\ Lanes!Cardinality(LanesOwed) \in Nat
    BY <2>2, <2>3, FS_Subset, FS_CardinalityType, LanesSets
  <2>5. Lanes!Cardinality(P) <= Pending BY <2>3, <2>4
  <2>6. Lanes!Range(ready) \subseteq Dests BY <2>0 DEF LanesTyped, Lanes!Range
  <2> QED BY <2>0, <2>5, <2>6 DEF P, Lanes!TypeOK, LanesIInv, LanesTyped, LanesWorking
<1> QED BY <1>1, <1>2, <1>3

\* The deliveries of a Channel (delivery_dispatcher in mews-channel/src/runtime.rs), for
\* any destinations, loads and limits: a destination has one delivery under way, its
\* deliveries settle in the order of their submission although some are repeated, the
\* permits bound what is queued, and a lane that holds something is not forgotten.
THEOREM DeliveriesStayExact ==
  Lanes!DeliveryAssumption => (Lanes!Spec => [](Lanes!TypeOK /\ Lanes!OneAtATime /\ Lanes!SettledInOrder /\ Lanes!NoLaneForgotten))
<1> SUFFICES ASSUME Lanes!DeliveryAssumption
             PROVE  Lanes!Spec => [](Lanes!TypeOK /\ Lanes!OneAtATime /\ Lanes!SettledInOrder /\ Lanes!NoLaneForgotten)
  OBVIOUS
<1>1. Lanes!Init => LanesIInv BY LanesInitInv
<1>2. LanesIInv /\ [Lanes!Next]_Lanes!vars => LanesIInv' BY LanesNextInv
<1>3. LanesIInv => Lanes!TypeOK /\ Lanes!OneAtATime /\ Lanes!SettledInOrder /\ Lanes!NoLaneForgotten BY LanesInvIsExact
<1> QED BY <1>1, <1>2, <1>3, PTL DEF Lanes!Spec



--------------------
(* The conversations of a Channel (ChannelRuntime). *)

CONSTANTS
  Messages, Convs, Of, Invalid, None, MaxCrashes, MaxRepeats, MaxForeign

VARIABLES
  store, proc, hub, platform, budget, history

Chat == INSTANCE ChannelRuntime

\* An event of the Hub, as far as the Channel reads it.
ChatEvent == [kind : {"answer", "end"}, msg : Messages] \cup [kind : {"other"}, msg : {None}]

\* The process is about to launch the next message of a conversation.
ChatLaunching == proc.pc \in {"launch", "running", "done"}

\* The loop the process is in, also while it launches a Turn.
ChatPhase == IF ChatLaunching THEN proc.back ELSE proc.pc

\* How many events were handled, or are lost to a crash between acknowledgement and handling.
ChatMark == IF ChatPhase = "batch" THEN hub.checkpoint - Len(proc.batch) ELSE hub.checkpoint

\* What channel.db holds.
ChatStoreTyped ==
    /\ store \in [mapped : SUBSET Convs, pending : Seq(Messages \ Invalid), active : [Convs -> Messages \cup {None}]]
    /\ Chat!IsInjective(store.pending)
    /\ \A c \in Convs : store.active[c] = None \/ Of[store.active[c]] = c

\* What the Hub holds for this Channel.
ChatHubTyped ==
    /\ hub \in [turn : [Messages -> {"none", "running", "done"}], foreign : SUBSET Convs,
                subscribed : SUBSET Convs, events : Seq(ChatEvent), checkpoint : Nat]
    /\ hub.checkpoint <= Len(hub.events)

\* Where the process is, and that it has at hand what it needs there.
ChatProcTyped ==
    /\ proc \in [pc : {"down", "subscribing", "recovering", "launching", "launch", "running", "done",
                       "select", "reject", "map", "subscribe", "enqueue", "ack", "acknowledge", "batch"},
                 conv : Convs \cup {None}, msg : Messages \cup {None},
                 back : {"recovering", "launching", "select", "batch"},
                 batch : Seq(ChatEvent), todo : SUBSET store.mapped]
    /\ proc.pc \in {"running", "done", "reject", "map", "subscribe", "enqueue", "ack"} =>
         proc.msg \in Messages /\ proc.conv = Of[proc.msg]
    /\ proc.pc \in {"map", "subscribe", "enqueue", "ack"} => proc.msg \notin Invalid
    /\ ChatLaunching \/ proc.pc \in {"subscribe", "enqueue", "ack"} => proc.conv \in store.mapped

\* What the platform sent and received.
ChatPlatformTyped == platform \in [unacked : SUBSET Messages, answers : Seq(Messages)]

\* What was stored and started.
ChatHistoryTyped == history \in [stored : Seq(Messages), started : Seq(Messages)]

\* The types of all of it.
ChatTyped == ChatStoreTyped /\ ChatHubTyped /\ ChatProcTyped /\ ChatPlatformTyped /\ ChatHistoryTyped

\* What the process holds of the events is what follows those that were handled.
ChatBatched ==
    /\ ChatMark \in Nat
    /\ proc.pc = "acknowledge" \/ ChatPhase = "batch" =>
         /\ ChatMark + Len(proc.batch) <= Len(hub.events)
         /\ \A i \in 1..Len(proc.batch) : proc.batch[i] = hub.events[ChatMark + i]

\* The events of a Turn exist once, and after it has ended.
ChatOnce ==
    \A i, j \in 1..Len(hub.events) : hub.events[i].kind # "other" =>
        /\ hub.turn[hub.events[i].msg] = "done"
        /\ hub.events[i] = hub.events[j] => i = j

\* An answer that has crossed was handled.
ChatCrossed ==
    /\ Chat!IsInjective(platform.answers)
    /\ \A k \in 1..Len(platform.answers) :
         \E i \in 1..ChatMark : hub.events[i] = [kind |-> "answer", msg |-> platform.answers[k]]

\* Message m is in channel.db and waits for its Turn.
ChatPending(m) == Chat!Contains(store.pending, m)

\* What is pending or active belongs to a mapped conversation, and the process is subscribed
\* to every mapped Session but the one it has just created.
ChatReached ==
    /\ \A m \in Messages : ChatPending(m) \/ store.active[Of[m]] = m => Of[m] \in store.mapped
    /\ proc.pc \notin {"down", "subscribing"} =>
         \A c \in store.mapped : c \in hub.subscribed \/ (proc.pc = "subscribe" /\ c = proc.conv)
    /\ proc.pc = "map" => proc.conv \notin store.mapped
    /\ proc.pc = "subscribe" => store.active[proc.conv] = None

\* The message under way is pending, and its Turn is known.
ChatLaunched ==
    proc.pc \in {"running", "done"} =>
        ChatPending(proc.msg) /\ hub.turn[proc.msg] # "none" /\ store.active[proc.conv] = None

\* The end of the Turn of m is among the events not yet handled.
ChatAhead(m) == \E i \in (ChatMark + 1)..Len(hub.events) : hub.events[i] = [kind |-> "end", msg |-> m]

\* A Turn that has ended, and that the process counts on, is one whose end it will see.
ChatFollowed ==
    proc.pc \notin {"down", "subscribing"} =>
        \A m \in Messages : hub.turn[m] = "done" =>
            /\ store.active[Of[m]] = m => ChatAhead(m) \/ (ChatPhase = "recovering" /\ Of[m] \in proc.todo)
            /\ proc.pc = "running" /\ proc.msg = m => ChatAhead(m)

\* A pending message waits for a Turn, or the process is about to launch it.
ChatWaited ==
    ChatPhase \notin {"down", "subscribing", "recovering"} =>
        \A m \in Messages : ChatPending(m) =>
            \/ store.active[Of[m]] # None
            \/ ChatPhase = "launching" /\ Of[m] \in proc.todo
            \/ (ChatLaunching \/ proc.pc = "ack") /\ Of[m] = proc.conv

\* Message m was stored once.
ChatKnown(m) == Chat!Contains(history.stored, m)

\* Every message that was stored is pending or has become a Turn.
ChatStored ==
    /\ Chat!IsInjective(history.stored)
    /\ \A m \in Messages : hub.turn[m] # "none" <=> Chat!Contains(history.started, m)
    /\ \A m \in Messages : ChatPending(m) => ChatKnown(m)
    /\ \A m \in Messages : ChatKnown(m) /\ hub.turn[m] = "none" => ChatPending(m)

\* Pending messages without a Turn stand in the order in which they were stored.
ChatQueued ==
    \A i, j \in 1..Len(store.pending), k, l \in 1..Len(history.stored) :
        /\ store.pending[i] = history.stored[k] /\ store.pending[j] = history.stored[l]
        /\ hub.turn[history.stored[k]] = "none" /\ hub.turn[history.stored[l]] = "none"
        /\ i < j
        => k < l

\* The inductive invariant.
ChatIInv ==
    /\ ChatTyped /\ ChatBatched /\ ChatOnce /\ ChatCrossed /\ ChatReached /\ ChatLaunched /\ ChatFollowed /\ ChatWaited /\ ChatStored
    /\ ChatQueued /\ Chat!TurnsInOrder

--------------------
\* What the provers need of the constants, in parts.
LEMMA ChatConstant ==
  ASSUME Chat!ChannelAssumption
  PROVE  /\ None \notin Messages /\ None \notin Convs /\ Invalid \subseteq Messages
         /\ \A m \in Messages : Of[m] \in Convs
  BY DEF Chat!ChannelAssumption

\* The fields of an event.
LEMMA ChatEventIs ==
  ASSUME Chat!ChannelAssumption
  PROVE  /\ \A e \in ChatEvent : /\ e = [kind |-> e.kind, msg |-> e.msg]
                                 /\ e.kind \in {"answer", "end", "other"}
                                 /\ e.kind # "other" => e.msg \in Messages
         /\ \A m \in Messages : [kind |-> "answer", msg |-> m] \in ChatEvent /\ [kind |-> "end", msg |-> m] \in ChatEvent
         /\ [kind |-> "other", msg |-> None] \in ChatEvent
  BY DEF ChatEvent

\* What is appended comes last, and what was there stays where it was.
LEMMA ChatAppendIs ==
  ASSUME NEW S, NEW q \in Seq(S), NEW x \in S
  PROVE  /\ Append(q, x) \in Seq(S) /\ Len(Append(q, x)) = Len(q) + 1 /\ Len(q) \in Nat
         /\ Append(q, x)[Len(q) + 1] = x /\ \A i \in 1..Len(q) : Append(q, x)[i] = q[i]
         /\ \A y : Chat!Contains(Append(q, x), y) <=> Chat!Contains(q, y) \/ y = x
         /\ Chat!IsInjective(q) /\ ~Chat!Contains(q, x) => Chat!IsInjective(Append(q, x))
<1> DEFINE r == Append(q, x)
<1>1. /\ r \in Seq(S) /\ Len(r) = Len(q) + 1 /\ Len(q) \in Nat /\ r[Len(q) + 1] = x
      /\ \A i \in 1..Len(q) : r[i] = q[i]
  OBVIOUS
<1> HIDE DEF r
<1>2. 1..Len(r) = 1..Len(q) \cup {Len(q) + 1} BY <1>1
<1>3. \A y : Chat!Contains(r, y) <=> Chat!Contains(q, y) \/ y = x BY <1>1, <1>2 DEF Chat!Contains
<1>4. ASSUME Chat!IsInjective(q), ~Chat!Contains(q, x) PROVE Chat!IsInjective(r)
  <2>1. DOMAIN r = 1..Len(r) /\ DOMAIN q = 1..Len(q) BY <1>1
  <2>2. \A i \in 1..Len(q) : q[i] # x BY <1>4 DEF Chat!Contains
  <2> QED BY <1>1, <1>2, <1>4, <2>1, <2>2 DEF Chat!IsInjective
<1> QED BY <1>1, <1>3, <1>4 DEF r

\* A row less: the others keep their order.
LEMMA ChatRemoveIs ==
  ASSUME NEW S, NEW q \in Seq(S), Chat!IsInjective(q), NEW i \in 1..Len(q), NEW r, r = Chat!RemoveAt(q, i)
  PROVE  /\ r \in Seq(S) /\ Len(r) = Len(q) - 1 /\ Len(q) \in Nat
         /\ \A j \in 1..Len(r) : r[j] = q[IF j < i THEN j ELSE j + 1]
         /\ \A y : Chat!Contains(r, y) <=> Chat!Contains(q, y) /\ y # q[i]
         /\ Chat!IsInjective(r)
<1>1. r = SubSeq(q, 1, i - 1) \o SubSeq(q, i + 1, Len(q)) BY DEF Chat!RemoveAt
<1>2. /\ r \in Seq(S) /\ Len(r) = Len(q) - 1 /\ Len(q) \in Nat
      /\ \A j \in 1..Len(r) : r[j] = q[IF j < i THEN j ELSE j + 1]
  <2>1. Len(q) \in Nat /\ i \in 1..Len(q) OBVIOUS
  <2> DEFINE a == SubSeq(q, 1, i - 1)
             b == SubSeq(q, i + 1, Len(q))
  <2>2. /\ a \in Seq(S) /\ Len(a) = i - 1 /\ \A j \in 1..(i - 1) : a[j] = q[j]
        /\ b \in Seq(S) /\ Len(b) = Len(q) - i /\ \A j \in 1..(Len(q) - i) : b[j] = q[i + j]
    <3>1. \A j \in 1..Len(q) : q[j] \in S OBVIOUS
    <3>2. /\ a = [j \in 1..(i - 1) |-> q[j]]
          /\ b = [j \in 1..(Len(q) - i) |-> q[i + j]]
      <4>1. \A j \in 1..(Len(q) - i) : (i + 1) + j - 1 = i + j BY <2>1
      <4>2. (i - 1) - 1 + 1 = i - 1 /\ Len(q) - (i + 1) + 1 = Len(q) - i BY <2>1
      <4> QED BY <2>1, <4>1, <4>2
    <3>3. i - 1 \in Nat /\ Len(q) - i \in Nat BY <2>1
    <3>4. \A j \in 1..(Len(q) - i) : i + j \in 1..Len(q) BY <2>1
    <3>5. \A j \in 1..(i - 1) : j \in 1..Len(q) BY <2>1
    <3> HIDE DEF a, b
    <3>6. a \in Seq(S) /\ Len(a) = i - 1 BY <3>1, <3>2, <3>3, <3>5
    <3>7. b \in Seq(S) /\ Len(b) = Len(q) - i BY <3>1, <3>2, <3>3, <3>4
    <3> QED BY <3>2, <3>6, <3>7
  <2>3. r = a \o b BY <1>1
  <2> HIDE DEF a, b
  <2>4. r \in Seq(S) /\ Len(r) = (i - 1) + (Len(q) - i)
    <3>1. \A u, v \in Seq(S) : u \o v \in Seq(S) /\ Len(u \o v) = Len(u) + Len(v) OBVIOUS
    <3> QED BY <2>2, <2>3, <3>1
  <2>5. Len(r) = Len(q) - 1 BY <2>1, <2>4
  <2>6. ASSUME NEW j \in 1..Len(r) PROVE r[j] = q[IF j < i THEN j ELSE j + 1]
    <3>1. CASE j < i  
      <4>1. j \in 1..(i - 1) BY <2>1, <2>5, <3>1
      <4> QED BY <2>2, <2>3, <2>4, <3>1, <4>1
    <3>2. CASE ~(j < i)
      <4>1. j - (i - 1) \in 1..(Len(q) - i) /\ i + (j - (i - 1)) = j + 1 /\ ~(j <= i - 1) BY <2>1, <2>5, <3>2
      <4>2. r[j] = b[j - (i - 1)] BY <2>1, <2>2, <2>3, <2>4, <4>1
      <4> QED BY <2>2, <3>2, <4>1, <4>2
    <3> QED BY <3>1, <3>2
  <2> QED BY <2>1, <2>4, <2>5, <2>6
<1>3. /\ \A j \in 1..Len(r) : (IF j < i THEN j ELSE j + 1) \in 1..Len(q) \ {i}
      /\ \A j \in 1..Len(q) \ {i} : \E k \in 1..Len(r) : (IF k < i THEN k ELSE k + 1) = j
  <2>1. \A j \in 1..Len(r) : (IF j < i THEN j ELSE j + 1) \in 1..Len(q) \ {i} BY <1>2
  <2>2. ASSUME NEW j \in 1..Len(q) \ {i} PROVE \E k \in 1..Len(r) : (IF k < i THEN k ELSE k + 1) = j
    <3>1. CASE j < i BY <1>2, <3>1
    <3>2. CASE j > i
      <4>1. j - 1 \in 1..Len(r) /\ ~(j - 1 < i) /\ (j - 1) + 1 = j BY <1>2, <3>2
      <4> QED BY <4>1
    <3> QED BY <3>1, <3>2
  <2> QED BY <2>1, <2>2
<1>4. DOMAIN q = 1..Len(q) /\ DOMAIN r = 1..Len(r) BY <1>2
<1>5. \A j \in 1..Len(q) : q[j] = q[i] => j = i BY <1>4 DEF Chat!IsInjective
<1>6. ASSUME NEW y PROVE Chat!Contains(r, y) <=> Chat!Contains(q, y) /\ y # q[i]
  <2>1. ASSUME Chat!Contains(r, y) PROVE Chat!Contains(q, y) /\ y # q[i]
    <3>1. PICK j \in 1..Len(r) : r[j] = y BY <2>1 DEF Chat!Contains
    <3>2. PICK k \in 1..Len(q) \ {i} : k = (IF j < i THEN j ELSE j + 1) BY <1>3
    <3>3. q[k] = y BY <1>2, <3>1, <3>2
    <3> QED BY <1>5, <3>3 DEF Chat!Contains
  <2>2. ASSUME Chat!Contains(q, y), y # q[i] PROVE Chat!Contains(r, y)
    <3>1. PICK j \in 1..Len(q) : q[j] = y BY <2>2 DEF Chat!Contains
    <3>2. j \in 1..Len(q) \ {i} BY <2>2, <3>1
    <3>3. PICK k \in 1..Len(r) : (IF k < i THEN k ELSE k + 1) = j BY <1>3, <3>2
    <3>4. r[k] = y BY <1>2, <3>1, <3>3
    <3> QED BY <3>4 DEF Chat!Contains
  <2> QED BY <2>1, <2>2
<1>7. Chat!IsInjective(r)
  <2>1. ASSUME NEW j \in 1..Len(r), NEW k \in 1..Len(r), r[j] = r[k] PROVE j = k
    <3>1. PICK a \in 1..Len(q) : a = (IF j < i THEN j ELSE j + 1) BY <1>3
    <3>2. PICK b \in 1..Len(q) : b = (IF k < i THEN k ELSE k + 1) BY <1>3
    <3>3. q[a] = q[b] BY <1>2, <2>1, <3>1, <3>2
    <3>4. a = b BY <1>4, <3>3 DEF Chat!IsInjective
    <3> QED BY <3>1, <3>2, <3>4
  <2> QED BY <1>4, <2>1 DEF Chat!IsInjective
<1> QED BY <1>2, <1>6, <1>7

\* What a step keeps that changes no Turn, no event, no answer, and no message pending or active.
LEMMA ChatMoves ==
  ASSUME Chat!ChannelAssumption, ChatIInv, history' = history,
         store'.pending = store.pending, store'.active = store.active,
         hub'.turn = hub.turn, hub'.events = hub.events, platform'.answers = platform.answers,
         ChatTyped', ChatBatched', ChatReached', ChatLaunched', ChatFollowed', ChatWaited', ChatMark <= ChatMark'
  PROVE  ChatIInv'
<1>1. ChatOnce' /\ ChatStored' /\ ChatQueued' /\ Chat!TurnsInOrder'
  BY DEF ChatIInv, ChatOnce, ChatStored, ChatQueued, Chat!TurnsInOrder, ChatPending, ChatKnown
<1>2. ChatCrossed'
  <2>1. ChatMark \in Nat /\ ChatMark' \in Nat BY DEF ChatIInv, ChatBatched
  <2>2. 1..ChatMark \subseteq 1..ChatMark' BY <2>1
  <2> QED BY <2>2 DEF ChatIInv, ChatCrossed
<1> QED BY <1>1, <1>2 DEF ChatIInv

\* A step of the process alone keeps what is not about the process.
LEMMA ChatProcMoves ==
  ASSUME Chat!ChannelAssumption, ChatIInv, UNCHANGED <<store, hub, platform, history>>,
         ChatProcTyped', ChatBatched', ChatReached', ChatLaunched', ChatFollowed', ChatWaited', ChatMark <= ChatMark'
  PROVE  ChatIInv'
<1>1. ChatTyped' BY DEF ChatIInv, ChatTyped, ChatStoreTyped, ChatHubTyped, ChatPlatformTyped, ChatHistoryTyped
<1> QED BY <1>1, ChatMoves

\* The process is started again: what it held is gone, and so is a batch that it had acknowledged.
LEMMA ChatOpenInv == ASSUME Chat!ChannelAssumption, ChatIInv, Chat!Open PROVE ChatIInv'
<1>1. /\ UNCHANGED <<store, hub, platform, history>> /\ proc.pc = "down"
      /\ proc' = [proc EXCEPT !.pc = "subscribing", !.todo = store.mapped, !.batch = <<>>]
  BY DEF Chat!Open, Chat!At
<1>2. ChatProcTyped /\ ChatStoreTyped /\ ChatHubTyped BY DEF ChatIInv, ChatTyped
<1>3. /\ proc'.pc = "subscribing" /\ proc'.todo = store.mapped /\ proc'.batch = <<>>
      /\ proc'.conv = proc.conv /\ proc'.msg = proc.msg /\ proc'.back = proc.back
  BY <1>1, <1>2 DEF ChatProcTyped
<1>a. <<>> \in Seq(ChatEvent) /\ store.mapped \subseteq Convs BY <1>2 DEF ChatStoreTyped
<1>b. proc' = [pc |-> "subscribing", conv |-> proc.conv, msg |-> proc.msg, back |-> proc.back,
               batch |-> <<>>, todo |-> store.mapped]
  BY <1>1, <1>2 DEF ChatProcTyped
<1>4. ChatProcTyped' BY <1>1, <1>2, <1>3, <1>a, <1>b DEF ChatProcTyped, ChatLaunching
<1>5. ChatPhase = "down" /\ ChatPhase' = "subscribing" /\ ChatMark' = ChatMark /\ ChatMark \in Nat
  BY <1>1, <1>3 DEF ChatPhase, ChatLaunching, ChatMark, ChatIInv, ChatBatched
<1>6. ChatBatched' /\ ChatLaunched' /\ ChatFollowed' /\ ChatWaited'
  BY <1>3, <1>5 DEF ChatBatched, ChatLaunched, ChatFollowed, ChatWaited
<1>7. ChatReached' BY <1>1, <1>3 DEF ChatIInv, ChatReached, ChatPending
<1> QED BY <1>1, <1>4, <1>5, <1>6, <1>7, ChatProcMoves

\* A process that goes down leaves all but its place as it is.
LEMMA ChatDownInv ==
  ASSUME Chat!ChannelAssumption, ChatIInv, UNCHANGED <<store, hub, platform, history>>, Chat!Goto("down") PROVE ChatIInv'
<1>1. proc' = [proc EXCEPT !.pc = "down"]  BY DEF Chat!Goto
<1>2. ChatProcTyped /\ ChatStoreTyped /\ ChatHubTyped BY DEF ChatIInv, ChatTyped
<1>3. /\ proc'.pc = "down" /\ proc'.todo = proc.todo /\ proc'.batch = proc.batch
      /\ proc' = [pc |-> "down", conv |-> proc.conv, msg |-> proc.msg, back |-> proc.back,
                  batch |-> proc.batch, todo |-> proc.todo]
  BY <1>1, <1>2 DEF ChatProcTyped
<1>4. ChatProcTyped' BY <1>1, <1>2, <1>3 DEF ChatProcTyped, ChatLaunching
<1>5. ChatPhase' = "down" /\ ChatMark' = hub.checkpoint
  BY <1>1, <1>3 DEF ChatPhase, ChatLaunching, ChatMark
<1>6. ChatMark \in Nat /\ hub.checkpoint \in Nat /\ Len(proc.batch) \in Nat
  BY <1>2 DEF ChatIInv, ChatBatched, ChatHubTyped, ChatProcTyped
<1>7. ChatMark <= ChatMark' BY <1>5, <1>6 DEF ChatMark
<1>8. ChatBatched' /\ ChatLaunched' /\ ChatFollowed' /\ ChatWaited'
  BY <1>3, <1>5, <1>6 DEF ChatBatched, ChatLaunched, ChatFollowed, ChatWaited
<1>9. ChatReached' BY <1>1, <1>3 DEF ChatIInv, ChatReached, ChatPending
<1> QED BY <1>1, <1>4, <1>7, <1>8, <1>9, ChatProcMoves

\* A step between the phases in which no batch is in hand.
LEMMA ChatTurnings ==
  ASSUME Chat!ChannelAssumption, ChatIInv, UNCHANGED <<store, hub, platform, history>>,
         proc.pc \in {"recovering", "launching", "select"},
         NEW n \in {"recovering", "launching", "select", "launch", "reject", "map", "enqueue"},
         NEW b \in {"recovering", "launching", "select", "batch"}, n = "launch" => b \in {"recovering", "launching"},
         NEW t \in SUBSET store.mapped, NEW c \in Convs \cup {None}, NEW m \in Messages \cup {None},
         n \in {"reject", "map", "enqueue"} => m \in Messages /\ c = Of[m],
         n \in {"map", "enqueue"} => m \notin Invalid, n = "map" => c \notin store.mapped,
         n \in {"launch", "enqueue"} => c \in store.mapped,
         proc' = [pc |-> n, conv |-> c, msg |-> m, back |-> b, batch |-> proc.batch, todo |-> t],
         ChatPhase = "recovering" =>
            /\ n = "launch" => b = "recovering"
            /\ \A x \in Messages : store.active[Of[x]] = x /\ hub.turn[x] = "done" /\ Of[x] \in proc.todo =>
                 (n = "recovering" \/ n = "launch") /\ Of[x] \in t,
         \A x \in Messages : ChatPending(x) /\ store.active[Of[x]] = None =>
            \/ n = "recovering" \/ (n = "launch" /\ b = "recovering")
            \/ (n = "launching" \/ n = "launch") /\ Of[x] \in t
            \/ n = "launch" /\ Of[x] = c
  PROVE  ChatIInv'
<1>0. ChatProcTyped /\ ChatStoreTyped BY DEF ChatIInv, ChatTyped
<1>1. /\ proc'.pc = n /\ proc'.back = b /\ proc'.conv = c /\ proc'.msg = m /\ proc'.todo = t
      /\ proc'.batch = proc.batch
  OBVIOUS
<1>2. /\ ChatPhase = proc.pc /\ ChatPhase' = (IF n = "launch" THEN b ELSE n) /\ ChatPhase' # "batch" /\ ChatPhase # "batch"
      /\ ~ChatLaunching /\ ChatLaunching' = (n = "launch")
  BY <1>1 DEF ChatPhase, ChatLaunching
<1>3. ChatMark = hub.checkpoint /\ ChatMark' = hub.checkpoint /\ ChatMark \in Nat
  BY <1>2 DEF ChatMark, ChatIInv, ChatBatched
<1>4. ChatBatched' /\ ChatLaunched' BY <1>1, <1>2, <1>3 DEF ChatBatched, ChatLaunched
<1>5. ChatReached' BY <1>1 DEF ChatIInv, ChatReached, ChatPending
<1>6. ChatProcTyped'
  <2>1. c \in Convs \cup {None} /\ t \subseteq store'.mapped /\ proc.batch \in Seq(ChatEvent)
    BY <1>0 DEF ChatProcTyped
  <2>2. proc' \in [pc : {"down", "subscribing", "recovering", "launching", "launch", "running", "done",
                       "select", "reject", "map", "subscribe", "enqueue", "ack", "acknowledge", "batch"},
                 conv : Convs \cup {None}, msg : Messages \cup {None},
                 back : {"recovering", "launching", "select", "batch"},
                 batch : Seq(ChatEvent), todo : SUBSET store'.mapped]
    BY <2>1
  <2> QED BY <1>1, <1>2, <2>2 DEF ChatProcTyped
<1>7. ChatFollowed'
  <2>1. \A x : ChatAhead(x)' <=> ChatAhead(x) BY <1>3 DEF ChatAhead
  <2>2. ChatFollowed /\ proc.pc \notin {"down", "subscribing"} /\ n # "running"  BY DEF ChatIInv
  <2>3. ASSUME NEW x \in Messages, hub.turn[x] = "done", store.active[Of[x]] = x
        PROVE  ChatAhead(x) \/ (ChatPhase' = "recovering" /\ Of[x] \in t)
    <3>1. CASE ChatAhead(x) BY <3>1
    <3>2. CASE ChatPhase = "recovering" /\ Of[x] \in proc.todo  BY <1>2, <2>3, <3>2
    <3> QED BY <2>2, <2>3, <3>1, <3>2 DEF ChatFollowed
  <2> QED BY <1>1, <2>1, <2>2, <2>3 DEF ChatFollowed
<1>8. ChatWaited' BY <1>1, <1>2 DEF ChatWaited, ChatPending
<1> QED BY <1>3, <1>4, <1>5, <1>6, <1>7, <1>8, ChatProcMoves

\* Opening launches the mapped conversations one after another.
LEMMA ChatLaunchAllInv == ASSUME Chat!ChannelAssumption, ChatIInv, Chat!LaunchAll PROVE ChatIInv'
<1>1. UNCHANGED <<store, hub, platform, history>> /\ proc.pc = "launching"
  BY DEF Chat!LaunchAll, Chat!At
<1>2. /\ ChatProcTyped /\ ChatStoreTyped /\ ChatPhase = "launching" /\ ~ChatLaunching
      /\ proc.todo \subseteq store.mapped /\ store.mapped \subseteq Convs
      /\ proc.conv \in Convs \cup {None} /\ proc.msg \in Messages \cup {None}
      /\ proc.back \in {"recovering", "launching", "select", "batch"}
  BY <1>1 DEF ChatIInv, ChatTyped, ChatPhase, ChatLaunching, ChatProcTyped, ChatStoreTyped
<1>3. \A x \in Messages : ChatPending(x) /\ store.active[Of[x]] = None => Of[x] \in proc.todo
  BY <1>1, <1>2 DEF ChatIInv, ChatWaited
<1>4. CASE proc.todo = {} /\ Chat!Goto("select")
  <2>1. proc' = [pc |-> "select", conv |-> proc.conv, msg |-> proc.msg, back |-> proc.back,
                 batch |-> proc.batch, todo |-> proc.todo]
    BY <1>2, <1>4 DEF ChatProcTyped, Chat!Goto
  <2> QED BY <1>1, <1>2, <1>3, <1>4, <2>1, ChatTurnings
<1>5. ASSUME NEW c \in proc.todo,
             proc' = [proc EXCEPT !.pc = "launch", !.conv = c, !.back = "launching", !.todo = @ \ {c}]
      PROVE  ChatIInv'
  <2>1. proc' = [pc |-> "launch", conv |-> c, msg |-> proc.msg, back |-> "launching",
                 batch |-> proc.batch, todo |-> proc.todo \ {c}]
    BY <1>2, <1>5 DEF ChatProcTyped
  <2>2. c \in Convs \cup {None} /\ proc.todo \ {c} \in SUBSET store.mapped /\ c \in store.mapped BY <1>2
  <2>3. \A x \in Messages : ChatPending(x) /\ store.active[Of[x]] = None => Of[x] \in proc.todo \ {c} \/ Of[x] = c
    BY <1>3
  <2> QED BY <1>1, <1>2, <2>1, <2>2, <2>3, ChatTurnings
<1> QED BY <1>4, <1>5 DEF Chat!LaunchAll

\* A message of the platform is taken to be rejected, mapped or stored.
LEMMA ChatReceiveInv == ASSUME Chat!ChannelAssumption, ChatIInv, NEW m \in Messages, Chat!Receive(m) PROVE ChatIInv'
<1>1. UNCHANGED <<store, hub, platform, history>> /\ proc.pc = "select"
  BY DEF Chat!Receive, Chat!At
<1>2. /\ ChatProcTyped /\ ChatStoreTyped /\ ChatPhase = "select" /\ ~ChatLaunching
      /\ proc.todo \subseteq store.mapped /\ store.mapped \subseteq Convs
      /\ proc.back \in {"recovering", "launching", "select", "batch"}
  BY <1>1 DEF ChatIInv, ChatTyped, ChatPhase, ChatLaunching, ChatProcTyped, ChatStoreTyped
<1>3. \A x \in Messages : ChatPending(x) => store.active[Of[x]] # None
  BY <1>1, <1>2 DEF ChatIInv, ChatWaited
<1>4. PICK n \in {"reject", "map", "enqueue"} :
        n = IF m \in Invalid THEN "reject" ELSE IF Of[m] \in store.mapped THEN "enqueue" ELSE "map"
  OBVIOUS
<1>5. proc' = [proc EXCEPT !.msg = m, !.conv = Of[m], !.pc = n]
  BY <1>4 DEF Chat!Receive
<1>6. proc' = [pc |-> n, conv |-> Of[m], msg |-> m, back |-> proc.back,
               batch |-> proc.batch, todo |-> proc.todo]
  BY <1>2, <1>5 DEF ChatProcTyped
<1>7. Of[m] \in Convs BY ChatConstant
<1>8. /\ n \in {"map", "enqueue"} => m \notin Invalid
      /\ n = "enqueue" => Of[m] \in store.mapped
      /\ n = "map" => Of[m] \notin store.mapped
  BY <1>4
<1> QED BY <1>1, <1>2, <1>3, <1>6, <1>7, <1>8, ChatTurnings

\* A conversation with a pending message has an oldest one.
LEMMA ChatWaitingIs ==
  ASSUME ChatStoreTyped, NEW c, Chat!Waiting(c) = {}, NEW m \in Messages, ChatPending(m) PROVE Of[m] # c
<1>1. store.pending \in Seq(Messages \ Invalid) /\ Len(store.pending) \in Nat
      /\ DOMAIN store.pending = 1..Len(store.pending)
  BY DEF ChatStoreTyped
<1> SUFFICES ASSUME Of[m] = c PROVE FALSE OBVIOUS
<1>2. PICK k \in 1..Len(store.pending) : store.pending[k] = m BY DEF ChatPending, Chat!Contains
<1> DEFINE T == Chat!OfConversation(c)
<1>3. T \subseteq Nat /\ T # {} BY <1>1, <1>2 DEF Chat!OfConversation
<1> HIDE DEF T
<1>4. PICK i \in T : \A j \in T : ~(<<j, i>> \in OpToRel(<, Nat))
  BY <1>3, NatLessThanWellFounded, WFMin, Zenon
<1>5. \A j \in T : ~(j < i) BY <1>3, <1>4 DEF OpToRel
<1>6. \A j \in T : i <= j BY <1>3, <1>5
<1>7. i \in Chat!Waiting(c) BY <1>6 DEF Chat!Waiting, T
<1> QED BY <1>7

\* Recovery settles the active Turns that have ended, and looks at every one (finish_turn).
LEMMA ChatRecoverInv == ASSUME Chat!ChannelAssumption, ChatIInv, Chat!Recover PROVE ChatIInv'
<1>1. UNCHANGED <<hub, platform, history>> /\ proc.pc = "recovering"
  BY DEF Chat!Recover, Chat!At
<1>2. /\ ChatProcTyped /\ ChatStoreTyped /\ ChatPhase = "recovering" /\ ~ChatLaunching
      /\ proc.todo \subseteq store.mapped /\ store.mapped \subseteq Convs
      /\ proc.conv \in Convs \cup {None} /\ proc.msg \in Messages \cup {None} /\ proc.batch \in Seq(ChatEvent)
      /\ proc.back \in {"recovering", "launching", "select", "batch"}
  BY <1>1 DEF ChatIInv, ChatTyped, ChatPhase, ChatLaunching, ChatProcTyped, ChatStoreTyped
<1>3. CASE /\ proc.todo = {} /\ UNCHANGED store
           /\ proc' = [proc EXCEPT !.pc = "launching", !.todo = store.mapped]
  <2>1. proc' = [pc |-> "launching", conv |-> proc.conv, msg |-> proc.msg, back |-> proc.back,
                 batch |-> proc.batch, todo |-> store.mapped]
    BY <1>2, <1>3 DEF ChatProcTyped
  <2>2. \A x \in Messages : ChatPending(x) => Of[x] \in store.mapped BY DEF ChatIInv, ChatReached
  <2>3. store.mapped \in SUBSET store.mapped OBVIOUS
  <2>4. \A x \in Messages : ~(Of[x] \in proc.todo) BY <1>3
  <2>5. UNCHANGED <<store, hub, platform, history>> BY <1>1, <1>3
  <2> QED BY <1>1, <1>2, <2>1, <2>2, <2>3, <2>4, <2>5, ChatTurnings, SMTT(30)
<1>4. ASSUME NEW c \in proc.todo, ~(store.active[c] # None /\ hub.turn[store.active[c]] = "done"),
             UNCHANGED store, proc' = [proc EXCEPT !.todo = @ \ {c}]
      PROVE  ChatIInv'
  <2>1. proc' = [pc |-> "recovering", conv |-> proc.conv, msg |-> proc.msg, back |-> proc.back,
                 batch |-> proc.batch, todo |-> proc.todo \ {c}]
    BY <1>1, <1>2, <1>4 DEF ChatProcTyped
  <2>2. proc.todo \ {c} \in SUBSET store.mapped BY <1>2
  <2>3. \A x \in Messages : store.active[Of[x]] = x /\ hub.turn[x] = "done" /\ Of[x] \in proc.todo =>
          Of[x] \in proc.todo \ {c}
    BY <1>4, ChatConstant
  <2>4. UNCHANGED <<store, hub, platform, history>> BY <1>1, <1>4
  <2> QED BY <1>1, <1>2, <2>1, <2>2, <2>3, <2>4, ChatTurnings, SMTT(30)
<1>5. ASSUME NEW c \in proc.todo, store' = [store EXCEPT !.active[c] = None],
             proc' = [proc EXCEPT !.pc = "launch", !.conv = c, !.back = "recovering", !.todo = @ \ {c}]
      PROVE  ChatIInv'
  <2>1. /\ proc' = [pc |-> "launch", conv |-> c, msg |-> proc.msg, back |-> "recovering",
                    batch |-> proc.batch, todo |-> proc.todo \ {c}]
        /\ proc'.pc = "launch" /\ proc'.conv = c /\ proc'.back = "recovering" /\ proc'.todo = proc.todo \ {c}
        /\ proc'.batch = proc.batch
    BY <1>2, <1>5 DEF ChatProcTyped
  <2>2. /\ c \in Convs /\ c \in store.mapped /\ proc.todo \ {c} \in SUBSET store.mapped BY <1>2
  <2>3. /\ store'.mapped = store.mapped /\ store'.pending = store.pending
        /\ store'.active = [store.active EXCEPT ![c] = None]
        /\ store' = [mapped |-> store.mapped, pending |-> store.pending, active |-> store'.active]
        /\ store'.active[c] = None /\ \A d \in Convs \ {c} : store'.active[d] = store.active[d]
        /\ store'.active \in [Convs -> Messages \cup {None}]
    BY <1>2, <1>5, <2>2 DEF ChatStoreTyped
  <2>4. ChatPhase' = "recovering" /\ ChatMark' = hub.checkpoint /\ ChatMark = hub.checkpoint /\ ChatMark \in Nat /\ ChatLaunching'
    BY <1>1, <1>2, <2>1 DEF ChatPhase, ChatLaunching, ChatMark, ChatIInv, ChatBatched
  <2>5. ChatTyped'
    <3>1. ChatStoreTyped' BY <1>2, <2>3 DEF ChatStoreTyped
    <3>2. ChatProcTyped' BY <1>2, <2>1, <2>2, <2>3 DEF ChatProcTyped
    <3> QED BY <1>1, <3>1, <3>2 DEF ChatIInv, ChatTyped, ChatHubTyped, ChatPlatformTyped, ChatHistoryTyped
  <2>6. ChatBatched' /\ ChatLaunched' /\ ChatWaited' BY <2>1, <2>4 DEF ChatBatched, ChatLaunched, ChatWaited
  <2>7. ChatOnce' /\ ChatCrossed' /\ ChatStored' /\ ChatQueued' /\ Chat!TurnsInOrder'
    BY <1>1, <2>3, <2>4 DEF ChatIInv, ChatOnce, ChatCrossed, ChatStored, ChatQueued, Chat!TurnsInOrder, ChatPending, ChatKnown
  <2>8. \A m \in Messages : store'.active[Of[m]] = m => store.active[Of[m]] = m /\ Of[m] # c
    BY <2>3, ChatConstant
  <2>9. ChatReached'
    <3>1. ChatReached /\ proc.pc = "recovering"  BY <1>1 DEF ChatIInv
    <3> QED BY <1>1, <2>1, <2>3, <2>8, <3>1 DEF ChatReached, ChatPending
  <2>10. ChatFollowed'
    <3>1. \A x : ChatAhead(x)' <=> ChatAhead(x) BY <1>1, <2>4 DEF ChatAhead
    <3>2. ASSUME NEW x \in Messages, hub.turn[x] = "done", store'.active[Of[x]] = x
          PROVE  ChatAhead(x) \/ Of[x] \in proc.todo \ {c}
      BY <1>1, <2>8, <3>2 DEF ChatIInv, ChatFollowed
    <3> QED BY <1>1, <2>1, <2>4, <3>1, <3>2 DEF ChatFollowed
  <2> QED BY <2>5, <2>6, <2>7, <2>9, <2>10 DEF ChatIInv
<1> QED BY <1>1, <1>3, <1>4, <1>5 DEF Chat!Recover

\* A step from the launch of a message back into the loop, or to what the Hub answered.
LEMMA ChatLaunchMoves ==
  ASSUME Chat!ChannelAssumption, ChatIInv, UNCHANGED <<store, hub, platform, history>>, proc.pc = "launch",
         NEW n \in {proc.back, "running", "done"}, NEW m \in Messages \cup {None},
         proc' = [pc |-> n, conv |-> proc.conv, msg |-> m, back |-> proc.back, batch |-> proc.batch,
                  todo |-> proc.todo],
         n \in {"running", "done"} =>
            /\ m \in Messages /\ proc.conv = Of[m] /\ ChatPending(m) /\ hub.turn[m] # "none"
            /\ store.active[proc.conv] = None,
         n = "running" => hub.turn[m] = "running",
         n = proc.back => \A x \in Messages : ChatPending(x) /\ Of[x] = proc.conv => store.active[Of[x]] # None
  PROVE  ChatIInv'
<1>0. ChatProcTyped /\ ChatStoreTyped BY DEF ChatIInv, ChatTyped
<1>1. /\ proc'.pc = n /\ proc'.back = proc.back /\ proc'.conv = proc.conv /\ proc'.msg = m /\ proc'.todo = proc.todo
      /\ proc'.batch = proc.batch /\ proc.back \in {"recovering", "launching", "select", "batch"}
  BY <1>0 DEF ChatProcTyped
<1>2. ChatPhase = proc.back /\ ChatPhase' = proc.back /\ ChatLaunching /\ ChatLaunching' = (n \in {"running", "done"})
  BY <1>1 DEF ChatPhase, ChatLaunching
<1>3. ChatMark = ChatMark' /\ ChatMark \in Nat
  BY <1>1, <1>2 DEF ChatMark, ChatIInv, ChatBatched
<1>4. ChatBatched'
  <2>1. proc'.pc # "acknowledge" /\ ChatPhase' = ChatPhase  BY <1>1, <1>2
  <2> QED BY <1>1, <1>3, <2>1 DEF ChatIInv, ChatBatched
<1>5. ChatLaunched' BY <1>1 DEF ChatLaunched, ChatPending
<1>6. ChatReached' BY <1>1 DEF ChatIInv, ChatReached, ChatPending
<1>7. ChatProcTyped'
  <2>1. /\ proc.conv \in Convs \cup {None} /\ proc.todo \subseteq store'.mapped /\ proc.batch \in Seq(ChatEvent)
        /\ proc.conv \in store'.mapped
    BY <1>0 DEF ChatProcTyped, ChatLaunching
  <2>2. proc' \in [pc : {"down", "subscribing", "recovering", "launching", "launch", "running", "done",
                       "select", "reject", "map", "subscribe", "enqueue", "ack", "acknowledge", "batch"},
                 conv : Convs \cup {None}, msg : Messages \cup {None},
                 back : {"recovering", "launching", "select", "batch"},
                 batch : Seq(ChatEvent), todo : SUBSET store'.mapped]
    BY <1>1, <2>1
  <2> QED BY <1>1, <2>1, <2>2 DEF ChatProcTyped
<1>8. ChatFollowed'
  <2>1. \A x : ChatAhead(x)' <=> ChatAhead(x) BY <1>3 DEF ChatAhead
  <2>2. ChatFollowed BY DEF ChatIInv
  <2> QED BY <1>1, <1>2, <2>1, <2>2 DEF ChatFollowed
<1>9. ChatWaited'
  <2>1. ChatWaited BY DEF ChatIInv
  <2> QED BY <1>1, <1>2, <2>1 DEF ChatWaited, ChatPending
<1> QED BY <1>3, <1>4, <1>5, <1>6, <1>7, <1>8, <1>9, ChatProcMoves

\* A conversation that has an active Turn, or nothing pending, is left as it is.
LEMMA ChatLaunchNothingInv == ASSUME Chat!ChannelAssumption, ChatIInv, Chat!LaunchNothing PROVE ChatIInv'
<1>1. UNCHANGED <<store, hub, platform, history>> /\ proc.pc = "launch"
  BY DEF Chat!LaunchNothing, Chat!At
<1>2. ChatProcTyped /\ ChatStoreTyped BY DEF ChatIInv, ChatTyped
<1>3. /\ proc' = [pc |-> proc.back, conv |-> proc.conv, msg |-> proc.msg, back |-> proc.back,
                  batch |-> proc.batch, todo |-> proc.todo]
      /\ proc.msg \in Messages \cup {None} /\ proc.back \notin {"running", "done"}
  BY <1>2 DEF Chat!LaunchNothing, Chat!Goto, ChatProcTyped
<1>4. \A x \in Messages : ChatPending(x) /\ Of[x] = proc.conv => store.active[Of[x]] # None
  BY <1>2, ChatWaitingIs DEF Chat!LaunchNothing
<1> QED BY <1>1, <1>3, <1>4, ChatLaunchMoves

\* The Turn that is started is of the oldest message without one.
LEMMA ChatStartedInOrder ==
  ASSUME ChatIInv, NEW i \in Chat!Waiting(proc.conv), NEW m \in Messages, m = store.pending[i],
         hub.turn[m] = "none", history' = [history EXCEPT !.started = Append(@, m)]
  PROVE  Chat!TurnsInOrder'
<1>1. /\ ChatStoreTyped /\ ChatQueued /\ ChatStored /\ Chat!TurnsInOrder /\ history.started \in Seq(Messages)
      /\ history.stored \in Seq(Messages) /\ store.pending \in Seq(Messages)
  BY DEF ChatIInv, ChatTyped, ChatHistoryTyped, ChatStoreTyped
<1>2. history'.started = Append(history.started, m) /\ history'.stored = history.stored
  BY DEF ChatIInv, ChatTyped, ChatHistoryTyped
<1> DEFINE n == Len(history.started)
<1>3. /\ history'.started \in Seq(Messages) /\ Len(history'.started) = n + 1 /\ n \in Nat
      /\ history'.started[n + 1] = m /\ \A j \in 1..n : history'.started[j] = history.started[j]
      /\ Chat!IsInjective(history'.started)
  <2>1. ~Chat!Contains(history.started, m) BY <1>1 DEF ChatStored
  <2>2. Chat!IsInjective(history.started) BY <1>1 DEF Chat!TurnsInOrder
  <2> QED BY <1>1, <1>2, <2>1, <2>2, ChatAppendIs
<1>4. /\ DOMAIN history'.started = 1..(n + 1) /\ DOMAIN history.started = 1..n
      /\ DOMAIN history.stored = 1..Len(history.stored) /\ Len(history.stored) \in Nat
      /\ DOMAIN store.pending = 1..Len(store.pending)
  BY <1>1, <1>3
<1>5. i \in 1..Len(store.pending) /\ Of[m] = proc.conv
  BY <1>4 DEF Chat!Waiting, Chat!OfConversation
<1>6. PICK k \in 1..Len(history.stored) : history.stored[k] = m
  <2>1. ChatPending(m) BY <1>5 DEF ChatPending, Chat!Contains
  <2> QED BY <1>1, <2>1 DEF ChatStored, ChatKnown, Chat!Contains
<1>7. ASSUME NEW l \in 1..(k - 1), Of[history.stored[l]] = Of[m]
      PROVE  \E j \in 1..n : history.started[j] = history.stored[l]
  <2>1. l \in 1..Len(history.stored) /\ l < k BY <1>4, <1>6
  <2>2. PICK x \in Messages : x = history.stored[l] BY <1>1, <2>1
  <2>3. ChatKnown(x) BY <2>1, <2>2 DEF ChatKnown, Chat!Contains
  <2>4. CASE hub.turn[x] # "none"
    <3>1. Chat!Contains(history.started, x) BY <1>1, <2>4 DEF ChatStored
    <3> QED BY <2>2, <3>1 DEF Chat!Contains
  <2>5. CASE hub.turn[x] = "none"
    <3>1. ChatPending(x) BY <1>1, <2>3, <2>5 DEF ChatStored
    <3>2. PICK j \in 1..Len(store.pending) : store.pending[j] = x BY <3>1 DEF ChatPending, Chat!Contains
    <3>3. j \in Chat!OfConversation(proc.conv) BY <1>4, <1>5, <1>7, <2>2, <3>2 DEF Chat!OfConversation
    <3>4. i <= j BY <3>3 DEF Chat!Waiting
    <3>5. x # m
      <4>1. \A a, b \in 1..Len(history.stored) : history.stored[a] = history.stored[b] => a = b
        BY <1>1, <1>4 DEF ChatStored, Chat!IsInjective
      <4> QED BY <1>6, <2>1, <2>2, <4>1
    <3>6. i < j BY <1>5, <3>2, <3>4, <3>5
    <3>7. k < l
      <4>1. hub.turn[history.stored[k]] = "none" /\ hub.turn[history.stored[l]] = "none"  BY <1>6, <2>2, <2>5
      <4>2. store.pending[i] = history.stored[k] /\ store.pending[j] = history.stored[l] BY <1>6, <2>2, <3>2
      <4> QED BY <1>1, <1>5, <1>6, <2>1, <3>2, <3>6, <4>1, <4>2 DEF ChatQueued
    <3> QED BY <1>6, <2>1, <3>7
  <2> QED BY <2>4, <2>5
<1>8. ASSUME NEW a \in 1..(n + 1)
      PROVE  \E b \in 1..Len(history.stored) :
               /\ history.stored[b] = history'.started[a]
               /\ \A l \in 1..(b - 1) : Of[history.stored[l]] = Of[history.stored[b]] =>
                    \E j \in 1..(a - 1) : history'.started[j] = history.stored[l]
  <2>1. CASE a = n + 1
    <3>1. a - 1 = n BY <1>3, <2>1
    <3> QED BY <1>3, <1>6, <1>7, <2>1, <3>1
  <2>2. CASE a \in 1..n
    <3>1. PICK b \in 1..Len(history.stored) :
               /\ history.stored[b] = history.started[a]
               /\ \A l \in 1..(b - 1) : Of[history.stored[l]] = Of[history.stored[b]] =>
                    \E j \in 1..(a - 1) : history.started[j] = history.stored[l]
      BY <1>1, <1>4, <2>2 DEF Chat!TurnsInOrder
    <3>2. \A j \in 1..(a - 1) : j \in 1..n BY <1>3, <2>2
    <3> QED BY <1>3, <2>2, <3>1, <3>2
  <2> QED BY <1>3, <2>1, <2>2
<1>9. ASSUME NEW a \in DOMAIN history'.started
      PROVE  \E b \in DOMAIN history'.stored :
               /\ history'.stored[b] = history'.started[a]
               /\ \A l \in 1..(b - 1) : Of[history'.stored[l]] = Of[history'.stored[b]] =>
                    \E j \in 1..(a - 1) : history'.started[j] = history'.stored[l]
  <2>1. PICK b \in 1..Len(history.stored) :
               /\ history.stored[b] = history'.started[a]
               /\ \A l \in 1..(b - 1) : Of[history.stored[l]] = Of[history.stored[b]] =>
                    \E j \in 1..(a - 1) : history'.started[j] = history.stored[l]
    BY <1>4, <1>8
  <2>2. history'.stored[b] = history'.started[a] /\ b \in DOMAIN history'.stored BY <1>2, <1>4, <2>1
  <2>3. \A l \in 1..(b - 1) : Of[history'.stored[l]] = Of[history'.stored[b]] =>
          \E j \in 1..(a - 1) : history'.started[j] = history'.stored[l]
    BY <1>2, <2>1
  <2> QED BY <2>2, <2>3
<1>10. Chat!IsInjective(history'.started) BY <1>3
<1> QED BY <1>9, <1>10, Zenon DEF Chat!TurnsInOrder

\* The oldest pending message becomes a Turn once, and after those stored before it.
LEMMA ChatStartTurnInv == ASSUME Chat!ChannelAssumption, ChatIInv, Chat!StartTurn PROVE ChatIInv'
<1>1. UNCHANGED <<store, platform>> /\ proc.pc = "launch" /\ store.active[proc.conv] = None
  BY DEF Chat!StartTurn, Chat!At
<1>2. /\ ChatProcTyped /\ ChatStoreTyped /\ ChatHubTyped /\ ChatHistoryTyped
      /\ proc.msg \in Messages \cup {None} /\ proc.back \in {"recovering", "launching", "select", "batch"}
  BY DEF ChatIInv, ChatTyped, ChatProcTyped
<1>3. PICK i \in Chat!Waiting(proc.conv) : LET m == store.pending[i] IN
          \/ /\ hub.turn[m] # "none"
             /\ proc' = [proc EXCEPT !.pc = hub.turn[m], !.msg = m]
             /\ UNCHANGED <<hub, history>>
          \/ /\ hub.turn[m] = "none"
             /\ hub' = [hub EXCEPT !.turn[m] = "running"]
             /\ history' = [history EXCEPT !.started = Append(@, m)]
             /\ proc' = [proc EXCEPT !.pc = "running", !.msg = m]
          \/ Chat!Goto("down") /\ UNCHANGED <<hub, history>>
  BY DEF Chat!StartTurn
<1>4. i \in 1..Len(store.pending) /\ store.pending[i] \in Messages /\ Of[store.pending[i]] = proc.conv
  <2>1. store.pending \in Seq(Messages \ Invalid) BY <1>2 DEF ChatStoreTyped
  <2> QED BY <2>1 DEF Chat!Waiting, Chat!OfConversation
<1>5. PICK m \in Messages : m = store.pending[i] BY <1>4
<1>6. ChatPending(m) /\ Of[m] = proc.conv BY <1>4, <1>5 DEF ChatPending, Chat!Contains
<1>7. CASE hub.turn[m] # "none" /\ proc' = [proc EXCEPT !.pc = hub.turn[m], !.msg = m] /\ UNCHANGED <<hub, history>>
  <2>1. PICK n \in {"running", "done"} : n = hub.turn[m]  BY <1>2, <1>7 DEF ChatHubTyped
  <2>2. proc' = [pc |-> n, conv |-> proc.conv, msg |-> m, back |-> proc.back, batch |-> proc.batch,
                 todo |-> proc.todo]
    BY <1>2, <1>7, <2>1 DEF ChatProcTyped
  <2>3. n # proc.back /\ UNCHANGED <<store, hub, platform, history>> BY <1>1, <1>2, <1>7
  <2> QED BY <1>1, <1>6, <1>7, <2>1, <2>2, <2>3, ChatLaunchMoves
<1>8. CASE Chat!Goto("down") /\ UNCHANGED <<hub, history>>
  BY <1>1, <1>8, ChatDownInv
<1>9. CASE /\ hub.turn[m] = "none" /\ hub' = [hub EXCEPT !.turn[m] = "running"]
           /\ history' = [history EXCEPT !.started = Append(@, m)]
           /\ proc' = [proc EXCEPT !.pc = "running", !.msg = m]
  <2>1. /\ proc' = [pc |-> "running", conv |-> proc.conv, msg |-> m, back |-> proc.back, batch |-> proc.batch,
                    todo |-> proc.todo]
        /\ proc'.pc = "running" /\ proc'.msg = m /\ proc'.conv = proc.conv /\ proc'.back = proc.back
        /\ proc'.todo = proc.todo /\ proc'.batch = proc.batch
    BY <1>2, <1>9 DEF ChatProcTyped
  <2>2. /\ hub'.turn = [hub.turn EXCEPT ![m] = "running"] /\ hub'.events = hub.events
        /\ hub'.checkpoint = hub.checkpoint /\ hub'.subscribed = hub.subscribed
        /\ hub' = [turn |-> hub'.turn, foreign |-> hub.foreign, subscribed |-> hub.subscribed,
                   events |-> hub.events, checkpoint |-> hub.checkpoint]
        /\ hub'.turn \in [Messages -> {"none", "running", "done"}]
        /\ hub'.turn[m] = "running" /\ \A x \in Messages \ {m} : hub'.turn[x] = hub.turn[x]
    BY <1>2, <1>9 DEF ChatHubTyped
  <2>3. /\ history'.started = Append(history.started, m) /\ history'.stored = history.stored
        /\ history' = [stored |-> history.stored, started |-> history'.started]
        /\ history'.started \in Seq(Messages)
        /\ \A y : Chat!Contains(history'.started, y) <=> Chat!Contains(history.started, y) \/ y = m
    <3>1. history'.started = Append(history.started, m) /\ history'.stored = history.stored
          /\ history' = [stored |-> history.stored, started |-> history'.started]
          /\ history.started \in Seq(Messages)
      BY <1>2, <1>9 DEF ChatHistoryTyped
    <3> QED BY <3>1, ChatAppendIs
  <2>4. ChatPhase' = proc.back /\ ChatPhase = proc.back /\ ChatLaunching /\ ChatLaunching' /\ ChatMark' = ChatMark /\ ChatMark \in Nat
    BY <1>1, <1>2, <2>1, <2>2 DEF ChatPhase, ChatLaunching, ChatMark, ChatIInv, ChatBatched
  <2>5. ChatTyped'
    <3>1. ChatHubTyped'
      <4>1. /\ hub.foreign \in SUBSET Convs /\ hub.subscribed \in SUBSET Convs
            /\ hub.events \in Seq(ChatEvent) /\ hub.checkpoint \in Nat /\ hub.checkpoint <= Len(hub.events)
        BY <1>2 DEF ChatHubTyped
      <4>2. hub' \in [turn : [Messages -> {"none", "running", "done"}], foreign : SUBSET Convs,
                      subscribed : SUBSET Convs, events : Seq(ChatEvent), checkpoint : Nat]
        BY <2>2, <4>1
      <4> QED BY <2>2, <4>1, <4>2 DEF ChatHubTyped
    <3>2. ChatHistoryTyped' BY <1>2, <2>3 DEF ChatHistoryTyped
    <3>3. ChatProcTyped'
      <4>1. /\ proc.conv \in Convs \cup {None} /\ proc.todo \subseteq store'.mapped /\ proc.batch \in Seq(ChatEvent)
            /\ proc.conv \in store'.mapped
        BY <1>1, <1>2, <2>4 DEF ChatProcTyped
      <4>2. proc' \in [pc : {"down", "subscribing", "recovering", "launching", "launch", "running", "done",
                             "select", "reject", "map", "subscribe", "enqueue", "ack", "acknowledge", "batch"},
                 conv : Convs \cup {None}, msg : Messages \cup {None},
                 back : {"recovering", "launching", "select", "batch"},
                 batch : Seq(ChatEvent), todo : SUBSET store'.mapped]
        BY <1>2, <2>1, <4>1
      <4> QED BY <1>6, <2>1, <4>1, <4>2 DEF ChatProcTyped
    <3> QED BY <1>1, <1>2, <3>1, <3>2, <3>3 DEF ChatIInv, ChatTyped, ChatStoreTyped, ChatPlatformTyped
  <2>6. ChatBatched'
    <3>1. proc'.pc # "acknowledge" /\ ChatPhase' = ChatPhase  BY <2>1, <2>4
    <3> QED BY <2>1, <2>2, <2>4, <3>1 DEF ChatIInv, ChatBatched
  <2>7. ChatOnce'
    <3>1. \A j \in 1..Len(hub.events) : hub.events[j].kind # "other" => hub'.turn[hub.events[j].msg] = "done"
      <4>1. ASSUME NEW j \in 1..Len(hub.events), hub.events[j].kind # "other"
            PROVE  hub'.turn[hub.events[j].msg] = "done"
        <5>1. hub.turn[hub.events[j].msg] = "done"  BY <4>1 DEF ChatIInv, ChatOnce
        <5>2. hub.events[j].msg \in Messages BY <1>2, <4>1, ChatEventIs DEF ChatHubTyped
        <5> QED BY <1>9, <2>2, <5>1, <5>2
      <4> QED BY <4>1
    <3> QED BY <2>2, <3>1 DEF ChatIInv, ChatOnce
  <2>8. ChatCrossed' /\ ChatReached'
    BY <1>1, <2>1, <2>2, <2>4 DEF ChatIInv, ChatCrossed, ChatReached, ChatPending
  <2>9. ChatLaunched' BY <1>1, <1>6, <2>1, <2>2 DEF ChatLaunched, ChatPending
  <2>10. ChatFollowed'
    <3>1. \A x : ChatAhead(x)' <=> ChatAhead(x) BY <2>2, <2>4 DEF ChatAhead
    <3> QED BY <1>1, <2>1, <2>2, <2>4, <3>1 DEF ChatIInv, ChatFollowed
  <2>11. ChatWaited'
    BY <1>1, <2>1, <2>4 DEF ChatIInv, ChatWaited, ChatPending
  <2>12. ChatStored' BY <1>1, <2>2, <2>3 DEF ChatIInv, ChatStored, ChatPending, ChatKnown
  <2>13. ChatQueued'
    <3>1. \A k \in 1..Len(history.stored) : hub'.turn[history.stored[k]] = "none" => hub.turn[history.stored[k]] = "none"
      <4>1. \A k \in 1..Len(history.stored) : history.stored[k] \in Messages BY <1>2 DEF ChatHistoryTyped
      <4> QED BY <2>2, <4>1
    <3> QED BY <1>1, <2>3, <3>1 DEF ChatIInv, ChatQueued
  <2>14. Chat!TurnsInOrder' BY <1>5, <1>9, ChatStartedInOrder
  <2> QED BY <2>5, <2>6, <2>7, <2>8, <2>9, <2>10, <2>11, <2>12, <2>13, <2>14 DEF ChatIInv
<1> QED BY <1>3, <1>5, <1>7, <1>8, <1>9

\* The row of a message that has a Turn is deleted: the others keep their order.
LEMMA ChatRowDeleted ==
  ASSUME ChatIInv, NEW i \in DOMAIN store.pending, NEW m \in Messages, m = store.pending[i], hub.turn[m] # "none",
         store'.pending = Chat!Deleted(i), UNCHANGED <<hub, history>>
  PROVE  /\ store'.pending \in Seq(Messages \ Invalid) /\ Chat!IsInjective(store'.pending)
         /\ \A y : Chat!Contains(store'.pending, y) <=> Chat!Contains(store.pending, y) /\ y # m
         /\ ChatStored' /\ ChatQueued'
<1>1. /\ store.pending \in Seq(Messages \ Invalid) /\ Chat!IsInjective(store.pending)
      /\ ChatStored /\ ChatQueued /\ history.stored \in Seq(Messages)
  BY DEF ChatIInv, ChatTyped, ChatStoreTyped, ChatHistoryTyped
<1>2. i \in 1..Len(store.pending) BY <1>1
<1> DEFINE r == Chat!RemoveAt(store.pending, i)
<1>3. /\ r \in Seq(Messages \ Invalid) /\ Len(r) = Len(store.pending) - 1 /\ Len(store.pending) \in Nat
      /\ \A j \in 1..Len(r) : r[j] = store.pending[IF j < i THEN j ELSE j + 1]
      /\ \A y : Chat!Contains(r, y) <=> Chat!Contains(store.pending, y) /\ y # store.pending[i]
      /\ Chat!IsInjective(r)
  BY <1>1, <1>2, ChatRemoveIs
<1>4. store'.pending = r BY DEF Chat!Deleted
<1> HIDE DEF r
<1>5. /\ store'.pending \in Seq(Messages \ Invalid) /\ Chat!IsInjective(store'.pending)
      /\ \A y : Chat!Contains(store'.pending, y) <=> Chat!Contains(store.pending, y) /\ y # m
  BY <1>3, <1>4
<1>6. ChatStored' BY <1>1, <1>5 DEF ChatStored, ChatPending, ChatKnown
<1>7. ChatQueued'
  <2> SUFFICES ASSUME NEW a \in 1..Len(r), NEW b \in 1..Len(r),
                      NEW k \in 1..Len(history.stored), NEW l \in 1..Len(history.stored),
                      r[a] = history.stored[k], r[b] = history.stored[l],
                      hub.turn[history.stored[k]] = "none", hub.turn[history.stored[l]] = "none", a < b
               PROVE  k < l
    BY <1>4 DEF ChatQueued
  <2>0. \A j \in 1..Len(r) : (IF j < i THEN j ELSE j + 1) \in 1..Len(store.pending) BY <1>2, <1>3
  <2>1. PICK c \in 1..Len(store.pending) : c = (IF a < i THEN a ELSE a + 1) /\ r[a] = store.pending[c]
    BY <1>3, <2>0, Zenon
  <2>2. PICK d \in 1..Len(store.pending) : d = (IF b < i THEN b ELSE b + 1) /\ r[b] = store.pending[d]
    BY <1>3, <2>0, Zenon
  <2>3. c < d BY <1>2, <1>3, <2>1, <2>2
  <2> QED BY <1>1, <2>1, <2>2, <2>3 DEF ChatQueued
<1> QED BY <1>5, <1>6, <1>7

\* A message leaves the queue as its Turn becomes active, in one transaction (mark_started).
LEMMA ChatMarkStartedInv == ASSUME Chat!ChannelAssumption, ChatIInv, Chat!MarkStarted PROVE ChatIInv'
<1>1. UNCHANGED <<hub, platform, history>> /\ proc.pc = "running"
  BY DEF Chat!MarkStarted, Chat!At
<1>2. /\ ChatProcTyped /\ ChatStoreTyped /\ proc.msg \in Messages /\ proc.conv = Of[proc.msg] /\ proc.conv \in store.mapped
      /\ proc.back \in {"recovering", "launching", "select", "batch"} /\ store.mapped \subseteq Convs
  BY <1>1 DEF ChatIInv, ChatTyped, ChatProcTyped, ChatLaunching, ChatStoreTyped
<1>3. PICK i \in DOMAIN store.pending : /\ store.pending[i] = proc.msg
        /\ store' = [store EXCEPT !.pending = Chat!Deleted(i), !.active[proc.conv] = proc.msg]
  BY DEF Chat!MarkStarted
<1>4. PICK m \in Messages : m = proc.msg BY <1>2
<1>5. PICK c \in Convs : c = proc.conv /\ c = Of[m] /\ c \in store.mapped BY <1>2, <1>4
<1>6. hub.turn[m] # "none"  BY <1>1, <1>4 DEF ChatIInv, ChatLaunched
<1>7. /\ store'.pending = Chat!Deleted(i) /\ store'.mapped = store.mapped
      /\ store' = [mapped |-> store.mapped, pending |-> store'.pending, active |-> store'.active]
      /\ store'.active \in [Convs -> Messages \cup {None}]
      /\ store'.active[c] = m /\ \A d \in Convs \ {c} : store'.active[d] = store.active[d]
  BY <1>2, <1>3, <1>4, <1>5 DEF ChatStoreTyped
<1>8. /\ store'.pending \in Seq(Messages \ Invalid) /\ Chat!IsInjective(store'.pending)
      /\ \A y : Chat!Contains(store'.pending, y) <=> Chat!Contains(store.pending, y) /\ y # m
      /\ ChatStored' /\ ChatQueued'
  BY <1>1, <1>3, <1>4, <1>6, <1>7, ChatRowDeleted
<1>9. /\ proc' = [pc |-> proc.back, conv |-> proc.conv, msg |-> proc.msg, back |-> proc.back,
                  batch |-> proc.batch, todo |-> proc.todo]
      /\ proc'.pc = proc.back /\ proc'.back = proc.back /\ proc'.conv = proc.conv /\ proc'.msg = proc.msg
      /\ proc'.batch = proc.batch /\ proc'.todo = proc.todo
  BY <1>2 DEF Chat!MarkStarted, Chat!Goto, ChatProcTyped
<1>10. /\ ChatPhase = proc.back /\ ChatPhase' = proc.back /\ ChatLaunching /\ ~ChatLaunching' /\ ChatMark' = ChatMark /\ ChatMark \in Nat
  BY <1>1, <1>2, <1>9 DEF ChatPhase, ChatLaunching, ChatMark, ChatIInv, ChatBatched
<1>11. ChatTyped'
  <2>1. ChatStoreTyped' BY <1>2, <1>4, <1>5, <1>7, <1>8 DEF ChatStoreTyped
  <2>2. ChatProcTyped'
    <3>1. proc.conv \in Convs \cup {None} /\ proc.todo \subseteq store'.mapped /\ proc.batch \in Seq(ChatEvent)
      BY <1>2, <1>7 DEF ChatProcTyped
    <3>2. proc' \in [pc : {"down", "subscribing", "recovering", "launching", "launch", "running", "done",
                           "select", "reject", "map", "subscribe", "enqueue", "ack", "acknowledge", "batch"},
                 conv : Convs \cup {None}, msg : Messages \cup {None},
                 back : {"recovering", "launching", "select", "batch"},
                 batch : Seq(ChatEvent), todo : SUBSET store'.mapped]
      BY <1>2, <1>9, <3>1
    <3> QED BY <1>2, <1>9, <1>10, <3>2 DEF ChatProcTyped
  <2> QED BY <1>1, <2>1, <2>2 DEF ChatIInv, ChatTyped, ChatHubTyped, ChatPlatformTyped, ChatHistoryTyped
<1>12. ChatBatched'
  <2>1. proc'.pc # "acknowledge" /\ ChatPhase' = ChatPhase  BY <1>2, <1>9, <1>10
  <2> QED BY <1>1, <1>9, <1>10, <2>1 DEF ChatIInv, ChatBatched
<1>13. ChatOnce' /\ ChatCrossed' /\ Chat!TurnsInOrder'
  BY <1>1, <1>10 DEF ChatIInv, ChatOnce, ChatCrossed, Chat!TurnsInOrder
<1>14. ASSUME NEW x \in Messages PROVE store'.active[Of[x]] = x => x = m \/ store.active[Of[x]] = x
  BY <1>5, <1>7, ChatConstant
<1>15. ChatReached'
  <2>1. ChatReached BY DEF ChatIInv
  <2>2. \A x \in Messages : Chat!Contains(store'.pending, x) \/ store'.active[Of[x]] = x => Of[x] \in store.mapped
    BY <1>5, <1>8, <1>14, <2>1 DEF ChatReached, ChatPending
  <2> QED BY <1>1, <1>2, <1>7, <1>9, <2>1, <2>2 DEF ChatReached, ChatPending
<1>16. ChatLaunched' BY <1>2, <1>9 DEF ChatLaunched
<1>17. ChatFollowed'
  <2>1. \A x : ChatAhead(x)' <=> ChatAhead(x) BY <1>1, <1>10 DEF ChatAhead
  <2>2. ChatFollowed /\ proc'.pc \notin {"running"}  BY <1>2, <1>9 DEF ChatIInv
  <2>3. hub.turn[m] = "done" => ChatAhead(m)  BY <1>1, <1>4, <2>2 DEF ChatFollowed
  <2>4. ASSUME NEW x \in Messages, hub.turn[x] = "done", store'.active[Of[x]] = x
        PROVE  ChatAhead(x) \/ (ChatPhase = "recovering" /\ Of[x] \in proc.todo)
    <3>1. CASE x = m BY <2>3, <2>4, <3>1
    <3>2. CASE store.active[Of[x]] = x BY <1>1, <2>2, <2>4, <3>2 DEF ChatFollowed
    <3> QED BY <1>14, <2>4, <3>1, <3>2
  <2> QED BY <1>1, <1>9, <1>10, <2>1, <2>2, <2>4 DEF ChatFollowed
<1>18. ChatWaited'
  <2>1. ChatWaited BY DEF ChatIInv
  <2>2. ASSUME NEW x \in Messages, Chat!Contains(store'.pending, x), ChatPhase \notin {"down", "subscribing", "recovering"}
        PROVE  store'.active[Of[x]] # None \/ (ChatPhase = "launching" /\ Of[x] \in proc.todo)
    <3>1. CASE Of[x] = c
      <4>1. store'.active[Of[x]] = m /\ m # None BY <1>7, <3>1, ChatConstant
      <4> QED BY <4>1
    <3>2. CASE Of[x] # c
      <4>1. store'.active[Of[x]] = store.active[Of[x]] BY <1>7, <3>2, ChatConstant
      <4> QED BY <1>5, <1>8, <2>1, <2>2, <3>2, <4>1 DEF ChatWaited, ChatPending
    <3> QED BY <3>1, <3>2
  <2> QED BY <1>9, <1>10, <2>2 DEF ChatWaited, ChatPending
<1> QED BY <1>8, <1>11, <1>12, <1>13, <1>15, <1>16, <1>17, <1>18 DEF ChatIInv

\* A message whose Turn has ended before leaves the queue.
LEMMA ChatDiscardPendingInv == ASSUME Chat!ChannelAssumption, ChatIInv, Chat!DiscardPending PROVE ChatIInv'
<1>1. UNCHANGED <<hub, platform, history>> /\ proc.pc = "done"
  BY DEF Chat!DiscardPending, Chat!At
<1>2. /\ ChatProcTyped /\ ChatStoreTyped /\ proc.msg \in Messages /\ proc.conv = Of[proc.msg] /\ proc.conv \in store.mapped
      /\ proc.back \in {"recovering", "launching", "select", "batch"} /\ store.mapped \subseteq Convs
  BY <1>1 DEF ChatIInv, ChatTyped, ChatProcTyped, ChatLaunching, ChatStoreTyped
<1>3. PICK i \in DOMAIN store.pending :
        store.pending[i] = proc.msg /\ store' = [store EXCEPT !.pending = Chat!Deleted(i)]
  BY DEF Chat!DiscardPending
<1>4. PICK m \in Messages : m = proc.msg BY <1>2
<1>6. hub.turn[m] # "none"  BY <1>1, <1>4 DEF ChatIInv, ChatLaunched
<1>7. /\ store'.pending = Chat!Deleted(i) /\ store'.mapped = store.mapped /\ store'.active = store.active
      /\ store' = [mapped |-> store.mapped, pending |-> store'.pending, active |-> store.active]
  BY <1>2, <1>3 DEF ChatStoreTyped
<1>8. /\ store'.pending \in Seq(Messages \ Invalid) /\ Chat!IsInjective(store'.pending)
      /\ \A y : Chat!Contains(store'.pending, y) <=> Chat!Contains(store.pending, y) /\ y # m
      /\ ChatStored' /\ ChatQueued'
  BY <1>1, <1>3, <1>4, <1>6, <1>7, ChatRowDeleted
<1>9. /\ proc' = [pc |-> "launch", conv |-> proc.conv, msg |-> proc.msg, back |-> proc.back,
                  batch |-> proc.batch, todo |-> proc.todo]
      /\ proc'.pc = "launch" /\ proc'.back = proc.back /\ proc'.conv = proc.conv /\ proc'.msg = proc.msg
      /\ proc'.batch = proc.batch /\ proc'.todo = proc.todo
  BY <1>2 DEF Chat!DiscardPending, Chat!Goto, ChatProcTyped
<1>10. /\ ChatPhase = proc.back /\ ChatPhase' = proc.back /\ ChatLaunching /\ ChatLaunching' /\ ChatMark' = ChatMark /\ ChatMark \in Nat
  BY <1>1, <1>2, <1>9 DEF ChatPhase, ChatLaunching, ChatMark, ChatIInv, ChatBatched
<1>11. ChatTyped'
  <2>1. ChatStoreTyped' BY <1>2, <1>7, <1>8 DEF ChatStoreTyped
  <2>2. ChatProcTyped'
    <3>1. proc.conv \in Convs \cup {None} /\ proc.todo \subseteq store'.mapped /\ proc.batch \in Seq(ChatEvent)
      BY <1>2, <1>7 DEF ChatProcTyped
    <3>2. proc' \in [pc : {"down", "subscribing", "recovering", "launching", "launch", "running", "done",
                           "select", "reject", "map", "subscribe", "enqueue", "ack", "acknowledge", "batch"},
                 conv : Convs \cup {None}, msg : Messages \cup {None},
                 back : {"recovering", "launching", "select", "batch"},
                 batch : Seq(ChatEvent), todo : SUBSET store'.mapped]
      BY <1>2, <1>9, <3>1
    <3> QED BY <1>2, <1>7, <1>9, <1>10, <3>2 DEF ChatProcTyped
  <2> QED BY <1>1, <2>1, <2>2 DEF ChatIInv, ChatTyped, ChatHubTyped, ChatPlatformTyped, ChatHistoryTyped
<1>12. ChatBatched'
  <2>1. proc'.pc # "acknowledge" /\ ChatPhase' = ChatPhase  BY <1>9, <1>10
  <2> QED BY <1>1, <1>9, <1>10, <2>1 DEF ChatIInv, ChatBatched
<1>13. ChatOnce' /\ ChatCrossed' /\ Chat!TurnsInOrder'
  BY <1>1, <1>10 DEF ChatIInv, ChatOnce, ChatCrossed, Chat!TurnsInOrder
<1>15. ChatReached' BY <1>1, <1>7, <1>8, <1>9 DEF ChatIInv, ChatReached, ChatPending
<1>16. ChatLaunched' BY <1>9 DEF ChatLaunched
<1>17. ChatFollowed'
  <2>1. \A x : ChatAhead(x)' <=> ChatAhead(x) BY <1>1, <1>10 DEF ChatAhead
  <2> QED BY <1>1, <1>7, <1>9, <1>10, <2>1 DEF ChatIInv, ChatFollowed
<1>18. ChatWaited' BY <1>1, <1>7, <1>8, <1>9, <1>10 DEF ChatIInv, ChatWaited, ChatPending
<1> QED BY <1>8, <1>11, <1>12, <1>13, <1>15, <1>16, <1>17, <1>18 DEF ChatIInv

\* An invalid message is acknowledged and never stored.
LEMMA ChatRejectInv == ASSUME Chat!ChannelAssumption, ChatIInv, Chat!Reject PROVE ChatIInv'
<1>1. UNCHANGED <<store, hub, history>> /\ proc.pc = "reject"
  BY DEF Chat!Reject, Chat!At
<1>2. ChatProcTyped /\ ChatStoreTyped /\ ChatPlatformTyped BY DEF ChatIInv, ChatTyped
<1>3. /\ proc' = [pc |-> "select", conv |-> proc.conv, msg |-> proc.msg, back |-> proc.back,
                  batch |-> proc.batch, todo |-> proc.todo]
      /\ proc'.pc = "select" /\ proc'.batch = proc.batch
  BY <1>2 DEF Chat!Reject, Chat!Goto, ChatProcTyped
<1>4. /\ platform'.answers = platform.answers
      /\ platform' = [unacked |-> platform.unacked \ {proc.msg}, answers |-> platform.answers]
  BY <1>2 DEF Chat!Reject, ChatPlatformTyped
<1>5. ChatPhase = "reject" /\ ChatPhase' = "select" /\ ~ChatLaunching /\ ~ChatLaunching' /\ ChatMark' = ChatMark /\ ChatMark \in Nat
  BY <1>1, <1>3 DEF ChatPhase, ChatLaunching, ChatMark, ChatIInv, ChatBatched
<1>6. ChatTyped'
  <2>1. ChatProcTyped' BY <1>1, <1>2, <1>3, <1>5 DEF ChatProcTyped
  <2>2. ChatPlatformTyped' BY <1>2, <1>4 DEF ChatPlatformTyped
  <2> QED BY <1>1, <1>2, <2>1, <2>2 DEF ChatIInv, ChatTyped, ChatStoreTyped, ChatHubTyped, ChatHistoryTyped
<1>7. ChatBatched' /\ ChatLaunched' BY <1>3, <1>5 DEF ChatBatched, ChatLaunched
<1>8. ChatReached' /\ ChatWaited' BY <1>1, <1>3, <1>5 DEF ChatIInv, ChatReached, ChatWaited, ChatPending
<1>9. ChatFollowed'
  <2>1. \A x : ChatAhead(x)' <=> ChatAhead(x) BY <1>1, <1>5 DEF ChatAhead
  <2> QED BY <1>1, <1>3, <1>5, <2>1 DEF ChatIInv, ChatFollowed
<1> QED BY <1>1, <1>4, <1>5, <1>6, <1>7, <1>8, <1>9, ChatMoves

\* A stored message is acknowledged, and its conversation launched.
LEMMA ChatAcknowledgeInboundInv == ASSUME Chat!ChannelAssumption, ChatIInv, Chat!AcknowledgeInbound PROVE ChatIInv'
<1>1. UNCHANGED <<store, hub, history>> /\ proc.pc = "ack"
  BY DEF Chat!AcknowledgeInbound, Chat!At
<1>2. ChatProcTyped /\ ChatStoreTyped /\ ChatPlatformTyped BY DEF ChatIInv, ChatTyped
<1>3. /\ proc' = [pc |-> "launch", conv |-> proc.conv, msg |-> proc.msg, back |-> "select",
                  batch |-> proc.batch, todo |-> proc.todo]
      /\ proc'.pc = "launch" /\ proc'.batch = proc.batch /\ proc'.back = "select" /\ proc'.conv = proc.conv
  BY <1>2 DEF Chat!AcknowledgeInbound, ChatProcTyped
<1>4. /\ platform'.answers = platform.answers
      /\ platform' = [unacked |-> platform.unacked \ {proc.msg}, answers |-> platform.answers]
  BY <1>2 DEF Chat!AcknowledgeInbound, ChatPlatformTyped
<1>5. ChatPhase = "ack" /\ ChatPhase' = "select" /\ ~ChatLaunching /\ ChatLaunching' /\ ChatMark' = ChatMark /\ ChatMark \in Nat
  BY <1>1, <1>3 DEF ChatPhase, ChatLaunching, ChatMark, ChatIInv, ChatBatched
<1>6. ChatTyped'
  <2>1. ChatProcTyped' BY <1>1, <1>2, <1>3, <1>5 DEF ChatProcTyped
  <2>2. ChatPlatformTyped' BY <1>2, <1>4 DEF ChatPlatformTyped
  <2> QED BY <1>1, <1>2, <2>1, <2>2 DEF ChatIInv, ChatTyped, ChatStoreTyped, ChatHubTyped, ChatHistoryTyped
<1>7. ChatBatched' /\ ChatLaunched' BY <1>3, <1>5 DEF ChatBatched, ChatLaunched
<1>8. ChatReached' /\ ChatWaited' BY <1>1, <1>3, <1>5 DEF ChatIInv, ChatReached, ChatWaited, ChatPending
<1>9. ChatFollowed'
  <2>1. \A x : ChatAhead(x)' <=> ChatAhead(x) BY <1>1, <1>5 DEF ChatAhead
  <2> QED BY <1>1, <1>3, <1>5, <2>1 DEF ChatIInv, ChatFollowed
<1> QED BY <1>1, <1>4, <1>5, <1>6, <1>7, <1>8, <1>9, ChatMoves

\* A new conversation gets a Session; nothing of it is pending or active yet.
LEMMA ChatInsertMappingInv == ASSUME Chat!ChannelAssumption, ChatIInv, Chat!InsertMapping PROVE ChatIInv'
<1>1. UNCHANGED <<hub, platform, history>> /\ proc.pc = "map"
  BY DEF Chat!InsertMapping, Chat!At
<1>2. ChatProcTyped /\ ChatStoreTyped /\ proc.conv = Of[proc.msg] /\ proc.conv \in Convs
  BY <1>1, ChatConstant DEF ChatIInv, ChatTyped, ChatProcTyped
<1>3. /\ proc' = [pc |-> "subscribe", conv |-> proc.conv, msg |-> proc.msg, back |-> proc.back,
                  batch |-> proc.batch, todo |-> proc.todo]
      /\ proc'.pc = "subscribe" /\ proc'.batch = proc.batch /\ proc'.conv = proc.conv
  BY <1>2 DEF Chat!InsertMapping, Chat!Goto, ChatProcTyped
<1>4. /\ store'.mapped = store.mapped \cup {proc.conv} /\ store'.pending = store.pending
      /\ store'.active = store.active
      /\ store' = [mapped |-> store'.mapped, pending |-> store.pending, active |-> store.active]
  BY <1>2 DEF Chat!InsertMapping, ChatStoreTyped
<1>5. ChatPhase = "map" /\ ChatPhase' = "subscribe" /\ ~ChatLaunching /\ ~ChatLaunching' /\ ChatMark' = ChatMark /\ ChatMark \in Nat
  BY <1>1, <1>3 DEF ChatPhase, ChatLaunching, ChatMark, ChatIInv, ChatBatched
<1>6. ChatTyped'
  <2>1. ChatStoreTyped' BY <1>2, <1>4 DEF ChatStoreTyped
  <2>2. proc.todo \subseteq store'.mapped BY <1>2, <1>4 DEF ChatProcTyped
  <2>3. ChatProcTyped' BY <1>1, <1>2, <1>3, <1>4, <1>5, <2>2 DEF ChatProcTyped
  <2> QED BY <1>1, <2>1, <2>3 DEF ChatIInv, ChatTyped, ChatHubTyped, ChatPlatformTyped, ChatHistoryTyped
<1>7. ChatBatched' /\ ChatLaunched' BY <1>3, <1>5 DEF ChatBatched, ChatLaunched
<1>a. store.active[proc.conv] = None
  <2>1. ASSUME store.active[proc.conv] # None PROVE proc.conv \in store.mapped
    <3>1. PICK m \in Messages : m = store.active[proc.conv] BY <1>2, <2>1 DEF ChatStoreTyped
    <3>2. Of[m] = proc.conv BY <1>2, <2>1, <3>1 DEF ChatStoreTyped
    <3> QED BY <3>1, <3>2 DEF ChatIInv, ChatReached
  <2>2. proc.conv \notin store.mapped BY <1>1 DEF ChatIInv, ChatReached
  <2> QED BY <2>1, <2>2
<1>8. ChatReached' /\ ChatWaited' BY <1>1, <1>3, <1>4, <1>5, <1>a DEF ChatIInv, ChatReached, ChatWaited, ChatPending
<1>9. ChatFollowed'
  <2>1. \A x : ChatAhead(x)' <=> ChatAhead(x) BY <1>1, <1>5 DEF ChatAhead
  <2> QED BY <1>1, <1>3, <1>4, <1>5, <2>1 DEF ChatIInv, ChatFollowed
<1> QED BY <1>1, <1>4, <1>5, <1>6, <1>7, <1>8, <1>9, ChatMoves

\* The process subscribes to the new Session before it stores anything of it.
LEMMA ChatSubscribeInv == ASSUME Chat!ChannelAssumption, ChatIInv, Chat!Subscribe PROVE ChatIInv'
<1>1. UNCHANGED <<store, platform, history>> /\ proc.pc = "subscribe"
  BY DEF Chat!Subscribe, Chat!At
<1>2. ChatProcTyped /\ ChatStoreTyped /\ ChatHubTyped /\ proc.conv \in store.mapped /\ store.mapped \subseteq Convs
  BY <1>1 DEF ChatIInv, ChatTyped, ChatProcTyped, ChatStoreTyped
<1>3. /\ proc' = [pc |-> "enqueue", conv |-> proc.conv, msg |-> proc.msg, back |-> proc.back,
                  batch |-> proc.batch, todo |-> proc.todo]
      /\ proc'.pc = "enqueue" /\ proc'.batch = proc.batch /\ proc'.conv = proc.conv
  BY <1>2 DEF Chat!Subscribe, Chat!Goto, ChatProcTyped
<1>4. /\ hub'.turn = hub.turn /\ hub'.events = hub.events /\ hub'.checkpoint = hub.checkpoint
      /\ hub'.subscribed = hub.subscribed \cup {proc.conv} /\ hub'.foreign = hub.foreign
      /\ hub' = [turn |-> hub.turn, foreign |-> hub.foreign, subscribed |-> hub'.subscribed,
                 events |-> hub.events, checkpoint |-> hub.checkpoint]
  BY <1>2 DEF Chat!Subscribe, ChatHubTyped
<1>5. ChatPhase = "subscribe" /\ ChatPhase' = "enqueue" /\ ~ChatLaunching /\ ~ChatLaunching' /\ ChatMark' = ChatMark /\ ChatMark \in Nat
  BY <1>1, <1>3, <1>4 DEF ChatPhase, ChatLaunching, ChatMark, ChatIInv, ChatBatched
<1>6. ChatTyped'
  <2>1. ChatHubTyped'
    <3>1. hub'.subscribed \in SUBSET Convs BY <1>2, <1>4 DEF ChatHubTyped
    <3> QED BY <1>2, <1>4, <3>1 DEF ChatHubTyped
  <2>3. ChatProcTyped' BY <1>1, <1>2, <1>3, <1>5 DEF ChatProcTyped
  <2> QED BY <1>1, <2>1, <2>3 DEF ChatIInv, ChatTyped, ChatStoreTyped, ChatPlatformTyped, ChatHistoryTyped
<1>7. ChatBatched' /\ ChatLaunched' BY <1>3, <1>5 DEF ChatBatched, ChatLaunched
<1>8. ChatReached' /\ ChatWaited' BY <1>1, <1>3, <1>4, <1>5 DEF ChatIInv, ChatReached, ChatWaited, ChatPending
<1>9. ChatFollowed'
  <2>1. \A x : ChatAhead(x)' <=> ChatAhead(x) BY <1>4, <1>5 DEF ChatAhead
  <2> QED BY <1>1, <1>3, <1>4, <1>5, <2>1 DEF ChatIInv, ChatFollowed
<1> QED BY <1>1, <1>4, <1>5, <1>6, <1>7, <1>8, <1>9, ChatMoves

\* Opening subscribes to every mapped Session before it looks at the active Turns.
LEMMA ChatOpenSubscribeInv == ASSUME Chat!ChannelAssumption, ChatIInv, Chat!OpenSubscribe PROVE ChatIInv'
<1>1. UNCHANGED <<store, platform, history>> /\ proc.pc = "subscribing"
  BY DEF Chat!OpenSubscribe, Chat!At
<1>2. ChatProcTyped /\ ChatStoreTyped /\ ChatHubTyped /\ store.mapped \subseteq Convs
  BY DEF ChatIInv, ChatTyped, ChatStoreTyped
<1>3. PICK t : t = {c \in Convs : store.active[c] # None} OBVIOUS
<1>4. t \subseteq store.mapped
  <2>1. ASSUME NEW c \in Convs, store.active[c] # None PROVE c \in store.mapped
    <3>1. PICK m \in Messages : m = store.active[c] BY <1>2, <2>1 DEF ChatStoreTyped
    <3>2. Of[m] = c BY <1>2, <2>1, <3>1 DEF ChatStoreTyped
    <3> QED BY <3>1, <3>2 DEF ChatIInv, ChatReached
  <2> QED BY <1>3, <2>1
<1>5. /\ proc' = [pc |-> "recovering", conv |-> proc.conv, msg |-> proc.msg, back |-> proc.back,
                  batch |-> proc.batch, todo |-> t]
      /\ proc'.pc = "recovering" /\ proc'.batch = proc.batch /\ proc'.todo = t
  BY <1>2, <1>3 DEF Chat!OpenSubscribe, ChatProcTyped
<1>6. /\ hub'.turn = hub.turn /\ hub'.events = hub.events /\ hub'.checkpoint = hub.checkpoint
      /\ hub'.subscribed = hub.subscribed \cup store.mapped /\ hub'.foreign = hub.foreign
      /\ hub' = [turn |-> hub.turn, foreign |-> hub.foreign, subscribed |-> hub'.subscribed,
                 events |-> hub.events, checkpoint |-> hub.checkpoint]
  BY <1>2 DEF Chat!OpenSubscribe, ChatHubTyped
<1>7. ChatPhase = "subscribing" /\ ChatPhase' = "recovering" /\ ~ChatLaunching /\ ~ChatLaunching' /\ ChatMark' = ChatMark /\ ChatMark \in Nat
  BY <1>1, <1>5, <1>6 DEF ChatPhase, ChatLaunching, ChatMark, ChatIInv, ChatBatched
<1>8. ChatTyped'
  <2>1. ChatHubTyped'
    <3>1. hub'.subscribed \in SUBSET Convs BY <1>2, <1>6 DEF ChatHubTyped
    <3> QED BY <1>2, <1>6, <3>1 DEF ChatHubTyped
  <2>3. ChatProcTyped' BY <1>1, <1>2, <1>4, <1>5, <1>7 DEF ChatProcTyped
  <2> QED BY <1>1, <2>1, <2>3 DEF ChatIInv, ChatTyped, ChatStoreTyped, ChatPlatformTyped, ChatHistoryTyped
<1>9. ChatBatched' /\ ChatLaunched' /\ ChatWaited' BY <1>5, <1>7 DEF ChatBatched, ChatLaunched, ChatWaited
<1>10. ChatReached' BY <1>1, <1>5, <1>6 DEF ChatIInv, ChatReached, ChatPending
<1>11. ChatFollowed'
  <2>1. \A m \in Messages : store.active[Of[m]] = m => Of[m] \in t BY <1>3, ChatConstant
  <2> QED BY <1>1, <1>5, <1>7, <2>1 DEF ChatFollowed
<1> QED BY <1>1, <1>6, <1>7, <1>8, <1>9, <1>10, <1>11, ChatMoves

\* A message is stored once, at the end of the queue, unless it is there already.
LEMMA ChatEnqueueInv == ASSUME Chat!ChannelAssumption, ChatIInv, Chat!Enqueue PROVE ChatIInv'
<1>1. UNCHANGED <<hub, platform>> /\ proc.pc = "enqueue"
  BY DEF Chat!Enqueue, Chat!At
<1>2. /\ ChatProcTyped /\ ChatStoreTyped /\ ChatHistoryTyped /\ proc.msg \in Messages \ Invalid /\ proc.conv = Of[proc.msg]
      /\ proc.conv \in store.mapped /\ ChatStored /\ ChatQueued /\ Chat!TurnsInOrder
  BY <1>1 DEF ChatIInv, ChatTyped, ChatProcTyped
<1>3. PICK m \in Messages \ Invalid : m = proc.msg BY <1>2
<1>4. /\ proc' = [pc |-> "ack", conv |-> proc.conv, msg |-> proc.msg, back |-> proc.back,
                  batch |-> proc.batch, todo |-> proc.todo]
      /\ proc'.pc = "ack" /\ proc'.batch = proc.batch /\ proc'.conv = proc.conv
  BY <1>2 DEF Chat!Enqueue, Chat!Goto, ChatProcTyped
<1>5. /\ store'.pending = (IF Chat!Contains(store.pending, m) THEN store.pending ELSE Append(store.pending, m))
      /\ store'.mapped = store.mapped /\ store'.active = store.active
      /\ store' = [mapped |-> store.mapped, pending |-> store'.pending, active |-> store.active]
  BY <1>2, <1>3 DEF Chat!Enqueue, ChatStoreTyped
<1>6. /\ history'.stored = (IF Chat!Contains(history.stored, m) THEN history.stored ELSE Append(history.stored, m))
      /\ history'.started = history.started
      /\ history' = [stored |-> history'.stored, started |-> history.started]
  BY <1>2, <1>3 DEF Chat!Enqueue, ChatHistoryTyped
<1>7. ChatPhase = "enqueue" /\ ChatPhase' = "ack" /\ ~ChatLaunching /\ ~ChatLaunching' /\ ChatMark' = ChatMark /\ ChatMark \in Nat
  BY <1>1, <1>4 DEF ChatPhase, ChatLaunching, ChatMark, ChatIInv, ChatBatched
<1>8. /\ store'.pending \in Seq(Messages \ Invalid) /\ Chat!IsInjective(store'.pending)
      /\ \A y : Chat!Contains(store'.pending, y) <=> Chat!Contains(store.pending, y) \/ y = m
      /\ Len(store.pending) \in Nat /\ Len(store'.pending) \in {Len(store.pending), Len(store.pending) + 1}
      /\ \A i \in 1..Len(store.pending) : store'.pending[i] = store.pending[i]
      /\ Len(store'.pending) # Len(store.pending) =>
           ~Chat!Contains(store.pending, m) /\ store'.pending[Len(store.pending) + 1] = m
  <2>1. store.pending \in Seq(Messages \ Invalid) /\ Chat!IsInjective(store.pending) BY <1>2 DEF ChatStoreTyped
  <2>2. CASE Chat!Contains(store.pending, m) BY <1>5, <2>1, <2>2
  <2>3. CASE ~Chat!Contains(store.pending, m)
    <3>1. store'.pending = Append(store.pending, m) BY <1>5, <2>3
    <3> QED BY <2>1, <2>3, <3>1, ChatAppendIs
  <2> QED BY <2>2, <2>3
<1>9. /\ history'.stored \in Seq(Messages) /\ Chat!IsInjective(history'.stored)
      /\ \A y : Chat!Contains(history'.stored, y) <=> Chat!Contains(history.stored, y) \/ y = m
      /\ Len(history.stored) \in Nat /\ Len(history'.stored) \in {Len(history.stored), Len(history.stored) + 1}
      /\ \A i \in 1..Len(history.stored) : history'.stored[i] = history.stored[i]
      /\ Len(history'.stored) # Len(history.stored) =>
           ~Chat!Contains(history.stored, m) /\ history'.stored[Len(history.stored) + 1] = m
  <2>1. history.stored \in Seq(Messages) /\ Chat!IsInjective(history.stored) BY <1>2 DEF ChatHistoryTyped, ChatStored
  <2>2. CASE Chat!Contains(history.stored, m) BY <1>6, <2>1, <2>2
  <2>3. CASE ~Chat!Contains(history.stored, m)
    <3>1. history'.stored = Append(history.stored, m) BY <1>6, <2>3
    <3> QED BY <2>1, <2>3, <3>1, ChatAppendIs
  <2> QED BY <2>2, <2>3
<1>10. ChatTyped'
  <2>1. ChatStoreTyped' BY <1>2, <1>5, <1>8 DEF ChatStoreTyped
  <2>2. ChatProcTyped' BY <1>1, <1>2, <1>4, <1>5, <1>7 DEF ChatProcTyped
  <2>3. ChatHistoryTyped' BY <1>2, <1>6, <1>9 DEF ChatHistoryTyped
  <2> QED BY <1>1, <2>1, <2>2, <2>3 DEF ChatIInv, ChatTyped, ChatHubTyped, ChatPlatformTyped
<1>11. ChatBatched' /\ ChatLaunched' BY <1>4, <1>7 DEF ChatBatched, ChatLaunched
<1>12. ChatOnce' /\ ChatCrossed' BY <1>1, <1>7 DEF ChatIInv, ChatOnce, ChatCrossed
<1>13. ChatReached'
  <2>1. ChatReached BY DEF ChatIInv
  <2> QED BY <1>1, <1>2, <1>3, <1>4, <1>5, <1>8, <2>1 DEF ChatReached, ChatPending
<1>14. ChatWaited'
  <2>1. ChatWaited BY DEF ChatIInv
  <2> QED BY <1>1, <1>2, <1>3, <1>4, <1>5, <1>7, <1>8, <2>1 DEF ChatWaited, ChatPending
<1>15. ChatFollowed'
  <2>1. \A x : ChatAhead(x)' <=> ChatAhead(x) BY <1>1, <1>7 DEF ChatAhead
  <2> QED BY <1>1, <1>4, <1>5, <1>7, <2>1 DEF ChatIInv, ChatFollowed
<1>16. ChatStored' BY <1>1, <1>2, <1>6, <1>8, <1>9 DEF ChatStored, ChatPending, ChatKnown
<1>17. ChatQueued'
  <2> SUFFICES ASSUME NEW i \in 1..Len(store'.pending), NEW j \in 1..Len(store'.pending),
                      NEW k \in 1..Len(history'.stored), NEW l \in 1..Len(history'.stored),
                      store'.pending[i] = history'.stored[k], store'.pending[j] = history'.stored[l],
                      hub.turn[history'.stored[k]] = "none", hub.turn[history'.stored[l]] = "none", i < j
               PROVE  k < l
    BY <1>1 DEF ChatQueued
  <2>1. i \in 1..Len(store.pending) /\ store'.pending[i] = store.pending[i] BY <1>8
  <2>2. PICK x \in Messages : x = store.pending[i] /\ Chat!Contains(store.pending, x)
    <3>1. store.pending \in Seq(Messages \ Invalid) BY <1>2 DEF ChatStoreTyped
    <3> QED BY <2>1, <3>1 DEF Chat!Contains
  <2>3. Chat!Contains(history.stored, x) BY <1>2, <2>2 DEF ChatStored, ChatPending, ChatKnown
  <2>4. k \in 1..Len(history.stored) /\ history'.stored[k] = history.stored[k]
    <3>1. CASE k = Len(history.stored) + 1 /\ Len(history'.stored) # Len(history.stored)
      BY <1>9, <2>1, <2>2, <2>3, <3>1
    <3> QED BY <1>9, <3>1
  <2>5. CASE l = Len(history.stored) + 1 BY <1>9, <2>4, <2>5
  <2>6. CASE l \in 1..Len(history.stored)
    <3>1. history'.stored[l] = history.stored[l] BY <1>9, <2>6
    <3>2. CASE j \in 1..Len(store.pending)
      <4>1. store'.pending[j] = store.pending[j] BY <1>8, <3>2
      <4> QED BY <1>2, <2>1, <2>4, <2>6, <3>1, <3>2, <4>1 DEF ChatQueued
    <3>3. CASE j = Len(store.pending) + 1
      <4>1. store'.pending[j] = m /\ ~Chat!Contains(store.pending, m) BY <1>8, <3>3
      <4>2. Chat!Contains(history.stored, m) /\ hub.turn[m] = "none"  BY <2>6, <3>1, <4>1 DEF Chat!Contains
      <4>3. Chat!Contains(store.pending, m) BY <1>2, <4>2 DEF ChatStored, ChatPending, ChatKnown
      <4> QED BY <4>1, <4>3
    <3> QED BY <1>8, <3>2, <3>3
  <2> QED BY <1>9, <2>5, <2>6
<1>18. Chat!TurnsInOrder'
  <2>1. /\ DOMAIN history.stored = 1..Len(history.stored) /\ DOMAIN history'.stored = 1..Len(history'.stored)
    BY <1>2, <1>9 DEF ChatHistoryTyped
  <2>2. history'.started = history.started BY <1>6
  <2>3. ASSUME NEW a \in DOMAIN history'.started
        PROVE  \E b \in DOMAIN history'.stored :
                 /\ history'.stored[b] = history'.started[a]
                 /\ \A l \in 1..(b - 1) : Of[history'.stored[l]] = Of[history'.stored[b]] =>
                      \E j \in 1..(a - 1) : history'.started[j] = history'.stored[l]
    <3>0. a \in DOMAIN history.started BY <2>2
    <3>1. PICK b \in DOMAIN history.stored :
                 /\ history.stored[b] = history.started[a]
                 /\ \A l \in 1..(b - 1) : Of[history.stored[l]] = Of[history.stored[b]] =>
                      \E j \in 1..(a - 1) : history.started[j] = history.stored[l]
      BY <1>2, <3>0 DEF Chat!TurnsInOrder
    <3>2. b \in DOMAIN history'.stored /\ history'.stored[b] = history.stored[b] BY <1>9, <2>1
    <3>3. \A l \in 1..(b - 1) : history'.stored[l] = history.stored[l] BY <1>9, <2>1
    <3>4. \A l \in 1..(b - 1) : Of[history'.stored[l]] = Of[history'.stored[b]] =>
            \E j \in 1..(a - 1) : history.started[j] = history'.stored[l]
      BY <3>1, <3>2, <3>3
    <3> QED BY <2>2, <3>1, <3>2, <3>4
  <2>4. Chat!IsInjective(history'.started) BY <1>2, <2>2 DEF Chat!TurnsInOrder
  <2> QED BY <2>3, <2>4, Zenon DEF Chat!TurnsInOrder
<1> QED BY <1>10, <1>11, <1>12, <1>13, <1>14, <1>15, <1>16, <1>17, <1>18 DEF ChatIInv

\* What follows the first n of a sequence.
LEMMA ChatSuffixIs ==
  ASSUME NEW S, NEW q \in Seq(S), NEW n \in Nat, n <= Len(q)
  PROVE  /\ SubSeq(q, n + 1, Len(q)) \in Seq(S) /\ Len(SubSeq(q, n + 1, Len(q))) = Len(q) - n /\ Len(q) \in Nat
         /\ \A i \in 1..(Len(q) - n) : SubSeq(q, n + 1, Len(q))[i] = q[n + i]
<1>1. Len(q) \in Nat /\ \A i \in 1..Len(q) : q[i] \in S OBVIOUS
<1> DEFINE b == SubSeq(q, n + 1, Len(q))
<1>2. b = [i \in 1..(Len(q) - n) |-> q[n + i]]
  <2>1. \A i \in 1..(Len(q) - n) : (n + 1) + i - 1 = n + i BY <1>1
  <2>2. Len(q) - (n + 1) + 1 = Len(q) - n BY <1>1
  <2> QED BY <1>1, <2>1, <2>2
<1>3. Len(q) - n \in Nat /\ \A i \in 1..(Len(q) - n) : n + i \in 1..Len(q) BY <1>1
<1> HIDE DEF b
<1>4. b \in Seq(S) /\ Len(b) = Len(q) - n BY <1>1, <1>2, <1>3
<1> QED BY <1>1, <1>2, <1>4 DEF b

\* A batch is what the Hub has emitted since the checkpoint.
LEMMA ChatPollEventsInv == ASSUME Chat!ChannelAssumption, ChatIInv, Chat!PollEvents PROVE ChatIInv'
<1>1. UNCHANGED <<store, hub, platform, history>> /\ proc.pc = "select" /\ hub.checkpoint < Len(hub.events)
  BY DEF Chat!PollEvents, Chat!At
<1>2. ChatProcTyped /\ ChatStoreTyped /\ ChatHubTyped /\ hub.events \in Seq(ChatEvent) /\ hub.checkpoint \in Nat
  BY DEF ChatIInv, ChatTyped, ChatHubTyped
<1>3. PICK b : b = SubSeq(hub.events, hub.checkpoint + 1, Len(hub.events)) OBVIOUS
<1>4. /\ b \in Seq(ChatEvent) /\ Len(b) = Len(hub.events) - hub.checkpoint /\ Len(hub.events) \in Nat
      /\ \A i \in 1..Len(b) : b[i] = hub.events[hub.checkpoint + i]
  <2>1. hub.checkpoint <= Len(hub.events) BY <1>2 DEF ChatHubTyped
  <2> QED BY <1>2, <1>3, <2>1, ChatSuffixIs
<1>5. /\ proc' = [pc |-> "acknowledge", conv |-> proc.conv, msg |-> proc.msg, back |-> proc.back,
                  batch |-> b, todo |-> proc.todo]
      /\ proc'.pc = "acknowledge" /\ proc'.batch = b /\ proc'.todo = proc.todo
  BY <1>2, <1>3 DEF Chat!PollEvents, ChatProcTyped
<1>6. ChatPhase = "select" /\ ChatPhase' = "acknowledge" /\ ~ChatLaunching /\ ~ChatLaunching' /\ ChatMark' = ChatMark /\ ChatMark \in Nat
      /\ ChatMark = hub.checkpoint
  BY <1>1, <1>5 DEF ChatPhase, ChatLaunching, ChatMark, ChatIInv, ChatBatched
<1>7. ChatProcTyped' BY <1>1, <1>2, <1>4, <1>5, <1>6 DEF ChatProcTyped
<1>8. ChatBatched'
  <2>1. ChatMark + Len(b) <= Len(hub.events) BY <1>2, <1>4, <1>6
  <2> QED BY <1>1, <1>4, <1>5, <1>6, <2>1 DEF ChatBatched
<1>9. ChatLaunched' /\ ChatReached' /\ ChatWaited' BY <1>1, <1>5, <1>6 DEF ChatIInv, ChatLaunched, ChatReached, ChatWaited, ChatPending
<1>10. ChatFollowed'
  <2>1. \A x : ChatAhead(x)' <=> ChatAhead(x) BY <1>1, <1>6 DEF ChatAhead
  <2> QED BY <1>1, <1>5, <1>6, <2>1 DEF ChatIInv, ChatFollowed
<1> QED BY <1>1, <1>6, <1>7, <1>8, <1>9, <1>10, ChatProcMoves

\* The checkpoint moves over the batch in hand, nothing of which counts as handled yet.
LEMMA ChatAcknowledgeBatchInv == ASSUME Chat!ChannelAssumption, ChatIInv, Chat!AcknowledgeBatch PROVE ChatIInv'
<1>1. UNCHANGED <<store, platform, history>> /\ proc.pc = "acknowledge"
  BY DEF Chat!AcknowledgeBatch, Chat!At
<1>2. ChatProcTyped /\ ChatStoreTyped /\ ChatHubTyped /\ hub.checkpoint \in Nat /\ Len(proc.batch) \in Nat
  BY DEF ChatIInv, ChatTyped, ChatHubTyped, ChatProcTyped
<1>3. /\ proc' = [pc |-> "batch", conv |-> proc.conv, msg |-> proc.msg, back |-> proc.back,
                  batch |-> proc.batch, todo |-> proc.todo]
      /\ proc'.pc = "batch" /\ proc'.batch = proc.batch
  BY <1>2 DEF Chat!AcknowledgeBatch, Chat!Goto, ChatProcTyped
<1>4. /\ hub'.turn = hub.turn /\ hub'.events = hub.events /\ hub'.checkpoint = hub.checkpoint + Len(proc.batch)
      /\ hub'.subscribed = hub.subscribed
      /\ hub' = [turn |-> hub.turn, foreign |-> hub.foreign, subscribed |-> hub.subscribed,
                 events |-> hub.events, checkpoint |-> hub.checkpoint + Len(proc.batch)]
  BY <1>2 DEF Chat!AcknowledgeBatch, ChatHubTyped
<1>5. /\ ChatPhase = "acknowledge" /\ ChatPhase' = "batch" /\ ~ChatLaunching /\ ~ChatLaunching'
      /\ ChatMark = hub.checkpoint /\ ChatMark' = (hub.checkpoint + Len(proc.batch)) - Len(proc.batch)
  BY <1>1, <1>3, <1>4 DEF ChatPhase, ChatLaunching, ChatMark
<1>6. ChatMark' = ChatMark /\ ChatMark \in Nat BY <1>2, <1>5
<1>7. ChatTyped'
  <2>1. hub.checkpoint + Len(proc.batch) <= Len(hub.events) BY <1>1, <1>5 DEF ChatIInv, ChatBatched
  <2>2. ChatHubTyped' BY <1>2, <1>4, <2>1 DEF ChatHubTyped
  <2>3. ChatProcTyped' BY <1>1, <1>2, <1>3, <1>5 DEF ChatProcTyped
  <2> QED BY <1>1, <2>2, <2>3 DEF ChatIInv, ChatTyped, ChatStoreTyped, ChatPlatformTyped, ChatHistoryTyped
<1>8. ChatBatched' BY <1>1, <1>3, <1>4, <1>6 DEF ChatIInv, ChatBatched
<1>9. ChatLaunched' /\ ChatReached' /\ ChatWaited' BY <1>1, <1>3, <1>4, <1>5 DEF ChatIInv, ChatLaunched, ChatReached, ChatWaited, ChatPending
<1>10. ChatFollowed'
  <2>1. \A x : ChatAhead(x)' <=> ChatAhead(x) BY <1>4, <1>6 DEF ChatAhead
  <2> QED BY <1>1, <1>3, <1>4, <1>5, <2>1 DEF ChatIInv, ChatFollowed
<1> QED BY <1>1, <1>4, <1>6, <1>7, <1>8, <1>9, <1>10, ChatMoves

\* One event of the batch is handled: an answer crosses, an end frees its conversation.
LEMMA ChatHandleEventInv == ASSUME Chat!ChannelAssumption, ChatIInv, Chat!HandleEvent PROVE ChatIInv'
<1>1. UNCHANGED <<hub, history>> /\ proc.pc = "batch"
  BY DEF Chat!HandleEvent, Chat!At
<1>2. /\ ChatProcTyped /\ ChatStoreTyped /\ ChatHubTyped /\ ChatPlatformTyped /\ hub.checkpoint \in Nat
      /\ proc.batch \in Seq(ChatEvent) /\ Len(proc.batch) \in Nat /\ hub.events \in Seq(ChatEvent) /\ Len(hub.events) \in Nat
      /\ store.mapped \subseteq Convs
  BY DEF ChatIInv, ChatTyped, ChatHubTyped, ChatProcTyped, ChatStoreTyped
<1>3. /\ ChatPhase = "batch" /\ ~ChatLaunching /\ ChatMark = hub.checkpoint - Len(proc.batch) /\ ChatMark \in Nat
      /\ ChatMark + Len(proc.batch) <= Len(hub.events)
      /\ \A i \in 1..Len(proc.batch) : proc.batch[i] = hub.events[ChatMark + i]
  BY <1>1 DEF ChatPhase, ChatLaunching, ChatMark, ChatIInv, ChatBatched
<1>4. CASE proc.batch = <<>>
  <2>1. UNCHANGED <<store, hub, platform, history>> /\ Chat!Goto("select")  BY <1>1, <1>4 DEF Chat!HandleEvent
  <2>2. /\ proc' = [pc |-> "select", conv |-> proc.conv, msg |-> proc.msg, back |-> proc.back,
                    batch |-> proc.batch, todo |-> proc.todo]
        /\ proc'.pc = "select" /\ proc'.batch = proc.batch
    BY <1>2, <2>1 DEF Chat!Goto, ChatProcTyped
  <2>3. ChatPhase' = "select" /\ ~ChatLaunching' /\ ChatMark' = ChatMark
    BY <1>2, <1>3, <1>4, <2>1, <2>2 DEF ChatPhase, ChatLaunching, ChatMark
  <2>4. ChatProcTyped' BY <1>1, <1>2, <2>1, <2>2, <2>3 DEF ChatProcTyped
  <2>5. ChatBatched' /\ ChatLaunched' /\ ChatReached' /\ ChatWaited'
    BY <1>1, <1>3, <2>1, <2>2, <2>3 DEF ChatIInv, ChatBatched, ChatLaunched, ChatReached, ChatWaited, ChatPending
  <2>6. ChatFollowed'
    <3>1. \A x : ChatAhead(x)' <=> ChatAhead(x) BY <1>1, <2>3 DEF ChatAhead
    <3> QED BY <1>1, <1>3, <2>1, <2>2, <2>3, <3>1 DEF ChatIInv, ChatFollowed
  <2> QED BY <1>3, <2>1, <2>3, <2>4, <2>5, <2>6, ChatProcMoves
<1>5. CASE proc.batch # <<>>
  <2>1. PICK e : e = Head(proc.batch) OBVIOUS
  <2>2. PICK t : t = Tail(proc.batch) OBVIOUS
  <2>3. /\ Len(proc.batch) > 0 /\ e \in ChatEvent /\ t \in Seq(ChatEvent) /\ Len(t) = Len(proc.batch) - 1
        /\ e = hub.events[ChatMark + 1] /\ \A i \in 1..Len(t) : t[i] = hub.events[ChatMark + 1 + i]
    <3>1. /\ Len(proc.batch) > 0 /\ e = proc.batch[1] /\ t \in Seq(ChatEvent) /\ Len(t) = Len(proc.batch) - 1
          /\ \A i \in 1..Len(t) : t[i] = proc.batch[i + 1]
      BY <1>2, <1>5, <2>1, <2>2
    <3>2. e \in ChatEvent BY <1>2, <3>1
    <3>3. \A i \in 1..Len(t) : i + 1 \in 1..Len(proc.batch) /\ ChatMark + (i + 1) = ChatMark + 1 + i BY <1>2, <1>3, <3>1
    <3>4. 1 \in 1..Len(proc.batch) BY <1>2, <3>1
    <3> QED BY <1>3, <3>1, <3>2, <3>3, <3>4
  <2>4. PICK ends \in BOOLEAN : ends = (e.kind = "end" /\ \E c \in Convs : store.active[c] = e.msg)  OBVIOUS
  <2>5. /\ platform' = (IF e.kind = "answer" THEN [platform EXCEPT !.answers = Append(@, e.msg)] ELSE platform)
        /\ store' = (IF ends THEN [store EXCEPT !.active[Of[e.msg]] = None] ELSE store)
        /\ proc' = [proc EXCEPT !.batch = t, !.back = "batch",
                                !.conv = IF ends THEN Of[e.msg] ELSE @,
                                !.pc = IF ends THEN "launch" ELSE "batch"]
    BY <1>5, <2>1, <2>2, <2>4 DEF Chat!HandleEvent
  <2>6. /\ proc'.pc = (IF ends THEN "launch" ELSE "batch") /\ proc'.batch = t /\ proc'.back = "batch"
        /\ proc'.conv = (IF ends THEN Of[e.msg] ELSE proc.conv) /\ proc'.msg = proc.msg /\ proc'.todo = proc.todo
        /\ proc' = [pc |-> proc'.pc, conv |-> proc'.conv, msg |-> proc.msg, back |-> "batch", batch |-> t,
                    todo |-> proc.todo]
    BY <1>2, <2>5 DEF ChatProcTyped
  <2>7. ChatPhase' = "batch" /\ (ChatLaunching' <=> ends) /\ ChatMark' = hub.checkpoint - Len(t)
    <3>1. CASE ends BY <1>1, <2>6, <3>1 DEF ChatPhase, ChatLaunching, ChatMark
    <3>2. CASE ~ends BY <1>1, <2>6, <3>2 DEF ChatPhase, ChatLaunching, ChatMark
    <3> QED BY <3>1, <3>2
  <2>8. ChatMark' = ChatMark + 1 /\ ChatMark + 1 \in Nat /\ ChatMark + 1 <= Len(hub.events) /\ ChatMark + 1 + Len(t) <= Len(hub.events)
    <3>1. PICK c \in Nat, b \in Nat, l \in Nat : c = hub.checkpoint /\ b = Len(proc.batch) /\ l = Len(hub.events)
      BY <1>2
    <3>2. Len(t) = b - 1 /\ b > 0 /\ ChatMark = c - b /\ ChatMark \in Nat /\ ChatMark + b <= l /\ ChatMark' = c - Len(t)
      BY <1>3, <2>3, <2>7, <3>1
    <3>3. ChatMark' = ChatMark + 1 /\ ChatMark + 1 \in Nat /\ ChatMark + 1 <= l /\ ChatMark + 1 + Len(t) <= l
      BY <3>2
    <3> QED BY <3>1, <3>3
  <2>9. /\ ends => e.msg \in Messages /\ store.active[Of[e.msg]] = e.msg /\ Of[e.msg] \in store.mapped
                   /\ Of[e.msg] \in Convs
        /\ e.kind \in {"answer", "end"} => e.msg \in Messages
        /\ e.kind = "end" /\ ~ends => \A c \in Convs : store.active[c] # e.msg
    <3>1. e.kind \in {"answer", "end"} => e.msg \in Messages  BY <2>3, ChatEventIs
    <3>2. ASSUME ends PROVE e.msg \in Messages /\ store.active[Of[e.msg]] = e.msg /\ Of[e.msg] \in store.mapped
                            /\ Of[e.msg] \in Convs
      <4>1. e.msg \in Messages BY <2>4, <3>1, <3>2
      <4>2. PICK c \in Convs : store.active[c] = e.msg BY <2>4, <3>2
      <4>3. Of[e.msg] = c BY <1>2, <4>1, <4>2, ChatConstant DEF ChatStoreTyped
      <4>4. Of[e.msg] \in store.mapped BY <4>1, <4>2, <4>3 DEF ChatIInv, ChatReached
      <4> QED BY <4>1, <4>2, <4>3, <4>4
    <3> QED BY <2>4, <3>1, <3>2
  <2>10. /\ store'.mapped = store.mapped /\ store'.pending = store.pending
         /\ store' = [mapped |-> store.mapped, pending |-> store.pending, active |-> store'.active]
         /\ store'.active \in [Convs -> Messages \cup {None}]
         /\ ends => store'.active[Of[e.msg]] = None
         /\ \A d \in Convs : store'.active[d] = store.active[d] \/ (ends /\ d = Of[e.msg])
    <3>1. CASE ends BY <1>2, <2>5, <2>9, <3>1 DEF ChatStoreTyped
    <3>2. CASE ~ends BY <1>2, <2>5, <3>2 DEF ChatStoreTyped
    <3> QED BY <3>1, <3>2
  <2>11. ChatTyped'
    <3>1. ChatStoreTyped'  
      <4>1. \A d \in Convs : store'.active[d] = None \/ store'.active[d] = store.active[d] BY <2>10
      <4> QED BY <1>2, <2>10, <4>1 DEF ChatStoreTyped
    <3>2. ChatProcTyped'
      <4>1. /\ proc'.conv \in Convs \cup {None} /\ proc.todo \subseteq store'.mapped /\ proc'.pc \in {"launch", "batch"}
            /\ ends => proc'.conv \in store'.mapped
        BY <1>2, <2>6, <2>9, <2>10 DEF ChatProcTyped
      <4>2. proc' \in [pc : {"down", "subscribing", "recovering", "launching", "launch", "running", "done",
                             "select", "reject", "map", "subscribe", "enqueue", "ack", "acknowledge", "batch"},
                 conv : Convs \cup {None}, msg : Messages \cup {None},
                 back : {"recovering", "launching", "select", "batch"},
                 batch : Seq(ChatEvent), todo : SUBSET store'.mapped]
        <5>1. proc.msg \in Messages \cup {None} BY <1>2 DEF ChatProcTyped
        <5> QED BY <2>3, <2>6, <4>1, <5>1
      <4> QED BY <2>6, <2>7, <4>1, <4>2 DEF ChatProcTyped
    <3>3. ChatPlatformTyped'
      <4>1. CASE e.kind = "answer"
        <5>1. platform' = [unacked |-> platform.unacked, answers |-> Append(platform.answers, e.msg)]
          BY <1>2, <2>5, <4>1 DEF ChatPlatformTyped
        <5>2. Append(platform.answers, e.msg) \in Seq(Messages) BY <1>2, <2>9, <4>1 DEF ChatPlatformTyped
        <5> QED BY <1>2, <5>1, <5>2 DEF ChatPlatformTyped
      <4>2. CASE e.kind # "answer"  BY <1>2, <2>5, <4>2 DEF ChatPlatformTyped
      <4> QED BY <4>1, <4>2
    <3> QED BY <1>1, <3>1, <3>2, <3>3 DEF ChatIInv, ChatTyped, ChatHubTyped, ChatHistoryTyped
  <2>12. ChatBatched' BY <1>1, <2>3, <2>6, <2>7, <2>8 DEF ChatBatched
  <2>13. ChatOnce' /\ ChatStored' /\ ChatQueued' /\ Chat!TurnsInOrder'
    BY <1>1, <2>10 DEF ChatIInv, ChatOnce, ChatStored, ChatQueued, Chat!TurnsInOrder, ChatPending, ChatKnown
  <2>14. ChatCrossed'
    <3>1. ChatCrossed /\ 1..ChatMark \subseteq 1..(ChatMark + 1) BY <1>3 DEF ChatIInv
    <3>2. CASE e.kind # "answer"
      <4>1. platform' = platform BY <2>5, <3>2
      <4> QED BY <1>1, <2>8, <3>1, <4>1 DEF ChatCrossed
    <3>3. CASE e.kind = "answer"
      <4>1. platform'.answers = Append(platform.answers, e.msg) /\ platform.answers \in Seq(Messages) /\ e.msg \in Messages
        BY <1>2, <2>5, <2>9, <3>3 DEF ChatPlatformTyped
      <4>2. e = [kind |-> "answer", msg |-> e.msg]  BY <2>3, <3>3, ChatEventIs
      <4>3. ~Chat!Contains(platform.answers, e.msg)
        <5>1. SUFFICES ASSUME NEW k \in 1..Len(platform.answers), platform.answers[k] = e.msg PROVE FALSE
          BY DEF Chat!Contains
        <5>2. PICK i \in 1..ChatMark : hub.events[i] = [kind |-> "answer", msg |-> e.msg]  BY <3>1, <5>1 DEF ChatCrossed
        <5>3. hub.events[i] = hub.events[ChatMark + 1] BY <2>3, <4>2, <5>2
        <5>4. i \in 1..Len(hub.events) /\ ChatMark + 1 \in 1..Len(hub.events) /\ i # ChatMark + 1 BY <1>3, <2>8
        <5>5. hub.events[i].kind # "other"  BY <5>2
        <5> QED BY <5>3, <5>4, <5>5 DEF ChatIInv, ChatOnce
      <4>4. /\ Chat!IsInjective(platform'.answers) /\ Len(platform'.answers) = Len(platform.answers) + 1
            /\ Len(platform.answers) \in Nat /\ platform'.answers[Len(platform.answers) + 1] = e.msg
            /\ \A k \in 1..Len(platform.answers) : platform'.answers[k] = platform.answers[k]
        BY <3>1, <4>1, <4>3, ChatAppendIs DEF ChatCrossed
      <4>5. ASSUME NEW k \in 1..Len(platform'.answers)
            PROVE  \E i \in 1..(ChatMark + 1) : hub.events[i] = [kind |-> "answer", msg |-> platform'.answers[k]]
        <5>1. CASE k \in 1..Len(platform.answers)
          <6>1. platform'.answers[k] = platform.answers[k] BY <4>4, <5>1
          <6>2. PICK i \in 1..ChatMark : hub.events[i] = [kind |-> "answer", msg |-> platform.answers[k]]
            BY <3>1, <5>1 DEF ChatCrossed
          <6> QED BY <3>1, <6>1, <6>2
        <5>2. CASE k = Len(platform.answers) + 1
          <6>1. ChatMark + 1 \in 1..(ChatMark + 1) BY <1>3
          <6> QED BY <2>3, <4>2, <4>4, <5>2, <6>1
        <5> QED BY <4>4, <5>1, <5>2
      <4> QED BY <1>1, <2>8, <4>4, <4>5 DEF ChatCrossed
    <3> QED BY <3>2, <3>3
  <2>15. ASSUME NEW x \in Messages, store'.active[Of[x]] = x
         PROVE  store.active[Of[x]] = x /\ ~(ends /\ Of[x] = Of[e.msg])
    BY <2>10, <2>15, ChatConstant
  <2>16. ChatReached' BY <1>1, <2>6, <2>10, <2>15 DEF ChatIInv, ChatReached, ChatPending
  <2>17. ChatLaunched' BY <2>6 DEF ChatLaunched
  <2>18. ChatFollowed'
    <3>1. ASSUME NEW x \in Messages, hub.turn[x] = "done", store'.active[Of[x]] = x
          PROVE  \E i \in (ChatMark + 1 + 1)..Len(hub.events) : hub.events[i] = [kind |-> "end", msg |-> x]
      <4>1. ChatAhead(x) BY <1>1, <1>3, <2>15, <3>1 DEF ChatIInv, ChatFollowed
      <4>2. PICK i \in (ChatMark + 1)..Len(hub.events) : hub.events[i] = [kind |-> "end", msg |-> x]  BY <4>1 DEF ChatAhead
      <4>3. i # ChatMark + 1
        <5>1. SUFFICES ASSUME i = ChatMark + 1 PROVE FALSE OBVIOUS
        <5>2. e = [kind |-> "end", msg |-> x]  BY <2>3, <4>2, <5>1
        <5>3. e.kind = "end" /\ e.msg = x /\ store.active[Of[x]] = x /\ Of[x] \in Convs
          BY <2>15, <3>1, <5>2, ChatConstant
        <5>4. ends BY <2>4, <5>3
        <5> QED BY <2>15, <3>1, <5>3, <5>4
      <4>4. i \in (ChatMark + 1 + 1)..Len(hub.events) BY <1>2, <1>3, <4>2, <4>3
      <4> QED BY <4>2, <4>4
    <3>2. \A x \in Messages : hub.turn[x] = "done" /\ store'.active[Of[x]] = x => ChatAhead(x)'
      BY <1>1, <2>8, <3>1 DEF ChatAhead
    <3> QED BY <1>1, <2>6, <3>2 DEF ChatFollowed
  <2>19. ChatWaited'
    <3>1. \A x \in Messages : ChatPending(x) => store.active[Of[x]] # None
      BY <1>1, <1>3 DEF ChatIInv, ChatWaited
    <3>2. ASSUME NEW x \in Messages, ChatPending(x), store'.active[Of[x]] = None PROVE ends /\ Of[x] = proc'.conv
      BY <2>6, <2>10, <3>1, <3>2, ChatConstant
    <3> QED BY <2>7, <2>10, <3>2 DEF ChatWaited, ChatPending
  <2> QED BY <2>11, <2>12, <2>13, <2>14, <2>16, <2>17, <2>18, <2>19 DEF ChatIInv
<1> QED BY <1>4, <1>5

\* The Hub emits events: what it emitted before stays, and nothing else is touched.
LEMMA ChatEventsGrow ==
  ASSUME Chat!ChannelAssumption, ChatIInv, UNCHANGED <<store, proc, platform, history>>, ChatHubTyped',
         hub'.subscribed = hub.subscribed, hub'.checkpoint = hub.checkpoint,
         \A x \in Messages : (hub'.turn[x] = "none" <=> hub.turn[x] = "none"),
         Len(hub'.events) \in Nat, Len(hub.events) <= Len(hub'.events),
         \A i \in 1..Len(hub.events) : hub'.events[i] = hub.events[i],
         ChatOnce',
         proc.pc \notin {"down", "subscribing"} =>
           (\A x \in Messages :
              (/\ hub'.turn[x] = "done" /\ hub.turn[x] # "done"
               /\ store.active[Of[x]] = x \/ (proc.pc = "running" /\ proc.msg = x)) =>
              \E i \in (Len(hub.events) + 1)..Len(hub'.events) : hub'.events[i] = [kind |-> "end", msg |-> x])
  PROVE  ChatIInv'
<1>1. ChatPhase' = ChatPhase /\ ChatLaunching' = ChatLaunching /\ ChatMark' = ChatMark /\ ChatMark \in Nat /\ Len(hub.events) \in Nat
      /\ hub.checkpoint \in Nat /\ hub.checkpoint <= Len(hub.events) /\ Len(proc.batch) \in Nat
  BY DEF ChatPhase, ChatLaunching, ChatMark, ChatIInv, ChatBatched, ChatTyped, ChatHubTyped, ChatProcTyped
<1>2. ChatMark <= Len(hub.events)
  <2>1. ChatMark <= hub.checkpoint BY <1>1 DEF ChatMark
  <2> QED BY <1>1, <2>1
<1>3. ChatTyped' BY DEF ChatIInv, ChatTyped, ChatStoreTyped, ChatProcTyped, ChatPlatformTyped, ChatHistoryTyped, ChatLaunching
<1>4. ChatBatched'
  <2>1. ChatBatched BY DEF ChatIInv
  <2>2. ASSUME proc.pc = "acknowledge" \/ ChatPhase = "batch"
        PROVE  /\ ChatMark + Len(proc.batch) <= Len(hub'.events)
               /\ \A i \in 1..Len(proc.batch) : proc.batch[i] = hub'.events[ChatMark + i]
    <3>1. /\ ChatMark + Len(proc.batch) <= Len(hub.events)
          /\ \A i \in 1..Len(proc.batch) : proc.batch[i] = hub.events[ChatMark + i]
      BY <2>1, <2>2 DEF ChatBatched
    <3>2. \A i \in 1..Len(proc.batch) : ChatMark + i \in 1..Len(hub.events) BY <1>1, <3>1
    <3> QED BY <1>1, <3>1, <3>2
  <2> QED BY <1>1, <2>2 DEF ChatBatched
<1>5. ChatCrossed'
  <2>1. \A i \in 1..ChatMark : i \in 1..Len(hub.events) BY <1>1, <1>2
  <2> QED BY <1>1, <2>1 DEF ChatIInv, ChatCrossed
<1>6. ChatReached' /\ ChatWaited' BY <1>1 DEF ChatIInv, ChatReached, ChatWaited, ChatPending
<1>7. ChatLaunched'
  <2>1. proc.pc = "running" \/ proc.pc = "done" => proc.msg \in Messages  BY DEF ChatIInv, ChatTyped, ChatProcTyped
  <2> QED BY <2>1 DEF ChatIInv, ChatLaunched, ChatPending
<1>8. ChatStored' /\ ChatQueued' /\ Chat!TurnsInOrder'
  <2>1. \A k \in 1..Len(history.stored) : history.stored[k] \in Messages BY DEF ChatIInv, ChatTyped, ChatHistoryTyped
  <2>2. \A m \in Messages : hub'.turn[m] # "none" <=> Chat!Contains(history.started, m)  BY DEF ChatIInv, ChatStored
  <2>3. ChatStored' BY <2>2 DEF ChatIInv, ChatStored, ChatPending, ChatKnown
  <2>4. ChatQueued'
    <3>1. ChatQueued /\ store' = store /\ history' = history BY DEF ChatIInv
    <3>2. \A k \in 1..Len(history.stored) : hub'.turn[history.stored[k]] = "none" => hub.turn[history.stored[k]] = "none"
      BY <2>1
    <3> QED BY <3>1, <3>2 DEF ChatQueued
  <2>5. Chat!TurnsInOrder' BY DEF ChatIInv, Chat!TurnsInOrder
  <2> QED BY <2>3, <2>4, <2>5
<1>9. ChatFollowed'
  <2> SUFFICES ASSUME proc.pc \notin {"down", "subscribing"}, NEW x \in Messages, hub'.turn[x] = "done"
               PROVE  /\ store.active[Of[x]] = x => ChatAhead(x)' \/ (ChatPhase = "recovering" /\ Of[x] \in proc.todo)
                      /\ proc.pc = "running" /\ proc.msg = x => ChatAhead(x)'
    BY <1>1 DEF ChatFollowed
  <2>1. ChatAhead(x) => ChatAhead(x)'
    <3>1. \A i \in (ChatMark + 1)..Len(hub.events) : i \in 1..Len(hub.events) /\ i \in (ChatMark + 1)..Len(hub'.events)
      BY <1>1
    <3> QED BY <1>1, <3>1 DEF ChatAhead
  <2>2. CASE hub.turn[x] = "done"  BY <2>1, <2>2 DEF ChatIInv, ChatFollowed
  <2>3. CASE hub.turn[x] # "done"
    <3>1. \A i \in (Len(hub.events) + 1)..Len(hub'.events) : i \in (ChatMark + 1)..Len(hub'.events)
      BY <1>1, <1>2
    <3>2. store.active[Of[x]] = x \/ (proc.pc = "running" /\ proc.msg = x) => ChatAhead(x)'
      BY <1>1, <2>3, <3>1 DEF ChatAhead
    <3> QED BY <3>2
  <2> QED BY <2>2, <2>3
<1> QED BY <1>3, <1>4, <1>5, <1>6, <1>7, <1>8, <1>9 DEF ChatIInv

\* A running Turn ends, and its events follow all that the Channel has seen.
LEMMA ChatTurnEndsInv == ASSUME Chat!ChannelAssumption, ChatIInv, NEW m \in Messages, Chat!TurnEnds(m) PROVE ChatIInv'
<1>1. UNCHANGED <<store, proc, platform, history>> /\ hub.turn[m] = "running"
  BY DEF Chat!TurnEnds
<1>2. PICK answers \in BOOLEAN :
        hub' = [hub EXCEPT !.turn[m] = "done",
                   !.events = IF Of[m] \notin hub.subscribed THEN @
                              ELSE @ \o (IF answers THEN <<[kind |-> "answer", msg |-> m]>> ELSE <<>>)
                                     \o <<[kind |-> "end", msg |-> m]>>]
  BY DEF Chat!TurnEnds
<1>3. ChatHubTyped /\ hub.events \in Seq(ChatEvent) /\ Len(hub.events) \in Nat BY DEF ChatIInv, ChatTyped, ChatHubTyped
<1> DEFINE n == Len(hub.events)
           a == [kind |-> "answer", msg |-> m]
           e == [kind |-> "end", msg |-> m]
<1>4. a \in ChatEvent /\ e \in ChatEvent /\ a # e /\ a.msg = m /\ e.msg = m /\ a.kind # "other" /\ e.kind # "other"
  BY ChatEventIs
<1>5. /\ hub'.turn = [hub.turn EXCEPT ![m] = "done"] /\ hub'.subscribed = hub.subscribed
      /\ hub'.checkpoint = hub.checkpoint
      /\ hub'.events = (IF Of[m] \notin hub.subscribed THEN hub.events
                        ELSE hub.events \o (IF answers THEN <<a>> ELSE <<>>) \o <<e>>)
      /\ hub' = [turn |-> hub'.turn, foreign |-> hub.foreign, subscribed |-> hub.subscribed,
                 events |-> hub'.events, checkpoint |-> hub.checkpoint]
  BY <1>2, <1>3 DEF ChatHubTyped
<1>6. /\ hub'.turn \in [Messages -> {"none", "running", "done"}] /\ hub'.turn[m] = "done"
      /\ \A x \in Messages \ {m} : hub'.turn[x] = hub.turn[x]
  BY <1>3, <1>5 DEF ChatHubTyped
<1> HIDE DEF a, e
<1>7. /\ hub'.events \in Seq(ChatEvent) /\ Len(hub'.events) \in n..(n + 2)
      /\ \A i \in 1..n : hub'.events[i] = hub.events[i]
      /\ \A i \in (n + 1)..Len(hub'.events) : hub'.events[i] \in {a, e}
      /\ \A i, j \in (n + 1)..Len(hub'.events) : hub'.events[i] = hub'.events[j] => i = j
      /\ Of[m] \in hub.subscribed => \E i \in (n + 1)..Len(hub'.events) : hub'.events[i] = e
  <2>1. PICK q \in Seq(ChatEvent) : q = hub.events BY <1>3
  <2>2. CASE Of[m] \notin hub.subscribed  
    <3>1. hub'.events = q BY <1>5, <2>1, <2>2
    <3> QED BY <1>3, <2>1, <2>2, <3>1
  <2>3. CASE Of[m] \in hub.subscribed /\ ~answers
    <3>1. hub'.events = q \o <<>> \o <<e>> BY <1>5, <2>1, <2>3
    <3>2. hub'.events = Append(q, e) BY <1>4, <2>1, <3>1
    <3>3. /\ hub'.events \in Seq(ChatEvent) /\ Len(hub'.events) = n + 1 /\ hub'.events[n + 1] = e
          /\ \A i \in 1..n : hub'.events[i] = hub.events[i]
      BY <1>4, <2>1, <3>2
    <3>4. (n + 1)..Len(hub'.events) = {n + 1} BY <1>3, <3>3
    <3> QED BY <1>3, <3>3, <3>4
  <2>4. CASE Of[m] \in hub.subscribed /\ answers
    <3>1. hub'.events = q \o <<a>> \o <<e>> BY <1>5, <2>1, <2>4
    <3>a. \A u \in Seq(ChatEvent), x \in ChatEvent : u \o <<x>> = Append(u, x) OBVIOUS
    <3>b. Append(q, a) \in Seq(ChatEvent) BY <1>4, ChatAppendIs
    <3>2. hub'.events = Append(Append(q, a), e) BY <1>4, <3>1, <3>a, <3>b
    <3>3. PICK r \in Seq(ChatEvent) : r = Append(q, a) BY <3>b
    <3>4. Len(r) = n + 1 /\ r[n + 1] = a /\ \A i \in 1..n : r[i] = hub.events[i]
      BY <1>4, <2>1, <3>3, ChatAppendIs
    <3>c. hub'.events = Append(r, e) BY <3>2, <3>3
    <3>d. /\ Append(r, e) \in Seq(ChatEvent) /\ Len(Append(r, e)) = Len(r) + 1 /\ Append(r, e)[Len(r) + 1] = e
          /\ \A i \in 1..Len(r) : Append(r, e)[i] = r[i]
      BY <1>4, ChatAppendIs
    <3>e. (n + 1) + 1 = n + 2 /\ n \in Nat BY <1>3
    <3>5. /\ hub'.events \in Seq(ChatEvent) /\ Len(hub'.events) = n + 2 /\ hub'.events[n + 2] = e
          /\ \A i \in 1..(n + 1) : hub'.events[i] = r[i]
      BY <3>4, <3>c, <3>d, <3>e
    <3>6. (n + 1)..Len(hub'.events) = {n + 1, n + 2}
      <4>1. Len(hub'.events) = n + 2 BY <3>5
      <4> QED BY <3>e, <4>1
    <3>7. hub'.events[n + 1] = a /\ \A i \in 1..n : hub'.events[i] = hub.events[i] BY <1>3, <3>4, <3>5
    <3>8. /\ \A i \in (n + 1)..Len(hub'.events) : hub'.events[i] \in {a, e}
          /\ \A i, j \in (n + 1)..Len(hub'.events) : hub'.events[i] = hub'.events[j] => i = j
      BY <1>4, <3>5, <3>6, <3>7
    <3>9. n + 2 \in (n + 1)..Len(hub'.events) /\ Len(hub'.events) \in n..(n + 2)
      <4>1. Len(hub'.events) = n + 2 BY <3>5
      <4> QED BY <3>e, <4>1
    <3> QED BY <3>5, <3>7, <3>8, <3>9
  <2> QED BY <2>2, <2>3, <2>4
<1>8. Len(hub'.events) \in Nat /\ n <= Len(hub'.events) /\ n \in Nat
      /\ \A i \in 1..Len(hub'.events) : i \in 1..n \/ i \in (n + 1)..Len(hub'.events)
  BY <1>3, <1>7
<1>9. ChatHubTyped'
  <2>1. hub.checkpoint <= n /\ hub.checkpoint \in Nat BY <1>3 DEF ChatHubTyped
  <2>2. hub.checkpoint <= Len(hub'.events) BY <1>8, <2>1
  <2>3. hub.foreign \in SUBSET Convs /\ hub.subscribed \in SUBSET Convs BY <1>3 DEF ChatHubTyped
  <2>4. hub' \in [turn : [Messages -> {"none", "running", "done"}], foreign : SUBSET Convs,
                  subscribed : SUBSET Convs, events : Seq(ChatEvent), checkpoint : Nat]
    <3>1. hub'.turn \in [Messages -> {"none", "running", "done"}] /\ hub'.events \in Seq(ChatEvent)  BY <1>6, <1>7
    <3>2. hub' = [turn |-> hub'.turn, foreign |-> hub.foreign, subscribed |-> hub.subscribed,
                  events |-> hub'.events, checkpoint |-> hub.checkpoint]
      BY <1>5
    <3> QED BY <2>1, <2>3, <3>1, <3>2
  <2> QED BY <1>5, <2>2, <2>4 DEF ChatHubTyped
<1>10. \A i \in 1..n : hub.events[i].kind # "other" =>
         hub.events[i].msg \in Messages \ {m} /\ hub.turn[hub.events[i].msg] = "done"
  <2>1. ASSUME NEW i \in 1..n, hub.events[i].kind # "other"
        PROVE  hub.events[i].msg \in Messages \ {m} /\ hub.turn[hub.events[i].msg] = "done"
    <3>1. hub.turn[hub.events[i].msg] = "done"  BY <2>1 DEF ChatIInv, ChatOnce
    <3>2. hub.events[i] \in ChatEvent BY <1>3
    <3>3. hub.events[i].msg \in Messages BY <2>1, <3>2, ChatEventIs
    <3> QED BY <1>1, <3>1, <3>3
  <2> QED BY <2>1
<1>11. ChatOnce'
  <2> SUFFICES ASSUME NEW i \in 1..Len(hub'.events), NEW j \in 1..Len(hub'.events), hub'.events[i].kind # "other"
               PROVE  /\ hub'.turn[hub'.events[i].msg] = "done"
                      /\ hub'.events[i] = hub'.events[j] => i = j
    BY DEF ChatOnce
  <2>1. CASE i \in 1..n
    <3>1. hub'.events[i] = hub.events[i] /\ hub.events[i].msg \in Messages \ {m} /\ hub.turn[hub.events[i].msg] = "done"
      BY <1>7, <1>10, <2>1
    <3>2. CASE j \in 1..n
      <4>1. hub'.events[j] = hub.events[j] BY <1>7, <3>2
      <4>2. hub.events[i] = hub.events[j] => i = j BY <2>1, <3>1, <3>2 DEF ChatIInv, ChatOnce
      <4> QED BY <1>6, <3>1, <4>1, <4>2
    <3>3. CASE j \in (n + 1)..Len(hub'.events)
      <4>1. hub'.events[j].msg = m BY <1>4, <1>7, <3>3
      <4> QED BY <1>6, <3>1, <4>1
    <3> QED BY <1>8, <3>2, <3>3
  <2>2. CASE i \in (n + 1)..Len(hub'.events)
    <3>1. hub'.events[i] \in {a, e} /\ hub'.events[i].msg = m BY <1>4, <1>7, <2>2
    <3>2. CASE j \in 1..n
      <4>1. hub'.events[j] = hub.events[j] BY <1>7, <3>2
      <4>2. hub'.events[i] # hub'.events[j] BY <1>10, <3>1, <3>2, <4>1
      <4> QED BY <1>6, <3>1, <4>2
    <3>3. CASE j \in (n + 1)..Len(hub'.events) BY <1>6, <1>7, <2>2, <3>1, <3>3
    <3> QED BY <1>8, <3>2, <3>3
  <2> QED BY <1>8, <2>1, <2>2
<1>12. ASSUME proc.pc \notin {"down", "subscribing"}, store.active[Of[m]] = m \/ (proc.pc = "running" /\ proc.msg = m)
       PROVE  Of[m] \in hub.subscribed
  <2>1. ChatReached /\ ChatLaunched /\ ChatProcTyped BY DEF ChatIInv, ChatTyped
  <2>2. CASE store.active[Of[m]] = m
    <3>1. Of[m] \in store.mapped /\ m # None BY <2>1, <2>2, ChatConstant DEF ChatReached
    <3>2. ~(proc.pc = "subscribe" /\ Of[m] = proc.conv)  BY <2>1, <2>2, <3>1 DEF ChatReached
    <3> QED BY <1>12, <2>1, <3>1, <3>2 DEF ChatReached
  <2>3. CASE proc.pc = "running" /\ proc.msg = m
    <3>1. Of[m] \in store.mapped BY <2>1, <2>3 DEF ChatProcTyped, ChatLaunching
    <3> QED BY <1>12, <2>1, <2>3, <3>1 DEF ChatReached
  <2> QED BY <1>12, <2>2, <2>3
<1>13. \A x \in Messages : hub'.turn[x] = "none" <=> hub.turn[x] = "none"  BY <1>1, <1>6
<1>14. ASSUME proc.pc \notin {"down", "subscribing"}, NEW x \in Messages, hub'.turn[x] = "done", hub.turn[x] # "done",
              store.active[Of[x]] = x \/ (proc.pc = "running" /\ proc.msg = x)
       PROVE  \E i \in (n + 1)..Len(hub'.events) : hub'.events[i] = [kind |-> "end", msg |-> x]
  <2>1. x = m BY <1>6, <1>14
  <2> QED BY <1>7, <1>12, <1>14, <2>1 DEF e
<1> QED BY <1>1, <1>5, <1>7, <1>8, <1>9, <1>11, <1>13, <1>14, ChatEventsGrow

\* A Turn of another client makes the Session busy.
LEMMA ChatForeignStartsInv == ASSUME Chat!ChannelAssumption, ChatIInv, NEW c \in Convs, Chat!ForeignStarts(c) PROVE ChatIInv'
<1>1. UNCHANGED <<store, proc, platform, history>> /\ hub' = [hub EXCEPT !.foreign = @ \cup {c}]
  BY DEF Chat!ForeignStarts
<1>2. ChatHubTyped BY DEF ChatIInv, ChatTyped
<1>3. /\ hub'.turn = hub.turn /\ hub'.events = hub.events /\ hub'.checkpoint = hub.checkpoint
      /\ hub'.subscribed = hub.subscribed /\ hub'.foreign = hub.foreign \cup {c}
      /\ hub' = [turn |-> hub.turn, foreign |-> hub'.foreign, subscribed |-> hub.subscribed,
                 events |-> hub.events, checkpoint |-> hub.checkpoint]
  BY <1>1, <1>2 DEF ChatHubTyped
<1>4. ChatPhase' = ChatPhase /\ ChatLaunching' = ChatLaunching /\ ChatMark' = ChatMark /\ ChatMark \in Nat
  BY <1>1, <1>3 DEF ChatPhase, ChatLaunching, ChatMark, ChatIInv, ChatBatched
<1>5. ChatTyped'
  <2>1. ChatHubTyped' BY <1>2, <1>3 DEF ChatHubTyped
  <2> QED BY <1>1, <2>1 DEF ChatIInv, ChatTyped, ChatStoreTyped, ChatProcTyped, ChatPlatformTyped, ChatHistoryTyped, ChatLaunching
<1>6. ChatBatched' /\ ChatLaunched' /\ ChatReached' /\ ChatWaited'
  BY <1>1, <1>3, <1>4 DEF ChatIInv, ChatBatched, ChatLaunched, ChatReached, ChatWaited, ChatPending
<1>7. ChatFollowed'
  <2>1. \A x : ChatAhead(x)' <=> ChatAhead(x) BY <1>3, <1>4 DEF ChatAhead
  <2> QED BY <1>1, <1>3, <1>4, <2>1 DEF ChatIInv, ChatFollowed
<1> QED BY <1>1, <1>3, <1>4, <1>5, <1>6, <1>7, ChatMoves

\* The end of a Turn of another client is an event that is not the Channel's.
LEMMA ChatForeignEndsInv == ASSUME Chat!ChannelAssumption, ChatIInv, NEW c \in Convs, Chat!ForeignEnds(c) PROVE ChatIInv'
<1> DEFINE o == [kind |-> "other", msg |-> None]
           n == Len(hub.events)
<1>1. /\ UNCHANGED <<store, proc, platform, history>>
      /\ hub' = [hub EXCEPT !.foreign = @ \ {c}, !.events = Append(@, o)]
  BY DEF Chat!ForeignEnds
<1>2. ChatHubTyped /\ hub.events \in Seq(ChatEvent) /\ n \in Nat BY DEF ChatIInv, ChatTyped, ChatHubTyped
<1>3. /\ hub'.turn = hub.turn /\ hub'.events = Append(hub.events, o) /\ hub'.checkpoint = hub.checkpoint
      /\ hub'.subscribed = hub.subscribed /\ hub'.foreign = hub.foreign \ {c}
      /\ hub' = [turn |-> hub.turn, foreign |-> hub'.foreign, subscribed |-> hub.subscribed,
                 events |-> hub'.events, checkpoint |-> hub.checkpoint]
  BY <1>1, <1>2 DEF ChatHubTyped
<1>4. o \in ChatEvent /\ o.kind = "other"  BY ChatEventIs
<1> HIDE DEF o
<1>5. /\ hub'.events \in Seq(ChatEvent) /\ Len(hub'.events) = n + 1 /\ hub'.events[n + 1] = o
      /\ \A i \in 1..n : hub'.events[i] = hub.events[i]
  BY <1>2, <1>3, <1>4
<1>6. ChatHubTyped'
  <2>1. hub.checkpoint <= n /\ hub.checkpoint \in Nat BY <1>2 DEF ChatHubTyped
  <2>2. hub.checkpoint <= n + 1 BY <1>2, <2>1
  <2> QED BY <1>2, <1>3, <1>5, <2>2 DEF ChatHubTyped
<1>7. ChatOnce'
  <2> SUFFICES ASSUME NEW i \in 1..(n + 1), NEW j \in 1..(n + 1), hub'.events[i].kind # "other"
               PROVE  /\ hub'.turn[hub'.events[i].msg] = "done"
                      /\ hub'.events[i] = hub'.events[j] => i = j
    BY <1>5 DEF ChatOnce
  <2>1. i \in 1..n /\ hub'.events[i] = hub.events[i] BY <1>2, <1>4, <1>5
  <2>2. CASE j = n + 1 BY <1>3, <1>4, <1>5, <2>1, <2>2 DEF ChatIInv, ChatOnce
  <2>3. CASE j \in 1..n BY <1>3, <1>5, <2>1, <2>3 DEF ChatIInv, ChatOnce
  <2> QED BY <1>2, <2>2, <2>3
<1>8. Len(hub'.events) \in Nat /\ n <= Len(hub'.events) BY <1>2, <1>5
<1> QED BY <1>1, <1>3, <1>5, <1>6, <1>7, <1>8, ChatEventsGrow


\* The process ends on its own.
LEMMA ChatCrashInv == ASSUME Chat!ChannelAssumption, ChatIInv, Chat!Crash PROVE ChatIInv'
  BY ChatDownInv DEF Chat!Crash

\* Nothing has happened yet.
LEMMA ChatInitInv == ASSUME Chat!ChannelAssumption, Chat!Init PROVE ChatIInv
<1>1. /\ store = [mapped |-> {}, pending |-> <<>>, active |-> [c \in Convs |-> None]]
      /\ proc = [pc |-> "down", conv |-> None, msg |-> None, back |-> "select", batch |-> <<>>, todo |-> {}]
      /\ hub = [turn |-> [m \in Messages |-> "none"], foreign |-> {}, subscribed |-> {},
                events |-> <<>>, checkpoint |-> 0]
      /\ platform = [unacked |-> Messages, answers |-> <<>>]
      /\ history = [stored |-> <<>>, started |-> <<>>]
  BY DEF Chat!Init
<1>2. /\ \A S : <<>> \in Seq(S)
      /\ Len(<<>>) = 0 /\ DOMAIN <<>> = {} /\ Chat!IsInjective(<<>>) /\ \A y : ~Chat!Contains(<<>>, y)
  <2>1. (\A S : <<>> \in Seq(S)) /\ Len(<<>>) = 0 /\ DOMAIN <<>> = {} OBVIOUS
  <2> QED BY <2>1 DEF Chat!IsInjective, Chat!Contains
<1>3. ChatPhase = "down" /\ ~ChatLaunching /\ ChatMark = 0  BY <1>1 DEF ChatPhase, ChatLaunching, ChatMark
<1>4. ChatTyped
  <2>1. ChatStoreTyped BY <1>1, <1>2, ChatConstant DEF ChatStoreTyped
  <2>2. ChatHubTyped BY <1>1, <1>2 DEF ChatHubTyped
  <2>3. ChatProcTyped BY <1>1, <1>2, <1>3 DEF ChatProcTyped
  <2>4. ChatPlatformTyped /\ ChatHistoryTyped BY <1>1, <1>2 DEF ChatPlatformTyped, ChatHistoryTyped
  <2> QED BY <2>1, <2>2, <2>3, <2>4 DEF ChatTyped
<1>5. ChatBatched /\ ChatOnce /\ ChatCrossed /\ ChatLaunched /\ ChatFollowed /\ ChatWaited
  BY <1>1, <1>2, <1>3 DEF ChatBatched, ChatOnce, ChatCrossed, ChatLaunched, ChatFollowed, ChatWaited
<1>6. ChatReached BY <1>1, <1>2, ChatConstant DEF ChatReached, ChatPending
<1>7. ChatStored /\ ChatQueued /\ Chat!TurnsInOrder
  BY <1>1, <1>2 DEF ChatStored, ChatQueued, Chat!TurnsInOrder, ChatPending, ChatKnown
<1> QED BY <1>4, <1>5, <1>6, <1>7 DEF ChatIInv

\* Every step keeps the invariant.
LEMMA ChatNextInv == ASSUME Chat!ChannelAssumption, ChatIInv, [Chat!Next]_Chat!vars PROVE ChatIInv'
<1>1. CASE Chat!Step
  <2>1. CASE Chat!Open \/ Chat!OpenSubscribe \/ Chat!Recover \/ Chat!LaunchAll BY <2>1, ChatOpenInv, ChatOpenSubscribeInv, ChatRecoverInv, ChatLaunchAllInv
  <2>2. CASE Chat!LaunchNothing \/ Chat!StartTurn \/ Chat!MarkStarted \/ Chat!DiscardPending
    BY <2>2, ChatLaunchNothingInv, ChatStartTurnInv, ChatMarkStartedInv, ChatDiscardPendingInv
  <2>3. CASE Chat!Reject \/ Chat!InsertMapping \/ Chat!Subscribe \/ Chat!Enqueue \/ Chat!AcknowledgeInbound
    BY <2>3, ChatRejectInv, ChatInsertMappingInv, ChatSubscribeInv, ChatEnqueueInv, ChatAcknowledgeInboundInv
  <2>4. CASE Chat!PollEvents \/ Chat!AcknowledgeBatch \/ Chat!HandleEvent
    BY <2>4, ChatPollEventsInv, ChatAcknowledgeBatchInv, ChatHandleEventInv
  <2>5. ASSUME NEW m \in Messages, Chat!Receive(m) PROVE ChatIInv' BY <2>5, ChatReceiveInv
  <2> QED BY <1>1, <2>1, <2>2, <2>3, <2>4, <2>5 DEF Chat!Step
<1>2. CASE Chat!Crash BY <1>2, ChatCrashInv
<1>3. ASSUME NEW m \in Messages, Chat!TurnEnds(m) PROVE ChatIInv' BY <1>3, ChatTurnEndsInv
<1>4. ASSUME NEW c \in Convs, Chat!ForeignStarts(c) \/ Chat!ForeignEnds(c) PROVE ChatIInv'
  BY <1>4, ChatForeignStartsInv, ChatForeignEndsInv
<1>5. CASE UNCHANGED Chat!vars
  <2>1. UNCHANGED <<store, proc, hub, platform, history>> BY <1>5 DEF Chat!vars
  <2>2. (ChatPhase' = ChatPhase) /\ (ChatLaunching' = ChatLaunching) /\ (ChatMark' = ChatMark) BY <2>1 DEF ChatPhase, ChatLaunching, ChatMark
  <2>3. ChatTyped'
    BY <2>1, <2>2 DEF ChatIInv, ChatTyped, ChatStoreTyped, ChatHubTyped, ChatProcTyped, ChatPlatformTyped, ChatHistoryTyped
  <2>4. ChatBatched' /\ ChatLaunched' /\ ChatReached' /\ ChatWaited'
    BY <2>1, <2>2 DEF ChatIInv, ChatBatched, ChatLaunched, ChatReached, ChatWaited, ChatPending
  <2>5. ChatFollowed'
    <3>1. \A x : ChatAhead(x)' <=> ChatAhead(x) BY <2>1, <2>2 DEF ChatAhead
    <3> QED BY <2>1, <2>2, <3>1 DEF ChatIInv, ChatFollowed
  <2>6. ChatMark \in Nat BY DEF ChatIInv, ChatBatched
  <2> QED BY <2>1, <2>2, <2>3, <2>4, <2>5, <2>6, ChatMoves
<1> QED BY <1>1, <1>2, <1>3, <1>4, <1>5 DEF Chat!Next

\* What the invariant says of a state in the terms of the properties.
LEMMA ChatInvImplies ==
  ASSUME Chat!ChannelAssumption, ChatIInv
  PROVE  Chat!TypeOK /\ Chat!WaitsForWhatComes /\ Chat!PendingHasAReason /\ Chat!AnswersCrossOnce /\ Chat!TurnsInOrder
<1>1. ChatStoreTyped /\ ChatHubTyped /\ ChatPlatformTyped BY DEF ChatIInv, ChatTyped
<1>2. Chat!TypeOK
  <2>1. store.pending \in Seq(Messages \ Invalid) /\ DOMAIN store.pending = 1..Len(store.pending)
    BY <1>1 DEF ChatStoreTyped
  <2>2. Chat!Range(store.pending) \subseteq Messages \ Invalid BY <2>1 DEF Chat!Range
  <2>3. hub.checkpoint \in 0..Len(hub.events)
    <3>1. hub.checkpoint \in Nat /\ Len(hub.events) \in Nat /\ hub.checkpoint <= Len(hub.events)
      BY <1>1 DEF ChatHubTyped
    <3> QED BY <3>1
  <2> QED BY <1>1, <2>2, <2>3 DEF Chat!TypeOK, ChatStoreTyped, ChatPlatformTyped
<1>3. Chat!WaitsForWhatComes
  <2> SUFFICES ASSUME proc.pc = "select", NEW c \in Convs, store.active[c] # None,
                      hub.turn[store.active[c]] = "done"
               PROVE  \E i \in (hub.checkpoint + 1)..Len(hub.events) :
                        hub.events[i] = [kind |-> "end", msg |-> store.active[c]]
    BY DEF Chat!WaitsForWhatComes, Chat!At
  <2>1. ChatPhase = "select" /\ ChatMark = hub.checkpoint  BY DEF ChatPhase, ChatLaunching, ChatMark
  <2>2. PICK x \in Messages : x = store.active[c] /\ Of[x] = c BY <1>1 DEF ChatStoreTyped
  <2>3. ChatAhead(x) BY <2>1, <2>2 DEF ChatIInv, ChatFollowed
  <2> QED BY <2>1, <2>2, <2>3 DEF ChatAhead
<1>4. Chat!PendingHasAReason
  <2> SUFFICES ASSUME proc.pc = "select", NEW i \in DOMAIN store.pending
               PROVE  store.active[Of[store.pending[i]]] # None
    BY DEF Chat!PendingHasAReason, Chat!At
  <2>1. store.pending[i] \in Messages /\ ChatPending(store.pending[i])
    <3>1. i \in 1..Len(store.pending) /\ store.pending \in Seq(Messages \ Invalid) BY <1>1 DEF ChatStoreTyped
    <3> QED BY <3>1 DEF ChatPending, Chat!Contains
  <2>2. ChatPhase = "select" /\ ~ChatLaunching  BY DEF ChatPhase, ChatLaunching
  <2> QED BY <2>1, <2>2 DEF ChatIInv, ChatWaited
<1> QED BY <1>2, <1>3, <1>4 DEF ChatIInv, ChatCrossed, Chat!AnswersCrossOnce

\* A Channel that waits never waits for an event it has consumed (WaitsForWhatComes) nor leaves a message
\* pending that no Turn holds up (PendingHasAReason); an answer crosses at most once (AnswersCrossOnce); and
\* the messages of a conversation become Turns in the order in which they were stored (TurnsInOrder), for
\* every number of conversations, messages, repeats, crashes and Turns of other clients
\* (mews-channel/src/runtime.rs, mapping.rs).
THEOREM ConversationsStayServed ==
  Chat!ChannelAssumption =>
    (Chat!Spec => [](Chat!TypeOK /\ Chat!WaitsForWhatComes /\ Chat!PendingHasAReason /\ Chat!AnswersCrossOnce /\ Chat!TurnsInOrder))
<1> SUFFICES ASSUME Chat!ChannelAssumption
             PROVE  Chat!Spec => [](Chat!TypeOK /\ Chat!WaitsForWhatComes /\ Chat!PendingHasAReason /\ Chat!AnswersCrossOnce /\ Chat!TurnsInOrder)
  OBVIOUS
<1>1. Chat!Init => ChatIInv BY ChatInitInv
<1>2. ChatIInv /\ [Chat!Next]_Chat!vars => ChatIInv' BY ChatNextInv
<1>3. ChatIInv => Chat!TypeOK /\ Chat!WaitsForWhatComes /\ Chat!PendingHasAReason /\ Chat!AnswersCrossOnce /\ Chat!TurnsInOrder BY ChatInvImplies
<1> QED BY <1>1, <1>2, <1>3, PTL DEF Chat!Spec


=============================================================================
