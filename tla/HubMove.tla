------------------------------ MODULE HubMove ------------------------------
(***************************************************************************)
(* Moving the Hub from one Host to another: the MoveHub handler of the     *)
(* source, its journal (hub-move.phase, hub-move-recovery.json), the five  *)
(* requests it sends to the target, the target's installation of the       *)
(* transferred state, the demotion of the source and what each process     *)
(* does when it starts again after a crash at any point.                   *)
(*                                                                         *)
(* A variable indexed by Host is a file below that Host's root or the      *)
(* state of the one MEWS process it runs. The Hub's secrets and            *)
(* credentials move together and are one file here. A request whose        *)
(* connection is lost was executed before the loss or never.               *)
(***************************************************************************)
EXTENDS Naturals, FiniteSets

CONSTANTS
    Hosts,      \* Hosts enrolled in the installation
    First,      \* the Host that was set up as Hub
    MaxMoves,   \* bound: MoveHub requests
    MaxWrites,  \* bound: other commands a Hub commits
    MaxFaults,  \* bound: crashes and failing local I/O
    None

ASSUME HostsAssumption == First \in Hosts /\ None \notin Hosts
ASSUME BoundsAssumption == {MaxMoves, MaxWrites, MaxFaults} \subseteq Nat

VARIABLES
    role,       \* what the process serves: "down", "hub", "recovering" (a
                \* fenced Hub resuming its handoff), "host", or "installing"
                \* (activating a transfer outside a request)
    pc,         \* where the process is in a move, demotion or activation
    moving,     \* HubControl.moving: all requests but Status are refused
    job,        \* target, previous Hub and nonce of the move being made
    db,         \* mews.db: Hub assignment, generation, receipts, content
    keys,       \* the Hub's secrets and credentials are installed
    phase,      \* hub-move.phase
    recovery,   \* hub-move-recovery.json
    manifest,   \* hub-transfer.json
    stage,      \* *.incoming and *.prepared
    token,      \* hub-activation-token
    activate,   \* hub-activate
    promote,    \* hub-promote
    receipt,    \* hub-transfer.activated.json
    acked,      \* commands acknowledged to clients so far
    moves,      \* MoveHub requests so far; the number is the request's id
    faults      \* faults so far

process == <<role, pc, moving, job>>
hubFiles == <<db, keys, phase, recovery>>
transferFiles == <<manifest, stage, token, activate, promote, receipt>>
counters == <<acked, moves, faults>>
vars == <<process, hubFiles, transferFiles, counters>>

--------------------

\* commands: the request ids under which move_hub has a receipt.
Database == [hub : Hosts, gen : Nat, commands : SUBSET Nat, content : Nat]
Manifest == [nonce : Nat, gen : Nat]
Move == [target : Hosts, previous : Hosts, nonce : Nat]
\* incoming is None until the chunks are written.
Stage == [incoming : Database \cup {None},
          db : Database \cup {None},
          keys : {"none", "incoming", "prepared"}]

\* A missing file is told apart from every content it could have.
ASSUME NoneAssumption == None \notin Nat \cup Database \cup Manifest \cup Move

NoStage == [incoming |-> None, db |-> None, keys |-> "none"]

TransferSteps == {"moved", "write", "commit"}
MoveSteps == {"prepared", "rollback", "journal", "phase", "retire", "arm",
              "activate", "await"} \cup TransferSteps
DemotionSteps == {"demote", "demote_keys", "demote_phase"}
ActivationSteps == {"keys", "db", "promote", "receipt", "unmark", "clean"}

Init ==
    /\ role = [h \in Hosts |-> IF h = First THEN "hub" ELSE "host"]
    /\ pc = [h \in Hosts |-> "idle"]
    /\ moving = [h \in Hosts |-> FALSE]
    /\ job = [h \in Hosts |-> None]
    /\ db = [h \in Hosts |->
                IF h = First
                THEN [hub |-> First, gen |-> 1, commands |-> {}, content |-> 0]
                ELSE None]
    /\ keys = [h \in Hosts |-> h = First]
    /\ phase = [h \in Hosts |-> "none"]
    /\ recovery = [h \in Hosts |-> None]
    /\ manifest = [h \in Hosts |-> None]
    /\ stage = [h \in Hosts |-> NoStage]
    /\ token = [h \in Hosts |-> None]
    /\ activate = [h \in Hosts |-> FALSE]
    /\ promote = [h \in Hosts |-> FALSE]
    /\ receipt = [h \in Hosts |-> None]
    /\ acked = 0
    /\ moves = 0
    /\ faults = 0

Goto(h, step) == pc' = [pc EXCEPT ![h] = step]

Fault == faults < MaxFaults /\ faults' = faults + 1

\* The Hub answers ordinary requests: no MoveHub holds the handoff gate for
\* writing and the Hub is not fenced.
Serving(h) == role[h] = "hub" /\ pc[h] = "idle" /\ ~ moving[h]

\* The target's process is connected and free to take the next request.
Reachable(h) == role[h] = "host" /\ pc[h] = "idle"

--------------------
(***************************************************************************)
(* The source.                                                             *)
(***************************************************************************)

\* Any other command a client has committed and acknowledged.
ClientWrite(h) ==
    /\ Serving(h)
    /\ acked < MaxWrites
    /\ db' = [db EXCEPT ![h].content = @ + 1]
    /\ acked' = acked + 1
    /\ UNCHANGED <<process, keys, phase, recovery, transferFiles, moves, faults>>

\* Mutant of MoveHub: the generation counts down.
MoveHubBackwards(d, c, expected, target) ==
    IF c \in d.commands \/ d.hub # expected
    THEN d
    ELSE [hub |-> target, gen |-> d.gen - 1, commands |-> d.commands \cup {c},
          content |-> d.content]

\* Store::move_hub under the receipt of command c. A receipt with another request
\* hash is a CommandConflict, and so is an assignment that has changed; both leave
\* the database as it is.
MoveHub(d, c, expected, target) ==
    IF c \in d.commands \/ d.hub # expected
    THEN d
    ELSE [hub |-> target, gen |-> d.gen + 1, commands |-> d.commands \cup {c},
          content |-> d.content]

\* MoveHub for a connected target, up to the preparing journal.
StartMove(h, t) ==
    /\ Serving(h)
    /\ t # h
    /\ Reachable(t)
    /\ moves < MaxMoves
    /\ moves' = moves + 1
    /\ phase' = [phase EXCEPT ![h] = "preparing"]
    /\ job' = [job EXCEPT ![h] = [target |-> t, previous |-> db[h].hub,
                                  nonce |-> moves + 1]]
    /\ Goto(h, "prepared")
    /\ UNCHANGED <<role, moving, db, keys, recovery, transferFiles, acked, faults>>

\* begin_hub_move refuses: Turns are active, or the target is the Hub already.
MoveRefused(h) ==
    /\ pc[h] = "prepared"
    /\ phase' = [phase EXCEPT ![h] = "none"]
    /\ Goto(h, "idle")
    /\ UNCHANGED <<role, moving, job, db, keys, recovery, transferFiles, counters>>

\* begin_hub_move fences the Hub, assigns the target and takes the snapshot.
BeginHubMove(h) ==
    /\ pc[h] = "prepared"
    /\ db[h].hub # job[h].target
    /\ moving' = [moving EXCEPT ![h] = TRUE]
    /\ db' = [db EXCEPT ![h] = MoveHub(@, job[h].nonce, job[h].previous, job[h].target)]
    /\ Goto(h, "moved")
    /\ UNCHANGED <<role, job, keys, phase, recovery, transferFiles, counters>>

\* The snapshot cannot be taken: begin_hub_move assigns back under its own
\* command context and the handler gives the move up.
BackupFails(h) ==
    /\ pc[h] = "prepared"
    /\ db[h].hub # job[h].target
    /\ Fault
    /\ LET j == job[h]
           moved == MoveHub(db[h], j.nonce, j.previous, j.target)
       IN db' = [db EXCEPT ![h] = MoveHub(moved, j.nonce, j.target, j.previous)]
    /\ phase' = [phase EXCEPT ![h] = "none"]
    /\ Goto(h, "idle")
    /\ UNCHANGED <<role, moving, job, keys, recovery, transferFiles, acked, moves>>

\* An I/O error that the handler returns with the Hub still fenced: writing
\* hub.json, hub-move-recovery.json or the relay state.
HandlerFails(h) ==
    /\ pc[h] \in {"moved", "journal", "retire"}
    /\ Fault
    /\ Goto(h, "idle")
    /\ UNCHANGED <<role, moving, job, hubFiles, transferFiles, acked, moves>>

\* A request was executed; its reply arrives, or the connection is lost first.
Replied(h, ok, lost) == Goto(h, ok) \/ Goto(h, lost)

\* BeginHubTransfer
BeginHubTransfer(h) ==
    LET t == job[h].target IN
    /\ pc[h] = "moved"
    /\ Reachable(t)
    /\ stage' = [stage EXCEPT ![t] = [incoming |-> None, db |-> None,
                                      keys |-> "incoming"]]
    /\ manifest' = [manifest EXCEPT ![t] = [nonce |-> job[h].nonce, gen |-> db[h].gen]]
    /\ token' = [token EXCEPT ![t] = None]
    /\ receipt' = [receipt EXCEPT ![t] = None]
    /\ Replied(h, "write", "rollback")
    /\ UNCHANGED <<role, moving, job, hubFiles, activate, promote, counters>>

\* WriteHubTransfer, all chunks
WriteHubTransfer(h) ==
    LET t == job[h].target IN
    /\ pc[h] = "write"
    /\ Reachable(t)
    /\ stage[t].keys = "incoming"
    /\ stage[t].incoming = None
    /\ stage' = [stage EXCEPT ![t].incoming = db[h]]
    /\ Replied(h, "commit", "rollback")
    /\ UNCHANGED <<role, moving, job, hubFiles, manifest, token, activate, promote,
                   receipt, counters>>

\* The database is the one the manifest authorises for this Host.
Matches(h, d, m) == d # None /\ d.gen = m.gen /\ d.hub = h

\* CommitHubTransfer
CommitHubTransfer(h) ==
    LET t == job[h].target IN
    /\ pc[h] = "commit"
    /\ Reachable(t)
    /\ manifest[t] # None
    /\ Matches(t, stage[t].incoming, manifest[t])
    /\ stage' = [stage EXCEPT ![t] = [incoming |-> None, db |-> @.incoming,
                                      keys |-> "prepared"]]
    /\ Replied(h, "journal", "rollback")
    /\ UNCHANGED <<role, moving, job, hubFiles, manifest, token, activate, promote,
                   receipt, counters>>

\* A transfer request was not executed, or the target refused it.
TransferFails(h) ==
    /\ pc[h] \in TransferSteps
    /\ Goto(h, "rollback")
    /\ UNCHANGED <<role, moving, job, hubFiles, transferFiles, counters>>

\* Mutant of RollbackHubMove: the fence is not lifted.
RollbackStaysFenced(h) ==
    /\ pc[h] = "rollback"
    /\ db' = [db EXCEPT ![h] = MoveHub(@, job[h].nonce, job[h].target, job[h].previous)]
    /\ phase' = [phase EXCEPT ![h] = "none"]
    /\ recovery' = [recovery EXCEPT ![h] = None]
    /\ Goto(h, "idle")
    /\ UNCHANGED <<role, moving, job, keys, transferFiles, counters>>

\* rollback_hub_move, on the command context of the MoveHub request; then the
\* journal is removed and the Hub unfenced whether or not it succeeded.
RollbackHubMove(h) ==
    /\ pc[h] = "rollback"
    /\ db' = [db EXCEPT ![h] = MoveHub(@, job[h].nonce, job[h].target, job[h].previous)]
    /\ phase' = [phase EXCEPT ![h] = "none"]
    /\ recovery' = [recovery EXCEPT ![h] = None]
    /\ moving' = [moving EXCEPT ![h] = FALSE]
    /\ Goto(h, "idle")
    /\ UNCHANGED <<role, job, keys, transferFiles, counters>>

WriteMoveRecovery(h) ==
    /\ pc[h] = "journal"
    /\ recovery' = [recovery EXCEPT ![h] = job[h]]
    /\ Goto(h, "phase")
    /\ UNCHANGED <<role, moving, job, db, keys, phase, transferFiles, counters>>

\* From here on a restart resumes the handoff instead of taking it back.
WriteMovePhase(h) ==
    /\ pc[h] = "phase"
    /\ phase' = [phase EXCEPT ![h] = "activating"]
    /\ Goto(h, "retire")
    /\ UNCHANGED <<role, moving, job, db, keys, recovery, transferFiles, counters>>

WriteMovePhaseFails(h) ==
    /\ pc[h] = "phase"
    /\ Fault
    /\ Goto(h, "rollback")
    /\ UNCHANGED <<role, moving, job, hubFiles, transferFiles, acked, moves>>

\* Mutant of ArmHubTransfer: a lost acknowledgement takes the move back.
ArmOrRollback(h) ==
    LET t == job[h].target IN
    /\ pc[h] \in {"retire", "arm"}
    /\ Reachable(t)
    /\ manifest[t] # None
    /\ manifest[t].nonce = job[h].nonce
    /\ token' = [token EXCEPT ![t] = IF @ = None THEN job[h].nonce ELSE @]
    /\ Replied(h, "activate", "rollback")
    /\ UNCHANGED <<role, moving, job, hubFiles, manifest, stage, activate, promote,
                   receipt, counters>>

\* ArmHubTransfer. The handler and the recovery loop repeat it until it is
\* acknowledged.
ArmHubTransfer(h) ==
    LET t == job[h].target IN
    /\ pc[h] \in {"retire", "arm"}
    /\ Reachable(t)
    /\ manifest[t] # None
    /\ manifest[t].nonce = job[h].nonce
    /\ token' = [token EXCEPT ![t] = IF @ = None THEN job[h].nonce ELSE @]
    /\ Replied(h, "activate", "arm")
    /\ UNCHANGED <<role, moving, job, hubFiles, manifest, stage, activate, promote,
                   receipt, counters>>

\* Mutant of ArmFails: the Hub is demoted without the target being armed.
ArmFailsAndDemotes(h) ==
    /\ pc[h] = "retire"
    /\ Goto(h, "demote")
    /\ UNCHANGED <<role, moving, job, hubFiles, transferFiles, counters>>

ArmFails(h) ==
    /\ pc[h] = "retire"
    /\ Goto(h, "arm")
    /\ UNCHANGED <<role, moving, job, hubFiles, transferFiles, counters>>

\* Mutant of ActivationUnacknowledged: an uncertain activation is taken back.
UnacknowledgedRollsBack(h) ==
    /\ pc[h] \in {"activate", "await"}
    /\ Goto(h, IF role[h] = "recovering" THEN "arm" ELSE "rollback")
    /\ UNCHANGED <<role, moving, job, hubFiles, transferFiles, counters>>

\* No acknowledgement of ActivateHubTransfer. The handler demotes the Hub all the
\* same, because the target is armed; the recovery loop starts over.
ActivationUnacknowledged(h) ==
    /\ pc[h] \in {"activate", "await"}
    /\ Goto(h, IF role[h] = "recovering" THEN "arm" ELSE "demote")
    /\ UNCHANGED <<role, moving, job, hubFiles, transferFiles, counters>>

ActivationAcknowledged(h) ==
    LET t == job[h].target IN
    /\ pc[h] = "await"
    /\ manifest[t] = None
    /\ receipt[t] # None
    /\ receipt[t].nonce = job[h].nonce
    /\ Goto(h, "demote")
    /\ UNCHANGED <<role, moving, job, hubFiles, transferFiles, counters>>

\* demote_hub_files, file by file, and the change to serving as a Host.
Demote(h) ==
    \/ /\ pc[h] = "demote"
       /\ db' = [db EXCEPT ![h] = None]
       /\ Goto(h, "demote_keys")
       /\ UNCHANGED <<role, moving, job, keys, phase, recovery, transferFiles, counters>>
    \/ /\ pc[h] = "demote_keys"
       /\ keys' = [keys EXCEPT ![h] = FALSE]
       /\ Goto(h, "demote_phase")
       /\ UNCHANGED <<role, moving, job, db, phase, recovery, transferFiles, counters>>
    \/ /\ pc[h] = "demote_phase"
       /\ phase' = [phase EXCEPT ![h] = "none"]
       /\ recovery' = [recovery EXCEPT ![h] = None]
       /\ role' = [role EXCEPT ![h] = IF activate[h] THEN "down" ELSE "host"]
       /\ moving' = [moving EXCEPT ![h] = FALSE]
       /\ Goto(h, "idle")
       /\ UNCHANGED <<job, db, keys, transferFiles, counters>>

--------------------
(***************************************************************************)
(* The target: activate_hub_transfer, which may be interrupted between any *)
(* two files and is then run again.                                        *)
(***************************************************************************)

\* The transfer was activated before: its receipt matches the active database.
AlreadyActivated(h) ==
    /\ receipt[h] # None
    /\ manifest[h] \in {None, receipt[h]}
    /\ Matches(h, db[h], receipt[h])

\* The source has issued the token for the transfer that is prepared.
Authorised(h) ==
    /\ manifest[h] # None
    /\ receipt[h] = None
    /\ token[h] = manifest[h].nonce

\* The entry of activate_hub_transfer, up to the hub-activate mark. steps is pc
\* with the step the caller takes.
EnterActivation(h, steps) ==
    \/ /\ AlreadyActivated(h)
       /\ pc' = [steps EXCEPT ![h] = "done"]
       /\ IF manifest[h] = None
          THEN UNCHANGED <<manifest, token, activate>>
          ELSE /\ manifest' = [manifest EXCEPT ![h] = None]
               /\ token' = [token EXCEPT ![h] = None]
               /\ activate' = [activate EXCEPT ![h] = FALSE]
    \/ /\ Authorised(h)
       /\ pc' = [steps EXCEPT ![h] = "keys"]
       /\ activate' = [activate EXCEPT ![h] = TRUE]
       /\ UNCHANGED <<manifest, token>>

\* ActivateHubTransfer reaches the target of the fenced Hub h. A target that
\* refuses it at once is the same to h as one that is not reached.
ActivateHubTransfer(h) ==
    /\ pc[h] = "activate"
    /\ Reachable(job[h].target)
    /\ EnterActivation(job[h].target, [pc EXCEPT ![h] = "await"])
    /\ UNCHANGED <<role, moving, job, hubFiles, stage, promote, receipt, counters>>

InstallKeys(h) ==
    /\ pc[h] = "keys"
    /\ stage[h].keys = "prepared" \/ keys[h]
    /\ keys' = [keys EXCEPT ![h] = TRUE]
    /\ stage' = [stage EXCEPT ![h].keys = IF @ = "prepared" THEN "none" ELSE @]
    /\ Goto(h, "db")
    /\ UNCHANGED <<role, moving, job, db, phase, recovery, manifest, token, activate,
                   promote, receipt, counters>>

\* A database that is already in place is kept, and the prepared copy removed.
InstallDatabase(h) ==
    /\ pc[h] = "db"
    /\ \/ Matches(h, db[h], manifest[h])
       \/ Matches(h, stage[h].db, manifest[h])
    /\ db' = [db EXCEPT ![h] = IF Matches(h, @, manifest[h]) THEN @ ELSE stage[h].db]
    /\ stage' = [stage EXCEPT ![h].db = None]
    /\ Goto(h, "promote")
    /\ UNCHANGED <<role, moving, job, keys, phase, recovery, manifest, token, activate,
                   promote, receipt, counters>>

FinishActivation(h) ==
    \/ /\ pc[h] = "promote"
       /\ promote' = [promote EXCEPT ![h] = TRUE]
       /\ Goto(h, "receipt")
       /\ UNCHANGED <<role, moving, job, hubFiles, manifest, stage, token, activate,
                      receipt, counters>>
    \/ /\ pc[h] = "receipt"
       /\ receipt' = [receipt EXCEPT ![h] = manifest[h]]
       /\ Goto(h, "unmark")
       /\ UNCHANGED <<role, moving, job, hubFiles, manifest, stage, token, activate,
                      promote, counters>>
    \/ /\ pc[h] = "unmark"
       /\ activate' = [activate EXCEPT ![h] = FALSE]
       /\ Goto(h, "clean")
       /\ UNCHANGED <<role, moving, job, hubFiles, manifest, stage, token, promote,
                      receipt, counters>>
    \/ /\ pc[h] = "clean"
       /\ token' = [token EXCEPT ![h] = None]
       /\ manifest' = [manifest EXCEPT ![h] = None]
       /\ Goto(h, "done")
       /\ UNCHANGED <<role, moving, job, hubFiles, stage, activate, promote, receipt,
                      counters>>

\* A prepared file is missing or does not match. A request is answered with the
\* error; the process goes on as a Host unless it holds a database, and an
\* activation outside a request ends the process.
ActivationFails(h) ==
    /\ \/ pc[h] = "keys" /\ stage[h].keys # "prepared" /\ ~ keys[h]
       \/ /\ pc[h] = "db"
          /\ ~ Matches(h, db[h], manifest[h])
          /\ ~ Matches(h, stage[h].db, manifest[h])
    /\ Goto(h, "idle")
    /\ role' = [role EXCEPT ![h] = IF @ = "host" /\ db[h] = None THEN "host" ELSE "down"]
    /\ UNCHANGED <<moving, job, hubFiles, transferFiles, counters>>

--------------------
(***************************************************************************)
(* Crashes and restarts.                                                   *)
(***************************************************************************)

Crash(h) ==
    /\ role[h] # "down"
    /\ Fault
    /\ role' = [role EXCEPT ![h] = "down"]
    /\ moving' = [moving EXCEPT ![h] = FALSE]
    /\ job' = [job EXCEPT ![h] = None]
    /\ Goto(h, "idle")
    /\ UNCHANGED <<hubFiles, transferFiles, acked, moves>>

\* serve is entered by a process that starts with mews.db in place, and by one
\* that has activated a transfer.
EntersServe(h) ==
    /\ \/ role[h] = "down" /\ db[h] # None
       \/ role[h] \in {"host", "installing"} /\ pc[h] = "done"
    /\ keys[h]

\* recover_preparing_hub_move, under a command context of its own.
RecoverPreparing(h, d) ==
    IF phase[h] = "preparing" /\ d.hub # h
    THEN [hub |-> h, gen |-> d.gen + 1, commands |-> d.commands, content |-> d.content]
    ELSE d

\* Mews::open takes an unfinished move back and requires the Hub to be assigned
\* to this Host.
ServeHub(h) ==
    LET d == RecoverPreparing(h, db[h]) IN
    /\ EntersServe(h)
    /\ phase[h] # "activating"
    /\ d.hub = h
    /\ db' = [db EXCEPT ![h] = d]
    /\ recovery' = [recovery EXCEPT ![h] = IF phase[h] = "preparing" THEN None ELSE @]
    /\ phase' = [phase EXCEPT ![h] = "none"]
    /\ promote' = [promote EXCEPT ![h] = FALSE]
    /\ role' = [role EXCEPT ![h] = "hub"]
    /\ Goto(h, "idle")
    /\ UNCHANGED <<moving, job, keys, manifest, stage, token, activate, receipt, counters>>

\* The phase is activating: the Hub comes up fenced and resumes the handoff.
ServeRecovering(h) ==
    /\ EntersServe(h)
    /\ phase[h] = "activating"
    /\ recovery[h] # None
    /\ role' = [role EXCEPT ![h] = "recovering"]
    /\ moving' = [moving EXCEPT ![h] = TRUE]
    /\ job' = [job EXCEPT ![h] = recovery[h]]
    /\ promote' = [promote EXCEPT ![h] = FALSE]
    /\ Goto(h, "arm")
    /\ UNCHANGED <<hubFiles, manifest, stage, token, activate, receipt, counters>>

\* serve_joined_host, for a process that starts without mews.db.
ServeHost(h) ==
    /\ role[h] = "down"
    /\ db[h] = None
    /\ ~ activate[h]
    /\ role' = [role EXCEPT ![h] = "host"]
    /\ UNCHANGED <<pc, moving, job, hubFiles, transferFiles, counters>>

\* An activation that was interrupted is resumed before anything is served, and
\* an operator may ask for it with recover-hub.
ResumeActivation(h) ==
    /\ role[h] = "down"
    /\ role' = [role EXCEPT ![h] = "installing"]
    /\ EnterActivation(h, pc)
    /\ UNCHANGED <<moving, job, hubFiles, stage, promote, receipt, counters>>

--------------------

SourceStep(h) ==
    \/ \E t \in Hosts : StartMove(h, t)
    \/ MoveRefused(h)
    \/ BeginHubMove(h)
    \/ BackupFails(h)
    \/ HandlerFails(h)
    \/ BeginHubTransfer(h)
    \/ WriteHubTransfer(h)
    \/ CommitHubTransfer(h)
    \/ TransferFails(h)
    \/ RollbackHubMove(h)
    \/ WriteMoveRecovery(h)
    \/ WriteMovePhase(h)
    \/ WriteMovePhaseFails(h)
    \/ ArmHubTransfer(h)
    \/ ArmFails(h)
    \/ ActivateHubTransfer(h)
    \/ ActivationUnacknowledged(h)
    \/ ActivationAcknowledged(h)
    \/ Demote(h)

TargetStep(h) ==
    \/ InstallKeys(h)
    \/ InstallDatabase(h)
    \/ FinishActivation(h)
    \/ ActivationFails(h)

Restart(h) ==
    \/ ServeHub(h)
    \/ ServeRecovering(h)
    \/ ServeHost(h)
    \/ ResumeActivation(h)

Next ==
    \E h \in Hosts :
        \/ ClientWrite(h)
        \/ SourceStep(h)
        \/ TargetStep(h)
        \/ Crash(h)
        \/ Restart(h)

Spec == Init /\ [][Next]_vars

\* The steps a process takes of its own accord; a lost connection is not one.
Proceeds(h) ==
    \/ BeginHubMove(h)
    \/ BeginHubTransfer(h)
    \/ WriteHubTransfer(h)
    \/ CommitHubTransfer(h)
    \/ TransferFails(h)
    \/ RollbackHubMove(h)
    \/ WriteMoveRecovery(h)
    \/ WriteMovePhase(h)
    \/ ActivateHubTransfer(h)
    \/ ActivationUnacknowledged(h)
    \/ ActivationAcknowledged(h)
    \/ Demote(h)
    \/ TargetStep(h)
    \/ ServeHub(h)

\* The arming request, repeated every second, is acknowledged in the end if the
\* target can be reached again and again.
ArmAcknowledged(h) == ArmHubTransfer(h) /\ pc'[h] = "activate"

FairSpec ==
    /\ Spec
    /\ \A h \in Hosts : WF_vars(Proceeds(h)) /\ SF_vars(ArmAcknowledged(h))

--------------------
(***************************************************************************)
(* Properties.                                                             *)
(***************************************************************************)

\* The files have the shape their readers expect.
TypeOK ==
    /\ role \in [Hosts -> {"down", "hub", "recovering", "host", "installing"}]
    /\ pc \in [Hosts -> {"idle", "done"} \cup MoveSteps \cup DemotionSteps
                            \cup ActivationSteps]
    /\ moving \in [Hosts -> BOOLEAN]
    /\ job \in [Hosts -> Move \cup {None}]
    /\ db \in [Hosts -> Database \cup {None}]
    /\ recovery \in [Hosts -> Move \cup {None}]
    /\ manifest \in [Hosts -> Manifest \cup {None}]
    /\ stage \in [Hosts -> Stage]
    /\ token \in [Hosts -> Nat \cup {None}]
    /\ receipt \in [Hosts -> Manifest \cup {None}]
    /\ keys \in [Hosts -> BOOLEAN]
    /\ phase \in [Hosts -> {"none", "preparing", "activating"}]
    /\ activate \in [Hosts -> BOOLEAN]
    /\ promote \in [Hosts -> BOOLEAN]
    /\ acked \in 0 .. MaxWrites
    /\ moves \in 0 .. MaxMoves
    /\ faults \in 0 .. MaxFaults

\* Never do two Hosts answer requests as the Hub of one installation, wherever
\* a crash or a lost reply cuts the move short.
NoSplitBrain ==
    \A g, h \in Hosts : Serving(g) /\ Serving(h) => g = h

\* Could the transfer prepared on h be activated as it stands.
Installable(h) ==
    /\ Authorised(h)
    /\ stage[h].keys = "prepared" \/ keys[h]
    /\ Matches(h, stage[h].db, manifest[h])

\* Once a target holds the token it may promote itself at any time, on a late
\* request, a restart or by recover-hub; no Hub answers requests meanwhile.
ArmedTargetFencesTheHub ==
    \A t, h \in Hosts : Installable(t) => ~ Serving(h)

\* Every command that was acknowledged is in the database of whichever Host
\* serves, and at all times in a database some Host holds or could activate:
\* the source deletes its own only when the target can do without it.
AcknowledgedCommandsSurvive ==
    /\ \A h \in Hosts : Serving(h) => db[h].content = acked
    /\ \E h \in Hosts :
         \/ db[h] # None /\ db[h].content = acked
         \/ Installable(h) /\ stage[h].db.content = acked

\* A Hub that answers requests is the Host its database assigns, also after a
\* move that failed and was rolled back; it could not be restarted otherwise
\* (validate_hub_assignment).
ServingHubIsAssigned ==
    \A h \in Hosts : Serving(h) => db[h].hub = h

\* A Hub that fenced itself for a move does not stay fenced for ever: the move
\* fails and the fence is lifted, or it is armed and the Hub is demoted. Local
\* I/O errors and crashes aside, lost connections do not prevent it.
FencedHubLetsGo ==
    \A h \in Hosts : moving[h] ~> ~ moving[h]
=============================================================================
