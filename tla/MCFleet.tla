------------------------------ MODULE MCFleet ------------------------------
(***************************************************************************)
(* Enrollment, with instances of AgentSync, AgentCommands and HubMove, for *)
(* TLC: what the Hub and the Hosts keep of the Agents and of each other.   *)
(* The components share no state, so a behaviour is about one of them, the *)
(* one "part" names, and the others rest in an initial state. Fairness is  *)
(* that of the component, and stands in the properties.                    *)
(***************************************************************************)
EXTENDS Enrollment, Integers, TLC

VARIABLES
  part,   \* the component this behaviour is about
  sync_revs, sync_dir, sync_aside, sync_flow, sync_parent, sync_replaced,
  sync_owned, sync_edits, sync_crashes, sync_damage, cmd_agents, cmd_receipts,
  cmd_dirs, cmd_replica, cmd_client, cmd_task, cmd_applied, cmd_phantom, cmd_crashes,
  cmd_drops, cmd_faults, name_agents, name_receipts, name_dirs, name_replica,
  name_client, name_task, name_applied, name_phantom, name_crashes, name_drops,
  name_faults, hub_role, hub_pc, hub_moving, hub_job, hub_db, hub_keys, hub_phase,
  hub_recovery, hub_manifest, hub_stage, hub_token, hub_activate, hub_promote,
  hub_receipt, hub_acked, hub_moves, hub_faults

syncVars ==
  <<sync_revs, sync_dir, sync_aside, sync_flow, sync_parent, sync_replaced,
    sync_owned, sync_edits, sync_crashes, sync_damage>>
cmdVars ==
  <<cmd_agents, cmd_receipts, cmd_dirs, cmd_replica, cmd_client, cmd_task,
    cmd_applied, cmd_phantom, cmd_crashes, cmd_drops, cmd_faults>>
nameVars ==
  <<name_agents, name_receipts, name_dirs, name_replica, name_client, name_task,
    name_applied, name_phantom, name_crashes, name_drops, name_faults>>
enrVars == vars
hubVars ==
  <<hub_role, hub_pc, hub_moving, hub_job, hub_db, hub_keys, hub_phase, hub_recovery,
    hub_manifest, hub_stage, hub_token, hub_activate, hub_promote, hub_receipt,
    hub_acked, hub_moves, hub_faults>>

Cmd(op, s, t) == [op |-> op, slug |-> s, new |-> t]

\* A rename, an archive of the new name and an unrelated creation.
Sequence ==
  ("c1" :> Cmd("rename", "a", "b")) @@ ("c2" :> Cmd("archive", "b", "b"))
    @@ ("c3" :> Cmd("create", "c", "c"))

\* Two renames of one Agent, and a creation under the first one's new name.
Rivals ==
  ("c1" :> Cmd("rename", "a", "b")) @@ ("c2" :> Cmd("rename", "a", "c"))
    @@ ("c3" :> Cmd("create", "b", "b"))

\* Users edit both copies; a machine crashes and a file is damaged or a rename fails.
Sync == INSTANCE AgentSync WITH
  Flows <- {"f1", "f2"}, MaxEdits <- 2, EditPlaces <- {"hub", "host"},
  MaxCrashes <- 1, MaxDamage <- 1, None <- None,
  revs <- sync_revs, dir <- sync_dir, aside <- sync_aside, flow <- sync_flow,
  parent <- sync_parent, replaced <- sync_replaced, owned <- sync_owned,
  edits <- sync_edits, crashes <- sync_crashes, damage <- sync_damage

\* The same without crashes.
Swap == INSTANCE AgentSync WITH
  Flows <- {"f1", "f2"}, MaxEdits <- 2, EditPlaces <- {"hub", "host"},
  MaxCrashes <- 0, MaxDamage <- 1, None <- None,
  revs <- sync_revs, dir <- sync_dir, aside <- sync_aside, flow <- sync_flow,
  parent <- sync_parent, replaced <- sync_replaced, owned <- sync_owned,
  edits <- sync_edits, crashes <- sync_crashes, damage <- sync_damage

\* The Hub's copy is edited, and the machines crash twice.
Converge == INSTANCE AgentSync WITH
  Flows <- {"f1", "f2"}, MaxEdits <- 2, EditPlaces <- {"hub"}, MaxCrashes <- 2,
  MaxDamage <- 0, None <- None,
  revs <- sync_revs, dir <- sync_dir, aside <- sync_aside, flow <- sync_flow,
  parent <- sync_parent, replaced <- sync_replaced, owned <- sync_owned,
  edits <- sync_edits, crashes <- sync_crashes, damage <- sync_damage

\* Commands of the Hub's own clients, with crashes.
InTurn == INSTANCE AgentCommands WITH
  Clients <- {"c1", "c2", "c3"}, Command <- Sequence, Proxied <- {},
  Slugs <- {"a", "b", "c"}, MaxAttempts <- 4, MaxCrashes <- 2, MaxDrops <- 1,
  MaxFaults <- 0, None <- None,
  agents <- cmd_agents, receipts <- cmd_receipts, dirs <- cmd_dirs,
  replica <- cmd_replica, client <- cmd_client, task <- cmd_task,
  applied <- cmd_applied, phantom <- cmd_phantom, crashes <- cmd_crashes,
  drops <- cmd_drops, faults <- cmd_faults

\* Commands that compete, one of them sent through the joined Host.
Race == INSTANCE AgentCommands WITH
  Clients <- {"c1", "c2", "c3"}, Command <- Rivals, Proxied <- {"c2"},
  Slugs <- {"a", "b", "c"}, MaxAttempts <- 3, MaxCrashes <- 1, MaxDrops <- 1,
  MaxFaults <- 0, None <- None,
  agents <- cmd_agents, receipts <- cmd_receipts, dirs <- cmd_dirs,
  replica <- cmd_replica, client <- cmd_client, task <- cmd_task,
  applied <- cmd_applied, phantom <- cmd_phantom, crashes <- cmd_crashes,
  drops <- cmd_drops, faults <- cmd_faults

\* One rename whose client has the six attempts of the code.
Rename == INSTANCE AgentCommands WITH
  Clients <- {"c1"}, Command <- "c1" :> Cmd("rename", "a", "b"), Proxied <- {},
  Slugs <- {"a", "b", "c"}, MaxAttempts <- 6, MaxCrashes <- 3, MaxDrops <- 1,
  MaxFaults <- 1, None <- None,
  agents <- name_agents, receipts <- name_receipts, dirs <- name_dirs,
  replica <- name_replica, client <- name_client, task <- name_task,
  applied <- name_applied, phantom <- name_phantom, crashes <- name_crashes,
  drops <- name_drops, faults <- name_faults

\* The Hub moves to and fro, over connections that may be lost.
Move == INSTANCE HubMove WITH
  Hosts <- {"a", "b"}, First <- "a", MaxMoves <- 3, MaxWrites <- 1, MaxFaults <- 0,
  None <- None,
  role <- hub_role, pc <- hub_pc, moving <- hub_moving, job <- hub_job, db <- hub_db,
  keys <- hub_keys, phase <- hub_phase, recovery <- hub_recovery,
  manifest <- hub_manifest, stage <- hub_stage, token <- hub_token,
  activate <- hub_activate, promote <- hub_promote, receipt <- hub_receipt,
  acked <- hub_acked, moves <- hub_moves, faults <- hub_faults

ASSUME Sync!BoundsAreNat /\ Swap!BoundsAreNat /\ Converge!BoundsAreNat
ASSUME InTurn!CommandsAreKnown /\ Race!CommandsAreKnown /\ Rename!CommandsAreKnown

FleetInit ==
  /\ part \in {"sync", "swap", "converge", "in turn", "race", "rename", "enroll", "move"}
  /\ Sync!Init
  /\ part \notin {"sync", "swap", "converge"} => sync_owned = {"hub", "host"}
  /\ IF part = "race" THEN Race!Init ELSE InTurn!Init
  /\ part \notin {"in turn", "race"} => cmd_replica["a"] = 1 /\ cmd_agents[1].created
  /\ Rename!Init
  /\ name_agents[1].created
  /\ part # "rename" => name_replica["a"] = 1
  /\ Init /\ Move!Init

\* Only the component the behaviour is about takes steps.
FleetNext ==
  /\ UNCHANGED part
  /\ \/ part = "sync" /\ Sync!Next /\ UNCHANGED <<cmdVars, nameVars, enrVars, hubVars>>
     \/ part = "swap" /\ Swap!Next /\ UNCHANGED <<cmdVars, nameVars, enrVars, hubVars>>
     \/ part = "converge" /\ Converge!Next /\ UNCHANGED <<cmdVars, nameVars, enrVars, hubVars>>
     \/ part = "in turn" /\ InTurn!Next /\ UNCHANGED <<syncVars, nameVars, enrVars, hubVars>>
     \/ part = "race" /\ Race!Next /\ UNCHANGED <<syncVars, nameVars, enrVars, hubVars>>
     \/ part = "rename" /\ Rename!Next /\ UNCHANGED <<syncVars, cmdVars, enrVars, hubVars>>
     \/ part = "enroll" /\ Next /\ UNCHANGED <<syncVars, cmdVars, nameVars, hubVars>>
     \/ part = "move" /\ Move!Next /\ UNCHANGED <<syncVars, cmdVars, nameVars, enrVars>>

FleetSpec == FleetInit /\ [][FleetNext]_<<part, syncVars, cmdVars, nameVars, enrVars, hubVars>>

\* The fairness of each component, for the behaviours that are about it.
CopiesRun ==
  \A f \in {"f1", "f2"} :
    WF_syncVars(part = "converge" /\ (Converge!SynchronizeAgent(f) \/ Converge!ReadAgentReplica(f)
                                      \/ Converge!Decide(f) \/ Converge!MaterializeAgent(f)))

RenameRuns ==
  /\ WF_nameVars(part = "rename" /\ Rename!Send("c1"))
  /\ \A n \in 1..6 : WF_nameVars(part = "rename" /\ Rename!Handle("c1", n))

EnrollRuns ==
  /\ \A i \in {"i1", "i2"} : /\ WF_vars(part = "enroll" /\ Enroll(i))
                             /\ WF_vars(part = "enroll" /\ Answer(i))
  /\ \A m \in {"m1", "m2"} : /\ WF_vars(part = "enroll" /\ SaveState(m))
                             /\ WF_vars(part = "enroll" /\ Refused(m))
  /\ \A k \in 1..3 : /\ WF_vars(part = "enroll" /\ CheckHost(k))
                     /\ WF_vars(part = "enroll" /\ Connect(k))
                     /\ WF_vars(part = "enroll" /\ ConnectTimesOut(k))
                     /\ WF_vars(part = "enroll" /\ DropConnection(k))
  /\ WF_vars(part = "enroll" /\ (Unfence \/ TakeOver))

MoveRuns ==
  \A h \in {"a", "b"} : /\ WF_hubVars(part = "move" /\ Move!Proceeds(h))
                        /\ SF_hubVars(part = "move" /\ Move!ArmAcknowledged(h))

--------------------
(* Properties.                                                             *)

CommandsAreKept ==
  /\ part = "in turn" =>
       InTurn!TypeOK /\ InTurn!NoPhantomRefusal /\ InTurn!CopiesFollowTheTable
  /\ part = "race" => Race!TypeOK /\ Race!CopiesFollowTheTable

CopiesAreKept ==
  /\ part = "sync" => Sync!TypeOK /\ Sync!NoLostUpdate
  /\ part = "swap" => Swap!ResourcesCarried /\ Swap!EditsAreTakenUp

\* The copies of an Agent (mews/src/app/agents.rs, mews/src/app/sessions.rs,
\* mews-host/src/lifecycle.rs) keep what their users made: an edit leaves a copy only as a
\* revision or because the other copy overtook it, none that began from an older revision
\* becomes the current one, skills and extensions are carried into a new revision, and a
\* copy is only replaced by a newer one, what it held being moved aside. No retry of a
\* command is refused for what an earlier attempt of it did, and when the commands have
\* ended the directories are under the slugs of the table.
AgentsAreKept == [](CopiesAreKept /\ CommandsAreKept) /\ Sync!CopiesMoveForward

\* "local edits were preserved as conflict files" (synchronize_agent): what a user wrote
\* is still somewhere, even without a crash.
EditsSurvive == part = "swap" => Swap!EditsSurvive

\* The fleet settles: both copies of an Agent come to the current revision, a rename that
\* is retried is completed wherever the Hub stopped, a machine that joined gets its link,
\* and a Hub fenced for a move does not stay fenced.
FleetProgress ==
  /\ part = "converge" => (CopiesRun => Converge!ReplicasConverge)
  /\ part = "rename" => (RenameRuns => Rename!RenamesComplete)
  /\ part = "enroll" => (EnrollRuns => JoinedIsServed)
  /\ part = "move" => (MoveRuns => Move!FencedHubLetsGo)
=============================================================================
