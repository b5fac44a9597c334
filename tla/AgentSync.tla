----------------------------- MODULE AgentSync -----------------------------
(***************************************************************************)
(* The definition of one Agent: its numbered revisions in the Hub's        *)
(* database, and two editable copies in directories (SOUL.md, agent.toml,  *)
(* a .revision marker, and the local skills and extensions), one on the    *)
(* Hub's machine and one on a joined Host.  Before a Turn starts,          *)
(* synchronize_agent_on takes up an edit made in either directory as a new *)
(* revision and brings the directories up to date.  Several Turns do so at *)
(* the same time; between two awaits a task of the Hub runs alone, and a   *)
(* crash may fall between any two of its file operations.  Users edit the  *)
(* directories between those segments.                                     *)
(*                                                                         *)
(* A directory that is replaced is moved aside, and only the newest of     *)
(* those is retained.  An edit that cannot be taken up is written into     *)
(* conflict files of its directory, which go with it.                      *)
(*                                                                         *)
(* A definition is a number: 0 is the one the Agent was created with, the  *)
(* k-th edit makes definition k.                                           *)
(***************************************************************************)
EXTENDS Naturals, Sequences, FiniteSets

CONSTANTS
    Flows,        \* the tasks that synchronise the Agent
    MaxEdits,     \* bound on the users' edits
    EditPlaces,   \* the directories the users edit
    MaxCrashes,   \* bound on the crashes of either machine
    MaxDamage,    \* bound on removed files and failed renames
    None

\* What the constants must satisfy; every instance assumes it.
BoundsAreNat ==
    /\ {MaxEdits, MaxCrashes, MaxDamage} \subseteq Nat
    /\ None \notin Nat
    /\ None \notin [def : Nat, rev : Nat \cup {None}, complete : BOOLEAN, res : BOOLEAN,
                    kept : SUBSET ((Nat \cup {None}) \X Nat)]

VARIABLES
    revs,      \* agent_revisions: the definition of every revision
    dir,       \* place -> the directory, or None
    aside,     \* place -> what the directories moved aside hold, the newest last
    flow,      \* task -> its progress
    parent,    \* definition -> the definition its author started from
    replaced,  \* edits their own author has edited again
    owned,     \* the places whose directory held skills or extensions
    edits, crashes, damage

vars == <<revs, dir, aside, flow, parent, replaced, owned, edits, crashes, damage>>

Places == {"hub", "host"}
Current == Len(revs)
Known(r) == r \in 1..Current

\* A directory: its definition, its marker, whether both files are there, whether it
\* has skills or extensions, and its conflict files, a definition for each marker.
Directory(def, r, res) ==
    [def |-> def, rev |-> r, complete |-> TRUE, res |-> res, kept |-> {}]

\* The definitions that can be found in a directory.
Contents(d) == IF d = None THEN {} ELSE {d.def} \cup {k[2] : k \in d.kept}

Idle == [at |-> "idle", seen |-> 0, send |-> 0, expected |-> None]

Init ==
    /\ revs = <<0>>
    /\ owned \in SUBSET Places
    /\ dir \in [Places -> {None, Directory(0, 1, TRUE), Directory(0, 1, FALSE)}]
    /\ dir["hub"] # None
    /\ \A p \in Places : p \in owned <=> (dir[p] # None /\ dir[p].res)
    /\ aside = [p \in Places |-> <<>>]
    /\ flow = [f \in Flows |-> Idle]
    /\ parent = [e \in 1..MaxEdits |-> 0]
    /\ replaced = {}
    /\ edits = 0 /\ crashes = 0 /\ damage = 0

--------------------
(* Users.                                                                  *)

Edit(p) ==
    /\ p \in EditPlaces /\ edits < MaxEdits
    /\ dir[p] # None /\ dir[p].complete
    /\ edits' = edits + 1
    /\ dir' = [dir EXCEPT ![p].def = edits + 1]
    /\ parent' = [parent EXCEPT ![edits + 1] =
                    IF \E r \in 1..Current : revs[r] = dir[p].def
                    THEN dir[p].def ELSE parent[dir[p].def]]
    /\ replaced' = replaced \cup {dir[p].def}
    /\ UNCHANGED <<revs, aside, flow, owned, crashes, damage>>

\* A user removes one of the two files of the definition, or the marker.
Damage ==
    /\ damage < MaxDamage /\ damage' = damage + 1
    /\ dir["hub"] # None
    /\ \/ dir' = [dir EXCEPT !["hub"].complete = FALSE]
       \/ dir' = [dir EXCEPT !["hub"].rev = None]
    /\ UNCHANGED <<revs, aside, flow, parent, replaced, owned, edits, crashes>>

--------------------
(* Publication of a revision r in the directory of p, which holds d by     *)
(* then: a staged directory is written, the old one is moved aside, its    *)
(* skills and extensions are moved into the staged one, that is renamed    *)
(* into place, and of the directories moved aside the newest is retained.  *)

\* (The staged directory replaces the old one with its resources.)
KeepsNothing(p, r) == [dir EXCEPT ![p] = Directory(revs[r], r, FALSE)]

Published(p, r) ==
    [dir EXCEPT ![p] = Directory(revs[r], r, dir[p] # None /\ dir[p].res)]

\* (synchronize_agent has created a missing directory before it replaces it.)
MovedAside(p, d) ==
    IF p = "host" /\ d = None THEN aside[p] ELSE Append(aside[p], Contents(d))

\* (The names are not put in order of their age.)
RetainsOldest(s) == IF s = <<>> THEN s ELSE <<s[1]>>

\* retain_previous_directories
Retained(s) == IF s = <<>> THEN s ELSE <<s[Len(s)]>>

Materialize(p, d, r) ==
    /\ dir' = Published(p, r)
    /\ aside' = [aside EXCEPT ![p] = Retained(MovedAside(p, d))]

\* When a rename fails the old directory, with its resources, is put back.
SwapFails(p, d) ==
    /\ damage < MaxDamage
    /\ damage' = damage + 1
    /\ dir' = [dir EXCEPT ![p] = d]
    /\ UNCHANGED aside

\* A crash before the first rename, between the two (no directory of this name is
\* left) or before the older ones are removed.
SwapCrashes(p, d, r) ==
    /\ crashes < MaxCrashes
    /\ crashes' = crashes + 1
    /\ \/ dir' = [dir EXCEPT ![p] = d] /\ UNCHANGED aside
       \/ /\ dir' = [dir EXCEPT ![p] = None]
          /\ aside' = [aside EXCEPT ![p] = MovedAside(p, d)]
       \/ /\ dir' = Published(p, r)
          /\ aside' = [aside EXCEPT ![p] = MovedAside(p, d)]

Stop(f) == flow' = [flow EXCEPT ![f] = Idle]
Synchronized(f, r) == flow' = [flow EXCEPT ![f] = [Idle EXCEPT !.at = "read", !.seen = r]]

--------------------
(* synchronize_agent: the directory on the Hub's machine.                  *)

HubDir == dir["hub"]

Whole == HubDir # None /\ HubDir.complete
HasMarker == Whole /\ HubDir.rev # None

\* (What is in the file that is left is not looked at.)
NothingSurvives == FALSE

\* One file of the definition is missing and the other was edited.
SurvivingEdit == HubDir # None /\ ~HubDir.complete /\ HubDir.def # revs[Current]

Incomplete(f) ==
    /\ ~Whole
    /\ IF SurvivingEdit
       THEN Stop(f) /\ UNCHANGED <<dir, aside, crashes, damage>>
       ELSE \/ /\ Materialize("hub", HubDir, Current)
               /\ Synchronized(f, Current)
               /\ UNCHANGED <<crashes, damage>>
            \/ SwapFails("hub", HubDir) /\ Stop(f) /\ UNCHANGED crashes
    /\ UNCHANGED revs

\* SOUL.conflict-r<marker>.md and agent.conflict-r<marker>.toml: what another conflict
\* with this marker had left there is overwritten.
Preserved(d) == [d EXCEPT !.kept = {k \in d.kept : k[1] # d.rev} \cup {<<d.rev, d.def>>}]

NoMarker(f) ==
    /\ Whole /\ HubDir.rev = None
    /\ IF HubDir.def = revs[Current]
       THEN /\ dir' = [dir EXCEPT !["hub"].rev = Current]
            /\ Synchronized(f, Current)
       ELSE /\ dir' = [dir EXCEPT !["hub"] = Preserved(HubDir)]
            /\ Stop(f)
    /\ UNCHANGED <<revs, aside, crashes, damage>>

\* An edit of an old revision is written into conflict files before the directory is
\* replaced.
Conflicting == HasMarker /\ HubDir.rev < Current /\ HubDir.def # revs[HubDir.rev]
Replaceable == IF Conflicting THEN Preserved(HubDir) ELSE HubDir

Outdated(f) ==
    /\ HasMarker /\ HubDir.rev < Current
    /\ \/ /\ Materialize("hub", Replaceable, Current)
          /\ IF Conflicting THEN Stop(f) ELSE Synchronized(f, Current)
          /\ UNCHANGED <<crashes, damage>>
       \/ SwapFails("hub", Replaceable) /\ Stop(f) /\ UNCHANGED crashes
    /\ UNCHANGED revs

UpdateAnyway(def, expected) == revs' = Append(revs, def)

\* update_agent: a new revision, if the author started from the current one.
UpdateAgent(def, expected) ==
    /\ Current = expected
    /\ revs' = Append(revs, def)

UpToDate(f) ==
    /\ HasMarker /\ HubDir.rev = Current
    /\ IF HubDir.def # revs[Current]
       THEN /\ UpdateAgent(HubDir.def, Current)
            /\ dir' = [dir EXCEPT !["hub"].rev = Current + 1]
            /\ Synchronized(f, Current + 1)
       ELSE Synchronized(f, Current) /\ UNCHANGED <<revs, dir>>
    /\ UNCHANGED <<aside, crashes, damage>>

SynchronizeAgent(f) ==
    /\ flow[f].at = "idle"
    /\ \/ Incomplete(f) \/ NoMarker(f) \/ Outdated(f) \/ UpToDate(f)
    /\ UNCHANGED <<parent, replaced, owned, edits>>

MarkerFirst ==
    /\ crashes < MaxCrashes
    /\ flow' = [f \in Flows |-> Idle]
    /\ HasMarker /\ HubDir.rev = Current /\ HubDir.def # revs[Current]
    /\ dir' = [dir EXCEPT !["hub"].rev = Current + 1]
    /\ crashes' = crashes + 1
    /\ UNCHANGED <<revs, aside, parent, replaced, owned, edits, damage>>

\* The Hub stops after the commit of an edit and before its marker is written, or
\* within a publication.
HubCrash ==
    /\ crashes < MaxCrashes
    /\ \E f \in Flows : flow[f].at = "idle"
    /\ flow' = [f \in Flows |-> Idle]
    /\ \/ /\ HasMarker /\ HubDir.rev = Current /\ HubDir.def # revs[Current]
          /\ UpdateAgent(HubDir.def, Current)
          /\ crashes' = crashes + 1 /\ UNCHANGED <<dir, aside>>
       \/ /\ \/ HasMarker /\ HubDir.rev < Current
             \/ ~Whole /\ ~SurvivingEdit
          /\ SwapCrashes("hub", Replaceable, Current) /\ UNCHANGED revs
    /\ UNCHANGED <<parent, replaced, owned, edits, damage>>

--------------------
(* synchronize_agent_on: the Host's copy, read and then replaced.          *)

ReadAgentReplica(f) ==
    /\ flow[f].at = "read"
    /\ flow' = [flow EXCEPT ![f].at = "decide", ![f].expected = dir["host"]]
    /\ UNCHANGED <<revs, dir, aside, parent, replaced, owned, edits, crashes, damage>>

EditedAtBase(f) ==
    flow[f].expected # None /\ flow[f].expected.def # revs[flow[f].expected.rev]

\* (Whatever the copy carries, it is replaced.)
NeverNewer(f) == FALSE

\* Since this task saw the Hub's revision, another one has brought the copy further: it
\* is refused ("Host agent replica is newer than Hub").
Newer(f) == flow[f].expected # None /\ flow[f].expected.rev > flow[f].seen

\* An edit of the revision this task saw becomes the next one; an edit of an
\* older revision, or a revision made meanwhile, stops the task.
Decide(f) ==
    /\ flow[f].at = "decide"
    /\ LET x == flow[f].expected IN
       \/ /\ Newer(f) \/ (EditedAtBase(f) /\ (x.rev # flow[f].seen \/ Current # flow[f].seen))
          /\ Stop(f) /\ UNCHANGED revs
       \/ /\ EditedAtBase(f) /\ x.rev = flow[f].seen
          /\ UpdateAgent(x.def, flow[f].seen)
          /\ flow' = [flow EXCEPT ![f].at = "send", ![f].send = Len(revs')]
       \/ /\ ~Newer(f) /\ ~EditedAtBase(f)
          /\ flow' = [flow EXCEPT ![f].at = "send", ![f].send = flow[f].seen]
          /\ UNCHANGED revs
    /\ UNCHANGED <<dir, aside, parent, replaced, owned, edits, crashes, damage>>

AnyCopy(f) == TRUE
SameAsNew(f) == dir["host"] # None /\ dir["host"].def = revs[flow[f].send]

\* materialize_agent refuses a copy that changed since it was read.
Unchanged(f) == dir["host"] = flow[f].expected

Carries(p, r) == dir[p] # None /\ dir[p].rev = r /\ dir[p].def = revs[r]

MaterializeAgent(f) ==
    /\ flow[f].at = "send"
    /\ LET stays == UNCHANGED <<dir, aside, crashes, damage>> IN
       \/ ~Unchanged(f) /\ stays
       \/ /\ Unchanged(f)
          /\ IF Carries("host", flow[f].send)
             THEN stays
             ELSE \/ Materialize("host", dir["host"], flow[f].send) /\ UNCHANGED <<crashes, damage>>
                  \/ SwapFails("host", dir["host"]) /\ UNCHANGED crashes
                  \/ SwapCrashes("host", dir["host"], flow[f].send) /\ UNCHANGED damage
    /\ Stop(f)
    /\ UNCHANGED <<revs, parent, replaced, owned, edits>>

Next ==
    \/ \E p \in Places : Edit(p)
    \/ Damage
    \/ HubCrash
    \/ \E f \in Flows : SynchronizeAgent(f) \/ ReadAgentReplica(f) \/ Decide(f)
                        \/ MaterializeAgent(f)

\* A Turn is started again and again, and the Host answers.
Fairness ==
    \A f \in Flows : WF_vars(SynchronizeAgent(f) \/ ReadAgentReplica(f) \/ Decide(f)
                             \/ MaterializeAgent(f))

Spec == Init /\ [][Next]_vars /\ Fairness

--------------------
Definitions == 0..MaxEdits

\* Every variable keeps its type; in particular no directory carries a revision
\* the Hub does not have.
TypeOK ==
    /\ revs \in Seq(Definitions) /\ Current \in 1..(MaxEdits + 1)
    /\ \A p \in Places :
         /\ Contents(dir[p]) \subseteq Definitions
         /\ dir[p] # None => dir[p].rev = None \/ Known(dir[p].rev)
         /\ aside[p] \in Seq(SUBSET Definitions)
    /\ \A f \in Flows : flow[f].at \in {"idle", "read", "decide", "send"}

IsRevision(e) == \E r \in 1..Current : revs[r] = e

\* "local edits were preserved as conflict files" (synchronize_agent): every edit that
\* its author has not replaced is a revision, or can still be found in a directory or
\* in one that was moved aside.
EditsSurvive ==
    \A e \in 1..edits :
        \/ IsRevision(e) \/ e \in replaced
        \/ \E p \in Places : \/ e \in Contents(dir[p])
                           \/ \E i \in DOMAIN aside[p] : e \in aside[p][i]

\* Another edit of the revision that e began from became the next one.
Overtaken(e) == \E r \in 2..Current : parent[revs[r]] = parent[e]

\* synchronize_agent and materialize_agent take an edit out of a directory only when it
\* has become a revision or when an edit of the same revision came first: no other is
\* lost to a task that read the directory before it was made, to a missing file or
\* marker, or to a publication that fails.
EditsAreTakenUp ==
    \A e \in 1..edits :
        \/ IsRevision(e) \/ e \in replaced \/ Overtaken(e)
        \/ \E p \in Places : dir[p] # None /\ dir[p].def = e

\* No synchronisation takes a copy back to an older revision, however long its task
\* has waited for the Host.
NeverGoesBack(p) ==
    (dir[p] # None /\ dir'[p] # None) =>
        \/ None \in {dir[p].rev, dir'[p].rev}
        \/ dir[p].rev <= dir'[p].rev

\* What is in a directory is not overwritten: it stays, or its author has edited it
\* again, or it is in the directory that was moved aside last.
NothingOverwritten(p) ==
    \A e \in Contents(dir[p]) :
        \/ e \in Contents(dir'[p]) \/ e \in replaced'
        \/ aside'[p] # <<>> /\ e \in aside'[p][Len(aside'[p])]

\* Whatever a step replaces, it replaces with something newer and moves aside
\* (materialize, retain_previous_directories, and the refusal "newer than Hub").
CopiesMoveForward == [][\A p \in Places : NeverGoesBack(p) /\ NothingOverwritten(p)]_vars

\* No lost update: a revision is made of the revision before it.  An edit that was
\* started from an older one never becomes the current revision, whichever of the
\* two machines and however many tasks offer it.
NoLostUpdate ==
    \A r \in 2..Current : parent[revs[r]] = revs[r - 1]

\* "an atomic revision swap must carry them forward" (move_local_resources): a
\* directory that held skills or extensions still holds them.
ResourcesCarried ==
    \A p \in owned : dir[p] # None => dir[p].res

\* Both copies come to the current revision once the edits have been taken up.
ReplicasConverge ==
    <>[](\A p \in Places : Carries(p, Current))
=============================================================================
