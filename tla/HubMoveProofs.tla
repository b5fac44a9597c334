--------------------------- MODULE HubMoveProofs ---------------------------
(***************************************************************************)
(* Proofs about HubMove: type correctness and the safety of a move for     *)
(* every number of Hosts, moves, commands and faults.                      *)
(*                                                                         *)
(* The properties are not inductive: that two Hosts never serve at once    *)
(* follows from what the files of all Hosts say together. The invariant    *)
(* below adds, part by part, how a process's step relates to its role and  *)
(* to the journal of the move (StepsInv), which move a nonce belongs to    *)
(* (NoncesInv), what a transfer in progress has left on the target         *)
(* (TransferInv), when a prepared database may exist (StageInv), that      *)
(* exactly one Host has a claim to be the Hub and holds every acknowledged *)
(* command (ClaimInv), and that a source whose target is not armed yet     *)
(* still has what it sent (HandoffInv).                                    *)
(***************************************************************************)
EXTENDS HubMove, TLAPS

--------------------

ArmSteps == {"retire", "arm", "activate", "await"}
PreparingSteps == {"prepared", "rollback", "journal", "phase"} \cup TransferSteps

\* What a step of the process says of its role, fence and journal.
StepsOK(h) ==
  /\ pc[h] \in PreparingSteps =>
       /\ role[h] = "hub"
       /\ phase[h] = "preparing"
       /\ job[h] # None
       /\ pc[h] = "prepared" \/ moving[h]
  /\ pc[h] = "phase" => recovery[h] = job[h]
  /\ pc[h] \in ArmSteps \cup DemotionSteps =>
       /\ role[h] \in {"hub", "recovering"}
       /\ moving[h]
       /\ phase[h] = "activating"
       /\ job[h] # None
       /\ recovery[h] = job[h]
  /\ pc[h] = "retire" => role[h] = "hub"
  /\ role[h] = "hub" =>
       /\ pc[h] \in {"idle"} \cup PreparingSteps \cup ArmSteps \cup DemotionSteps
       /\ ~ moving[h] => phase[h] # "activating"
  /\ role[h] = "recovering" => pc[h] \in ArmSteps \cup DemotionSteps
  /\ role[h] \in {"hub", "recovering"} =>
       (db[h] = None <=> pc[h] \in {"demote_keys", "demote_phase"})
  /\ role[h] \in {"down", "host", "installing"} => ~ moving[h]
  /\ role[h] = "down" => pc[h] = "idle"
  /\ role[h] = "host" /\ pc[h] = "idle" => db[h] = None
  /\ pc[h] \in ActivationSteps \cup {"done"} => role[h] \in {"host", "installing"}
  /\ pc[h] \in {"promote", "receipt", "unmark", "clean", "done"} => db[h] # None

StepsInv == \A h \in Hosts : StepsOK(h)

\* A nonce names one move of one Host towards one target, and a token is the
\* one for the prepared transfer.
NoncesOK(h) ==
  /\ job[h] # None => job[h].target # h /\ job[h].nonce <= moves
  /\ recovery[h] # None => recovery[h].target # h /\ recovery[h].nonce <= moves
  /\ job[h] # None /\ recovery[h] # None /\ job[h].nonce = recovery[h].nonce
        => job[h] = recovery[h]
  /\ manifest[h] # None => manifest[h].nonce <= moves
  /\ token[h] # None => manifest[h] # None /\ token[h] = manifest[h].nonce

NoncesApart(g, h) ==
  /\ g # h /\ job[g] # None =>
       /\ job[h] # None => job[g].nonce # job[h].nonce
       /\ recovery[h] # None => job[g].nonce # recovery[h].nonce
  /\ g # h /\ recovery[g] # None /\ recovery[h] # None
        => recovery[g].nonce # recovery[h].nonce
  /\ manifest[g] # None =>
       /\ job[h] # None /\ manifest[g].nonce = job[h].nonce => g = job[h].target
       /\ recovery[h] # None /\ manifest[g].nonce = recovery[h].nonce
             => g = recovery[h].target

NoncesInv ==
  /\ \A h \in Hosts : NoncesOK(h)
  /\ \A g, h \in Hosts : NoncesApart(g, h)

\* What the transfer requests of h have left on the target so far.
TransferOK(h) ==
  LET t == job[h].target IN
    pc[h] \in {"write", "commit", "journal", "phase"} =>
      /\ manifest[t] = [nonce |-> job[h].nonce, gen |-> db[h].gen]
      /\ token[t] = None
      /\ receipt[t] = None
      /\ pc[h] = "commit" => stage[t].incoming = db[h]
      /\ pc[h] \in {"journal", "phase"} => stage[t].db = db[h] /\ db[h].hub = t

TransferInv == \A h \in Hosts : TransferOK(h)

\* A prepared database exists beside no installed one, matches its manifest and
\* has its secrets; an activation under way is authorised until its receipt.
StageOK(t) ==
  /\ db[t] # None \/ role[t] \in {"hub", "recovering"} => stage[t].db = None
  /\ stage[t].db # None =>
       /\ manifest[t] # None
       /\ receipt[t] = None
       /\ Matches(t, stage[t].db, manifest[t])
       /\ stage[t].keys = "prepared" \/ keys[t]
  /\ pc[t] \in {"keys", "db", "promote", "receipt"} => Authorised(t)
  /\ pc[t] \in {"promote", "receipt", "unmark", "clean"} =>
       manifest[t] # None /\ Matches(t, db[t], manifest[t])
  /\ pc[t] = "done" => db[t].hub = t

StageInv == \A t \in Hosts : StageOK(t)

\* The Host's own files make it the Hub when it restarts.
Held(h) == db[h] # None /\ (phase[h] # "activating" \/ db[h].hub = h)

\* Some source has journalled that the move n is to be completed.
Committed(n) ==
  \E g \in Hosts :
    phase[g] = "activating" /\ recovery[g] # None /\ recovery[g].nonce = n

\* The database prepared on t is the one that will be served.
Sent(t) ==
  /\ manifest[t] # None
  /\ stage[t].db # None
  /\ token[t] = manifest[t].nonce \/ Committed(manifest[t].nonce)

Claim(h) == Held(h) \/ Sent(h)

Whole(h) ==
  /\ Held(h) => db[h].content = acked
  /\ Sent(h) => stage[h].db.content = acked

\* Exactly one Host has a claim to be the Hub, and its database is complete.
ClaimInv ==
  /\ \A g, h \in Hosts : Claim(g) /\ Claim(h) => g = h
  /\ \A h \in Hosts : Whole(h)
  /\ \E h \in Hosts : Claim(h)

\* The target of g's journalled move is prepared and not armed yet.
Unarmed(g) ==
  LET t == recovery[g].target IN
    /\ manifest[t] # None
    /\ manifest[t].nonce = recovery[g].nonce
    /\ stage[t].db # None
    /\ token[t] # recovery[g].nonce

\* Until the target is armed the source still has what it sent, and a source
\* that is past arming does not delete a database assigned to itself.
HandoffOK(h) ==
  /\ role[h] = "hub" /\ pc[h] \in ArmSteps => db[h].hub # h
  /\ pc[h] = "demote" => db[h].hub # h
  /\ Held(h) /\ pc[h] \in {"activate", "await"} => manifest[job[h].target] # None
  /\ phase[h] = "activating" /\ recovery[h] # None /\ Unarmed(h) =>
       /\ db[h] = stage[recovery[h].target].db
       /\ pc[h] \notin {"activate", "await"} \cup DemotionSteps

HandoffInv == \A h \in Hosts : HandoffOK(h)

IInv ==
  /\ TypeOK
  /\ StepsInv
  /\ NoncesInv
  /\ TransferInv
  /\ StageInv
  /\ ClaimInv
  /\ HandoffInv

--------------------
(***************************************************************************)
(* Types and steps.                                                        *)
(***************************************************************************)

\* The Host a move goes to, and the record it is described by.
LEMMA JobType ==
  ASSUME TypeOK, NEW h \in Hosts, job[h] # None
  PROVE  job[h] \in Move /\ job[h].target \in Hosts
BY DEF TypeOK, Move

\* Entering an activation changes the step of the process and the files that
\* say which transfer is being activated, and keeps their types.
LEMMA EnterActivationType ==
  ASSUME TypeOK, NEW h \in Hosts,
         NEW steps \in [Hosts -> {"idle", "done"} \cup MoveSteps \cup DemotionSteps
                                    \cup ActivationSteps],
         EnterActivation(h, steps)
  PROVE  /\ pc' \in [Hosts -> {"idle", "done"} \cup MoveSteps \cup DemotionSteps
                                \cup ActivationSteps]
         /\ manifest' \in [Hosts -> Manifest \cup {None}]
         /\ token' \in [Hosts -> Nat \cup {None}]
         /\ activate' \in [Hosts -> BOOLEAN]
<1>1. pc' \in [Hosts -> {"idle", "done"} \cup MoveSteps \cup DemotionSteps
                          \cup ActivationSteps]
  BY DEF EnterActivation, ActivationSteps
<1>2. manifest' \in [Hosts -> Manifest \cup {None}]
  BY DEF TypeOK, EnterActivation
<1>3. token' \in [Hosts -> Nat \cup {None}]
  BY DEF TypeOK, EnterActivation
<1>4. activate' \in [Hosts -> BOOLEAN]
  BY DEF TypeOK, EnterActivation
<1>. QED BY <1>1, <1>2, <1>3, <1>4

\* Writing one field of the staged files keeps their shape.
LEMMA StageFieldType ==
  ASSUME TypeOK, NEW t \in Hosts
  PROVE  /\ \A d \in Database \cup {None} :
              [stage EXCEPT ![t].incoming = d] \in [Hosts -> Stage]
         /\ \A k \in {"none", "incoming", "prepared"} :
              [stage EXCEPT ![t].keys = k] \in [Hosts -> Stage]
<1>1. ASSUME NEW d \in Database \cup {None}
      PROVE  [stage EXCEPT ![t].incoming = d] \in [Hosts -> Stage]
  <2>1. [stage[t] EXCEPT !.incoming = d] \in Stage
    BY DEF TypeOK, Stage
  <2>. QED BY <2>1 DEF TypeOK
<1>2. ASSUME NEW k \in {"none", "incoming", "prepared"}
      PROVE  [stage EXCEPT ![t].keys = k] \in [Hosts -> Stage]
  <2>1. [stage[t] EXCEPT !.keys = k] \in Stage
    BY SMTT(30) DEF TypeOK, Stage
  <2>. QED BY <2>1 DEF TypeOK
<1>. QED BY <1>1, <1>2

\* Reassigning the Hub keeps a database a database with the same content.
LEMMA MoveHubResult ==
  ASSUME NEW d \in Database, NEW c \in Nat, NEW e \in Hosts, NEW t \in Hosts
  PROVE  /\ MoveHub(d, c, e, t) \in Database
         /\ MoveHub(d, c, e, t).content = d.content
         /\ MoveHub(d, c, e, t).hub \in {d.hub, t}
BY DEF MoveHub, Database

LEMMA RecoverPreparingResult ==
  ASSUME NEW d \in Database, NEW h \in Hosts
  PROVE  /\ RecoverPreparing(h, d) \in Database
         /\ RecoverPreparing(h, d).content = d.content
BY DEF RecoverPreparing, Database

\* What the process h that serves or moves the Hub has before it.
LEMMA HubFiles ==
  ASSUME TypeOK, StepsInv, NEW h \in Hosts
  PROVE  /\ Serving(h) => db[h] \in Database /\ phase[h] # "activating"
         /\ pc[h] \in PreparingSteps \cup ArmSteps \cup {"demote"} =>
              /\ db[h] \in Database
              /\ job[h] \in Move
              /\ role[h] \in {"hub", "recovering"}
         /\ EntersServe(h) => db[h] \in Database /\ role[h] \notin {"hub", "recovering"}
BY DEF TypeOK, StepsInv, StepsOK, Serving, EntersServe, PreparingSteps, TransferSteps,
       ArmSteps, DemotionSteps, ActivationSteps

\* Every step keeps the files and process states well-typed.
LEMMA TypeStep ==
  ASSUME TypeOK, StepsInv, [Next]_vars
  PROVE  TypeOK'
<1>1. ASSUME NEW h \in Hosts, ClientWrite(h)  PROVE TypeOK'
  BY <1>1, BoundsAssumption DEF TypeOK, StepsInv, ClientWrite, Serving,
         process, transferFiles, Database, StepsOK, PreparingSteps
<1>2. ASSUME NEW h \in Hosts, NEW t \in Hosts, StartMove(h, t)  PROVE TypeOK'
  BY <1>2, BoundsAssumption DEF TypeOK, StepsInv, StartMove, Serving,
         Reachable, process, transferFiles, Move, Goto, MoveSteps, StepsOK,
         Database
<1>3. ASSUME NEW h \in Hosts, MoveRefused(h)  PROVE TypeOK'
  BY <1>3, BoundsAssumption DEF TypeOK, MoveRefused, transferFiles,
         counters, Goto
<1>4. ASSUME NEW h \in Hosts, BeginHubMove(h)  PROVE TypeOK'
  BY <1>4, BoundsAssumption DEF TypeOK, StepsInv, BeginHubMove, Goto,
         MoveSteps, TransferSteps, transferFiles, counters, MoveHub, Database,
         Move, StepsOK, PreparingSteps
<1>5. ASSUME NEW h \in Hosts, BackupFails(h)  PROVE TypeOK'
  BY <1>5, BoundsAssumption DEF TypeOK, StepsInv, BackupFails, Goto,
         transferFiles, Fault, MoveHub, Database, Move, StepsOK, PreparingSteps
<1>6. ASSUME NEW h \in Hosts, HandlerFails(h)  PROVE TypeOK'
  BY <1>6, BoundsAssumption DEF TypeOK, HandlerFails, Goto, Fault,
         hubFiles, transferFiles
<1>7. ASSUME NEW h \in Hosts, BeginHubTransfer(h)  PROVE TypeOK'
  BY <1>7, BoundsAssumption DEF TypeOK, StepsInv, BeginHubTransfer, Goto,
         Replied, MoveSteps, TransferSteps, hubFiles, counters, Database, Move,
         Manifest, Stage, StepsOK, PreparingSteps
<1>8. ASSUME NEW h \in Hosts, WriteHubTransfer(h)  PROVE TypeOK'
  <2>1. job[h] # None /\ job[h].target \in Hosts
    BY <1>8, JobType
       DEF StepsInv, StepsOK, PreparingSteps, TransferSteps, WriteHubTransfer
  <2>2. stage' \in [Hosts -> Stage]
    BY <1>8, <2>1, StageFieldType DEF TypeOK, WriteHubTransfer
  <2>3. pc' \in [Hosts -> {"idle", "done"} \cup MoveSteps \cup DemotionSteps
                               \cup ActivationSteps]
    BY <1>8 DEF TypeOK, WriteHubTransfer, Replied, Goto, MoveSteps, TransferSteps
  <2>. QED BY <1>8, <2>2, <2>3 DEF TypeOK, WriteHubTransfer, hubFiles, counters
<1>9. ASSUME NEW h \in Hosts, CommitHubTransfer(h)  PROVE TypeOK'
  BY <1>9, BoundsAssumption DEF TypeOK, CommitHubTransfer, Goto, Replied,
         MoveSteps, TransferSteps, hubFiles, counters, Stage
<1>10. ASSUME NEW h \in Hosts, TransferFails(h)  PROVE TypeOK'
  BY <1>10, BoundsAssumption DEF TypeOK, TransferFails, Goto, MoveSteps,
         hubFiles, transferFiles, counters
<1>11. ASSUME NEW h \in Hosts, RollbackHubMove(h)  PROVE TypeOK'
  BY <1>11, BoundsAssumption DEF TypeOK, StepsInv, RollbackHubMove, Goto,
         transferFiles, counters, MoveHub, Database, Move, StepsOK,
         PreparingSteps
<1>12. ASSUME NEW h \in Hosts, WriteMoveRecovery(h)  PROVE TypeOK'
  BY <1>12, BoundsAssumption DEF TypeOK, WriteMoveRecovery, Goto,
         MoveSteps, transferFiles, counters
<1>13. ASSUME NEW h \in Hosts, WriteMovePhase(h)  PROVE TypeOK'
  BY <1>13, BoundsAssumption DEF TypeOK, WriteMovePhase, Goto, MoveSteps,
         transferFiles, counters
<1>14. ASSUME NEW h \in Hosts, WriteMovePhaseFails(h)  PROVE TypeOK'
  BY <1>14, BoundsAssumption DEF TypeOK, WriteMovePhaseFails, Goto,
         Fault, MoveSteps, hubFiles, transferFiles
<1>15. ASSUME NEW h \in Hosts, ArmHubTransfer(h)  PROVE TypeOK'
  BY <1>15, BoundsAssumption DEF TypeOK, StepsInv, ArmHubTransfer, Goto,
         Replied, MoveSteps, hubFiles, counters, Move, StepsOK, ArmSteps
<1>16. ASSUME NEW h \in Hosts, ArmFails(h)  PROVE TypeOK'
  BY <1>16, BoundsAssumption DEF TypeOK, ArmFails, Goto, MoveSteps,
         hubFiles, transferFiles, counters
<1>17. ASSUME NEW h \in Hosts, ActivateHubTransfer(h)  PROVE TypeOK'
  <2>1. [pc EXCEPT ![h] = "await"] \in
            [Hosts -> {"idle", "done"} \cup MoveSteps \cup DemotionSteps
                         \cup ActivationSteps]
    BY DEF TypeOK, MoveSteps
  <2>2. job[h].target \in Hosts
    BY <1>17, JobType DEF StepsInv, StepsOK, ArmSteps, ActivateHubTransfer
  <2>. QED BY <1>17, <2>1, <2>2, EnterActivationType
         DEF TypeOK, ActivateHubTransfer, hubFiles, counters
<1>18. ASSUME NEW h \in Hosts, ActivationUnacknowledged(h)  PROVE TypeOK'
  BY <1>18, BoundsAssumption DEF TypeOK, ActivationUnacknowledged, Goto,
         MoveSteps, DemotionSteps, hubFiles, transferFiles, counters
<1>19. ASSUME NEW h \in Hosts, ActivationAcknowledged(h)  PROVE TypeOK'
  BY <1>19, BoundsAssumption DEF TypeOK, ActivationAcknowledged, Goto,
         DemotionSteps, hubFiles, transferFiles, counters
<1>20. ASSUME NEW h \in Hosts, Demote(h)  PROVE TypeOK'
  BY <1>20, BoundsAssumption DEF TypeOK, Demote, Goto, DemotionSteps,
         transferFiles, counters
<1>21. ASSUME NEW h \in Hosts, InstallKeys(h)  PROVE TypeOK'
  <2>. DEFINE k == IF stage[h].keys = "prepared" THEN "none" ELSE stage[h].keys
  <2>1. stage' \in [Hosts -> Stage]
    <3>1. k \in {"none", "incoming", "prepared"}
      BY DEF TypeOK, Stage
    <3>2. stage' = [stage EXCEPT ![h].keys = k]
      BY <1>21 DEF InstallKeys
    <3>. QED BY <3>1, <3>2, StageFieldType
  <2>. QED BY <1>21, <2>1 DEF TypeOK, InstallKeys, Goto, ActivationSteps, counters
<1>22. ASSUME NEW h \in Hosts, InstallDatabase(h)  PROVE TypeOK'
  BY SMTT(30), <1>22, BoundsAssumption DEF TypeOK, InstallDatabase, Goto,
         ActivationSteps, counters, Stage
<1>23. ASSUME NEW h \in Hosts, FinishActivation(h)  PROVE TypeOK'
  <2>1. pc' \in [Hosts -> {"idle", "done"} \cup MoveSteps \cup DemotionSteps
                               \cup ActivationSteps]
    BY <1>23 DEF TypeOK, FinishActivation, Goto, ActivationSteps
  <2>2. /\ promote' \in [Hosts -> BOOLEAN]
        /\ activate' \in [Hosts -> BOOLEAN]
    BY <1>23 DEF TypeOK, FinishActivation
  <2>3. /\ manifest' \in [Hosts -> Manifest \cup {None}]
        /\ token' \in [Hosts -> Nat \cup {None}]
        /\ receipt' \in [Hosts -> Manifest \cup {None}]
    BY <1>23 DEF TypeOK, FinishActivation
  <2>. QED BY <1>23, <2>1, <2>2, <2>3 DEF TypeOK, FinishActivation, hubFiles, counters
<1>24. ASSUME NEW h \in Hosts, ActivationFails(h)  PROVE TypeOK'
  BY <1>24, BoundsAssumption DEF TypeOK, ActivationFails, Goto, hubFiles,
         transferFiles, counters
<1>25. ASSUME NEW h \in Hosts, Crash(h)  PROVE TypeOK'
  BY <1>25, BoundsAssumption DEF TypeOK, Crash, Goto, Fault, hubFiles,
         transferFiles
<1>26. ASSUME NEW h \in Hosts, ServeHub(h)  PROVE TypeOK'
  <2>1. db[h] # None
    BY <1>26 DEF ServeHub, EntersServe, StepsInv, StepsOK, ActivationSteps
  <2>2. RecoverPreparing(h, db[h]) \in Database
    BY <2>1 DEF TypeOK, RecoverPreparing, Database
  <2>3. db' \in [Hosts -> Database \cup {None}]
    BY <1>26, <2>2 DEF TypeOK, ServeHub
  <2>4. recovery' \in [Hosts -> Move \cup {None}]
    BY <1>26 DEF TypeOK, ServeHub
  <2>. QED BY <1>26, <2>3, <2>4 DEF TypeOK, ServeHub, Goto, counters
<1>27. ASSUME NEW h \in Hosts, ServeRecovering(h)  PROVE TypeOK'
  BY <1>27, BoundsAssumption DEF TypeOK, ServeRecovering, EntersServe,
         Goto, MoveSteps, hubFiles, counters
<1>28. ASSUME NEW h \in Hosts, ServeHost(h)  PROVE TypeOK'
  BY <1>28, BoundsAssumption DEF TypeOK, ServeHost, hubFiles,
         transferFiles, counters
<1>29. ASSUME NEW h \in Hosts, ResumeActivation(h)  PROVE TypeOK'
  <2>. QED BY <1>29, EnterActivationType
         DEF TypeOK, ResumeActivation, hubFiles, counters
<1>30. ASSUME UNCHANGED vars  PROVE TypeOK'
  BY <1>30 DEF TypeOK, vars, process, hubFiles, transferFiles, counters
<1>. QED
  BY <1>1, <1>2, <1>3, <1>4, <1>5, <1>6, <1>7, <1>8, <1>9, <1>10, <1>11,
         <1>12, <1>13, <1>14, <1>15, <1>16, <1>17, <1>18, <1>19, <1>20, <1>21,
         <1>22, <1>23, <1>24, <1>25, <1>26, <1>27, <1>28, <1>29, <1>30 DEF Next,
         SourceStep, TargetStep, Restart

\* Every step of a process agrees with its role, fence and journal.
LEMMA StepsStep ==
  ASSUME TypeOK, StepsInv, [Next]_vars
  PROVE  StepsInv'
<1>1. ASSUME NEW h \in Hosts, ClientWrite(h)  PROVE StepsInv'
  <2>1. db'[h] \in Database
    BY <1>1, HubFiles DEF TypeOK, ClientWrite, Database
  <2>2. db'[h] # None
    BY <2>1, NoneAssumption
  <2>. QED BY <1>1, <2>2
         DEF TypeOK, ClientWrite, Serving, process, StepsInv, StepsOK, PreparingSteps, TransferSteps,
             ArmSteps, DemotionSteps, ActivationSteps
<1>2. ASSUME NEW h \in Hosts, NEW t \in Hosts, StartMove(h, t)  PROVE StepsInv'
  <2>1. db[h] # None
    BY <1>2, HubFiles, NoneAssumption DEF StartMove
  <2>2. job'[h] # None
    <3>1. job'[h] \in Move
      BY <1>2, HubFiles DEF TypeOK, StartMove, Move, Database
    <3>. QED BY <3>1, NoneAssumption
  <2>. QED BY <1>2, <2>1, <2>2
         DEF TypeOK, StartMove, Serving, Goto, StepsInv, StepsOK, PreparingSteps, TransferSteps,
             ArmSteps, DemotionSteps, ActivationSteps
<1>3. ASSUME NEW h \in Hosts, MoveRefused(h)  PROVE StepsInv'
  BY <1>3 DEF TypeOK, StepsInv, StepsOK, PreparingSteps, TransferSteps,
         ArmSteps, DemotionSteps, ActivationSteps, MoveRefused, Goto
<1>4. ASSUME NEW h \in Hosts, BeginHubMove(h)  PROVE StepsInv'
  <2>1. MoveHub(db[h], job[h].nonce, job[h].previous, job[h].target) \in Database
    BY <1>4, HubFiles, MoveHubResult DEF BeginHubMove, PreparingSteps, Move
  <2>2. db'[h] # None
    BY <1>4, <2>1, NoneAssumption DEF TypeOK, BeginHubMove
  <2>. QED BY <1>4, <2>2
         DEF TypeOK, BeginHubMove, Goto, Serving, StepsInv, StepsOK, PreparingSteps, TransferSteps,
             ArmSteps, DemotionSteps, ActivationSteps, process
<1>5. ASSUME NEW h \in Hosts, BackupFails(h)  PROVE StepsInv'
  <2>. DEFINE j == job[h]
              moved == MoveHub(db[h], j.nonce, j.previous, j.target)
              back == MoveHub(moved, j.nonce, j.target, j.previous)
  <2>1. moved \in Database
    BY <1>5, HubFiles, MoveHubResult DEF BackupFails, PreparingSteps, Move
  <2>2. back \in Database
    BY <1>5, <2>1, HubFiles, MoveHubResult DEF BackupFails, PreparingSteps, Move
  <2>3. db' = [db EXCEPT ![h] = back]
    BY <1>5 DEF BackupFails
  <2>4. db'[h] # None
    BY <2>2, <2>3, NoneAssumption DEF TypeOK
  <2>. QED BY <1>5, <2>4
         DEF TypeOK, BackupFails, Goto, StepsInv, StepsOK, PreparingSteps, TransferSteps,
             ArmSteps, DemotionSteps, ActivationSteps
<1>6. ASSUME NEW h \in Hosts, HandlerFails(h)  PROVE StepsInv'
  BY <1>6 DEF TypeOK, StepsInv, StepsOK, PreparingSteps, TransferSteps,
         ArmSteps, DemotionSteps, ActivationSteps, HandlerFails, Goto, hubFiles
<1>7. ASSUME NEW h \in Hosts, BeginHubTransfer(h)  PROVE StepsInv'
  BY <1>7 DEF TypeOK, StepsInv, StepsOK, PreparingSteps, TransferSteps,
         ArmSteps, DemotionSteps, ActivationSteps, BeginHubTransfer, Goto,
         Replied, hubFiles
<1>8. ASSUME NEW h \in Hosts, WriteHubTransfer(h)  PROVE StepsInv'
  BY <1>8 DEF TypeOK, StepsInv, StepsOK, PreparingSteps, TransferSteps,
         ArmSteps, DemotionSteps, ActivationSteps, WriteHubTransfer, Goto,
         Replied, hubFiles
<1>9. ASSUME NEW h \in Hosts, CommitHubTransfer(h)  PROVE StepsInv'
  BY <1>9 DEF TypeOK, StepsInv, StepsOK, PreparingSteps, TransferSteps,
         ArmSteps, DemotionSteps, ActivationSteps, CommitHubTransfer, Goto,
         Replied, hubFiles
<1>10. ASSUME NEW h \in Hosts, TransferFails(h)  PROVE StepsInv'
  BY <1>10 DEF TypeOK, StepsInv, StepsOK, PreparingSteps, TransferSteps,
         ArmSteps, DemotionSteps, ActivationSteps, TransferFails, Goto, hubFiles
<1>11. ASSUME NEW h \in Hosts, RollbackHubMove(h)  PROVE StepsInv'
  <2>1. MoveHub(db[h], job[h].nonce, job[h].target, job[h].previous) \in Database
    BY <1>11, HubFiles, MoveHubResult DEF RollbackHubMove, PreparingSteps, Move
  <2>2. db'[h] # None
    BY <1>11, <2>1, NoneAssumption DEF TypeOK, RollbackHubMove
  <2>. QED BY <1>11, <2>2
         DEF TypeOK, RollbackHubMove, Goto, Serving, StepsInv, StepsOK, PreparingSteps, TransferSteps,
             ArmSteps, DemotionSteps, ActivationSteps, process
<1>12. ASSUME NEW h \in Hosts, WriteMoveRecovery(h)  PROVE StepsInv'
  BY <1>12 DEF TypeOK, StepsInv, StepsOK, PreparingSteps, TransferSteps,
         ArmSteps, DemotionSteps, ActivationSteps, WriteMoveRecovery, Goto
<1>13. ASSUME NEW h \in Hosts, WriteMovePhase(h)  PROVE StepsInv'
  BY <1>13 DEF TypeOK, StepsInv, StepsOK, PreparingSteps, TransferSteps,
         ArmSteps, DemotionSteps, ActivationSteps, WriteMovePhase, Goto
<1>14. ASSUME NEW h \in Hosts, WriteMovePhaseFails(h)  PROVE StepsInv'
  BY <1>14 DEF TypeOK, StepsInv, StepsOK, PreparingSteps, TransferSteps,
         ArmSteps, DemotionSteps, ActivationSteps, WriteMovePhaseFails, Goto,
         hubFiles
<1>15. ASSUME NEW h \in Hosts, ArmHubTransfer(h)  PROVE StepsInv'
  BY <1>15 DEF TypeOK, StepsInv, StepsOK, PreparingSteps, TransferSteps,
         ArmSteps, DemotionSteps, ActivationSteps, ArmHubTransfer, Goto,
         Replied, hubFiles
<1>16. ASSUME NEW h \in Hosts, ArmFails(h)  PROVE StepsInv'
  BY <1>16 DEF TypeOK, StepsInv, StepsOK, PreparingSteps, TransferSteps,
         ArmSteps, DemotionSteps, ActivationSteps, ArmFails, Goto, hubFiles
<1>17. ASSUME NEW h \in Hosts, ActivateHubTransfer(h)  PROVE StepsInv'
  BY <1>17 DEF TypeOK, StepsInv, StepsOK, PreparingSteps, TransferSteps,
         ArmSteps, DemotionSteps, ActivationSteps, ActivateHubTransfer,
         EnterActivation, AlreadyActivated, Matches, Reachable, hubFiles
<1>18. ASSUME NEW h \in Hosts, ActivationUnacknowledged(h)  PROVE StepsInv'
  BY <1>18 DEF TypeOK, StepsInv, StepsOK, PreparingSteps, TransferSteps,
         ArmSteps, DemotionSteps, ActivationSteps, ActivationUnacknowledged,
         Goto, hubFiles
<1>19. ASSUME NEW h \in Hosts, ActivationAcknowledged(h)  PROVE StepsInv'
  BY <1>19 DEF TypeOK, StepsInv, StepsOK, PreparingSteps, TransferSteps,
         ArmSteps, DemotionSteps, ActivationSteps, ActivationAcknowledged, Goto,
         hubFiles
<1>20. ASSUME NEW h \in Hosts, Demote(h)  PROVE StepsInv'
  BY <1>20 DEF TypeOK, StepsInv, StepsOK, PreparingSteps, TransferSteps,
         ArmSteps, DemotionSteps, ActivationSteps, Demote, Goto
<1>21. ASSUME NEW h \in Hosts, InstallKeys(h)  PROVE StepsInv'
  BY <1>21 DEF TypeOK, StepsInv, StepsOK, PreparingSteps, TransferSteps,
         ArmSteps, DemotionSteps, ActivationSteps, InstallKeys, Goto
<1>22. ASSUME NEW h \in Hosts, InstallDatabase(h)  PROVE StepsInv'
  BY <1>22 DEF TypeOK, StepsInv, StepsOK, PreparingSteps, TransferSteps,
         ArmSteps, DemotionSteps, ActivationSteps, InstallDatabase, Goto,
         Matches
<1>23. ASSUME NEW h \in Hosts, FinishActivation(h)  PROVE StepsInv'
  BY <1>23 DEF TypeOK, StepsInv, StepsOK, PreparingSteps, TransferSteps,
         ArmSteps, DemotionSteps, ActivationSteps, FinishActivation, Goto,
         hubFiles
<1>24. ASSUME NEW h \in Hosts, ActivationFails(h)  PROVE StepsInv'
  BY <1>24 DEF TypeOK, StepsInv, StepsOK, PreparingSteps, TransferSteps,
         ArmSteps, DemotionSteps, ActivationSteps, ActivationFails, Goto,
         hubFiles
<1>25. ASSUME NEW h \in Hosts, Crash(h)  PROVE StepsInv'
  BY <1>25 DEF TypeOK, StepsInv, StepsOK, PreparingSteps, TransferSteps,
         ArmSteps, DemotionSteps, ActivationSteps, Crash, Goto, hubFiles
<1>26. ASSUME NEW h \in Hosts, ServeHub(h)  PROVE StepsInv'
  <2>1. db'[h] # None
    BY <1>26, HubFiles, RecoverPreparingResult, NoneAssumption DEF TypeOK, ServeHub
  <2>. QED BY <1>26, <2>1
         DEF TypeOK, ServeHub, EntersServe, Goto, StepsInv, StepsOK, PreparingSteps, TransferSteps,
             ArmSteps, DemotionSteps, ActivationSteps
<1>27. ASSUME NEW h \in Hosts, ServeRecovering(h)  PROVE StepsInv'
  BY <1>27 DEF TypeOK, StepsInv, StepsOK, PreparingSteps, TransferSteps,
         ArmSteps, DemotionSteps, ActivationSteps, ServeRecovering, EntersServe,
         Goto, hubFiles
<1>28. ASSUME NEW h \in Hosts, ServeHost(h)  PROVE StepsInv'
  BY <1>28 DEF TypeOK, StepsInv, StepsOK, PreparingSteps, TransferSteps,
         ArmSteps, DemotionSteps, ActivationSteps, ServeHost, hubFiles
<1>29. ASSUME NEW h \in Hosts, ResumeActivation(h)  PROVE StepsInv'
  BY <1>29 DEF TypeOK, StepsInv, StepsOK, PreparingSteps, TransferSteps,
         ArmSteps, DemotionSteps, ActivationSteps, ResumeActivation,
         EnterActivation, AlreadyActivated, Matches, hubFiles
<1>30. ASSUME UNCHANGED vars  PROVE StepsInv'
  BY <1>30 DEF StepsInv, StepsOK, vars, process, hubFiles
<1>. QED
  BY <1>1, <1>2, <1>3, <1>4, <1>5, <1>6, <1>7, <1>8, <1>9, <1>10, <1>11,
         <1>12, <1>13, <1>14, <1>15, <1>16, <1>17, <1>18, <1>19, <1>20, <1>21,
         <1>22, <1>23, <1>24, <1>25, <1>26, <1>27, <1>28, <1>29, <1>30 DEF Next,
         SourceStep, TargetStep, Restart

\* An activation that finds its transfer done removes the manifest and the
\* token together.
LEMMA EnterActivationFiles ==
  ASSUME TypeOK, NEW h, NEW steps, EnterActivation(h, steps)
  PROVE  \A x \in Hosts :
           \/ manifest'[x] = manifest[x] /\ token'[x] = token[x]
           \/ /\ x = h
              /\ AlreadyActivated(h)
              /\ manifest'[x] = None
              /\ token'[x] = None
BY DEF TypeOK, EnterActivation

\* Every step keeps the nonces of different moves apart.
LEMMA NoncesStep ==
  ASSUME TypeOK, StepsInv, NoncesInv, [Next]_vars
  PROVE  NoncesInv'
<1>1. ASSUME NEW h \in Hosts, ClientWrite(h)  PROVE NoncesInv'
  BY <1>1 DEF NoncesInv, NoncesOK, NoncesApart, ClientWrite, Serving,
         process, transferFiles
<1>2. ASSUME NEW h \in Hosts, NEW t \in Hosts, StartMove(h, t)  PROVE NoncesInv'
  <2>1. /\ job' = [job EXCEPT ![h] = job'[h]]
        /\ job'[h] \in Move
        /\ job'[h].target = t
        /\ job'[h].nonce = moves + 1
    BY <1>2, HubFiles DEF TypeOK, StartMove, Move, Database
  <2>2. moves \in Nat /\ moves' = moves + 1
    BY <1>2, BoundsAssumption DEF TypeOK, StartMove
  <2>3. t # h /\ UNCHANGED <<recovery, manifest, token>>
    BY <1>2 DEF StartMove, transferFiles
  <2>4. \A x \in Hosts : /\ job[x] # None => job[x].nonce \in Nat
                         /\ recovery[x] # None => recovery[x].nonce \in Nat
                         /\ manifest[x] # None => manifest[x].nonce \in Nat
    BY DEF TypeOK, Move, Manifest
  <2>5. \A x \in Hosts : /\ job'[x] = IF x = h THEN job'[h] ELSE job[x]
                         /\ job[x] # None => job[x].nonce < moves + 1
                         /\ recovery[x] # None => recovery[x].nonce < moves + 1
                         /\ manifest[x] # None => manifest[x].nonce < moves + 1
    BY <2>1, <2>2, <2>4 DEF TypeOK, NoncesInv, NoncesOK
  <2>6. \A x \in Hosts : NoncesOK(x)'
    BY <2>1, <2>2, <2>3, <2>4, <2>5 DEF NoncesInv, NoncesOK
  <2>7. \A x, y \in Hosts : NoncesApart(x, y)'
    BY <2>1, <2>2, <2>3, <2>4, <2>5 DEF NoncesInv, NoncesApart
  <2>. QED BY <2>6, <2>7 DEF NoncesInv
<1>3. ASSUME NEW h \in Hosts, MoveRefused(h)  PROVE NoncesInv'
  BY <1>3 DEF NoncesInv, NoncesOK, NoncesApart, MoveRefused, Goto,
         transferFiles, counters
<1>4. ASSUME NEW h \in Hosts, BeginHubMove(h)  PROVE NoncesInv'
  BY <1>4 DEF NoncesInv, NoncesOK, NoncesApart, BeginHubMove, Goto,
         MoveHub, transferFiles, counters
<1>5. ASSUME NEW h \in Hosts, BackupFails(h)  PROVE NoncesInv'
  BY <1>5 DEF NoncesInv, NoncesOK, NoncesApart, BackupFails, Goto,
         MoveHub, transferFiles
<1>6. ASSUME NEW h \in Hosts, HandlerFails(h)  PROVE NoncesInv'
  BY <1>6 DEF NoncesInv, NoncesOK, NoncesApart, HandlerFails, Goto,
         hubFiles, transferFiles
<1>7. ASSUME NEW h \in Hosts, BeginHubTransfer(h)  PROVE NoncesInv'
  <2>1. job[h] # None /\ job[h].target \in Hosts
    BY <1>7, HubFiles, NoneAssumption DEF BeginHubTransfer, PreparingSteps, TransferSteps, Move
  <2>2. /\ UNCHANGED <<job, recovery, moves>>
        /\ \A x \in Hosts :
             IF x = job[h].target
             THEN token'[x] = None /\ manifest'[x].nonce = job[h].nonce
             ELSE token'[x] = token[x] /\ manifest'[x] = manifest[x]
    BY <1>7, <2>1 DEF TypeOK, BeginHubTransfer, hubFiles, counters
  <2>3. \A x \in Hosts : NoncesOK(x)'
    BY <2>1, <2>2 DEF NoncesInv, NoncesOK
  <2>4. \A x, y \in Hosts : NoncesApart(x, y)'
    BY <2>1, <2>2 DEF NoncesInv, NoncesOK, NoncesApart
  <2>. QED BY <2>3, <2>4 DEF NoncesInv
<1>8. ASSUME NEW h \in Hosts, WriteHubTransfer(h)  PROVE NoncesInv'
  BY <1>8 DEF NoncesInv, NoncesOK, NoncesApart, WriteHubTransfer, Goto,
         Replied, hubFiles, counters
<1>9. ASSUME NEW h \in Hosts, CommitHubTransfer(h)  PROVE NoncesInv'
  BY <1>9 DEF NoncesInv, NoncesOK, NoncesApart, CommitHubTransfer, Goto,
         Replied, hubFiles, counters
<1>10. ASSUME NEW h \in Hosts, TransferFails(h)  PROVE NoncesInv'
  BY <1>10 DEF NoncesInv, NoncesOK, NoncesApart, TransferFails, Goto,
         TransferSteps, hubFiles, transferFiles, counters
<1>11. ASSUME NEW h \in Hosts, RollbackHubMove(h)  PROVE NoncesInv'
  BY <1>11 DEF NoncesInv, NoncesOK, NoncesApart, RollbackHubMove, Goto,
         MoveHub, transferFiles, counters
<1>12. ASSUME NEW h \in Hosts, WriteMoveRecovery(h)  PROVE NoncesInv'
  BY <1>12 DEF NoncesInv, NoncesOK, NoncesApart, WriteMoveRecovery, Goto,
         transferFiles, counters
<1>13. ASSUME NEW h \in Hosts, WriteMovePhase(h)  PROVE NoncesInv'
  BY <1>13 DEF NoncesInv, NoncesOK, NoncesApart, WriteMovePhase, Goto,
         transferFiles, counters
<1>14. ASSUME NEW h \in Hosts, WriteMovePhaseFails(h)  PROVE NoncesInv'
  BY <1>14 DEF NoncesInv, NoncesOK, NoncesApart, WriteMovePhaseFails,
         Goto, hubFiles, transferFiles
<1>15. ASSUME NEW h \in Hosts, ArmHubTransfer(h)  PROVE NoncesInv'
  BY <1>15 DEF NoncesInv, NoncesOK, NoncesApart, ArmHubTransfer, Goto,
         Replied, hubFiles, counters
<1>16. ASSUME NEW h \in Hosts, ArmFails(h)  PROVE NoncesInv'
  BY <1>16 DEF NoncesInv, NoncesOK, NoncesApart, ArmFails, Goto,
         hubFiles, transferFiles, counters
<1>17. ASSUME NEW h \in Hosts, ActivateHubTransfer(h)  PROVE NoncesInv'
  <2>. QED BY <1>17, EnterActivationFiles
         DEF ActivateHubTransfer, hubFiles, counters, NoncesInv, NoncesOK, NoncesApart
<1>18. ASSUME NEW h \in Hosts, ActivationUnacknowledged(h)  PROVE NoncesInv'
  BY <1>18 DEF NoncesInv, NoncesOK, NoncesApart,
         ActivationUnacknowledged, Goto, hubFiles, transferFiles, counters
<1>19. ASSUME NEW h \in Hosts, ActivationAcknowledged(h)  PROVE NoncesInv'
  BY <1>19 DEF NoncesInv, NoncesOK, NoncesApart, ActivationAcknowledged,
         Goto, hubFiles, transferFiles, counters
<1>20. ASSUME NEW h \in Hosts, Demote(h)  PROVE NoncesInv'
  <2>1. /\ UNCHANGED <<job, manifest, token, moves>>
        /\ \A x \in Hosts : recovery'[x] \in {None, recovery[x]}
    BY <1>20 DEF TypeOK, Demote, transferFiles, counters
  <2>. QED BY <2>1 DEF NoncesInv, NoncesOK, NoncesApart
<1>21. ASSUME NEW h \in Hosts, InstallKeys(h)  PROVE NoncesInv'
  BY <1>21 DEF NoncesInv, NoncesOK, NoncesApart, InstallKeys, Goto,
         counters
<1>22. ASSUME NEW h \in Hosts, InstallDatabase(h)  PROVE NoncesInv'
  BY <1>22 DEF NoncesInv, NoncesOK, NoncesApart, InstallDatabase, Goto,
         Matches, counters
<1>23. ASSUME NEW h \in Hosts, FinishActivation(h)  PROVE NoncesInv'
  <2>1. UNCHANGED <<job, recovery, moves>>
    BY <1>23 DEF FinishActivation, hubFiles, counters
  <2>2. CASE pc[h] = "clean"
    <3>1. /\ manifest' = [manifest EXCEPT ![h] = None]
          /\ token' = [token EXCEPT ![h] = None]
      BY <1>23, <2>2 DEF FinishActivation
    <3>. QED BY <2>1, <3>1 DEF TypeOK, NoncesInv, NoncesOK, NoncesApart
  <2>3. CASE pc[h] # "clean"
    <3>1. UNCHANGED <<manifest, token>>
      BY <1>23, <2>3 DEF FinishActivation
    <3>. QED BY <2>1, <3>1 DEF NoncesInv, NoncesOK, NoncesApart
  <2>. QED BY <2>2, <2>3
<1>24. ASSUME NEW h \in Hosts, ActivationFails(h)  PROVE NoncesInv'
  BY <1>24 DEF NoncesInv, NoncesOK, NoncesApart, ActivationFails, Goto,
         hubFiles, transferFiles, counters
<1>25. ASSUME NEW h \in Hosts, Crash(h)  PROVE NoncesInv'
  BY <1>25 DEF NoncesInv, NoncesOK, NoncesApart, Crash, Goto, hubFiles,
         transferFiles
<1>26. ASSUME NEW h \in Hosts, ServeHub(h)  PROVE NoncesInv'
  BY <1>26 DEF NoncesInv, NoncesOK, NoncesApart, ServeHub,
         RecoverPreparing, EntersServe, Goto, counters
<1>27. ASSUME NEW h \in Hosts, ServeRecovering(h)  PROVE NoncesInv'
  BY <1>27 DEF NoncesInv, NoncesOK, NoncesApart, ServeRecovering,
         EntersServe, Goto, hubFiles, counters
<1>28. ASSUME NEW h \in Hosts, ServeHost(h)  PROVE NoncesInv'
  BY <1>28 DEF NoncesInv, NoncesOK, NoncesApart, ServeHost, hubFiles,
         transferFiles, counters
<1>29. ASSUME NEW h \in Hosts, ResumeActivation(h)  PROVE NoncesInv'
  <2>. QED BY <1>29, EnterActivationFiles
         DEF ResumeActivation, hubFiles, counters, NoncesInv, NoncesOK, NoncesApart
<1>30. ASSUME UNCHANGED vars  PROVE NoncesInv'
  BY <1>30 DEF NoncesInv, NoncesOK, NoncesApart, vars, process, hubFiles,
         transferFiles, counters
<1>. QED
  BY <1>1, <1>2, <1>3, <1>4, <1>5, <1>6, <1>7, <1>8, <1>9, <1>10, <1>11,
         <1>12, <1>13, <1>14, <1>15, <1>16, <1>17, <1>18, <1>19, <1>20, <1>21,
         <1>22, <1>23, <1>24, <1>25, <1>26, <1>27, <1>28, <1>29, <1>30 DEF Next,
         SourceStep, TargetStep, Restart

\* A prepared database stays what its manifest says and never lies beside an
\* installed one.
LEMMA StageStep ==
  ASSUME IInv, [Next]_vars, StepsInv'
  PROVE  StageInv'
<1>1. ASSUME NEW h \in Hosts, ClientWrite(h)  PROVE StageInv'
  BY <1>1 DEF IInv, TypeOK, StepsInv, StepsOK, StageInv, StageOK,
         Authorised, PreparingSteps, TransferSteps, ArmSteps, DemotionSteps,
         ActivationSteps, ClientWrite, Serving, process, transferFiles
<1>2. ASSUME NEW h \in Hosts, NEW t \in Hosts, StartMove(h, t)  PROVE StageInv'
  BY <1>2 DEF IInv, TypeOK, StepsInv, StepsOK, StageInv, StageOK,
         Authorised, PreparingSteps, TransferSteps, ArmSteps, DemotionSteps,
         ActivationSteps, StartMove, Serving, Reachable, transferFiles, Goto
<1>3. ASSUME NEW h \in Hosts, MoveRefused(h)  PROVE StageInv'
  BY <1>3 DEF IInv, TypeOK, StepsInv, StepsOK, StageInv, StageOK,
         Authorised, PreparingSteps, TransferSteps, ArmSteps, DemotionSteps,
         ActivationSteps, MoveRefused, Goto, transferFiles, counters
<1>4. ASSUME NEW h \in Hosts, BeginHubMove(h)  PROVE StageInv'
  BY <1>4 DEF IInv, TypeOK, StepsInv, StepsOK, StageInv, StageOK,
         Authorised, PreparingSteps, TransferSteps, ArmSteps, DemotionSteps,
         ActivationSteps, BeginHubMove, Goto, MoveHub, transferFiles, counters
<1>5. ASSUME NEW h \in Hosts, BackupFails(h)  PROVE StageInv'
  BY <1>5 DEF IInv, TypeOK, StepsInv, StepsOK, StageInv, StageOK,
         Authorised, PreparingSteps, TransferSteps, ArmSteps, DemotionSteps,
         ActivationSteps, BackupFails, Goto, MoveHub, transferFiles
<1>6. ASSUME NEW h \in Hosts, HandlerFails(h)  PROVE StageInv'
  BY <1>6 DEF IInv, TypeOK, StepsInv, StepsOK, StageInv, StageOK,
         Authorised, PreparingSteps, TransferSteps, ArmSteps, DemotionSteps,
         ActivationSteps, HandlerFails, Goto, hubFiles, transferFiles
<1>7. ASSUME NEW h \in Hosts, BeginHubTransfer(h)  PROVE StageInv'
  <2>. DEFINE t == job[h].target
  <2>1. /\ t \in Hosts /\ Reachable(t)
        /\ pc[h] = "moved" /\ pc'[h] \in {"write", "rollback"}
    BY <1>7, HubFiles
       DEF IInv, TypeOK, BeginHubTransfer, PreparingSteps, TransferSteps, Move, Replied, Goto
  <2>2. /\ UNCHANGED <<role, db, keys>>
        /\ stage'[t].db = None
        /\ \A x \in Hosts : x # t => /\ stage'[x] = stage[x]
                                     /\ manifest'[x] = manifest[x]
                                     /\ token'[x] = token[x]
                                     /\ receipt'[x] = receipt[x]
        /\ \A x \in Hosts : x # h => pc'[x] = pc[x]
    BY <1>7, <2>1 DEF IInv, TypeOK, BeginHubTransfer, Replied, Goto, hubFiles
  <2>3. ASSUME NEW x \in Hosts  PROVE StageOK(x)'
    <3>1. CASE x = t
      BY <2>1, <2>2, <3>1 DEF IInv, StageInv, StageOK, Reachable, Authorised
    <3>2. CASE x # t
      BY <2>1, <2>2, <3>2 DEF IInv, StageInv, StageOK, Authorised, Matches
    <3>. QED BY <3>1, <3>2
  <2>. QED BY <2>3 DEF StageInv
<1>8. ASSUME NEW h \in Hosts, WriteHubTransfer(h)  PROVE StageInv'
  BY <1>8 DEF IInv, TypeOK, StepsInv, StepsOK, StageInv, StageOK,
         Authorised, PreparingSteps, TransferSteps, ArmSteps, DemotionSteps,
         ActivationSteps, WriteHubTransfer, Goto, Replied, hubFiles, counters
<1>9. ASSUME NEW h \in Hosts, CommitHubTransfer(h)  PROVE StageInv'
  <2>. DEFINE t == job[h].target
  <2>1. /\ t \in Hosts /\ Reachable(t)
        /\ pc[h] = "commit" /\ pc'[h] \in {"journal", "rollback"}
    BY <1>9, HubFiles
       DEF IInv, TypeOK, CommitHubTransfer, PreparingSteps, TransferSteps, Move, Replied, Goto
  <2>2. /\ UNCHANGED <<role, db, keys, manifest, token, receipt>>
        /\ stage'[t].db = stage[t].incoming
        /\ stage'[t].keys = "prepared"
        /\ \A x \in Hosts : x # t => stage'[x] = stage[x]
        /\ \A x \in Hosts : x # h => pc'[x] = pc[x]
    BY <1>9, <2>1 DEF IInv, TypeOK, CommitHubTransfer, Replied, Goto, hubFiles
  <2>3. /\ receipt[t] = None
        /\ manifest[t] # None
        /\ Matches(t, stage[t].incoming, manifest[t])
    BY <1>9, <2>1 DEF IInv, TransferInv, TransferOK, CommitHubTransfer
  <2>4. db[t] = None /\ role[t] = "host"
    BY <2>1 DEF IInv, StepsInv, StepsOK, Reachable
  <2>5. ASSUME NEW x \in Hosts  PROVE StageOK(x)'
    <3>1. CASE x = t
      BY <2>1, <2>2, <2>3, <2>4, <3>1
         DEF IInv, StageInv, StageOK, Reachable, Authorised, Matches
    <3>2. CASE x # t
      BY <2>1, <2>2, <3>2 DEF IInv, StageInv, StageOK, Authorised, Matches
    <3>. QED BY <3>1, <3>2
  <2>. QED BY <2>5 DEF StageInv
<1>10. ASSUME NEW h \in Hosts, TransferFails(h)  PROVE StageInv'
  BY <1>10 DEF IInv, TypeOK, StepsInv, StepsOK, StageInv, StageOK,
         Authorised, PreparingSteps, TransferSteps, ArmSteps, DemotionSteps,
         ActivationSteps, TransferFails, Goto, hubFiles, transferFiles, counters
<1>11. ASSUME NEW h \in Hosts, RollbackHubMove(h)  PROVE StageInv'
  BY <1>11 DEF IInv, TypeOK, StepsInv, StepsOK, StageInv, StageOK,
         Authorised, PreparingSteps, TransferSteps, ArmSteps, DemotionSteps,
         ActivationSteps, RollbackHubMove, Goto, MoveHub, transferFiles,
         counters
<1>12. ASSUME NEW h \in Hosts, WriteMoveRecovery(h)  PROVE StageInv'
  BY <1>12 DEF IInv, TypeOK, StepsInv, StepsOK, StageInv, StageOK,
         Authorised, PreparingSteps, TransferSteps, ArmSteps, DemotionSteps,
         ActivationSteps, WriteMoveRecovery, Goto, transferFiles, counters
<1>13. ASSUME NEW h \in Hosts, WriteMovePhase(h)  PROVE StageInv'
  BY <1>13 DEF IInv, TypeOK, StepsInv, StepsOK, StageInv, StageOK,
         Authorised, PreparingSteps, TransferSteps, ArmSteps, DemotionSteps,
         ActivationSteps, WriteMovePhase, Goto, transferFiles, counters
<1>14. ASSUME NEW h \in Hosts, WriteMovePhaseFails(h)  PROVE StageInv'
  BY <1>14 DEF IInv, TypeOK, StepsInv, StepsOK, StageInv, StageOK,
         Authorised, PreparingSteps, TransferSteps, ArmSteps, DemotionSteps,
         ActivationSteps, WriteMovePhaseFails, Goto, hubFiles, transferFiles
<1>15. ASSUME NEW h \in Hosts, ArmHubTransfer(h)  PROVE StageInv'
  BY <1>15 DEF IInv, TypeOK, StepsInv, StepsOK, StageInv, StageOK,
         Authorised, PreparingSteps, TransferSteps, ArmSteps, DemotionSteps,
         ActivationSteps, ArmHubTransfer, Goto, Replied, hubFiles, counters
<1>16. ASSUME NEW h \in Hosts, ArmFails(h)  PROVE StageInv'
  BY <1>16 DEF IInv, TypeOK, StepsInv, StepsOK, StageInv, StageOK,
         Authorised, PreparingSteps, TransferSteps, ArmSteps, DemotionSteps,
         ActivationSteps, ArmFails, Goto, hubFiles, transferFiles, counters
<1>17. ASSUME NEW h \in Hosts, ActivateHubTransfer(h)  PROVE StageInv'
  BY <1>17 DEF IInv, TypeOK, StepsInv, StepsOK, StageInv, StageOK,
         Authorised, PreparingSteps, TransferSteps, ArmSteps, DemotionSteps,
         ActivationSteps, ActivateHubTransfer, EnterActivation,
         AlreadyActivated, Matches, Reachable, hubFiles, counters
<1>18. ASSUME NEW h \in Hosts, ActivationUnacknowledged(h)  PROVE StageInv'
  BY <1>18 DEF IInv, TypeOK, StepsInv, StepsOK, StageInv, StageOK,
         Authorised, PreparingSteps, TransferSteps, ArmSteps, DemotionSteps,
         ActivationSteps, ActivationUnacknowledged, Goto, hubFiles,
         transferFiles, counters
<1>19. ASSUME NEW h \in Hosts, ActivationAcknowledged(h)  PROVE StageInv'
  BY <1>19 DEF IInv, TypeOK, StepsInv, StepsOK, StageInv, StageOK,
         Authorised, PreparingSteps, TransferSteps, ArmSteps, DemotionSteps,
         ActivationSteps, ActivationAcknowledged, Goto, hubFiles, transferFiles,
         counters
<1>20. ASSUME NEW h \in Hosts, Demote(h)  PROVE StageInv'
  BY <1>20 DEF IInv, TypeOK, StepsInv, StepsOK, StageInv, StageOK,
         Authorised, PreparingSteps, TransferSteps, ArmSteps, DemotionSteps,
         ActivationSteps, Demote, Goto, transferFiles, counters
<1>21. ASSUME NEW h \in Hosts, InstallKeys(h)  PROVE StageInv'
  BY <1>21 DEF IInv, TypeOK, StepsInv, StepsOK, StageInv, StageOK,
         Authorised, PreparingSteps, TransferSteps, ArmSteps, DemotionSteps,
         ActivationSteps, InstallKeys, Goto, counters
<1>22. ASSUME NEW h \in Hosts, InstallDatabase(h)  PROVE StageInv'
  BY <1>22 DEF IInv, TypeOK, StepsInv, StepsOK, StageInv, StageOK,
         Authorised, PreparingSteps, TransferSteps, ArmSteps, DemotionSteps,
         ActivationSteps, InstallDatabase, Goto, Matches, counters
<1>23. ASSUME NEW h \in Hosts, FinishActivation(h)  PROVE StageInv'
  <2>1. UNCHANGED <<role, db, keys, stage>>
    BY <1>23 DEF FinishActivation, hubFiles
  <2>2. stage[h].db = None
    BY <1>23 DEF IInv, StepsInv, StepsOK, StageInv, StageOK, FinishActivation
  <2>3. ASSUME NEW x \in Hosts, x # h  PROVE StageOK(x)'
    <3>1. pc'[x] = pc[x]
      BY <1>23, <2>3 DEF IInv, TypeOK, FinishActivation, Goto
    <3>2. /\ manifest'[x] = manifest[x]
          /\ token'[x] = token[x]
          /\ receipt'[x] = receipt[x]
      <4>1. CASE pc[h] = "clean"
        BY <1>23, <2>3, <4>1 DEF IInv, TypeOK, FinishActivation
      <4>2. CASE pc[h] = "receipt"
        BY <1>23, <2>3, <4>2 DEF IInv, TypeOK, FinishActivation
      <4>3. CASE pc[h] \in {"promote", "unmark"}
        BY <1>23, <2>3, <4>3 DEF FinishActivation
      <4>. QED BY <1>23, <4>1, <4>2, <4>3 DEF FinishActivation
    <3>. QED BY <2>1, <3>1, <3>2 DEF IInv, StageInv, StageOK, Authorised, Matches
  <2>4. StageOK(h)'
    <3>1. CASE pc[h] = "clean"
      BY <1>23, <2>1, <2>2, <3>1
         DEF IInv, TypeOK, StageInv, StageOK, FinishActivation, Goto, Matches
    <3>2. CASE pc[h] \in {"receipt", "unmark"}
      BY <1>23, <2>1, <2>2, <3>2
         DEF IInv, TypeOK, StageInv, StageOK, FinishActivation, Goto, Matches
    <3>3. CASE pc[h] = "promote"
      BY <1>23, <2>1, <2>2, <3>3
         DEF IInv, TypeOK, StageInv, StageOK, FinishActivation, Goto, Matches, Authorised
    <3>. QED BY <1>23, <3>1, <3>2, <3>3 DEF FinishActivation
  <2>. QED BY <2>3, <2>4 DEF StageInv
<1>24. ASSUME NEW h \in Hosts, ActivationFails(h)  PROVE StageInv'
  BY <1>24 DEF IInv, TypeOK, StepsInv, StepsOK, StageInv, StageOK,
         Authorised, PreparingSteps, TransferSteps, ArmSteps, DemotionSteps,
         ActivationSteps, ActivationFails, Goto, hubFiles, transferFiles,
         counters
<1>25. ASSUME NEW h \in Hosts, Crash(h)  PROVE StageInv'
  BY <1>25 DEF IInv, TypeOK, StepsInv, StepsOK, StageInv, StageOK,
         Authorised, PreparingSteps, TransferSteps, ArmSteps, DemotionSteps,
         ActivationSteps, Crash, Goto, hubFiles, transferFiles
<1>26. ASSUME NEW h \in Hosts, ServeHub(h)  PROVE StageInv'
  BY <1>26 DEF IInv, TypeOK, StepsInv, StepsOK, StageInv, StageOK,
         Authorised, PreparingSteps, TransferSteps, ArmSteps, DemotionSteps,
         ActivationSteps, ServeHub, RecoverPreparing, EntersServe, Goto,
         counters
<1>27. ASSUME NEW h \in Hosts, ServeRecovering(h)  PROVE StageInv'
  BY <1>27 DEF IInv, TypeOK, StepsInv, StepsOK, StageInv, StageOK,
         Authorised, PreparingSteps, TransferSteps, ArmSteps, DemotionSteps,
         ActivationSteps, ServeRecovering, EntersServe, Goto, hubFiles, counters
<1>28. ASSUME NEW h \in Hosts, ServeHost(h)  PROVE StageInv'
  BY <1>28 DEF IInv, TypeOK, StepsInv, StepsOK, StageInv, StageOK,
         Authorised, PreparingSteps, TransferSteps, ArmSteps, DemotionSteps,
         ActivationSteps, ServeHost, hubFiles, transferFiles, counters
<1>29. ASSUME NEW h \in Hosts, ResumeActivation(h)  PROVE StageInv'
  BY <1>29 DEF IInv, TypeOK, StepsInv, StepsOK, StageInv, StageOK,
         Authorised, PreparingSteps, TransferSteps, ArmSteps, DemotionSteps,
         ActivationSteps, ResumeActivation, EnterActivation, AlreadyActivated,
         Matches, hubFiles, counters
<1>30. ASSUME UNCHANGED vars  PROVE StageInv'
  BY <1>30 DEF StageInv, StageOK, Authorised, IInv, vars, process,
         hubFiles, transferFiles, counters
<1>. QED
  BY <1>1, <1>2, <1>3, <1>4, <1>5, <1>6, <1>7, <1>8, <1>9, <1>10, <1>11,
         <1>12, <1>13, <1>14, <1>15, <1>16, <1>17, <1>18, <1>19, <1>20, <1>21,
         <1>22, <1>23, <1>24, <1>25, <1>26, <1>27, <1>28, <1>29, <1>30 DEF Next,
         SourceStep, TargetStep, Restart

\* A Host that moves the Hub or serves it has the claim; no other Host does
\* either, nor is a transfer armed or an installed database beside it.
LEMMA OneHub ==
  ASSUME IInv, NEW h \in Hosts, Serving(h) \/ pc[h] \in PreparingSteps
  PROVE  /\ Held(h)
         /\ db[h] \in Database
         /\ \A x \in Hosts \ {h} :
              ~ Claim(x) /\ ~ Serving(x) /\ pc[x] \notin PreparingSteps
<1>1. \A x \in Hosts : Serving(x) \/ pc[x] \in PreparingSteps => Held(x) /\ db[x] \in Database
  <2>. SUFFICES ASSUME NEW x \in Hosts, Serving(x) \/ pc[x] \in PreparingSteps
                PROVE  Held(x) /\ db[x] \in Database
    OBVIOUS
  <2>1. db[x] \in Database
    BY HubFiles DEF IInv
  <2>2. phase[x] # "activating"
    BY HubFiles DEF IInv, StepsInv, StepsOK
  <2>. QED BY <2>1, <2>2, NoneAssumption DEF Held
<1>. QED BY <1>1 DEF IInv, ClaimInv, Claim

\* Nothing disturbs the target of a transfer in progress but the requests of
\* the transfer.
LEMMA TransferStep ==
  ASSUME IInv, [Next]_vars, StepsInv'
  PROVE  TransferInv'
<1>1. ASSUME NEW h \in Hosts, ClientWrite(h)  PROVE TransferInv'
  BY <1>1, OneHub DEF IInv, TypeOK, StepsInv, StepsOK, TransferInv,
         TransferOK, PreparingSteps, TransferSteps, ArmSteps, DemotionSteps,
         ActivationSteps, ClientWrite, Serving, process, transferFiles
<1>2. ASSUME NEW h \in Hosts, NEW t \in Hosts, StartMove(h, t)  PROVE TransferInv'
  BY <1>2, OneHub DEF IInv, TypeOK, StepsInv, StepsOK, TransferInv,
         TransferOK, PreparingSteps, TransferSteps, ArmSteps, DemotionSteps,
         ActivationSteps, StartMove, Serving, Reachable, transferFiles, Goto
<1>3. ASSUME NEW h \in Hosts, MoveRefused(h)  PROVE TransferInv'
  BY <1>3, OneHub DEF IInv, TypeOK, StepsInv, StepsOK, TransferInv,
         TransferOK, PreparingSteps, TransferSteps, ArmSteps, DemotionSteps,
         ActivationSteps, MoveRefused, Goto, transferFiles, counters
<1>4. ASSUME NEW h \in Hosts, BeginHubMove(h)  PROVE TransferInv'
  BY <1>4, OneHub DEF IInv, TypeOK, StepsInv, StepsOK, TransferInv,
         TransferOK, PreparingSteps, TransferSteps, ArmSteps, DemotionSteps,
         ActivationSteps, BeginHubMove, Goto, MoveHub, transferFiles, counters
<1>5. ASSUME NEW h \in Hosts, BackupFails(h)  PROVE TransferInv'
  BY <1>5, OneHub DEF IInv, TypeOK, StepsInv, StepsOK, TransferInv,
         TransferOK, PreparingSteps, TransferSteps, ArmSteps, DemotionSteps,
         ActivationSteps, BackupFails, Goto, MoveHub, transferFiles
<1>6. ASSUME NEW h \in Hosts, HandlerFails(h)  PROVE TransferInv'
  BY <1>6, OneHub DEF IInv, TypeOK, StepsInv, StepsOK, TransferInv,
         TransferOK, PreparingSteps, TransferSteps, ArmSteps, DemotionSteps,
         ActivationSteps, HandlerFails, Goto, hubFiles, transferFiles
<1>7. ASSUME NEW h \in Hosts, BeginHubTransfer(h)  PROVE TransferInv'
  <2>. SUFFICES ASSUME NEW x \in Hosts,
                       pc'[x] \in {"write", "commit", "journal", "phase"}
                PROVE  TransferOK(x)'
    BY DEF TransferInv, TransferOK
  <2>. DEFINE t == job[h].target
  <2>1. /\ pc[h] \in PreparingSteps
        /\ t \in Hosts
    BY <1>7, HubFiles DEF IInv, BeginHubTransfer, PreparingSteps, TransferSteps, Move
  <2>2. x = h
    BY <1>7, <2>1, OneHub
       DEF IInv, TypeOK, BeginHubTransfer, Replied, Goto, PreparingSteps, TransferSteps
  <2>3. /\ UNCHANGED <<job, db>>
        /\ manifest'[t] = [nonce |-> job[h].nonce, gen |-> db[h].gen]
        /\ token'[t] = None
        /\ receipt'[t] = None
        /\ pc'[h] \notin {"commit", "journal", "phase"}
    BY <1>7, <2>1 DEF IInv, TypeOK, BeginHubTransfer, Replied, Goto, hubFiles
  <2>. QED BY <2>2, <2>3 DEF TransferOK
<1>8. ASSUME NEW h \in Hosts, WriteHubTransfer(h)  PROVE TransferInv'
  <2>. SUFFICES ASSUME NEW x \in Hosts,
                       pc'[x] \in {"write", "commit", "journal", "phase"}
                PROVE  TransferOK(x)'
    BY DEF TransferInv, TransferOK
  <2>. DEFINE t == job[h].target
  <2>1. /\ pc[h] \in PreparingSteps
        /\ t \in Hosts
    BY <1>8, HubFiles DEF IInv, WriteHubTransfer, PreparingSteps, TransferSteps, Move
  <2>2. x = h
    BY <1>8, <2>1, OneHub
       DEF IInv, TypeOK, WriteHubTransfer, Replied, Goto, PreparingSteps, TransferSteps
  <2>3. /\ UNCHANGED <<job, db, manifest, token, receipt>>
        /\ pc[h] = "write" /\ pc'[h] \notin {"journal", "phase"}
        /\ stage'[t].incoming = db[h]
    BY <1>8, <2>1 DEF IInv, TypeOK, WriteHubTransfer, Replied, Goto, hubFiles, Stage
  <2>. QED BY <2>2, <2>3 DEF IInv, TransferInv, TransferOK
<1>9. ASSUME NEW h \in Hosts, CommitHubTransfer(h)  PROVE TransferInv'
  <2>. SUFFICES ASSUME NEW x \in Hosts,
                       pc'[x] \in {"write", "commit", "journal", "phase"}
                PROVE  TransferOK(x)'
    BY DEF TransferInv, TransferOK
  <2>. DEFINE t == job[h].target
  <2>1. /\ pc[h] \in PreparingSteps
        /\ t \in Hosts
    BY <1>9, HubFiles DEF IInv, CommitHubTransfer, PreparingSteps, TransferSteps, Move
  <2>2. x = h
    BY <1>9, <2>1, OneHub
       DEF IInv, TypeOK, CommitHubTransfer, Replied, Goto, PreparingSteps, TransferSteps
  <2>3. /\ UNCHANGED <<job, db, manifest, token, receipt>>
        /\ pc[h] = "commit" /\ pc'[h] \in {"journal", "rollback"}
        /\ stage'[t].db = stage[t].incoming
        /\ Matches(t, stage[t].incoming, manifest[t])
    BY <1>9, <2>1 DEF IInv, TypeOK, CommitHubTransfer, Replied, Goto, hubFiles, Stage
  <2>. QED BY <2>2, <2>3 DEF IInv, TransferInv, TransferOK, Matches
<1>10. ASSUME NEW h \in Hosts, TransferFails(h)  PROVE TransferInv'
  BY <1>10, OneHub DEF IInv, TypeOK, StepsInv, StepsOK, TransferInv,
         TransferOK, PreparingSteps, TransferSteps, ArmSteps, DemotionSteps,
         ActivationSteps, TransferFails, Goto, hubFiles, transferFiles, counters
<1>11. ASSUME NEW h \in Hosts, RollbackHubMove(h)  PROVE TransferInv'
  BY <1>11, OneHub DEF IInv, TypeOK, StepsInv, StepsOK, TransferInv,
         TransferOK, PreparingSteps, TransferSteps, ArmSteps, DemotionSteps,
         ActivationSteps, RollbackHubMove, Goto, MoveHub, transferFiles,
         counters
<1>12. ASSUME NEW h \in Hosts, WriteMoveRecovery(h)  PROVE TransferInv'
  BY <1>12, OneHub DEF IInv, TypeOK, StepsInv, StepsOK, TransferInv,
         TransferOK, PreparingSteps, TransferSteps, ArmSteps, DemotionSteps,
         ActivationSteps, WriteMoveRecovery, Goto, transferFiles, counters
<1>13. ASSUME NEW h \in Hosts, WriteMovePhase(h)  PROVE TransferInv'
  BY <1>13, OneHub DEF IInv, TypeOK, StepsInv, StepsOK, TransferInv,
         TransferOK, PreparingSteps, TransferSteps, ArmSteps, DemotionSteps,
         ActivationSteps, WriteMovePhase, Goto, transferFiles, counters
<1>14. ASSUME NEW h \in Hosts, WriteMovePhaseFails(h)  PROVE TransferInv'
  BY <1>14, OneHub DEF IInv, TypeOK, StepsInv, StepsOK, TransferInv,
         TransferOK, PreparingSteps, TransferSteps, ArmSteps, DemotionSteps,
         ActivationSteps, WriteMovePhaseFails, Goto, hubFiles, transferFiles
<1>15. ASSUME NEW h \in Hosts, ArmHubTransfer(h)  PROVE TransferInv'
  <2>. SUFFICES ASSUME NEW x \in Hosts,
                       pc'[x] \in {"write", "commit", "journal", "phase"}
                PROVE  TransferOK(x)'
    BY DEF TransferInv, TransferOK
  <2>. DEFINE t == job[x].target
  <2>1. x # h /\ pc'[x] = pc[x]
    BY <1>15 DEF IInv, TypeOK, ArmHubTransfer, Replied, Goto
  <2>2. /\ pc[x] \in PreparingSteps
        /\ job[x] \in Move /\ t \in Hosts
    BY <2>1, HubFiles DEF IInv, PreparingSteps, TransferSteps, Move
  <2>3. job[h] # None /\ manifest[job[h].target].nonce = job[h].nonce
    BY <1>15 DEF IInv, StepsInv, StepsOK, ArmSteps, ArmHubTransfer
  <2>4. manifest[t].nonce = job[x].nonce
    <3>1. manifest[t] = [nonce |-> job[x].nonce, gen |-> db[x].gen]
      BY <2>1 DEF IInv, TransferInv, TransferOK
    <3>. QED BY <3>1
  <2>5. job[h].target # t
    BY <2>1, <2>2, <2>3, <2>4, NoneAssumption DEF IInv, NoncesInv, NoncesApart
  <2>6. /\ UNCHANGED <<job, db, manifest, stage, receipt>>
        /\ token'[t] = token[t]
    BY <1>15, <2>2, <2>5 DEF IInv, TypeOK, ArmHubTransfer, hubFiles
  <2>. QED BY <2>1, <2>6 DEF IInv, TransferInv, TransferOK
<1>16. ASSUME NEW h \in Hosts, ArmFails(h)  PROVE TransferInv'
  BY <1>16, OneHub DEF IInv, TypeOK, StepsInv, StepsOK, TransferInv,
         TransferOK, PreparingSteps, TransferSteps, ArmSteps, DemotionSteps,
         ActivationSteps, ArmFails, Goto, hubFiles, transferFiles, counters
<1>17. ASSUME NEW h \in Hosts, ActivateHubTransfer(h)  PROVE TransferInv'
  BY SMTT(30), <1>17, OneHub DEF IInv, TypeOK, StepsInv, StepsOK, TransferInv,
         TransferOK, PreparingSteps, TransferSteps, ArmSteps, DemotionSteps,
         ActivationSteps, ActivateHubTransfer, EnterActivation,
         AlreadyActivated, Matches, Reachable, hubFiles, counters
<1>18. ASSUME NEW h \in Hosts, ActivationUnacknowledged(h)  PROVE TransferInv'
  BY <1>18, OneHub DEF IInv, TypeOK, StepsInv, StepsOK, TransferInv,
         TransferOK, PreparingSteps, TransferSteps, ArmSteps, DemotionSteps,
         ActivationSteps, ActivationUnacknowledged, Goto, hubFiles,
         transferFiles, counters
<1>19. ASSUME NEW h \in Hosts, ActivationAcknowledged(h)  PROVE TransferInv'
  BY <1>19, OneHub DEF IInv, TypeOK, StepsInv, StepsOK, TransferInv,
         TransferOK, PreparingSteps, TransferSteps, ArmSteps, DemotionSteps,
         ActivationSteps, ActivationAcknowledged, Goto, hubFiles, transferFiles,
         counters
<1>20. ASSUME NEW h \in Hosts, Demote(h)  PROVE TransferInv'
  BY <1>20, OneHub DEF IInv, TypeOK, StepsInv, StepsOK, TransferInv,
         TransferOK, PreparingSteps, TransferSteps, ArmSteps, DemotionSteps,
         ActivationSteps, Demote, Goto, transferFiles, counters
<1>21. ASSUME NEW h \in Hosts, InstallKeys(h)  PROVE TransferInv'
  BY <1>21, OneHub DEF IInv, TypeOK, StepsInv, StepsOK, TransferInv,
         TransferOK, PreparingSteps, TransferSteps, ArmSteps, DemotionSteps,
         ActivationSteps, InstallKeys, Goto, counters
<1>22. ASSUME NEW h \in Hosts, InstallDatabase(h)  PROVE TransferInv'
  <2>. SUFFICES ASSUME NEW x \in Hosts,
                       pc'[x] \in {"write", "commit", "journal", "phase"}
                PROVE  TransferOK(x)'
    BY DEF TransferInv, TransferOK
  <2>. DEFINE t == job[x].target
  <2>1. x # h /\ pc'[x] = pc[x]
    BY <1>22 DEF IInv, TypeOK, InstallDatabase, Goto
  <2>2. /\ pc[x] \in PreparingSteps
        /\ job[x] \in Move /\ t \in Hosts
    BY <2>1, HubFiles DEF IInv, PreparingSteps, TransferSteps, Move
  <2>3. t # h
    <3>1. token[h] \in Nat
      BY <1>22, NoneAssumption
         DEF IInv, TypeOK, Manifest, StageInv, StageOK, Authorised, InstallDatabase
    <3>. QED BY <2>1, <3>1, NoneAssumption DEF IInv, TransferInv, TransferOK
  <2>4. /\ UNCHANGED <<job, manifest, token, receipt>>
        /\ db'[x] = db[x]
        /\ stage'[t] = stage[t]
    BY <1>22, <2>1, <2>2, <2>3 DEF IInv, TypeOK, InstallDatabase
  <2>. QED BY <2>1, <2>4 DEF IInv, TransferInv, TransferOK
<1>23. ASSUME NEW h \in Hosts, FinishActivation(h)  PROVE TransferInv'
  <2>. SUFFICES ASSUME NEW x \in Hosts,
                       pc'[x] \in {"write", "commit", "journal", "phase"}
                PROVE  TransferOK(x)'
    BY DEF TransferInv, TransferOK
  <2>. DEFINE t == job[x].target
  <2>1. x # h /\ pc'[x] = pc[x]
    BY <1>23 DEF IInv, TypeOK, FinishActivation, Goto
  <2>2. /\ pc[x] \in PreparingSteps
        /\ job[x] \in Move /\ t \in Hosts
    BY <2>1, HubFiles DEF IInv, PreparingSteps, TransferSteps, Move
  <2>3. h \in Hosts \ {x} /\ ~ Held(h)
    BY <1>23, <2>1, <2>2, OneHub DEF Claim
  <2>4. pc[h] # "clean"
    BY <2>3, HubFiles DEF IInv, StageInv, StageOK, Matches, Held
  <2>5. t = h => pc[h] # "receipt"
    <3>1. pc[h] = "receipt" => token[h] \in Nat
      BY DEF IInv, TypeOK, Manifest, StageInv, StageOK, Authorised
    <3>. QED BY <2>1, <3>1, NoneAssumption DEF IInv, TransferInv, TransferOK
  <2>6. /\ UNCHANGED <<job, db, stage>>
        /\ UNCHANGED <<manifest, token>>
    BY <1>23, <2>4 DEF FinishActivation, hubFiles
  <2>7. receipt'[t] = receipt[t]
    BY <1>23, <2>2, <2>4, <2>5 DEF IInv, TypeOK, FinishActivation
  <2>. QED BY <2>1, <2>6, <2>7 DEF IInv, TransferInv, TransferOK
<1>24. ASSUME NEW h \in Hosts, ActivationFails(h)  PROVE TransferInv'
  BY <1>24, OneHub DEF IInv, TypeOK, StepsInv, StepsOK, TransferInv,
         TransferOK, PreparingSteps, TransferSteps, ArmSteps, DemotionSteps,
         ActivationSteps, ActivationFails, Goto, hubFiles, transferFiles,
         counters
<1>25. ASSUME NEW h \in Hosts, Crash(h)  PROVE TransferInv'
  BY <1>25, OneHub DEF IInv, TypeOK, StepsInv, StepsOK, TransferInv,
         TransferOK, PreparingSteps, TransferSteps, ArmSteps, DemotionSteps,
         ActivationSteps, Crash, Goto, hubFiles, transferFiles
<1>26. ASSUME NEW h \in Hosts, ServeHub(h)  PROVE TransferInv'
  BY <1>26, OneHub DEF IInv, TypeOK, StepsInv, StepsOK, TransferInv,
         TransferOK, PreparingSteps, TransferSteps, ArmSteps, DemotionSteps,
         ActivationSteps, ServeHub, RecoverPreparing, EntersServe, Goto,
         counters
<1>27. ASSUME NEW h \in Hosts, ServeRecovering(h)  PROVE TransferInv'
  BY <1>27, OneHub DEF IInv, TypeOK, StepsInv, StepsOK, TransferInv,
         TransferOK, PreparingSteps, TransferSteps, ArmSteps, DemotionSteps,
         ActivationSteps, ServeRecovering, EntersServe, Goto, hubFiles, counters
<1>28. ASSUME NEW h \in Hosts, ServeHost(h)  PROVE TransferInv'
  BY <1>28, OneHub DEF IInv, TypeOK, StepsInv, StepsOK, TransferInv,
         TransferOK, PreparingSteps, TransferSteps, ArmSteps, DemotionSteps,
         ActivationSteps, ServeHost, hubFiles, transferFiles, counters
<1>29. ASSUME NEW h \in Hosts, ResumeActivation(h)  PROVE TransferInv'
  <2>. SUFFICES ASSUME NEW x \in Hosts,
                       pc'[x] \in {"write", "commit", "journal", "phase"}
                PROVE  TransferOK(x)'
    BY DEF TransferInv, TransferOK
  <2>. DEFINE t == job[x].target
  <2>1. x # h /\ pc'[x] = pc[x]
    BY <1>29 DEF IInv, TypeOK, ResumeActivation, EnterActivation
  <2>2. t \in Hosts
    BY <2>1, HubFiles DEF IInv, PreparingSteps, TransferSteps, Move
  <2>3. ~ (t = h /\ AlreadyActivated(h))
    BY <2>1 DEF IInv, TransferInv, TransferOK, AlreadyActivated
  <2>4. /\ UNCHANGED <<job, db, stage, receipt>>
        /\ manifest'[t] = manifest[t]
        /\ token'[t] = token[t]
    BY <1>29, <2>2, <2>3, EnterActivationFiles DEF IInv, ResumeActivation, hubFiles
  <2>. QED BY <2>1, <2>4 DEF IInv, TransferInv, TransferOK
<1>30. ASSUME UNCHANGED vars  PROVE TransferInv'
  BY <1>30 DEF TransferInv, TransferOK, IInv, vars, process, hubFiles,
         transferFiles, counters
<1>. QED
  BY <1>1, <1>2, <1>3, <1>4, <1>5, <1>6, <1>7, <1>8, <1>9, <1>10, <1>11,
         <1>12, <1>13, <1>14, <1>15, <1>16, <1>17, <1>18, <1>19, <1>20, <1>21,
         <1>22, <1>23, <1>24, <1>25, <1>26, <1>27, <1>28, <1>29, <1>30 DEF Next,
         SourceStep, TargetStep, Restart

\* A move is committed by the journal of its source alone.
LEMMA CommittedKept ==
  ASSUME \A g \in Hosts :
           \/ phase'[g] = phase[g] /\ recovery'[g] = recovery[g]
           \/ phase[g] # "activating" /\ phase'[g] # "activating"
  PROVE  \A n : Committed(n)' <=> Committed(n)
BY DEF Committed

\* A step that keeps the journals, the prepared databases that are sent and the
\* databases that are held keeps every claim.
LEMMA ClaimsKept ==
  ASSUME ClaimInv, acked' = acked,
         \A g \in Hosts :
           \/ phase'[g] = phase[g] /\ recovery'[g] = recovery[g]
           \/ phase[g] # "activating" /\ phase'[g] # "activating",
         \A x \in Hosts :
           \/ /\ manifest'[x] = manifest[x]
              /\ token'[x] = token[x]
              /\ stage'[x].db = stage[x].db
           \/ ~ Sent(x) /\ (stage'[x].db = None \/ ~ Sent(x)'),
         \A x \in Hosts :
           /\ Held(x)' <=> Held(x)
           /\ Held(x) => db'[x].content = db[x].content
  PROVE  ClaimInv'
<1>1. \A x \in Hosts :
        /\ Sent(x)' <=> Sent(x)
        /\ Sent(x) => stage'[x].db.content = stage[x].db.content
  BY CommittedKept DEF Sent
<1>. QED BY <1>1 DEF ClaimInv, Claim, Whole

\* At every step exactly one Host keeps the claim to be the Hub.
LEMMA ClaimStep ==
  ASSUME IInv, [Next]_vars, StepsInv'
  PROVE  ClaimInv'
<1>1. ASSUME NEW h \in Hosts, ClientWrite(h)  PROVE ClaimInv'
  <2>1. /\ db[h] \in Database
        /\ \A x \in Hosts \ {h} : ~ Claim(x)
    BY <1>1, OneHub DEF ClientWrite
  <2>2. Held(h) /\ phase[h] # "activating" /\ ~ Sent(h)
    BY <1>1, <2>1, OneHub, HubFiles, NoneAssumption
       DEF IInv, ClientWrite, StageInv, StageOK, Sent
  <2>3. /\ UNCHANGED <<phase, recovery, manifest, token, stage>>
        /\ db'[h] = [db[h] EXCEPT !.content = @ + 1]
        /\ \A x \in Hosts \ {h} : db'[x] = db[x]
        /\ acked' = acked + 1
    BY <1>1 DEF IInv, TypeOK, ClientWrite, transferFiles
  <2>4. db'[h] # None /\ db'[h].content = acked'
    <3>1. db'[h] \in Database
      BY <2>1, <2>3 DEF Database
    <3>2. db'[h].content = db[h].content + 1
      BY <2>1, <2>3 DEF Database
    <3>. QED BY <2>2, <2>3, <3>1, <3>2, NoneAssumption DEF IInv, ClaimInv, Whole
  <2>5. \A x \in Hosts : Sent(x)' <=> Sent(x)
    BY <2>3, CommittedKept DEF Sent
  <2>6. Held(h)' /\ \A x \in Hosts \ {h} : ~ Claim(x)'
    BY <2>1, <2>2, <2>3, <2>4, <2>5 DEF Claim, Held
  <2>. QED BY <2>2, <2>4, <2>5, <2>6 DEF ClaimInv, Claim, Whole
<1>2. ASSUME NEW h \in Hosts, NEW t \in Hosts, StartMove(h, t)  PROVE ClaimInv'
  <2>1. Held(h) /\ phase[h] # "activating"
    BY <1>2, OneHub, HubFiles DEF IInv, StartMove
  <2>2. /\ UNCHANGED <<db, recovery, manifest, token, stage, acked>>
        /\ phase' = [phase EXCEPT ![h] = "preparing"]
    BY <1>2 DEF StartMove, transferFiles
  <2>. QED BY <2>1, <2>2, ClaimsKept DEF IInv, TypeOK, Held
<1>3. ASSUME NEW h \in Hosts, MoveRefused(h)  PROVE ClaimInv'
  <2>1. phase[h] = "preparing"
    BY <1>3 DEF IInv, StepsInv, StepsOK, MoveRefused, PreparingSteps
  <2>2. /\ UNCHANGED <<db, recovery, manifest, token, stage, acked>>
        /\ phase' = [phase EXCEPT ![h] = "none"]
    BY <1>3 DEF MoveRefused, transferFiles, counters
  <2>. QED BY <2>1, <2>2, ClaimsKept DEF IInv, TypeOK, Held
<1>4. ASSUME NEW h \in Hosts, BeginHubMove(h)  PROVE ClaimInv'
  <2>. DEFINE d == MoveHub(db[h], job[h].nonce, job[h].previous, job[h].target)
  <2>1. Held(h) /\ phase[h] # "activating"
    BY <1>4, OneHub, HubFiles DEF IInv, StepsInv, StepsOK, BeginHubMove, PreparingSteps
  <2>2. d \in Database /\ d.content = db[h].content
    <3>1. /\ db[h] \in Database /\ job[h].nonce \in Nat
          /\ job[h].previous \in Hosts /\ job[h].target \in Hosts
      BY <1>4, HubFiles DEF IInv, BeginHubMove, PreparingSteps, Move
    <3>. QED BY ZenonT(60), <3>1, MoveHubResult
  <2>3. db' = [db EXCEPT ![h] = d] /\ UNCHANGED <<manifest, token, stage, acked>>
    BY <1>4 DEF BeginHubMove, transferFiles, counters
  <2>4. \A x \in Hosts : x # h => phase'[x] = phase[x] /\ recovery'[x] = recovery[x]
    BY <1>4 DEF IInv, TypeOK, BeginHubMove
  <2>5. phase'[h] # "activating"
    BY <1>4, <2>1 DEF IInv, TypeOK, BeginHubMove
  <2>. QED BY <2>1, <2>2, <2>3, <2>4, <2>5, ClaimsKept, NoneAssumption
         DEF IInv, TypeOK, Held
<1>5. ASSUME NEW h \in Hosts, BackupFails(h)  PROVE ClaimInv'
  <2>. DEFINE j == job[h]
              moved == MoveHub(db[h], j.nonce, j.previous, j.target)
              d == MoveHub(moved, j.nonce, j.target, j.previous)
  <2>1. Held(h) /\ phase[h] # "activating"
    BY <1>5, OneHub DEF IInv, StepsInv, StepsOK, BackupFails, PreparingSteps
  <2>2. d \in Database /\ d.content = db[h].content
    <3>1. /\ db[h] \in Database
          /\ j.nonce \in Nat /\ j.previous \in Hosts /\ j.target \in Hosts
      BY <1>5, HubFiles DEF IInv, BackupFails, PreparingSteps, Move
    <3>2. moved \in Database /\ moved.content = db[h].content
      BY ZenonT(60), <3>1, MoveHubResult
    <3>. QED BY <3>1, <3>2, MoveHubResult
  <2>3. db' = [db EXCEPT ![h] = d] /\ UNCHANGED <<recovery, manifest, token, stage, acked>>
    BY <1>5 DEF BackupFails, transferFiles
  <2>4. phase' = [phase EXCEPT ![h] = "none"]
    BY <1>5 DEF BackupFails
  <2>. QED BY <2>1, <2>2, <2>3, <2>4, ClaimsKept, NoneAssumption
         DEF IInv, TypeOK, Held
<1>6. ASSUME NEW h \in Hosts, HandlerFails(h)  PROVE ClaimInv'
  BY <1>6 DEF IInv, ClaimInv, Claim, Whole, Held, Sent, Committed,
         HandlerFails, Goto, hubFiles, transferFiles
<1>7. ASSUME NEW h \in Hosts, BeginHubTransfer(h)  PROVE ClaimInv'
  <2>. DEFINE t == job[h].target
  <2>1. pc[h] \in PreparingSteps /\ job[h] \in Move
    BY <1>7, HubFiles DEF IInv, BeginHubTransfer, PreparingSteps, TransferSteps
  <2>2. t \in Hosts \ {h}
    BY <2>1, NoneAssumption DEF IInv, NoncesInv, NoncesOK, Move
  <2>3. ~ Sent(t)
    BY <2>1, <2>2, OneHub DEF Claim
  <2>4. /\ UNCHANGED <<db, phase, recovery, acked>>
        /\ stage'[t].db = None
        /\ \A x \in Hosts \ {t} : /\ manifest'[x] = manifest[x]
                                 /\ token'[x] = token[x]
                                 /\ stage'[x] = stage[x]
    BY <1>7, <2>2 DEF IInv, TypeOK, BeginHubTransfer, hubFiles, counters
  <2>. QED BY <2>3, <2>4, ClaimsKept DEF IInv, Held
<1>8. ASSUME NEW h \in Hosts, WriteHubTransfer(h)  PROVE ClaimInv'
  BY <1>8 DEF IInv, ClaimInv, Claim, Whole, Held, Sent, Committed,
         WriteHubTransfer, Goto, Replied, hubFiles, counters
<1>9. ASSUME NEW h \in Hosts, CommitHubTransfer(h)  PROVE ClaimInv'
  <2>1. /\ pc[h] = "commit"
        /\ pc[h] \in PreparingSteps /\ job[h] \in Move
    BY <1>9, HubFiles DEF IInv, CommitHubTransfer, PreparingSteps, TransferSteps
  <2>2. PICK t \in Hosts \ {h} : t = job[h].target
    BY <2>1, NoneAssumption DEF IInv, NoncesInv, NoncesOK, Move
  <2>3. ~ Sent(t)
    BY <2>1, <2>2, OneHub DEF Claim
  <2>4. /\ UNCHANGED <<db, phase, recovery, manifest, token, acked>>
        /\ \A x \in Hosts \ {t} : stage'[x] = stage[x]
    BY <1>9, <2>2 DEF IInv, TypeOK, CommitHubTransfer, hubFiles, counters
  <2>5. ~ Committed(job[h].nonce)
    <3>1. phase[h] # "activating"
      BY <2>1 DEF IInv, StepsInv, StepsOK
    <3>. QED BY <2>1, <3>1, NoneAssumption DEF IInv, NoncesInv, NoncesApart, Committed
  <2>6. manifest[t].nonce = job[h].nonce /\ token[t] = None
    <3>1. /\ manifest[t] = [nonce |-> job[h].nonce, gen |-> db[h].gen]
          /\ token[t] = None
      BY <2>1, <2>2 DEF IInv, TransferInv, TransferOK
    <3>. QED BY <3>1
  <2>7. job[h].nonce # None
    BY <2>1, NoneAssumption DEF Move
  <2>8. ~ Sent(t)'
    BY <2>4, <2>5, <2>6, <2>7, CommittedKept DEF Sent
  <2>. QED BY <2>3, <2>4, <2>8, ClaimsKept DEF IInv, Held
<1>10. ASSUME NEW h \in Hosts, TransferFails(h)  PROVE ClaimInv'
  BY <1>10 DEF IInv, ClaimInv, Claim, Whole, Held, Sent, Committed,
         TransferFails, Goto, TransferSteps, hubFiles, transferFiles, counters
<1>11. ASSUME NEW h \in Hosts, RollbackHubMove(h)  PROVE ClaimInv'
  <2>. DEFINE d == MoveHub(db[h], job[h].nonce, job[h].target, job[h].previous)
  <2>1. Held(h) /\ phase[h] # "activating"
    BY <1>11, OneHub DEF IInv, StepsInv, StepsOK, RollbackHubMove, PreparingSteps
  <2>2. d \in Database /\ d.content = db[h].content
    <3>1. /\ db[h] \in Database /\ job[h].nonce \in Nat
          /\ job[h].previous \in Hosts /\ job[h].target \in Hosts
      BY <1>11, HubFiles DEF IInv, RollbackHubMove, PreparingSteps, Move
    <3>. QED BY ZenonT(60), <3>1, MoveHubResult
  <2>3. db' = [db EXCEPT ![h] = d] /\ UNCHANGED <<manifest, token, stage, acked>>
    BY <1>11 DEF RollbackHubMove, transferFiles, counters
  <2>4. \A x \in Hosts : x # h => phase'[x] = phase[x] /\ recovery'[x] = recovery[x]
    BY <1>11 DEF IInv, TypeOK, RollbackHubMove
  <2>5. phase'[h] # "activating"
    BY <1>11, <2>1 DEF IInv, TypeOK, RollbackHubMove
  <2>. QED BY <2>1, <2>2, <2>3, <2>4, <2>5, ClaimsKept, NoneAssumption
         DEF IInv, TypeOK, Held
<1>12. ASSUME NEW h \in Hosts, WriteMoveRecovery(h)  PROVE ClaimInv'
  <2>1. phase[h] = "preparing"
    BY <1>12 DEF IInv, StepsInv, StepsOK, WriteMoveRecovery, PreparingSteps
  <2>2. /\ UNCHANGED <<db, phase, manifest, token, stage, acked>>
        /\ recovery' = [recovery EXCEPT ![h] = job[h]]
    BY <1>12 DEF WriteMoveRecovery, transferFiles, counters
  <2>. QED BY <2>1, <2>2, ClaimsKept DEF IInv, TypeOK, Held
<1>13. ASSUME NEW h \in Hosts, WriteMovePhase(h)  PROVE ClaimInv'
  <2>1. /\ pc[h] = "phase" /\ pc[h] \in PreparingSteps
        /\ phase[h] = "preparing"
        /\ recovery[h] = job[h] /\ job[h] # None
        /\ job[h] \in Move
    BY <1>13, HubFiles DEF IInv, StepsInv, StepsOK, WriteMovePhase, PreparingSteps
  <2>2. PICK t \in Hosts \ {h} : t = job[h].target
    BY <2>1, JobType DEF IInv, NoncesInv, NoncesOK, Move
  <2>3. /\ Held(h) /\ db[h] \in Database
        /\ \A x \in Hosts \ {h} : ~ Claim(x)
    BY <2>1, OneHub
  <2>4. /\ UNCHANGED <<db, recovery, manifest, token, stage, acked>>
        /\ phase' = [phase EXCEPT ![h] = "activating"]
    BY <1>13 DEF WriteMovePhase, transferFiles, counters
  <2>5. /\ manifest[t] = [nonce |-> job[h].nonce, gen |-> db[h].gen]
        /\ stage[t].db = db[h] /\ db[h].hub = t
    BY <2>1, <2>2 DEF IInv, TransferInv, TransferOK
  <2>6. manifest[t] # None /\ manifest[t].nonce = job[h].nonce
    <3>1. manifest[t] \in Manifest
      BY <2>1, <2>3, <2>5 DEF Manifest, Move, Database
    <3>. QED BY <2>5, <3>1, NoneAssumption
  <2>7. ~ Held(h)' /\ \A x \in Hosts \ {h} : ~ Held(x)'
    BY <2>2, <2>3, <2>4, <2>5 DEF IInv, TypeOK, Held, Claim
  <2>8. Sent(t)'
    <3>1. Committed(manifest[t].nonce)'
      BY <2>1, <2>4, <2>6 DEF IInv, TypeOK, Committed
    <3>. QED BY <2>3, <2>4, <2>5, <2>6, <3>1, NoneAssumption DEF Sent
  <2>9. \A x \in Hosts \ {t} : ~ Sent(x)'
    <3>. SUFFICES ASSUME NEW x \in Hosts \ {t}, Sent(x)'  PROVE FALSE
      OBVIOUS
    <3>1. x # h
      BY <2>3, <2>4, NoneAssumption DEF IInv, StageInv, StageOK, Sent
    <3>2. ~ Sent(x)
      BY <2>3, <3>1 DEF Claim
    <3>3. PICK g \in Hosts : /\ phase'[g] = "activating"
                             /\ recovery[g] # None
                             /\ recovery[g].nonce = manifest[x].nonce
      BY <2>4, <3>2 DEF Sent, Committed
    <3>4. g = h
      BY <2>4, <3>2, <3>3 DEF IInv, TypeOK, Sent, Committed
    <3>. QED BY <2>1, <2>2, <2>4, <3>3, <3>4 DEF IInv, NoncesInv, NoncesApart, Sent
  <2>10. stage'[t].db.content = acked'
    BY <2>3, <2>4, <2>5 DEF IInv, ClaimInv, Whole
  <2>. QED BY <2>2, <2>7, <2>8, <2>9, <2>10 DEF ClaimInv, Claim, Whole
<1>14. ASSUME NEW h \in Hosts, WriteMovePhaseFails(h)  PROVE ClaimInv'
  BY <1>14 DEF IInv, ClaimInv, Claim, Whole, Held, Sent, Committed,
         WriteMovePhaseFails, Goto, hubFiles, transferFiles
<1>15. ASSUME NEW h \in Hosts, ArmHubTransfer(h)  PROVE ClaimInv'
  <2>. DEFINE t == job[h].target
  <2>1. /\ UNCHANGED <<db, phase, recovery, manifest, stage, acked>>
        /\ t \in Hosts
        /\ token' = [token EXCEPT ![t] = IF @ = None THEN job[h].nonce ELSE @]
        /\ manifest[t] # None /\ manifest[t].nonce = job[h].nonce
    BY <1>15, HubFiles DEF IInv, ArmHubTransfer, hubFiles, counters, ArmSteps, Move
  <2>2. Committed(manifest[t].nonce)
    BY <1>15, <2>1 DEF IInv, StepsInv, StepsOK, ArmHubTransfer, ArmSteps, Committed
  <2>3. \A x \in Hosts : Sent(x)' <=> Sent(x)
    BY <2>1, <2>2, CommittedKept DEF IInv, TypeOK, Sent
  <2>. QED BY <2>1, <2>3 DEF IInv, ClaimInv, Claim, Whole, Held
<1>16. ASSUME NEW h \in Hosts, ArmFails(h)  PROVE ClaimInv'
  BY <1>16 DEF IInv, ClaimInv, Claim, Whole, Held, Sent, Committed,
         ArmFails, Goto, hubFiles, transferFiles, counters
<1>17. ASSUME NEW h \in Hosts, ActivateHubTransfer(h)  PROVE ClaimInv'
  <2>1. UNCHANGED <<db, phase, recovery, stage, acked>>
    BY <1>17 DEF ActivateHubTransfer, hubFiles, counters
  <2>2. \A x \in Hosts : /\ AlreadyActivated(x) => ~ Sent(x)
                         /\ stage'[x].db = stage[x].db
    BY <2>1 DEF IInv, StageInv, StageOK, AlreadyActivated, Sent
  <2>3. \A x \in Hosts : \/ manifest'[x] = manifest[x] /\ token'[x] = token[x]
                         \/ AlreadyActivated(x) /\ manifest'[x] = None
    BY <1>17, EnterActivationFiles DEF IInv, ActivateHubTransfer
  <2>. QED BY <2>1, <2>2, <2>3, ClaimsKept DEF IInv, Held, Sent
<1>18. ASSUME NEW h \in Hosts, ActivationUnacknowledged(h)  PROVE ClaimInv'
  BY <1>18 DEF IInv, ClaimInv, Claim, Whole, Held, Sent, Committed,
         ActivationUnacknowledged, Goto, hubFiles, transferFiles, counters
<1>19. ASSUME NEW h \in Hosts, ActivationAcknowledged(h)  PROVE ClaimInv'
  BY <1>19 DEF IInv, ClaimInv, Claim, Whole, Held, Sent, Committed,
         ActivationAcknowledged, Goto, hubFiles, transferFiles, counters
<1>20. ASSUME NEW h \in Hosts, Demote(h)  PROVE ClaimInv'
  <2>1. /\ pc[h] \in DemotionSteps /\ phase[h] = "activating"
        /\ recovery[h] # None
    BY <1>20 DEF IInv, StepsInv, StepsOK, Demote, DemotionSteps
  <2>2. ~ Held(h)
    BY <1>20, <2>1 DEF IInv, StepsInv, StepsOK, HandoffInv, HandoffOK, Demote, Held
  <2>3. UNCHANGED <<manifest, token, stage, acked>>
    BY <1>20 DEF Demote, transferFiles, counters
  <2>4. CASE pc[h] # "demote_phase"
    <3>1. UNCHANGED <<phase, recovery>> /\ (db' = db \/ db' = [db EXCEPT ![h] = None])
      BY <1>20, <2>4 DEF Demote
    <3>2. \A x \in Hosts : Held(x)' <=> Held(x)
      BY <2>2, <3>1 DEF IInv, TypeOK, Held
    <3>3. \A x \in Hosts : Held(x) => db'[x] = db[x]
      BY <2>2, <3>1 DEF IInv, TypeOK
    <3>. QED BY <2>3, <3>1, <3>2, <3>3, ClaimsKept DEF IInv
  <2>5. CASE pc[h] = "demote_phase"
    <3>1. /\ phase' = [phase EXCEPT ![h] = "none"]
          /\ recovery' = [recovery EXCEPT ![h] = None]
          /\ UNCHANGED db
      BY <1>20, <2>5 DEF Demote
    <3>2. db[h] = None
      BY <1>20, <2>5 DEF IInv, StepsInv, StepsOK, DemotionSteps
    <3>3. \A x \in Hosts : Held(x)' <=> Held(x)
      BY <3>1, <3>2 DEF IInv, TypeOK, Held
    <3>4. \A x \in Hosts : Sent(x)' <=> Sent(x)
      <4>. SUFFICES ASSUME NEW x \in Hosts, manifest[x] # None, stage[x].db # None,
                           token[x] # manifest[x].nonce
                    PROVE  Committed(manifest[x].nonce)' <=> Committed(manifest[x].nonce)
        BY <2>3 DEF Sent
      <4>1. recovery[h].nonce # manifest[x].nonce
        BY <2>1 DEF IInv, NoncesInv, NoncesApart, HandoffInv, HandoffOK, Unarmed
      <4>2. \A n : n # recovery[h].nonce => (Committed(n)' <=> Committed(n))
        BY <3>1 DEF IInv, TypeOK, Committed
      <4>. QED BY <2>3, <4>1, <4>2
    <3>. QED BY <2>3, <3>1, <3>3, <3>4 DEF IInv, ClaimInv, Claim, Whole
  <2>. QED BY <2>4, <2>5
<1>21. ASSUME NEW h \in Hosts, InstallKeys(h)  PROVE ClaimInv'
  BY <1>21 DEF IInv, ClaimInv, Claim, Whole, Held, Sent, Committed,
         InstallKeys, Goto, counters
<1>22. ASSUME NEW h \in Hosts, InstallDatabase(h)  PROVE ClaimInv'
  <2>1. /\ UNCHANGED <<phase, recovery, manifest, token, acked>>
        /\ db' = [db EXCEPT ![h] = IF Matches(h, @, manifest[h]) THEN @ ELSE stage[h].db]
        /\ stage'[h].db = None
        /\ \A x \in Hosts \ {h} : stage'[x] = stage[x]
    BY <1>22 DEF IInv, TypeOK, InstallDatabase, counters
  <2>2. manifest[h] # None /\ token[h] = manifest[h].nonce
    BY <1>22 DEF IInv, StageInv, StageOK, Authorised, InstallDatabase
  <2>3. CASE Matches(h, db[h], manifest[h])
    <3>1. db' = db /\ stage[h].db = None
      BY <2>1, <2>3 DEF IInv, TypeOK, StageInv, StageOK, Matches
    <3>. QED BY <2>1, <3>1, ClaimsKept DEF IInv, Held, Sent
  <2>4. CASE ~ Matches(h, db[h], manifest[h])
    <3>1. /\ Matches(h, stage[h].db, manifest[h])
          /\ db'[h] = stage[h].db
          /\ \A x \in Hosts \ {h} : db'[x] = db[x]
      BY <1>22, <2>1, <2>4 DEF IInv, TypeOK, InstallDatabase
    <3>2. Sent(h)
      BY <2>2, <3>1 DEF Matches, Sent
    <3>3. \A x \in Hosts \ {h} : ~ Claim(x)
      BY <3>2 DEF IInv, ClaimInv, Claim
    <3>4. \A x \in Hosts \ {h} : ~ Held(x)' /\ ~ Sent(x)'
      BY <2>1, <3>1, <3>3, CommittedKept DEF Claim, Held, Sent
    <3>5. Held(h)' /\ ~ Sent(h)'
      BY <2>1, <3>1 DEF Held, Sent, Matches
    <3>6. db'[h].content = acked'
      BY <2>1, <3>1, <3>2 DEF IInv, ClaimInv, Whole
    <3>. QED BY <3>4, <3>5, <3>6 DEF ClaimInv, Claim, Whole
  <2>. QED BY <2>3, <2>4
<1>23. ASSUME NEW h \in Hosts, FinishActivation(h)  PROVE ClaimInv'
  <2>1. UNCHANGED <<db, phase, recovery, stage, acked>>
    BY <1>23 DEF FinishActivation, hubFiles, counters
  <2>2. stage[h].db = None
    BY <1>23 DEF IInv, StepsInv, StepsOK, StageInv, StageOK, FinishActivation
  <2>3. \A x \in Hosts \ {h} : manifest'[x] = manifest[x] /\ token'[x] = token[x]
    <3>1. CASE pc[h] = "clean"
      BY <1>23, <3>1 DEF IInv, TypeOK, FinishActivation
    <3>2. CASE pc[h] # "clean"
      BY <1>23, <3>2 DEF FinishActivation
    <3>. QED BY <3>1, <3>2
  <2>. QED BY <2>1, <2>2, <2>3, ClaimsKept DEF IInv, Held, Sent
<1>24. ASSUME NEW h \in Hosts, ActivationFails(h)  PROVE ClaimInv'
  BY <1>24 DEF IInv, ClaimInv, Claim, Whole, Held, Sent, Committed,
         ActivationFails, Goto, hubFiles, transferFiles, counters
<1>25. ASSUME NEW h \in Hosts, Crash(h)  PROVE ClaimInv'
  BY <1>25 DEF IInv, ClaimInv, Claim, Whole, Held, Sent, Committed,
         Crash, Goto, hubFiles, transferFiles
<1>26. ASSUME NEW h \in Hosts, ServeHub(h)  PROVE ClaimInv'
  <2>1. /\ db[h] \in Database /\ phase[h] # "activating"
        /\ RecoverPreparing(h, db[h]) \in Database
        /\ RecoverPreparing(h, db[h]).content = db[h].content
    BY <1>26, HubFiles, RecoverPreparingResult DEF IInv, ServeHub
  <2>2. /\ UNCHANGED <<manifest, token, stage, acked>>
        /\ db' = [db EXCEPT ![h] = RecoverPreparing(h, db[h])]
        /\ phase' = [phase EXCEPT ![h] = "none"]
        /\ \A x \in Hosts \ {h} : recovery'[x] = recovery[x]
    BY <1>26 DEF IInv, TypeOK, ServeHub, counters
  <2>. QED BY <2>1, <2>2, ClaimsKept, NoneAssumption DEF IInv, TypeOK, Held
<1>27. ASSUME NEW h \in Hosts, ServeRecovering(h)  PROVE ClaimInv'
  BY <1>27 DEF IInv, ClaimInv, Claim, Whole, Held, Sent, Committed,
         ServeRecovering, EntersServe, Goto, hubFiles, counters
<1>28. ASSUME NEW h \in Hosts, ServeHost(h)  PROVE ClaimInv'
  BY <1>28 DEF IInv, ClaimInv, Claim, Whole, Held, Sent, Committed,
         ServeHost, hubFiles, transferFiles, counters
<1>29. ASSUME NEW h \in Hosts, ResumeActivation(h)  PROVE ClaimInv'
  <2>1. UNCHANGED <<db, phase, recovery, stage, acked>>
    BY <1>29 DEF ResumeActivation, hubFiles, counters
  <2>2. \A x \in Hosts : /\ AlreadyActivated(x) => ~ Sent(x)
                         /\ stage'[x].db = stage[x].db
    BY <2>1 DEF IInv, StageInv, StageOK, AlreadyActivated, Sent
  <2>3. \A x \in Hosts : \/ manifest'[x] = manifest[x] /\ token'[x] = token[x]
                         \/ AlreadyActivated(x) /\ manifest'[x] = None
    BY <1>29, EnterActivationFiles DEF IInv, ResumeActivation
  <2>. QED BY <2>1, <2>2, <2>3, ClaimsKept DEF IInv, Held, Sent
<1>30. ASSUME UNCHANGED vars  PROVE ClaimInv'
  BY <1>30 DEF ClaimInv, Claim, Whole, Held, Sent, Committed, IInv, vars,
         process, hubFiles, transferFiles, counters
<1>. QED
  BY <1>1, <1>2, <1>3, <1>4, <1>5, <1>6, <1>7, <1>8, <1>9, <1>10, <1>11,
         <1>12, <1>13, <1>14, <1>15, <1>16, <1>17, <1>18, <1>19, <1>20, <1>21,
         <1>22, <1>23, <1>24, <1>25, <1>26, <1>27, <1>28, <1>29, <1>30 DEF Next,
         SourceStep, TargetStep, Restart

\* Until its target is armed a source keeps what it sent, and what a source
\* deletes is no longer assigned to it.
LEMMA HandoffStep ==
  ASSUME IInv, [Next]_vars, StepsInv'
  PROVE  HandoffInv'
<1>1. ASSUME NEW h \in Hosts, ClientWrite(h)  PROVE HandoffInv'
  BY <1>1 DEF IInv, TypeOK, StepsInv, StepsOK, HandoffInv, HandoffOK,
         Unarmed, Held, PreparingSteps, TransferSteps, ArmSteps, DemotionSteps,
         ActivationSteps, ClientWrite, Serving, process, transferFiles
<1>2. ASSUME NEW h \in Hosts, NEW t \in Hosts, StartMove(h, t)  PROVE HandoffInv'
  BY <1>2 DEF IInv, TypeOK, StepsInv, StepsOK, HandoffInv, HandoffOK,
         Unarmed, Held, PreparingSteps, TransferSteps, ArmSteps, DemotionSteps,
         ActivationSteps, StartMove, Serving, Reachable, transferFiles, Goto
<1>3. ASSUME NEW h \in Hosts, MoveRefused(h)  PROVE HandoffInv'
  BY <1>3 DEF IInv, TypeOK, StepsInv, StepsOK, HandoffInv, HandoffOK,
         Unarmed, Held, PreparingSteps, TransferSteps, ArmSteps, DemotionSteps,
         ActivationSteps, MoveRefused, Goto, transferFiles, counters
<1>4. ASSUME NEW h \in Hosts, BeginHubMove(h)  PROVE HandoffInv'
  BY <1>4 DEF IInv, TypeOK, StepsInv, StepsOK, HandoffInv, HandoffOK,
         Unarmed, Held, PreparingSteps, TransferSteps, ArmSteps, DemotionSteps,
         ActivationSteps, BeginHubMove, Goto, MoveHub, transferFiles, counters
<1>5. ASSUME NEW h \in Hosts, BackupFails(h)  PROVE HandoffInv'
  BY <1>5 DEF IInv, TypeOK, StepsInv, StepsOK, HandoffInv, HandoffOK,
         Unarmed, Held, PreparingSteps, TransferSteps, ArmSteps, DemotionSteps,
         ActivationSteps, BackupFails, Goto, MoveHub, transferFiles
<1>6. ASSUME NEW h \in Hosts, HandlerFails(h)  PROVE HandoffInv'
  BY <1>6 DEF IInv, TypeOK, StepsInv, StepsOK, HandoffInv, HandoffOK,
         Unarmed, Held, PreparingSteps, TransferSteps, ArmSteps, DemotionSteps,
         ActivationSteps, HandlerFails, Goto, hubFiles, transferFiles
<1>7. ASSUME NEW h \in Hosts, BeginHubTransfer(h)  PROVE HandoffInv'
  <2>1. /\ pc[h] \in PreparingSteps
        /\ job[h].target \in Hosts
    BY <1>7, HubFiles DEF IInv, BeginHubTransfer, PreparingSteps, TransferSteps, Move
  <2>2. PICK t \in Hosts : t = job[h].target
    BY <2>1
  <2>3. /\ UNCHANGED <<role, job, db, phase, recovery>>
        /\ manifest'[t] # None /\ stage'[t].db = None
        /\ \A y \in Hosts \ {t} : /\ manifest'[y] = manifest[y]
                                 /\ token'[y] = token[y]
                                 /\ stage'[y] = stage[y]
        /\ \A y \in Hosts : pc'[y] \in ArmSteps \cup DemotionSteps => pc'[y] = pc[y]
    <3>1. [nonce |-> job[h].nonce, gen |-> db[h].gen] \in Manifest
      BY <2>1, HubFiles DEF IInv, Move, Database, Manifest
    <3>. QED BY <1>7, <2>1, <2>2, <3>1, NoneAssumption
             DEF IInv, TypeOK, BeginHubTransfer, hubFiles, Replied, Goto, ArmSteps,
                 DemotionSteps
  <2>. SUFFICES ASSUME NEW x \in Hosts  PROVE HandoffOK(x)'
    BY DEF HandoffInv
  <2>4. /\ pc[x] \in {"activate", "await"} => job[x].target \in Hosts
        /\ recovery[x] # None => recovery[x].target \in Hosts
    BY HubFiles DEF IInv, TypeOK, ArmSteps, Move
  <2>. QED BY <2>3, <2>4 DEF IInv, HandoffInv, HandoffOK, Unarmed, Held, PreparingSteps, TransferSteps, ArmSteps, DemotionSteps
<1>8. ASSUME NEW h \in Hosts, WriteHubTransfer(h)  PROVE HandoffInv'
  BY <1>8 DEF IInv, TypeOK, StepsInv, StepsOK, HandoffInv, HandoffOK,
         Unarmed, Held, PreparingSteps, TransferSteps, ArmSteps, DemotionSteps,
         ActivationSteps, WriteHubTransfer, Goto, Replied, hubFiles, counters
<1>9. ASSUME NEW h \in Hosts, CommitHubTransfer(h)  PROVE HandoffInv'
  <2>1. /\ pc[h] = "commit" /\ pc[h] \in PreparingSteps
        /\ job[h] # None /\ phase[h] = "preparing"
        /\ job[h].target \in Hosts
    BY <1>9, HubFiles, NoneAssumption
       DEF IInv, StepsInv, StepsOK, CommitHubTransfer, PreparingSteps, TransferSteps, Move
  <2>2. PICK t \in Hosts : t = job[h].target
    BY <2>1
  <2>3. /\ UNCHANGED <<role, job, db, phase, recovery, manifest, token>>
        /\ \A y \in Hosts \ {t} : stage'[y] = stage[y]
        /\ \A y \in Hosts : pc'[y] \in ArmSteps \cup DemotionSteps => pc'[y] = pc[y]
    BY <1>9, <2>1, <2>2
       DEF IInv, TypeOK, CommitHubTransfer, hubFiles, Replied, Goto, ArmSteps, DemotionSteps
  <2>4. manifest[t].nonce = job[h].nonce
    <3>1. manifest[t] = [nonce |-> job[h].nonce, gen |-> db[h].gen]
      BY <2>1, <2>2 DEF IInv, TransferInv, TransferOK
    <3>. QED BY <3>1
  <2>. SUFFICES ASSUME NEW x \in Hosts  PROVE HandoffOK(x)'
    BY DEF HandoffInv
  <2>5. phase[x] = "activating" /\ recovery[x] # None => recovery[x].nonce # job[h].nonce
    BY <2>1 DEF IInv, NoncesInv, NoncesApart
  <2>6. recovery[x] # None => recovery[x].target \in Hosts
    BY DEF IInv, TypeOK, Move
  <2>. QED BY <2>3, <2>4, <2>5, <2>6 DEF IInv, HandoffInv, HandoffOK, Unarmed, Held, PreparingSteps, TransferSteps, ArmSteps, DemotionSteps
<1>10. ASSUME NEW h \in Hosts, TransferFails(h)  PROVE HandoffInv'
  BY <1>10 DEF IInv, TypeOK, StepsInv, StepsOK, HandoffInv, HandoffOK,
         Unarmed, Held, PreparingSteps, TransferSteps, ArmSteps, DemotionSteps,
         ActivationSteps, TransferFails, Goto, hubFiles, transferFiles, counters
<1>11. ASSUME NEW h \in Hosts, RollbackHubMove(h)  PROVE HandoffInv'
  BY <1>11 DEF IInv, TypeOK, StepsInv, StepsOK, HandoffInv, HandoffOK,
         Unarmed, Held, PreparingSteps, TransferSteps, ArmSteps, DemotionSteps,
         ActivationSteps, RollbackHubMove, Goto, MoveHub, transferFiles,
         counters
<1>12. ASSUME NEW h \in Hosts, WriteMoveRecovery(h)  PROVE HandoffInv'
  BY <1>12 DEF IInv, TypeOK, StepsInv, StepsOK, HandoffInv, HandoffOK,
         Unarmed, Held, PreparingSteps, TransferSteps, ArmSteps, DemotionSteps,
         ActivationSteps, WriteMoveRecovery, Goto, transferFiles, counters
<1>13. ASSUME NEW h \in Hosts, WriteMovePhase(h)  PROVE HandoffInv'
  <2>1. /\ pc[h] = "phase" /\ pc[h] \in PreparingSteps
        /\ recovery[h] = job[h] /\ job[h] # None
    BY <1>13 DEF IInv, StepsInv, StepsOK, WriteMovePhase, PreparingSteps
  <2>2. /\ UNCHANGED <<role, job, db, recovery, manifest, token, stage>>
        /\ phase' = [phase EXCEPT ![h] = "activating"]
        /\ pc' = [pc EXCEPT ![h] = "retire"]
    BY <1>13 DEF WriteMovePhase, Goto, transferFiles
  <2>. SUFFICES ASSUME NEW x \in Hosts  PROVE HandoffOK(x)'
    BY DEF HandoffInv
  <2>3. CASE x # h
    BY <2>2, <2>3 DEF IInv, TypeOK, HandoffInv, HandoffOK, Unarmed, Held
  <2>4. CASE x = h
    <3>1. /\ stage[job[h].target].db = db[h]
          /\ db[h].hub = job[h].target
      BY <2>1 DEF IInv, TransferInv, TransferOK
    <3>2. job[h].target # h
      BY <2>1 DEF IInv, NoncesInv, NoncesOK
    <3>3. pc'[h] = "retire" /\ phase'[h] = "activating"
      BY <2>2 DEF IInv, TypeOK
    <3>. QED BY <2>1, <2>2, <2>4, <3>1, <3>2, <3>3 DEF HandoffOK, DemotionSteps
  <2>. QED BY <2>3, <2>4
<1>14. ASSUME NEW h \in Hosts, WriteMovePhaseFails(h)  PROVE HandoffInv'
  BY <1>14 DEF IInv, TypeOK, StepsInv, StepsOK, HandoffInv, HandoffOK,
         Unarmed, Held, PreparingSteps, TransferSteps, ArmSteps, DemotionSteps,
         ActivationSteps, WriteMovePhaseFails, Goto, hubFiles, transferFiles
<1>15. ASSUME NEW h \in Hosts, ArmHubTransfer(h)  PROVE HandoffInv'
  <2>1. /\ pc[h] \in ArmSteps
        /\ phase[h] = "activating"
        /\ recovery[h] = job[h] /\ job[h] # None /\ job[h].nonce # None
        /\ job[h].target \in Hosts
    BY <1>15, HubFiles, NoneAssumption
       DEF IInv, StepsInv, StepsOK, ArmHubTransfer, ArmSteps, Move
  <2>2. PICK t \in Hosts : t = job[h].target
    BY <2>1
  <2>3. /\ UNCHANGED <<role, job, db, phase, recovery, manifest, stage>>
        /\ manifest[t] # None /\ manifest[t].nonce = job[h].nonce
        /\ \A y \in Hosts \ {t} : token'[y] = token[y]
        /\ \A y \in Hosts \ {h} : pc'[y] = pc[y]
        /\ pc[h] \in {"retire", "arm"} /\ pc'[h] \in {"activate", "arm"}
    BY <1>15, <2>1, <2>2 DEF IInv, TypeOK, ArmHubTransfer, hubFiles, Replied, Goto
  <2>4. token'[t] = job[h].nonce
    BY <1>15, <2>1, <2>2, <2>3 DEF IInv, TypeOK, ArmHubTransfer, NoncesInv, NoncesOK
  <2>. SUFFICES ASSUME NEW x \in Hosts  PROVE HandoffOK(x)'
    BY DEF HandoffInv
  <2>5. CASE x # h
    <3>1. recovery[x] # None => recovery[x].target \in Hosts
      BY DEF IInv, TypeOK, Move
    <3>2. recovery[x] # None => recovery[x].nonce # job[h].nonce
      BY <2>1, <2>5 DEF IInv, NoncesInv, NoncesApart
    <3>. QED BY <2>3, <2>5, <3>1, <3>2 DEF IInv, HandoffInv, HandoffOK, Unarmed, Held
  <2>6. CASE x = h
    BY <2>1, <2>2, <2>3, <2>4, <2>6 DEF IInv, HandoffInv, HandoffOK, Unarmed, Held, PreparingSteps, TransferSteps, ArmSteps, DemotionSteps
  <2>. QED BY <2>5, <2>6
<1>16. ASSUME NEW h \in Hosts, ArmFails(h)  PROVE HandoffInv'
  BY <1>16 DEF IInv, TypeOK, StepsInv, StepsOK, HandoffInv, HandoffOK,
         Unarmed, Held, PreparingSteps, TransferSteps, ArmSteps, DemotionSteps,
         ActivationSteps, ArmFails, Goto, hubFiles, transferFiles, counters
<1>17. ASSUME NEW h \in Hosts, ActivateHubTransfer(h)  PROVE HandoffInv'
  BY <1>17 DEF IInv, TypeOK, StepsInv, StepsOK, HandoffInv, HandoffOK,
         Unarmed, Held, PreparingSteps, TransferSteps, ArmSteps, DemotionSteps,
         ActivationSteps, ActivateHubTransfer, EnterActivation,
         AlreadyActivated, Matches, Reachable, hubFiles, counters
<1>18. ASSUME NEW h \in Hosts, ActivationUnacknowledged(h)  PROVE HandoffInv'
  BY <1>18 DEF IInv, TypeOK, StepsInv, StepsOK, HandoffInv, HandoffOK,
         Unarmed, Held, PreparingSteps, TransferSteps, ArmSteps, DemotionSteps,
         ActivationSteps, ActivationUnacknowledged, Goto, hubFiles,
         transferFiles, counters
<1>19. ASSUME NEW h \in Hosts, ActivationAcknowledged(h)  PROVE HandoffInv'
  BY <1>19 DEF IInv, TypeOK, StepsInv, StepsOK, HandoffInv, HandoffOK,
         Unarmed, Held, PreparingSteps, TransferSteps, ArmSteps, DemotionSteps,
         ActivationSteps, ActivationAcknowledged, Goto, hubFiles, transferFiles,
         counters
<1>20. ASSUME NEW h \in Hosts, Demote(h)  PROVE HandoffInv'
  BY SMTT(30), <1>20 DEF IInv, TypeOK, StepsInv, StepsOK, HandoffInv, HandoffOK,
         Unarmed, Held, PreparingSteps, TransferSteps, ArmSteps, DemotionSteps,
         ActivationSteps, Demote, Goto, transferFiles, counters
<1>21. ASSUME NEW h \in Hosts, InstallKeys(h)  PROVE HandoffInv'
  BY <1>21 DEF IInv, TypeOK, StepsInv, StepsOK, HandoffInv, HandoffOK,
         Unarmed, Held, PreparingSteps, TransferSteps, ArmSteps, DemotionSteps,
         ActivationSteps, InstallKeys, Goto, counters
<1>22. ASSUME NEW h \in Hosts, InstallDatabase(h)  PROVE HandoffInv'
  <2>1. /\ UNCHANGED <<role, job, phase, recovery, manifest, token>>
        /\ \A y \in Hosts \ {h} : db'[y] = db[y] /\ stage'[y] = stage[y]
        /\ db'[h] = IF Matches(h, db[h], manifest[h]) THEN db[h] ELSE stage[h].db
        /\ stage'[h].db = None
        /\ \A y \in Hosts : pc'[y] \in ArmSteps \cup DemotionSteps => pc'[y] = pc[y]
    BY <1>22 DEF IInv, TypeOK, InstallDatabase, Goto, ArmSteps, DemotionSteps
  <2>2. pc[h] = "db" /\ role[h] \notin {"hub", "recovering"}
    BY <1>22 DEF IInv, StepsInv, StepsOK, InstallDatabase, ActivationSteps
  <2>. SUFFICES ASSUME NEW x \in Hosts  PROVE HandoffOK(x)'
    BY DEF HandoffInv
  <2>3. recovery[x] # None => recovery[x].target \in Hosts /\ recovery[x].target # x
    BY DEF IInv, TypeOK, Move, NoncesInv, NoncesOK
  <2>4. CASE x # h
    BY <2>1, <2>3, <2>4 DEF IInv, HandoffInv, HandoffOK, Unarmed, Held, PreparingSteps, TransferSteps, ArmSteps, DemotionSteps
  <2>5. CASE x = h
    <3>1. pc'[h] \notin ArmSteps \cup DemotionSteps
      BY <2>1, <2>2 DEF ArmSteps, DemotionSteps
    <3>2. phase[h] = "activating" /\ recovery[h] # None /\ Unarmed(h)
             => Matches(h, db[h], manifest[h])
      <4>. SUFFICES ASSUME phase[h] = "activating", recovery[h] # None, Unarmed(h)
                    PROVE  Matches(h, db[h], manifest[h])
        OBVIOUS
      <4>1. db[h] # None
        BY DEF IInv, HandoffInv, HandoffOK, Unarmed
      <4>2. ~ Matches(h, stage[h].db, manifest[h])
        BY <4>1 DEF IInv, StageInv, StageOK, Matches
      <4>. QED BY <1>22, <4>2 DEF InstallDatabase
    <3>. QED BY <2>1, <2>3, <2>5, <3>1, <3>2 DEF IInv, HandoffInv, HandoffOK, Unarmed, Held, PreparingSteps, TransferSteps, ArmSteps, DemotionSteps
  <2>. QED BY <2>4, <2>5
<1>23. ASSUME NEW h \in Hosts, FinishActivation(h)  PROVE HandoffInv'
  <2>1. /\ UNCHANGED <<role, job, db, phase, recovery, stage>>
        /\ pc[h] \in {"promote", "receipt", "unmark", "clean"}
        /\ \A y \in Hosts : pc'[y] \in ArmSteps \cup DemotionSteps => pc'[y] = pc[y]
    BY <1>23 DEF IInv, TypeOK, FinishActivation, Goto, hubFiles, ArmSteps, DemotionSteps
  <2>2. Held(h) /\ stage[h].db = None
    BY <2>1 DEF IInv, StageInv, StageOK, Matches, Held
  <2>3. \A y \in Hosts \ {h} : manifest'[y] = manifest[y] /\ token'[y] = token[y]
    <3>1. CASE pc[h] = "clean"
      BY <1>23, <3>1 DEF IInv, TypeOK, FinishActivation
    <3>2. CASE pc[h] # "clean"
      BY <1>23, <3>2 DEF FinishActivation
    <3>. QED BY <3>1, <3>2
  <2>. SUFFICES ASSUME NEW x \in Hosts  PROVE HandoffOK(x)'
    BY DEF HandoffInv
  <2>4. Held(x) /\ pc[x] \in {"activate", "await"} => job[x].target # h
    BY <2>2, HubFiles, NoneAssumption
       DEF IInv, ClaimInv, Claim, NoncesInv, NoncesOK, ArmSteps
  <2>5. /\ pc[x] \in {"activate", "await"} => job[x].target \in Hosts
        /\ recovery[x] # None => recovery[x].target \in Hosts
    BY HubFiles DEF IInv, TypeOK, ArmSteps, Move
  <2>. QED BY <2>1, <2>2, <2>3, <2>4, <2>5 DEF IInv, HandoffInv, HandoffOK, Unarmed, Held, PreparingSteps, TransferSteps, ArmSteps, DemotionSteps
<1>24. ASSUME NEW h \in Hosts, ActivationFails(h)  PROVE HandoffInv'
  BY <1>24 DEF IInv, TypeOK, StepsInv, StepsOK, HandoffInv, HandoffOK,
         Unarmed, Held, PreparingSteps, TransferSteps, ArmSteps, DemotionSteps,
         ActivationSteps, ActivationFails, Goto, hubFiles, transferFiles,
         counters
<1>25. ASSUME NEW h \in Hosts, Crash(h)  PROVE HandoffInv'
  BY <1>25 DEF IInv, TypeOK, StepsInv, StepsOK, HandoffInv, HandoffOK,
         Unarmed, Held, PreparingSteps, TransferSteps, ArmSteps, DemotionSteps,
         ActivationSteps, Crash, Goto, hubFiles, transferFiles
<1>26. ASSUME NEW h \in Hosts, ServeHub(h)  PROVE HandoffInv'
  BY <1>26 DEF IInv, TypeOK, StepsInv, StepsOK, HandoffInv, HandoffOK,
         Unarmed, Held, PreparingSteps, TransferSteps, ArmSteps, DemotionSteps,
         ActivationSteps, ServeHub, RecoverPreparing, EntersServe, Goto,
         counters
<1>27. ASSUME NEW h \in Hosts, ServeRecovering(h)  PROVE HandoffInv'
  BY <1>27 DEF IInv, TypeOK, StepsInv, StepsOK, HandoffInv, HandoffOK,
         Unarmed, Held, PreparingSteps, TransferSteps, ArmSteps, DemotionSteps,
         ActivationSteps, ServeRecovering, EntersServe, Goto, hubFiles, counters
<1>28. ASSUME NEW h \in Hosts, ServeHost(h)  PROVE HandoffInv'
  BY <1>28 DEF IInv, TypeOK, StepsInv, StepsOK, HandoffInv, HandoffOK,
         Unarmed, Held, PreparingSteps, TransferSteps, ArmSteps, DemotionSteps,
         ActivationSteps, ServeHost, hubFiles, transferFiles, counters
<1>29. ASSUME NEW h \in Hosts, ResumeActivation(h)  PROVE HandoffInv'
  <2>1. /\ UNCHANGED <<job, db, phase, recovery, stage>>
        /\ \A x \in Hosts : role'[x] \in {"hub", "recovering"} => role'[x] = role[x]
        /\ \A x \in Hosts : pc'[x] \in ArmSteps \cup DemotionSteps => pc'[x] = pc[x]
    BY <1>29 DEF IInv, TypeOK, ResumeActivation, EnterActivation, hubFiles, ArmSteps, DemotionSteps
  <2>2. \A t \in Hosts : \/ manifest'[t] = manifest[t] /\ token'[t] = token[t]
                         \/ t = h /\ AlreadyActivated(h) /\ manifest'[t] = None
    BY <1>29, EnterActivationFiles DEF IInv, ResumeActivation
  <2>3. AlreadyActivated(h) => Held(h)
    BY DEF AlreadyActivated, Matches, Held
  <2>. SUFFICES ASSUME NEW x \in Hosts  PROVE HandoffOK(x)'
    BY DEF HandoffInv
  <2>4. Held(x) /\ pc[x] \in {"activate", "await"} /\ job[x].target = h => ~ AlreadyActivated(h)
    BY <2>3, HubFiles, NoneAssumption
       DEF IInv, ClaimInv, Claim, NoncesInv, NoncesOK, ArmSteps
  <2>5. /\ pc[x] \in {"activate", "await"} => job[x].target \in Hosts
        /\ recovery[x] # None => recovery[x].target \in Hosts
    BY HubFiles DEF IInv, TypeOK, ArmSteps, Move
  <2>. QED BY <2>1, <2>2, <2>4, <2>5 DEF IInv, HandoffInv, HandoffOK, Unarmed, Held, PreparingSteps, TransferSteps, ArmSteps, DemotionSteps
<1>30. ASSUME UNCHANGED vars  PROVE HandoffInv'
  BY <1>30 DEF HandoffInv, HandoffOK, Unarmed, Held, IInv, vars, process,
         hubFiles, transferFiles, counters
<1>. QED
  BY <1>1, <1>2, <1>3, <1>4, <1>5, <1>6, <1>7, <1>8, <1>9, <1>10, <1>11,
         <1>12, <1>13, <1>14, <1>15, <1>16, <1>17, <1>18, <1>19, <1>20, <1>21,
         <1>22, <1>23, <1>24, <1>25, <1>26, <1>27, <1>28, <1>29, <1>30 DEF Next,
         SourceStep, TargetStep, Restart

--------------------
(***************************************************************************)
(* The theorems.                                                           *)
(***************************************************************************)

\* The first Hub serves, no move has been asked for and no file is left over.
LEMMA InitIInv == Init => IInv
<1>. SUFFICES ASSUME Init  PROVE IInv
  OBVIOUS
<1>. DEFINE d == [hub |-> First, gen |-> 1, commands |-> {}, content |-> 0]
<1>1. d \in Database /\ d # None
  BY HostsAssumption, NoneAssumption DEF Database
<1>2. /\ db[First] = d
      /\ \A h \in Hosts \ {First} : db[h] = None
  BY HostsAssumption DEF Init
<1>3. TypeOK
  <2>1. db \in [Hosts -> Database \cup {None}]
    BY <1>1, <1>2 DEF Init
  <2>2. stage \in [Hosts -> Stage]
    BY DEF Init, Stage, NoStage
  <2>3. acked \in 0 .. MaxWrites /\ moves \in 0 .. MaxMoves /\ faults \in 0 .. MaxFaults
    BY BoundsAssumption DEF Init
  <2>4. keys \in [Hosts -> BOOLEAN] /\ moving \in [Hosts -> BOOLEAN]
    BY DEF Init
  <2>5. activate \in [Hosts -> BOOLEAN] /\ promote \in [Hosts -> BOOLEAN]
    BY DEF Init
  <2>6. /\ role \in [Hosts -> {"down", "hub", "recovering", "host", "installing"}]
        /\ pc \in [Hosts -> {"idle", "done"} \cup MoveSteps \cup DemotionSteps
                               \cup ActivationSteps]
        /\ phase \in [Hosts -> {"none", "preparing", "activating"}]
    BY DEF Init
  <2>7. /\ job \in [Hosts -> Move \cup {None}]
        /\ recovery \in [Hosts -> Move \cup {None}]
        /\ manifest \in [Hosts -> Manifest \cup {None}]
        /\ token \in [Hosts -> Nat \cup {None}]
        /\ receipt \in [Hosts -> Manifest \cup {None}]
    BY DEF Init
  <2>. QED BY <2>1, <2>2, <2>3, <2>4, <2>5, <2>6, <2>7 DEF TypeOK
<1>4. StepsInv
  BY <1>1, <1>2 DEF Init, StepsInv, StepsOK, PreparingSteps, TransferSteps, ArmSteps,
     DemotionSteps, ActivationSteps
<1>5. NoncesInv
  BY DEF Init, NoncesInv, NoncesOK, NoncesApart
<1>6. TransferInv
  BY DEF Init, TransferInv, TransferOK
<1>7. StageInv
  BY DEF Init, StageInv, StageOK, NoStage
<1>8. ClaimInv
  <2>1. \A h \in Hosts : Held(h) <=> h = First
    BY <1>1, <1>2, HostsAssumption DEF Init, Held
  <2>2. \A h \in Hosts : ~ Sent(h)
    BY DEF Init, Sent
  <2>. QED BY <1>2, <2>1, <2>2, HostsAssumption DEF Init, ClaimInv, Claim, Whole
<1>9. HandoffInv
  BY DEF Init, HandoffInv, HandoffOK, ArmSteps
<1>. QED BY <1>3, <1>4, <1>5, <1>6, <1>7, <1>8, <1>9 DEF IInv

\* Every step of every process, crash and restart keeps the invariant.
LEMMA IInvStep == IInv /\ [Next]_vars => IInv'
<1>. SUFFICES ASSUME IInv, [Next]_vars  PROVE IInv'
  OBVIOUS
<1>1. TypeOK'
  BY TypeStep DEF IInv
<1>2. StepsInv'
  BY StepsStep DEF IInv
<1>3. NoncesInv'
  BY NoncesStep DEF IInv
<1>4. TransferInv' /\ StageInv' /\ ClaimInv' /\ HandoffInv'
  BY <1>2, TransferStep, StageStep, ClaimStep, HandoffStep
<1>. QED BY <1>1, <1>2, <1>3, <1>4 DEF IInv

THEOREM InvariantHolds == Spec => []IInv
BY InitIInv, IInvStep, PTL DEF Spec

\* The journal, transfer and database files of every Host stay in the shape
\* that their readers expect, whatever step a crash or a lost reply follows.
THEOREM TypeCorrect == Spec => []TypeOK
<1>1. IInv => TypeOK
  BY DEF IInv
<1>. QED BY <1>1, InvariantHolds, PTL

\* MoveHub, its recovery after a crash and recover-hub never leave two Hosts
\* that answer requests as the Hub.
THEOREM OneHubServes == Spec => []NoSplitBrain
<1>1. IInv => NoSplitBrain
  BY OneHub DEF NoSplitBrain
<1>. QED BY <1>1, InvariantHolds, PTL

\* From the moment activate_hub_transfer would succeed on a target, no Hub
\* answers requests.
THEOREM ArmedTargetFences == Spec => []ArmedTargetFencesTheHub
<1>1. IInv => ArmedTargetFencesTheHub
  <2>. SUFFICES ASSUME IInv, NEW t \in Hosts, NEW h \in Hosts, Installable(t), Serving(h)
                PROVE  FALSE
    BY DEF ArmedTargetFencesTheHub
  <2>1. Sent(t)
    BY DEF Installable, Authorised, Matches, Sent
  <2>2. t = h
    BY <2>1, OneHub DEF Claim
  <2>3. db[t] # None
    BY <2>2, HubFiles, NoneAssumption DEF IInv
  <2>. QED BY <2>1, <2>3 DEF IInv, StageInv, StageOK, Sent
<1>. QED BY <1>1, InvariantHolds, PTL

\* No command that the Hub acknowledged is lost by a move: the Host that serves
\* has them all, and demote_hub_files deletes a database only when the target
\* can be activated from its copy.
THEOREM AcknowledgedCommandsAreKept == Spec => []AcknowledgedCommandsSurvive
<1>1. IInv => AcknowledgedCommandsSurvive
  <2>. SUFFICES ASSUME IInv  PROVE AcknowledgedCommandsSurvive
    OBVIOUS
  <2>1. \A h \in Hosts : Serving(h) => db[h].content = acked
    BY OneHub DEF IInv, ClaimInv, Whole
  <2>2. PICK h \in Hosts : Claim(h)
    BY DEF IInv, ClaimInv
  <2>3. CASE Held(h)
    BY <2>1, <2>3 DEF IInv, ClaimInv, Whole, Held, AcknowledgedCommandsSurvive
  <2>4. CASE Sent(h) /\ token[h] = manifest[h].nonce
    <3>1. Installable(h) /\ stage[h].db.content = acked
      BY <2>4 DEF IInv, StageInv, StageOK, ClaimInv, Whole, Sent, Installable, Authorised
    <3>. QED BY <2>1, <3>1 DEF AcknowledgedCommandsSurvive
  <2>5. CASE Sent(h) /\ token[h] # manifest[h].nonce
    <3>1. PICK g \in Hosts : /\ phase[g] = "activating"
                             /\ recovery[g] # None
                             /\ recovery[g].nonce = manifest[h].nonce
      BY <2>5 DEF Sent, Committed
    <3>2. h = recovery[g].target
      BY <2>5, <3>1 DEF IInv, NoncesInv, NoncesApart, Sent
    <3>3. db[g] = stage[h].db
      BY <2>5, <3>1, <3>2 DEF IInv, HandoffInv, HandoffOK, Unarmed, Sent
    <3>4. db[g] # None /\ db[g].content = acked
      BY <2>5, <3>3 DEF IInv, ClaimInv, Whole, Sent
    <3>. QED BY <2>1, <3>4 DEF AcknowledgedCommandsSurvive
  <2>. QED BY <2>2, <2>3, <2>4, <2>5 DEF Claim
<1>. QED BY <1>1, InvariantHolds, PTL

=============================================================================
