---------------------- MODULE ProcessSupervisorProofs ----------------------
(***************************************************************************)
(* Proofs about ProcessSupervisor for every set of generations, accounts   *)
(* and bounds.                                                             *)
(***************************************************************************)
EXTENDS ProcessSupervisor, TLAPS

----------------------------------------------------------------------------
(* What the store transactions do to a row.                                *)

(* A mutation that is neither a death nor a binding keeps the row's boot   *)
(* and identity, whether it exists and whether it is dead.                 *)
RowKept(old, new) ==
    /\ new \in Row
    /\ new.boot = old.boot
    /\ new.identity = old.identity
    /\ (new.state = "absent") <=> (old.state = "absent")
    /\ (new.state = "dead") <=> (old.state = "dead")

(* Binding an identity changes nothing else but the revision.              *)
LEMMA BindShape ==
    ASSUME NEW row \in Row, NEW expected \in Nat, NEW b
    PROVE  LET new == BindIdentity(row, expected, b).row
           IN  /\ new \in Row
               /\ new.boot = row.boot /\ new.state = row.state
               /\ new.identity = row.identity \/ new.identity = "exact"
<1> DEFINE new == Update(row, row.state, "exact", row.reason, row.evidence)
<1>1. new \in Row /\ new.boot = row.boot /\ new.state = row.state /\ new.identity = "exact"
  BY DEF Update, Row, Identities
<1>2. BindIdentity(row, expected, b).row \in {new, row}
  BY DEF BindIdentity, Applied, Replayed, Rejected
<1>3. QED  BY <1>1, <1>2

(* The readiness and stopping transitions keep it.                         *)
LEMMA TransitionKeeps ==
    ASSUME NEW row \in Row, NEW expected \in Nat
    PROVE  /\ RowKept(row, MarkReady(row, expected).row)
           /\ RowKept(row, MarkStopping(row, expected).row)
  BY DEF RowKept, MarkReady, MarkStopping, Transition, Applied, Replayed, Rejected, Update, Row,
         States, LossReasons

(* So does the loss of authority.                                          *)
LEMMA DeathUnknownKeeps ==
    ASSUME NEW row \in Row, NEW expected \in Nat, NEW reason \in LossReasons
    PROVE  RowKept(row, MarkDeathUnknown(row, expected, reason).row)
  BY DEF RowKept, MarkDeathUnknown, Applied, Replayed, Rejected, Update, Row, States

(* Recording a death keeps boot, identity and existence.                   *)
LEMMA RecordDeathShape ==
    ASSUME NEW row \in Row, NEW expected \in Nat, NEW kind \in EvidenceKinds,
           NEW identity, NEW b
    PROVE  LET new == RecordDeath(row, expected, kind, identity, b).row
           IN  /\ new \in Row
               /\ new.boot = row.boot /\ new.identity = row.identity
               /\ (new.state = "absent") <=> (row.state = "absent")
               /\ new = row \/ new.state = "dead"
  BY DEF RecordDeath, Applied, Replayed, Rejected, Update, Row, States, LossReasons, EvidenceKinds

(* A preparation leaves the row alone, or creates it where no generation   *)
(* of the account quarantines it.                                          *)
LEMMA PrepareShape ==
    ASSUME NEW rows \in [Generations -> Row], NEW g \in Generations, NEW b \in Nat
    PROVE  LET result == PrepareGeneration(rows, g, b)
           IN  /\ result.row \in Row
               /\ result.outcome # "applied" => result.row = rows[g]
               /\ result.outcome = "applied" =>
                     /\ rows[g].state = "absent"
                     /\ \A h \in Generations :
                           AccountOf[h] = AccountOf[g] => ~Quarantines(rows[h])
                     /\ result.row.state = "starting"
                     /\ result.row.boot = b /\ result.row.identity = "none"
  BY DEF PrepareGeneration, Applied, Replayed, Rejected, AbsentRow, Row, States,
         LossReasons, EvidenceKinds, Identities

(* Projection after a restart keeps every row.                             *)
LEMMA ProjectionKeeps ==
    ASSUME NEW rows \in [Generations -> Row]
    PROVE  /\ ProjectAfterSupervisorLoss(rows) \in [Generations -> Row]
           /\ \A g \in Generations : RowKept(rows[g], ProjectAfterSupervisorLoss(rows)[g])
  BY DEF ProjectAfterSupervisorLoss, Update, RowKept, Row, States, LossReasons
----------------------------------------------------------------------------
(* Type correctness.                                                       *)

(* What the store leaves behind is a row, whichever transaction ran.       *)
LEMMA ResultsAreRows ==
    ASSUME NEW row \in Row, NEW expected \in Nat
    PROVE  /\ \A b : BindIdentity(row, expected, b).row \in Row
           /\ MarkReady(row, expected).row \in Row
           /\ MarkStopping(row, expected).row \in Row
           /\ \A reason \in LossReasons : MarkDeathUnknown(row, expected, reason).row \in Row
           /\ \A kind \in EvidenceKinds : \A identity, b :
                 RecordDeath(row, expected, kind, identity, b).row \in Row
  BY BindShape, TransitionKeeps, DeathUnknownKeeps, RecordDeathShape DEF RowKept

(* A store call, answered or not, leaves a typed table.                    *)
LEMMA WriteTyped ==
    ASSUME TypeOK, NEW g \in Generations, NEW result, result.row \in Row, NEW reply,
           Write(g, result, reply)
    PROVE  gen' \in [Generations -> Row] /\ faults' \in Nat
  BY DEF TypeOK, Write

(* A refreshed status is a status.                                         *)
LEMMA RefreshTyped ==
    ASSUME TypeOK, NEW g \in Generations
    PROVE  /\ StatusAfterRefresh(g) \in {"running", "exited"}
           /\ Refresh(g) => leader' \in [Generations -> {"none", "alive", "zombie", "reaped"}]
           /\ \A rev \in Nat, status \in {"running", "exited"} :
                 RestoreOwned(g, rev, status) \in Child
  BY DEF TypeOK, StatusAfterRefresh, Refresh, RestoreOwned, Handle, NoChild, Child, Identities

(* A signal to a group leaves the operating system typed.                  *)
LEMMA KillTyped ==
    ASSUME TypeOK, NEW g \in Generations, KillGroup(g)
    PROVE  /\ leader' \in [Generations -> {"none", "alive", "zombie", "reaped"}]
           /\ helpers' \subseteq Generations
           /\ strayed' \subseteq Generations
  BY DEF TypeOK, KillGroup

USE DEF storeVars, localVars, taskVars, recVars, osVars, hostVars

(* The idle records are typed.                                             *)
LEMMA IdleTyped ==
    /\ AbsentRow \in Row /\ NoChild \in Child /\ IdleSpawner \in Spawner
    /\ IdleTerm \in Term /\ IdleRec \in Rec
  BY DEF AbsentRow, Row, States, LossReasons, EvidenceKinds, Identities, NoChild, Handle, Child,
         IdleSpawner, Spawner, SpawnStates, IdleTerm, Term, TermStates, IdleRec, Rec, RecStates

(* So are the records the tasks move to.                                   *)
LEMMA RecordsTyped ==
    /\ \A pc \in SpawnStates, rev \in Nat : [pc |-> pc, rev |-> rev] \in Spawner
    /\ \A pc \in TermStates, rev \in Nat, identity \in Identities :
          [pc |-> pc, rev |-> rev, identity |-> identity] \in Term
    /\ \A at \in {"none", "registry", "spawner", "terminator"}, identity \in Identities,
          rev \in Nat, status \in {"running", "exited"} :
          Handle(at, identity, rev, status) \in Child
  BY DEF Spawner, Term, Handle, Child

(* The initial state is typed.                                             *)
LEMMA InitTyped == Init => TypeOK
  BY IdleTyped DEF Init, TypeOK

(* So is what the supervisor's life leads to.                              *)
LEMMA HostTyped ==
    ASSUME TypeOK, Start \/ StartServing \/ Crash \/ Reboot
    PROVE  TypeOK'
<1>1. CASE Start
  BY <1>1, ProjectionKeeps DEF Start, TypeOK, PassGenerations
<1>2. CASE StartServing
  BY <1>2 DEF StartServing, TypeOK
<1>3. CASE Crash
  BY <1>3, IdleTyped DEF Crash, LoseSupervisor, TypeOK
<1>4. CASE Reboot
  BY <1>4, IdleTyped DEF Reboot, LoseSupervisor, TypeOK
<1>5. QED  BY <1>1, <1>2, <1>3, <1>4

(* Operating-system steps keep the types.                                  *)
LEMMA OsTyped ==
    ASSUME TypeOK, NEW g \in Generations, OsStep(g)
    PROVE  TypeOK'
  BY DEF OsStep, LeaderExits, HelperStarts, HelperExits, ReapAbandoned, PidReused, TypeOK

(* Spawning keeps the types.                                               *)
LEMMA SpawnTyped ==
    ASSUME TypeOK, NEW g \in Generations, SpawnStep(g)
    PROVE  TypeOK'
<1>1. CASE SpawnReserve(g)
  <2>1. spawner' \in [Generations -> Spawner]
    BY <1>1, RecordsTyped
    DEF SpawnReserve, SpawnGoto, SpawnStates, TypeOK
  <2>2. QED  BY <1>1, <2>1 DEF SpawnReserve, TypeOK
<1>2. CASE SpawnPrepare(g)
  <2>1. gen' \in [Generations -> Row] /\ faults' \in Nat
    BY <1>2, PrepareShape, WriteTyped
    DEF SpawnPrepare, TypeOK
  <2>2. spawner' \in [Generations -> Spawner]
    BY <1>2, RecordsTyped, IdleTyped
    DEF SpawnPrepare, SpawnGoto, SpawnStates, ReleaseSpawn, TypeOK
  <2>3. child' \in [Generations -> Child] /\ supervised' \subseteq Generations
    BY <1>2, IdleTyped
    DEF SpawnPrepare, ReleaseSpawn, TypeOK
  <2>4. QED  BY <1>2, <2>1, <2>2, <2>3 DEF SpawnPrepare, TypeOK
<1>3. CASE SpawnAbandon(g)
  <2>1. spawner' \in [Generations -> Spawner] /\ child' \in [Generations -> Child]
    BY <1>3, IdleTyped
    DEF SpawnAbandon, ReleaseSpawn, TypeOK
  <2>2. QED  BY <1>3, <2>1 DEF SpawnAbandon, ReleaseSpawn, TypeOK
<1>4. CASE SpawnProcess(g)
  <2>1. spawner[g].rev \in Nat
    BY <1>4
    DEF SpawnProcess, Spawner, TypeOK
  <2>2. spawner' \in [Generations -> Spawner]
    BY <1>4, <2>1, RecordsTyped
    DEF SpawnProcess, SpawnGoto, SpawnStates, TypeOK
  <2>3. child' \in [Generations -> Child]
    BY <1>4, <2>1, RecordsTyped
    DEF SpawnProcess, Identities, TypeOK
  <2>4. QED  BY <1>4, <2>1, <2>2, <2>3 DEF SpawnProcess, TypeOK
<1>5. CASE SpawnNotCreated(g)
  <2>1. spawner[g].rev \in Nat
    BY <1>5
    DEF SpawnNotCreated, Spawner, TypeOK
  <2>2. gen' \in [Generations -> Row] /\ faults' \in Nat
    BY <1>5, <2>1, ResultsAreRows, WriteTyped
    DEF SpawnNotCreated, EvidenceKinds, TypeOK
  <2>3. spawner' \in [Generations -> Spawner] /\ child' \in [Generations -> Child]
    BY <1>5, IdleTyped
    DEF SpawnNotCreated, ReleaseSpawn, TypeOK
  <2>4. QED  BY <1>5, <2>1, <2>2, <2>3 DEF SpawnNotCreated, ReleaseSpawn, TypeOK
<1>6. CASE SpawnInspect(g)
  <2>1. spawner[g].rev \in Nat /\ child[g].rev \in Nat
        /\ child[g].status \in {"running", "exited"}
    BY <1>6
    DEF SpawnInspect, Spawner, Child, TypeOK
  <2>2. spawner' \in [Generations -> Spawner]
    BY <1>6, <2>1, RecordsTyped
    DEF SpawnInspect, SpawnGoto, SpawnStates, TypeOK
  <2>3. child' \in [Generations -> Child]
    BY <1>6, <2>1, RecordsTyped
    DEF SpawnInspect, Identities, TypeOK
  <2>4. leader' \in [Generations -> {"none", "alive", "zombie", "reaped"}]
        /\ helpers' \subseteq Generations /\ strayed' \subseteq Generations
    BY <1>6, KillTyped
    DEF SpawnInspect, TypeOK
  <2>5. QED  BY <1>6, <2>1, <2>2, <2>3, <2>4 DEF SpawnInspect, TypeOK
<1>7. CASE SpawnBind(g)
  <2>1. spawner[g].rev \in Nat
    BY <1>7
    DEF SpawnBind, Spawner, TypeOK
  <2>2. gen' \in [Generations -> Row] /\ faults' \in Nat
    BY <1>7, <2>1, ResultsAreRows, WriteTyped
    DEF SpawnBind, TypeOK
  <2>3. BindIdentity(gen[g], spawner[g].rev, boot).row.rev \in Nat
    BY <1>7, <2>1, ResultsAreRows
    DEF SpawnBind, Row, TypeOK
  <2>4. spawner' \in [Generations -> Spawner]
    BY <1>7, <2>1, <2>3, RecordsTyped
    DEF SpawnBind, SpawnGoto, SpawnStates, TypeOK
  <2>5. child' \in [Generations -> Child]
    BY <1>7, <2>1, <2>3, RecordsTyped
    DEF SpawnBind, Identities, TypeOK
  <2>6. fence' \in [Generations -> Nat]
    BY <1>7, <2>1, <2>3
    DEF SpawnBind, TypeOK
  <2>7. leader' \in [Generations -> {"none", "alive", "zombie", "reaped"}]
        /\ helpers' \subseteq Generations /\ strayed' \subseteq Generations
    BY <1>7, KillTyped
    DEF SpawnBind, TypeOK
  <2>8. QED  BY <1>7, <2>1, <2>2, <2>3, <2>4, <2>5, <2>6, <2>7 DEF SpawnBind, TypeOK
<1>8. CASE SpawnQuarantine(g)
  <2>1. spawner[g].rev \in Nat /\ gen[g].rev \in Nat /\ child[g].status \in {"running", "exited"}
    BY <1>8
    DEF SpawnQuarantine, Spawner, Row, Child, TypeOK
  <2>2. \A rev \in Nat : MarkDeathUnknown(gen[g], rev, "identity_persistence_failed").row \in Row
    BY <1>8, ResultsAreRows
    DEF SpawnQuarantine, LossReasons, TypeOK
  <2>3. gen' \in [Generations -> Row] /\ faults' \in Nat
    BY <1>8, <2>1, <2>2, WriteTyped
    DEF SpawnQuarantine, TypeOK
  <2>4. \A rev \in Nat : MarkDeathUnknown(gen[g], rev, "identity_persistence_failed").row.rev \in Nat
    BY <1>8, <2>2
    DEF SpawnQuarantine, Row, TypeOK
  <2>5. child' \in [Generations -> Child]
    BY <1>8, <2>1, <2>4, RefreshTyped
    DEF SpawnQuarantine, TypeOK
  <2>6. leader' \in [Generations -> {"none", "alive", "zombie", "reaped"}]
    BY <1>8, RefreshTyped
    DEF SpawnQuarantine, TypeOK
  <2>7. spawner' \in [Generations -> Spawner]
    BY <1>8, IdleTyped
    DEF SpawnQuarantine, TypeOK
  <2>8. QED  BY <1>8, <2>1, <2>2, <2>3, <2>4, <2>5, <2>6, <2>7 DEF SpawnQuarantine, TypeOK
<1>9. CASE MarkSpawnedReady(g)
  <2>1. fence[g] \in Nat
    BY <1>9
    DEF MarkSpawnedReady, TypeOK
  <2>2. gen' \in [Generations -> Row] /\ faults' \in Nat
    BY <1>9, <2>1, ResultsAreRows, WriteTyped
    DEF MarkSpawnedReady, TypeOK
  <2>3. MarkReady(gen[g], fence[g]).row.rev \in Nat
    BY <1>9, <2>1, ResultsAreRows
    DEF MarkSpawnedReady, Row, TypeOK
  <2>4. spawner' \in [Generations -> Spawner]
    BY <1>9, <2>3, RecordsTyped, IdleTyped
    DEF MarkSpawnedReady, SpawnGoto, SpawnStates, TypeOK
  <2>5. fence' \in [Generations -> Nat]
    BY <1>9, <2>3
    DEF MarkSpawnedReady, TypeOK
  <2>6. QED  BY <1>9, <2>1, <2>2, <2>3, <2>4, <2>5 DEF MarkSpawnedReady, TypeOK
<1>10. CASE FollowReceipt(g)
  <2>1. spawner' \in [Generations -> Spawner]
    BY <1>10, IdleTyped
    DEF FollowReceipt, TypeOK
  <2>2. child' \in [Generations -> Child]
    BY <1>10
    DEF FollowReceipt, Child, TypeOK
  <2>3. QED  BY <1>10, <2>1, <2>2 DEF FollowReceipt, TypeOK
<1>11. CASE LaunchFails(g)
  <2>1. spawner' \in [Generations -> Spawner]
    BY <1>11, IdleTyped
    DEF LaunchFails, TypeOK
  <2>2. QED  BY <1>11, <2>1 DEF LaunchFails, TypeOK
<1>12. CASE Initialize(g)
  <2>1. spawner' \in [Generations -> Spawner]
    BY <1>12, RecordsTyped
    DEF Initialize, SpawnGoto, SpawnStates, Spawner, TypeOK
  <2>2. QED  BY <1>12, <2>1 DEF Initialize, TypeOK
<1>13. QED
  BY <1>1, <1>2, <1>3, <1>4, <1>5, <1>6, <1>7, <1>8, <1>9, <1>10, <1>11, <1>12 DEF SpawnStep

(* Terminating keeps the types.                                            *)
LEMMA TermTyped ==
    ASSUME TypeOK, NEW g \in Generations, TermStep(g)
    PROVE  TypeOK'
<1>1. CASE TermRead(g)
  <2>1. term' \in [Generations -> Term]
    BY <1>1, RecordsTyped
    DEF TermRead, Row, TermStates, TypeOK
  <2>2. QED  BY <1>1, <2>1 DEF TermRead, TypeOK
<1>2. CASE TermTake(g)
  <2>1. term[g].rev \in Nat /\ term[g].identity \in Identities /\ child[g].status \in {"running", "exited"}
    BY <1>2
    DEF TermTake, Term, Child, TypeOK
  <2>2. term' \in [Generations -> Term]
    BY <1>2, <2>1, RecordsTyped, IdleTyped
    DEF TermTake, TermGoto, TermStates, TypeOK
  <2>3. child' \in [Generations -> Child] /\ leader' \in [Generations -> {"none", "alive", "zombie", "reaped"}]
    BY <1>2, <2>1, RecordsTyped, RefreshTyped, IdleTyped
    DEF TermTake, Identities, TypeOK
  <2>4. QED  BY <1>2, <2>1, <2>2, <2>3 DEF TermTake, TypeOK
<1>3. CASE TermStopping(g)
  <2>1. term[g].rev \in Nat /\ term[g].identity \in Identities /\ child[g].status \in {"running", "exited"}
    BY <1>3
    DEF TermStopping, Term, Child, TypeOK
  <2>2. gen' \in [Generations -> Row] /\ faults' \in Nat
    BY <1>3, <2>1, ResultsAreRows, WriteTyped
    DEF TermStopping, TypeOK
  <2>3. MarkStopping(gen[g], term[g].rev).row.rev \in Nat
    BY <1>3, <2>1, ResultsAreRows
    DEF TermStopping, Row, TypeOK
  <2>4. term' \in [Generations -> Term]
    BY <1>3, <2>1, <2>3, RecordsTyped, IdleTyped
    DEF TermStopping, TermGoto, TermStates, TermRestore, TypeOK
  <2>5. child' \in [Generations -> Child]
    BY <1>3, <2>1, <2>3, RefreshTyped
    DEF TermStopping, Child, TermRestore, TypeOK
  <2>6. QED  BY <1>3, <2>1, <2>2, <2>3, <2>4, <2>5 DEF TermStopping, TypeOK
<1>4. CASE TermSignal(g)
  <2>1. leader' \in [Generations -> {"none", "alive", "zombie", "reaped"}]
        /\ helpers' \subseteq Generations /\ strayed' \subseteq Generations
    BY <1>4, KillTyped
    DEF TermSignal, TypeOK
  <2>2. QED  BY <1>4, <2>1 DEF TermSignal, TypeOK
<1>5. CASE TermObserveExit(g)
  <2>1. leader' \in [Generations -> {"none", "alive", "zombie", "reaped"}]
    BY <1>5, RefreshTyped
    DEF TermObserveExit, TypeOK
  <2>2. child' \in [Generations -> Child]
    BY <1>5
    DEF TermObserveExit, Child, TypeOK
  <2>3. QED  BY <1>5, <2>1, <2>2 DEF TermObserveExit, TypeOK
<1>6. CASE TermProve(g)
  <2>1. term[g].rev \in Nat /\ term[g].identity \in Identities /\ child[g].status \in {"running", "exited"}
    BY <1>6
    DEF TermProve, Term, Child, TypeOK
  <2>2. term' \in [Generations -> Term]
    BY <1>6, <2>1, RecordsTyped
    DEF TermProve, TermGoto, TermStates, TypeOK
  <2>3. QED  BY <1>6, <2>1, <2>2 DEF TermProve, TypeOK
<1>7. CASE TermDeath(g)
  <2>1. term[g].rev \in Nat /\ term[g].identity \in Identities /\ child[g].status \in {"running", "exited"}
    BY <1>7
    DEF TermDeath, Term, Child, TypeOK
  <2>2. gen' \in [Generations -> Row] /\ faults' \in Nat
    BY <1>7, <2>1, ResultsAreRows, WriteTyped
    DEF TermDeath, EvidenceKinds, TypeOK
  <2>3. term' \in [Generations -> Term]
    BY <1>7, IdleTyped
    DEF TermDeath, TermRestore, TypeOK
  <2>4. child' \in [Generations -> Child]
    BY <1>7, <2>1, RefreshTyped, IdleTyped
    DEF TermDeath, TermRestore, TypeOK
  <2>5. QED  BY <1>7, <2>1, <2>2, <2>3, <2>4 DEF TermDeath, TypeOK
<1>8. CASE TermUnproved(g)
  <2>1. term[g].rev \in Nat /\ term[g].identity \in Identities /\ child[g].status \in {"running", "exited"}
    BY <1>8
    DEF TermUnproved, Term, Child, TypeOK
  <2>2. gen' \in [Generations -> Row] /\ faults' \in Nat
    BY <1>8, <2>1, ResultsAreRows, WriteTyped
    DEF TermUnproved, LossReasons, TypeOK
  <2>3. MarkDeathUnknown(gen[g], term[g].rev, "termination_unproved").row.rev \in Nat
    BY <1>8, <2>1, ResultsAreRows
    DEF TermUnproved, LossReasons, Row, TypeOK
  <2>4. term' \in [Generations -> Term]
    BY <1>8, IdleTyped
    DEF TermUnproved, TermRestore, TypeOK
  <2>5. child' \in [Generations -> Child]
    BY <1>8, <2>1, <2>3, RefreshTyped
    DEF TermUnproved, TermRestore, TypeOK
  <2>6. QED  BY <1>8, <2>1, <2>2, <2>3, <2>4, <2>5 DEF TermUnproved, TypeOK
<1>9. CASE TermPlatformError(g)
  <2>1. term[g].rev \in Nat /\ term[g].identity \in Identities /\ child[g].status \in {"running", "exited"}
    BY <1>9
    DEF TermPlatformError, Term, Child, TypeOK
  <2>2. term' \in [Generations -> Term] /\ child' \in [Generations -> Child]
    BY <1>9, <2>1, RefreshTyped, IdleTyped
    DEF TermPlatformError, TermRestore, TypeOK
  <2>3. QED  BY <1>9, <2>1, <2>2 DEF TermPlatformError, TypeOK
<1>10. CASE TermCancel(g)
  <2>1. term' \in [Generations -> Term] /\ child' \in [Generations -> Child]
    BY <1>10, IdleTyped
    DEF TermCancel, TypeOK
  <2>2. QED  BY <1>10, <2>1 DEF TermCancel, TypeOK
<1>11. QED  BY <1>1, <1>2, <1>3, <1>4, <1>5, <1>6, <1>7, <1>8, <1>9, <1>10 DEF TermStep

(* The reconciler's records are typed.                                     *)
LEMMA RecRecordsTyped ==
    ASSUME TypeOK, NEW g \in Generations, NEW pc \in RecStates, NEW snap \in Row,
           NEW kind \in EvidenceKinds, RecGoto(g, pc, snap, kind)
    PROVE  rec' \in Rec
  BY DEF RecGoto, Rec

(* The reconciler works on a generation and a row of it.                   *)
RecTarget == rec.g \in Generations /\ rec.snap \in Row

(* Settling a generation keeps the types.                                  *)
LEMMA SettleTyped ==
    ASSUME TypeOK, NEW g \in Generations, NEW snap \in Row, RecSettle(g, snap)
    PROVE  /\ rec' \in Rec /\ child' \in [Generations -> Child]
           /\ supervised' \subseteq Generations /\ pending' \subseteq Generations
           /\ witness' \in [Generations -> {"none", "attached", "fired"}]
           /\ leader' \in [Generations -> {"none", "alive", "zombie", "reaped"}]
           /\ UNCHANGED <<helpers, reused, created, strayed>>
<1> USE IdleTyped, RecRecordsTyped DEF RecIdle, RecStates, EvidenceKinds
<1>1. CASE RecProveBootEnded(g, snap)
  BY <1>1 DEF RecProveBootEnded, TypeOK
<1>2. CASE RecOwned(g, snap)
  <2>1. snap.rev \in Nat /\ child[g].identity \in Identities
    BY DEF TypeOK, Row, Child
  <2>2. child' \in [Generations -> Child]
        /\ leader' \in [Generations -> {"none", "alive", "zombie", "reaped"}]
    BY <1>2, <2>1, RecordsTyped, RefreshTyped DEF RecOwned, TypeOK
  <2>3. rec' \in Rec
    BY <1>2 DEF RecOwned
  <2>4. QED  BY <1>2, <2>2, <2>3 DEF RecOwned, TypeOK
<1>3. CASE RecInFlight(g, snap)
  BY <1>3 DEF RecInFlight, TypeOK
<1>4. CASE RecRestored(g, snap)
  <2>1. rec' \in Rec
    BY <1>4 DEF RecRestored
  <2>2. QED  BY <1>4, <2>1 DEF RecRestored, TypeOK
<1>5. QED  BY <1>1, <1>2, <1>3, <1>4 DEF RecSettle

(* Reconciling keeps the types.                                            *)
LEMMA RecTyped ==
    ASSUME TypeOK, rec.pc # "idle" => RecTarget, RecStep
    PROVE  TypeOK'
<1> USE IdleTyped DEF RecIdle
<1>1. CASE RecCheck
  <2>1. RecTarget
    BY <1>1 DEF RecCheck
  <2>2. CASE RecClear(rec.g, rec.snap)
    BY <1>1, <2>1, <2>2 DEF RecCheck, RecClear, RecTarget, TypeOK
  <2>3. CASE RecGoto(rec.g, "mark", rec.snap, "none") /\ UNCHANGED <<localVars, osVars>>
    BY <1>1, <2>1, <2>3, RecRecordsTyped DEF RecCheck, RecTarget, RecStates, EvidenceKinds, TypeOK
  <2>4. CASE RecSettle(rec.g, rec.snap)
    BY <1>1, <2>1, <2>4, SettleTyped DEF RecCheck, RecTarget, TypeOK
  <2>5. QED  BY <1>1, <2>2, <2>3, <2>4 DEF RecCheck
<1>2. CASE RecMark
  <2>1. RecTarget /\ rec.snap.rev \in Nat
    BY <1>2 DEF RecMark, RecTarget, Row
  <2>2. PICK reply \in Replies :
            LET result == MarkDeathUnknown(gen[rec.g], rec.snap.rev, "supervisor_restarted")
                marked == [state |-> "death_unknown", boot |-> rec.snap.boot,
                           identity |-> rec.snap.identity, reason |-> "supervisor_restarted",
                           evidence |-> rec.snap.evidence, rev |-> result.row.rev]
            IN  /\ Write(rec.g, result, reply)
                /\ IF Confirmed(result, reply)
                   THEN RecGoto(rec.g, "settle", marked, "none")
                   ELSE RecIdle
    BY <1>2 DEF RecMark
  <2> DEFINE result == MarkDeathUnknown(gen[rec.g], rec.snap.rev, "supervisor_restarted")
             marked == [state |-> "death_unknown", boot |-> rec.snap.boot,
                        identity |-> rec.snap.identity, reason |-> "supervisor_restarted",
                        evidence |-> rec.snap.evidence, rev |-> result.row.rev]
  <2>3. result.row \in Row
    BY <2>1, ResultsAreRows DEF RecTarget, LossReasons, TypeOK
  <2>4. gen' \in [Generations -> Row] /\ faults' \in Nat
    BY <2>1, <2>2, <2>3, WriteTyped DEF RecTarget
  <2>5. marked \in Row
    <3> HIDE DEF result
    <3>1. QED  BY <2>1, <2>3 DEF RecTarget, Row, States, LossReasons
  <2>6. RecGoto(rec.g, "settle", marked, "none") => rec' \in Rec
    <3> HIDE DEF marked
    <3>1. QED  BY <2>1, <2>5, RecRecordsTyped DEF RecTarget, RecStates, EvidenceKinds
  <2>7. rec' \in Rec
    BY <2>2, <2>6 DEF RecIdle
  <2>8. QED  BY <1>2, <2>4, <2>7 DEF RecMark, TypeOK
<1>3. CASE RecSettleMarked
  BY <1>3, SettleTyped DEF RecSettleMarked, RecTarget, TypeOK
<1>4. CASE RecWrite
  <2>1. RecTarget /\ rec.snap.rev \in Nat /\ rec.kind \in EvidenceKinds
    BY <1>4 DEF RecWrite, RecTarget, Row, TypeOK, Rec
  <2>2. gen' \in [Generations -> Row] /\ faults' \in Nat
    BY <1>4, <2>1, ResultsAreRows, WriteTyped DEF RecWrite, RecTarget, TypeOK
  <2>3. rec' \in Rec /\ child' \in [Generations -> Child]
    BY <1>4, <2>1 DEF RecWrite, RecTarget, TypeOK
  <2>4. supervised' \subseteq Generations
        /\ witness' \in [Generations -> {"none", "attached", "fired"}]
    BY <1>4, <2>1 DEF RecWrite, RecTarget, TypeOK
  <2>5. QED  BY <1>4, <2>2, <2>3, <2>4 DEF RecWrite, TypeOK
<1>5. QED  BY <1>1, <1>2, <1>3, <1>4 DEF RecStep

----------------------------------------------------------------------------
(* The inductive invariant.                                                *)

(* Every process was created once, under a row of the boot it lives in; a  *)
(* bound identity belongs to a created process, and a dead row to none     *)
(* that lives.                                                             *)
Lifetimes ==
    \A g \in Generations :
        /\ created[g] \in {0, 1}
        /\ created[g] = 0 <=> leader[g] = "none"
        /\ g \in helpers => created[g] = 1
        /\ created[g] = 1 => gen[g].state # "absent"
        /\ Live(g) => gen[g].boot = boot
        /\ gen[g].state = "dead" => ~Live(g)
        /\ gen[g].identity = "exact" => created[g] = 1

(* What each task knows when it comes back from an await, however much     *)
(* happened meanwhile: the fence a spawn creates under is still held, a    *)
(* proof of non-creation or of an exit is still true.                      *)
TaskKnowledge ==
    \A g \in Generations :
        /\ child[g].status = "exited" => leader[g] = "reaped"
        /\ spawner[g].pc = "spawn" =>
              created[g] = 0 /\ Quarantines(gen[g]) /\ gen[g].boot = boot /\ g \notin pending
        /\ spawner[g].pc = "not_created" => created[g] = 0 /\ gen[g].state # "absent"
        /\ spawner[g].pc \in {"inspect", "bind"} => created[g] = 1
        /\ g \in pending => created[g] = 0 /\ gen[g].state # "absent"
        /\ term[g].pc = "death" => created[g] = 1 /\ ~Live(g)
        /\ g \in todo => gen[g].state # "absent"

(* What the reconciler knows of its stale snapshot.                        *)
SnapshotKnowledge ==
    rec.pc # "idle" =>
        /\ rec.g \in Generations
        /\ gen[rec.g].state # "absent"
        /\ rec.snap.boot = gen[rec.g].boot
        /\ rec.snap.identity = "exact" => gen[rec.g].identity = "exact"
        /\ rec.pc = "write" => IF rec.kind = "prior_boot_ended"
                               THEN gen[rec.g].boot # boot
                               ELSE created[rec.g] = 1 /\ ~Live(rec.g)

(* One generation of an account quarantines it.                            *)
OneHolder ==
    \A g, h \in Generations :
        AccountOf[g] = AccountOf[h] /\ Quarantines(gen[g]) /\ Quarantines(gen[h]) => g = h

IInv == TypeOK /\ Lifetimes /\ TaskKnowledge /\ SnapshotKnowledge /\ OneHolder

(* How a step ages the table: boots stay, rows neither appear nor vanish,  *)
(* death is final, and only the named generations die or are bound.        *)
TableAges(dying, binding) ==
    \A h \in Generations :
        /\ gen'[h].boot = gen[h].boot
        /\ gen[h].identity = "exact" => gen'[h].identity = "exact"
        /\ gen'[h].identity = gen[h].identity \/ h \in binding
        /\ gen'[h].state = "absent" <=> gen[h].state = "absent"
        /\ gen[h].state = "dead" => gen'[h].state = "dead"
        /\ gen'[h].state = "dead" => gen[h].state = "dead" \/ h \in dying

(* A store call ages the table as its result ages the row.                 *)
LEMMA WriteAges ==
    ASSUME TypeOK, NEW g \in Generations, NEW result, NEW reply, Write(g, result, reply)
    PROVE  /\ RowKept(gen[g], result.row) => TableAges({}, {})
           /\ (/\ result.row.boot = gen[g].boot /\ result.row.identity = gen[g].identity
               /\ result.row.state = "absent" <=> gen[g].state = "absent"
               /\ result.row = gen[g] \/ result.row.state = "dead")
              => TableAges({g}, {})
           /\ (/\ result.row.boot = gen[g].boot /\ result.row.state = gen[g].state
               /\ result.row.identity = gen[g].identity \/ result.row.identity = "exact")
              => TableAges({}, {g})
  BY DEF TypeOK, Write, RowKept, TableAges

(* A recorded death ages one generation.                                   *)
LEMMA DeathAges ==
    ASSUME TypeOK, NEW g \in Generations, NEW expected \in Nat, NEW kind \in EvidenceKinds,
           NEW identity, NEW b, NEW reply,
           Write(g, RecordDeath(gen[g], expected, kind, identity, b), reply)
    PROVE  TableAges({g}, {})
<1> DEFINE result == RecordDeath(gen[g], expected, kind, identity, b)
<1>1. gen[g] \in Row
  BY DEF TypeOK
<1>2. /\ result.row.boot = gen[g].boot /\ result.row.identity = gen[g].identity
      /\ result.row.state = "absent" <=> gen[g].state = "absent"
      /\ result.row = gen[g] \/ result.row.state = "dead"
  BY <1>1, RecordDeathShape
<1> HIDE DEF result
<1>3. Write(g, result, reply)
  BY DEF result
<1>4. QED  BY <1>2, <1>3, WriteAges

(* A binding ages one generation.                                          *)
LEMMA BindAges ==
    ASSUME TypeOK, NEW g \in Generations, NEW expected \in Nat, NEW b, NEW reply,
           Write(g, BindIdentity(gen[g], expected, b), reply)
    PROVE  TableAges({}, {g})
<1> DEFINE result == BindIdentity(gen[g], expected, b)
<1>1. gen[g] \in Row
  BY DEF TypeOK
<1>2. /\ result.row.boot = gen[g].boot /\ result.row.state = gen[g].state
      /\ result.row.identity = gen[g].identity \/ result.row.identity = "exact"
  BY <1>1, BindShape
<1> HIDE DEF result
<1>3. Write(g, result, reply)
  BY DEF result
<1>4. QED  BY <1>2, <1>3, WriteAges

(* Holders stay unique while the table only ages.                          *)
LEMMA AgingKeepsHolder ==
    ASSUME OneHolder, NEW dying, NEW binding, TableAges(dying, binding)
    PROVE  OneHolder'
  BY DEF OneHolder, TableAges, Quarantines

(* No row changes at all.                                                  *)
LEMMA NothingAges == UNCHANGED gen => TableAges({}, {})
  BY DEF TableAges

(* The invariant holds initially.                                          *)
LEMMA InitInv == Init => IInv
<1> SUFFICES ASSUME Init PROVE IInv
  OBVIOUS
<1>1. TypeOK
  BY InitTyped
<1>2. Lifetimes
  <2>1. \A g \in Generations :
          /\ created[g] = 0 /\ leader[g] = "none" /\ g \notin helpers
          /\ gen[g].state = "absent" /\ gen[g].identity = "none"
    BY DEF Init, AbsentRow
  <2>2. SUFFICES ASSUME NEW g \in Generations
                 PROVE  /\ created[g] \in {0, 1}
                        /\ created[g] = 0 <=> leader[g] = "none"
                        /\ g \in helpers => created[g] = 1
                        /\ created[g] = 1 => gen[g].state # "absent"
                        /\ Live(g) => gen[g].boot = boot
                        /\ gen[g].state = "dead" => ~Live(g)
                        /\ gen[g].identity = "exact" => created[g] = 1
    BY DEF Lifetimes
  <2>3. ~Live(g)
    BY <2>1 DEF Live
  <2>4. QED  BY <2>1, <2>3
<1>3. TaskKnowledge
  BY DEF Init, TaskKnowledge, NoChild, Handle, IdleSpawner, IdleTerm
<1>4. SnapshotKnowledge /\ OneHolder
  BY DEF Init, SnapshotKnowledge, OneHolder, IdleRec, AbsentRow, Quarantines
<1>5. QED  BY <1>1, <1>2, <1>3, <1>4 DEF IInv

(* Operating-system steps keep the invariant.                              *)
LEMMA OsInv ==
    ASSUME IInv, TypeOK', NEW g \in Generations, OsStep(g)
    PROVE  IInv'
<1> USE DEF IInv
<1>1. CASE LeaderExits(g)
  <2>1. TableAges({}, {})
    BY <1>1, NothingAges
    DEF LeaderExits
  <2>2. Lifetimes'
    BY <1>1, <2>1
    DEF LeaderExits, TableAges, Lifetimes, TaskKnowledge, Live, Quarantines, TypeOK
  <2>3. TaskKnowledge'
    BY <1>1, <2>1
    DEF LeaderExits, TableAges, Lifetimes, TaskKnowledge, Live, Quarantines, TypeOK
  <2>4. SnapshotKnowledge'
    BY <1>1, <2>1
    DEF LeaderExits, TableAges, Lifetimes, SnapshotKnowledge, Live, Quarantines, TypeOK
  <2>5. QED  BY <2>1, <2>2, <2>3, <2>4, AgingKeepsHolder DEF IInv
<1>2. CASE HelperStarts(g)
  <2>1. TableAges({}, {})
    BY <1>2, NothingAges
    DEF HelperStarts
  <2>2. Lifetimes'
    BY <1>2, <2>1
    DEF HelperStarts, TableAges, Lifetimes, TaskKnowledge, Live, Quarantines, TypeOK
  <2>3. TaskKnowledge'
    BY <1>2, <2>1
    DEF HelperStarts, TableAges, Lifetimes, TaskKnowledge, Live, Quarantines, TypeOK
  <2>4. SnapshotKnowledge'
    BY <1>2, <2>1
    DEF HelperStarts, TableAges, Lifetimes, SnapshotKnowledge, Live, Quarantines, TypeOK
  <2>5. QED  BY <2>1, <2>2, <2>3, <2>4, AgingKeepsHolder DEF IInv
<1>3. CASE HelperExits(g)
  <2>1. TableAges({}, {})
    BY <1>3, NothingAges
    DEF HelperExits
  <2>2. Lifetimes'
    BY <1>3, <2>1
    DEF HelperExits, TableAges, Lifetimes, TaskKnowledge, Live, Quarantines, TypeOK
  <2>3. TaskKnowledge'
    BY <1>3, <2>1
    DEF HelperExits, TableAges, Lifetimes, TaskKnowledge, Live, Quarantines, TypeOK
  <2>4. SnapshotKnowledge'
    BY <1>3, <2>1
    DEF HelperExits, TableAges, Lifetimes, SnapshotKnowledge, Live, Quarantines, TypeOK
  <2>5. QED  BY <2>1, <2>2, <2>3, <2>4, AgingKeepsHolder DEF IInv
<1>4. CASE ReapAbandoned(g)
  <2>1. TableAges({}, {})
    BY <1>4, NothingAges
    DEF ReapAbandoned
  <2>2. Lifetimes'
    BY <1>4, <2>1
    DEF ReapAbandoned, TableAges, Lifetimes, TaskKnowledge, Live, Quarantines, TypeOK
  <2>3. TaskKnowledge'
    BY <1>4, <2>1
    DEF ReapAbandoned, TableAges, Lifetimes, TaskKnowledge, Live, Quarantines, TypeOK
  <2>4. SnapshotKnowledge'
    BY <1>4, <2>1
    DEF ReapAbandoned, TableAges, Lifetimes, SnapshotKnowledge, Live, Quarantines, TypeOK
  <2>5. QED  BY <2>1, <2>2, <2>3, <2>4, AgingKeepsHolder DEF IInv
<1>5. CASE PidReused(g)
  <2>1. TableAges({}, {})
    BY <1>5, NothingAges
    DEF PidReused
  <2>2. Lifetimes'
    BY <1>5, <2>1
    DEF PidReused, TableAges, Lifetimes, TaskKnowledge, Live, Quarantines, TypeOK
  <2>3. TaskKnowledge'
    BY <1>5, <2>1
    DEF PidReused, TableAges, Lifetimes, TaskKnowledge, Live, Quarantines, TypeOK
  <2>4. SnapshotKnowledge'
    BY <1>5, <2>1
    DEF PidReused, TableAges, Lifetimes, SnapshotKnowledge, Live, Quarantines, TypeOK
  <2>5. QED  BY <2>1, <2>2, <2>3, <2>4, AgingKeepsHolder DEF IInv
<1>6. QED  BY <1>1, <1>2, <1>3, <1>4, <1>5 DEF OsStep

(* So do the supervisor's start, crash and the host's reboot.              *)
LEMMA HostInv ==
    ASSUME IInv, TypeOK', Start \/ StartServing \/ Crash \/ Reboot
    PROVE  IInv'
<1> USE DEF IInv
<1>1. CASE Start
  <2>1. TableAges({}, {})
    BY <1>1, ProjectionKeeps
    DEF Start, TypeOK, TableAges, RowKept
  <2>2. Lifetimes'
    BY <1>1, <2>1
    DEF Start, PassGenerations, TableAges, Lifetimes, TaskKnowledge, Live, Quarantines, TypeOK
  <2>3. TaskKnowledge'
    BY <1>1, <2>1
    DEF Start, PassGenerations, TableAges, Lifetimes, TaskKnowledge, Live, Quarantines, TypeOK
  <2>4. SnapshotKnowledge'
    BY <1>1, <2>1
    DEF Start, PassGenerations, TableAges, Lifetimes, SnapshotKnowledge, Live, Quarantines, TypeOK
  <2>5. QED  BY <2>1, <2>2, <2>3, <2>4, AgingKeepsHolder DEF IInv
<1>2. CASE StartServing
  <2>1. TableAges({}, {})
    BY <1>2, NothingAges
    DEF StartServing
  <2>2. Lifetimes'
    BY <1>2, <2>1
    DEF StartServing, TableAges, Lifetimes, TaskKnowledge, Live, Quarantines, TypeOK
  <2>3. TaskKnowledge'
    BY <1>2, <2>1
    DEF StartServing, TableAges, Lifetimes, TaskKnowledge, Live, Quarantines, TypeOK
  <2>4. SnapshotKnowledge'
    BY <1>2, <2>1
    DEF StartServing, TableAges, Lifetimes, SnapshotKnowledge, Live, Quarantines, TypeOK
  <2>5. QED  BY <2>1, <2>2, <2>3, <2>4, AgingKeepsHolder DEF IInv
<1>3. CASE Crash
  <2>1. TableAges({}, {})
    BY <1>3, NothingAges
    DEF Crash
  <2>2. Lifetimes'
    BY <1>3, <2>1
    DEF Crash, LoseSupervisor, NoChild, Handle, IdleSpawner, IdleTerm, IdleRec, TableAges, Lifetimes, TaskKnowledge, Live, Quarantines, TypeOK
  <2>3. TaskKnowledge'
    BY <1>3, <2>1
    DEF Crash, LoseSupervisor, NoChild, Handle, IdleSpawner, IdleTerm, IdleRec, TableAges, Lifetimes, TaskKnowledge, Live, Quarantines, TypeOK
  <2>4. SnapshotKnowledge'
    BY <1>3, <2>1
    DEF Crash, LoseSupervisor, NoChild, Handle, IdleSpawner, IdleTerm, IdleRec, TableAges, Lifetimes, SnapshotKnowledge, Live, Quarantines, TypeOK
  <2>5. QED  BY <2>1, <2>2, <2>3, <2>4, AgingKeepsHolder DEF IInv
<1>4. CASE Reboot
  <2>1. TableAges({}, {})
    BY <1>4, NothingAges
    DEF Reboot
  <2>2. Lifetimes'
    BY <1>4, <2>1
    DEF Reboot, LoseSupervisor, NoChild, Handle, IdleSpawner, IdleTerm, IdleRec, TableAges, Lifetimes, TaskKnowledge, Live, Quarantines, TypeOK
  <2>3. TaskKnowledge'
    BY <1>4, <2>1
    DEF Reboot, LoseSupervisor, NoChild, Handle, IdleSpawner, IdleTerm, IdleRec, TableAges, Lifetimes, TaskKnowledge, Live, Quarantines, TypeOK
  <2>4. SnapshotKnowledge'
    BY <1>4, <2>1
    DEF Reboot, LoseSupervisor, NoChild, Handle, IdleSpawner, IdleTerm, IdleRec, TableAges, Lifetimes, SnapshotKnowledge, Live, Quarantines, TypeOK
  <2>5. QED  BY <2>1, <2>2, <2>3, <2>4, AgingKeepsHolder DEF IInv
<1>5. QED  BY <1>1, <1>2, <1>3, <1>4 DEF IInv

(* Spawning keeps the invariant.                                           *)
LEMMA SpawnInv ==
    ASSUME IInv, TypeOK', NEW g \in Generations, SpawnStep(g)
    PROVE  IInv'
<1> USE DEF IInv
<1>1. CASE SpawnReserve(g)
  <2>1. TableAges({}, {})
    BY <1>1, NothingAges
    DEF SpawnReserve
  <2>2. Lifetimes'
    BY <1>1, <2>1
    DEF SpawnReserve, SpawnGoto, TableAges, Lifetimes, TaskKnowledge, Live, Quarantines, TypeOK
  <2>3. TaskKnowledge'
    BY <1>1, <2>1
    DEF SpawnReserve, SpawnGoto, TableAges, Lifetimes, TaskKnowledge, Live, Quarantines, TypeOK
  <2>4. SnapshotKnowledge'
    BY <1>1, <2>1
    DEF SpawnReserve, SpawnGoto, TableAges, Lifetimes, SnapshotKnowledge, Live, Quarantines, TypeOK
  <2>5. QED  BY <2>1, <2>2, <2>3, <2>4, AgingKeepsHolder DEF IInv
<1>2. CASE SpawnPrepare(g)
  <2>1. PICK reply \in Replies :
            LET result == PrepareGeneration(gen, g, boot)
            IN  /\ Write(g, result, reply)
                /\ IF reply = "ok" /\ result.outcome = "applied"
                   THEN SpawnGoto(g, "spawn", 1) /\ UNCHANGED <<supervised, child>>
                   ELSE ReleaseSpawn(g)
    BY <1>2 DEF SpawnPrepare
  <2> DEFINE result == PrepareGeneration(gen, g, boot)
  <2>2. /\ result.row \in Row
        /\ result.outcome # "applied" => result.row = gen[g]
        /\ result.outcome = "applied" =>
              /\ gen[g].state = "absent"
              /\ \A h \in Generations : AccountOf[h] = AccountOf[g] => ~Quarantines(gen[h])
              /\ result.row.state = "starting"
              /\ result.row.boot = boot /\ result.row.identity = "none"
    <3>1. gen \in [Generations -> Row] /\ boot \in Nat
      BY DEF TypeOK
    <3>2. QED  BY <3>1, PrepareShape
  <2>3. UNCHANGED <<pending, term, rec, todo, leader, helpers, created, boot>>
    BY <1>2 DEF SpawnPrepare
  <2>4. gen' = gen \/ (gen' = [gen EXCEPT ![g] = result.row])
    BY <2>1 DEF Write
  <2>5. CASE gen' = gen
    <3>1. \A h \in Generations : spawner'[h] = spawner[h] \/ spawner'[h].pc = "idle"
      <4>1. ~(reply = "ok" /\ result.outcome = "applied")
        BY <2>1, <2>2, <2>5 DEF Write, TypeOK
      <4>2. QED  BY <2>1, <4>1 DEF ReleaseSpawn, IdleSpawner, TypeOK
    <3>2. \A h \in Generations : child'[h] = child[h] \/ child'[h].status = "running"
      BY <2>1 DEF ReleaseSpawn, NoChild, Handle, TypeOK
    <3>3. Lifetimes' /\ SnapshotKnowledge' /\ OneHolder'
      BY <2>3, <2>5 DEF Lifetimes, SnapshotKnowledge, OneHolder, Live
    <3>4. TaskKnowledge'
      BY <2>3, <2>5, <3>1, <3>2 DEF TaskKnowledge, Live
    <3>5. QED  BY <3>3, <3>4
  <2>6. CASE gen' = [gen EXCEPT ![g] = result.row] /\ gen' # gen
    <3>1. result.outcome = "applied"
      BY <2>2, <2>6 DEF TypeOK
    <3>2. /\ gen[g].state = "absent" /\ gen'[g].state = "starting"
          /\ gen'[g].boot = boot /\ gen'[g].identity = "none"
          /\ \A h \in Generations : h # g => gen'[h] = gen[h]
          /\ \A h \in Generations : AccountOf[h] = AccountOf[g] => ~Quarantines(gen[h])
      BY <2>2, <2>6, <3>1 DEF TypeOK
    <3> HIDE DEF result
    <3>3. created[g] = 0 /\ ~Live(g) /\ g \notin pending
      BY <3>2 DEF Lifetimes, TaskKnowledge, Live
    <3>4. \A h \in Generations :
            \/ spawner'[h] = spawner[h] \/ spawner'[h].pc = "idle"
            \/ h = g /\ spawner'[h].pc = "spawn"
      BY <2>1 DEF ReleaseSpawn, IdleSpawner, SpawnGoto, TypeOK
    <3>5. \A h \in Generations : child'[h] = child[h] \/ child'[h].status = "running"
      BY <2>1 DEF ReleaseSpawn, NoChild, Handle, TypeOK
    <3>6. Lifetimes'
      BY <2>3, <3>2, <3>3 DEF Lifetimes, Live
    <3>7. TaskKnowledge'
      BY <2>3, <3>2, <3>3, <3>4, <3>5 DEF TaskKnowledge, Live, Quarantines
    <3>8. SnapshotKnowledge' /\ OneHolder'
      BY <2>3, <3>2, <3>3 DEF SnapshotKnowledge, OneHolder, Live, Quarantines
    <3>9. QED  BY <3>6, <3>7, <3>8
  <2>7. QED  BY <2>4, <2>5, <2>6
<1>3. CASE SpawnAbandon(g)
  <2>1. TableAges({}, {})
    BY <1>3, NothingAges
    DEF SpawnAbandon
  <2>2. Lifetimes'
    BY <1>3, <2>1
    DEF SpawnAbandon, ReleaseSpawn, IdleSpawner, NoChild, Handle, TableAges, Lifetimes, TaskKnowledge, Live, Quarantines, TypeOK
  <2>3. TaskKnowledge'
    BY <1>3, <2>1
    DEF SpawnAbandon, ReleaseSpawn, IdleSpawner, NoChild, Handle, TableAges, Lifetimes, TaskKnowledge, Live, Quarantines, TypeOK
  <2>4. SnapshotKnowledge'
    BY <1>3, <2>1
    DEF SpawnAbandon, ReleaseSpawn, IdleSpawner, NoChild, Handle, TableAges, Lifetimes, SnapshotKnowledge, Live, Quarantines, TypeOK
  <2>5. QED  BY <2>1, <2>2, <2>3, <2>4, AgingKeepsHolder DEF IInv
<1>4. CASE SpawnProcess(g)
  <2>1. TableAges({}, {})
    BY <1>4, NothingAges
    DEF SpawnProcess
  <2>2. UNCHANGED <<gen, pending, term, rec, todo, boot, helpers>>
        /\ spawner[g].pc = "spawn" /\ created[g] = 0
    BY <1>4
    DEF SpawnProcess, TaskKnowledge
  <2>3. \A h \in Generations :
          \/ spawner'[h] = spawner[h] /\ h # g
          \/ h = g /\ spawner'[h].pc \in {"inspect", "not_created"}
    BY <1>4
    DEF SpawnProcess, SpawnGoto, TypeOK
  <2>4. \A h \in Generations :
          \/ created'[h] = created[h] /\ leader'[h] = leader[h] /\ child'[h] = child[h]
             /\ (h = g => spawner'[h].pc = "not_created")
          \/ /\ h = g /\ created'[h] = created[h] + 1 /\ leader'[h] = "alive"
             /\ child'[h].status = "running" /\ spawner'[h].pc = "inspect"
    BY <1>4
    DEF SpawnProcess, SpawnGoto, Handle, TypeOK
  <2>5. Lifetimes'
    BY <2>1, <2>2, <2>3, <2>4
    DEF TableAges, Lifetimes, TaskKnowledge, Live, Quarantines, TypeOK
  <2>6. TaskKnowledge'
    BY <2>1, <2>2, <2>3, <2>4
    DEF TableAges, Lifetimes, TaskKnowledge, Live, Quarantines, TypeOK
  <2>7. SnapshotKnowledge'
    BY <2>1, <2>2, <2>3, <2>4
    DEF TableAges, Lifetimes, SnapshotKnowledge, Live, Quarantines, TypeOK
  <2>8. QED  BY <2>1, <2>5, <2>6, <2>7, AgingKeepsHolder DEF IInv
<1>5. CASE SpawnNotCreated(g)
  <2>1. TableAges({g}, {})
    BY <1>5, DeathAges
    DEF SpawnNotCreated, TypeOK, Spawner, EvidenceKinds
  <2>2. Lifetimes'
    BY <1>5, <2>1
    DEF SpawnNotCreated, ReleaseSpawn, IdleSpawner, NoChild, Handle, TableAges, Lifetimes, TaskKnowledge, Live, Quarantines, TypeOK
  <2>3. TaskKnowledge'
    BY <1>5, <2>1
    DEF SpawnNotCreated, ReleaseSpawn, IdleSpawner, NoChild, Handle, TableAges, Lifetimes, TaskKnowledge, Live, Quarantines, TypeOK
  <2>4. SnapshotKnowledge'
    BY <1>5, <2>1
    DEF SpawnNotCreated, ReleaseSpawn, IdleSpawner, NoChild, Handle, TableAges, Lifetimes, SnapshotKnowledge, Live, Quarantines, TypeOK
  <2>5. QED  BY <2>1, <2>2, <2>3, <2>4, AgingKeepsHolder DEF IInv
<1>6. CASE SpawnInspect(g)
  <2>1. TableAges({}, {})
    BY <1>6, NothingAges
    DEF SpawnInspect
  <2>2. Lifetimes'
    BY <1>6, <2>1
    DEF SpawnInspect, SpawnGoto, KillGroup, Handle, TableAges, Lifetimes, TaskKnowledge, Live, Quarantines, TypeOK
  <2>3. TaskKnowledge'
    BY <1>6, <2>1
    DEF SpawnInspect, SpawnGoto, KillGroup, Handle, TableAges, Lifetimes, TaskKnowledge, Live, Quarantines, TypeOK
  <2>4. SnapshotKnowledge'
    BY <1>6, <2>1
    DEF SpawnInspect, SpawnGoto, KillGroup, Handle, TableAges, Lifetimes, SnapshotKnowledge, Live, Quarantines, TypeOK
  <2>5. QED  BY <2>1, <2>2, <2>3, <2>4, AgingKeepsHolder DEF IInv
<1>7. CASE SpawnBind(g)
  <2>1. TableAges({}, {g})
    BY <1>7, BindAges
    DEF SpawnBind, TypeOK, Spawner
  <2>2. UNCHANGED <<pending, term, rec, todo, boot, created>> /\ spawner[g].pc = "bind"
    BY <1>7
    DEF SpawnBind
  <2>3. \A h \in Generations : spawner'[h] = spawner[h] \/ spawner'[h].pc \in {"launched", "fail_bound"}
    BY <1>7
    DEF SpawnBind, SpawnGoto, TypeOK
  <2>4. \A h \in Generations : child'[h].status = child[h].status \/ child'[h].status = "running"
    BY <1>7
    DEF SpawnBind, Handle, TypeOK
  <2>5. /\ helpers' \subseteq helpers
        /\ \A h \in Generations : leader'[h] = leader[h] \/ (leader[h] = "alive" /\ leader'[h] = "zombie")
    BY <1>7
    DEF SpawnBind, KillGroup, TypeOK
  <2>6. Lifetimes'
    BY <2>1, <2>2, <2>3, <2>4, <2>5
    DEF TableAges, Lifetimes, TaskKnowledge, Live, Quarantines, TypeOK
  <2>7. TaskKnowledge'
    BY <2>1, <2>2, <2>3, <2>4, <2>5
    DEF TableAges, Lifetimes, TaskKnowledge, Live, Quarantines, TypeOK
  <2>8. SnapshotKnowledge'
    BY <2>1, <2>2, <2>3, <2>4, <2>5
    DEF TableAges, Lifetimes, SnapshotKnowledge, Live, Quarantines, TypeOK
  <2>9. QED  BY <2>1, <2>6, <2>7, <2>8, AgingKeepsHolder DEF IInv
<1>8. CASE SpawnQuarantine(g)
  <2>1. TableAges({}, {})
    BY <1>8, DeathUnknownKeeps, WriteAges, NothingAges
    DEF SpawnQuarantine, TypeOK, Spawner, Row, LossReasons
  <2>2. UNCHANGED <<pending, term, rec, todo, boot, created, helpers>>
    BY <1>8
    DEF SpawnQuarantine
  <2>3. \A h \in Generations : spawner'[h] = spawner[h] \/ spawner'[h].pc \in {"idle"}
    BY <1>8
    DEF SpawnQuarantine, IdleSpawner, TypeOK
  <2>4. \A h \in Generations : leader'[h] = leader[h] \/ (leader[h] = "zombie" /\ leader'[h] = "reaped")
    BY <1>8
    DEF SpawnQuarantine, Refresh, TypeOK
  <2>5. \A h \in Generations :
          child'[h].status = "exited" => child[h].status = "exited" \/ leader'[h] = "reaped"
    BY <1>8
    DEF SpawnQuarantine, RestoreOwned, Refresh, StatusAfterRefresh, NoChild, Handle, TypeOK
  <2>6. Lifetimes'
    BY <2>1, <2>2, <2>3, <2>4, <2>5
    DEF TableAges, Lifetimes, TaskKnowledge, Live, Quarantines, TypeOK
  <2>7. TaskKnowledge'
    BY <2>1, <2>2, <2>3, <2>4, <2>5
    DEF TableAges, Lifetimes, TaskKnowledge, Live, Quarantines, TypeOK
  <2>8. SnapshotKnowledge'
    BY <2>1, <2>2, <2>3, <2>4, <2>5
    DEF TableAges, Lifetimes, SnapshotKnowledge, Live, Quarantines, TypeOK
  <2>9. QED  BY <2>1, <2>6, <2>7, <2>8, AgingKeepsHolder DEF IInv
<1>9. CASE MarkSpawnedReady(g)
  <2>1. TableAges({}, {})
    BY <1>9, TransitionKeeps, WriteAges
    DEF MarkSpawnedReady, TypeOK
  <2>2. Lifetimes'
    BY <1>9, <2>1
    DEF MarkSpawnedReady, SpawnGoto, IdleSpawner, NoChild, Handle, TableAges, Lifetimes, TaskKnowledge, Live, Quarantines, TypeOK
  <2>3. TaskKnowledge'
    BY <1>9, <2>1
    DEF MarkSpawnedReady, SpawnGoto, IdleSpawner, NoChild, Handle, TableAges, Lifetimes, TaskKnowledge, Live, Quarantines, TypeOK
  <2>4. SnapshotKnowledge'
    BY <1>9, <2>1
    DEF MarkSpawnedReady, SpawnGoto, IdleSpawner, NoChild, Handle, TableAges, Lifetimes, SnapshotKnowledge, Live, Quarantines, TypeOK
  <2>5. QED  BY <2>1, <2>2, <2>3, <2>4, AgingKeepsHolder DEF IInv
<1>10. CASE FollowReceipt(g)
  <2>1. TableAges({}, {})
    BY <1>10, NothingAges
    DEF FollowReceipt
  <2>2. Lifetimes'
    BY <1>10, <2>1
    DEF FollowReceipt, Child, IdleSpawner, NoChild, Handle, TableAges, Lifetimes, TaskKnowledge, Live, Quarantines, TypeOK
  <2>3. TaskKnowledge'
    BY <1>10, <2>1
    DEF FollowReceipt, Child, IdleSpawner, NoChild, Handle, TableAges, Lifetimes, TaskKnowledge, Live, Quarantines, TypeOK
  <2>4. SnapshotKnowledge'
    BY <1>10, <2>1
    DEF FollowReceipt, Child, IdleSpawner, NoChild, Handle, TableAges, Lifetimes, SnapshotKnowledge, Live, Quarantines, TypeOK
  <2>5. QED  BY <2>1, <2>2, <2>3, <2>4, AgingKeepsHolder DEF IInv
<1>11. CASE LaunchFails(g)
  <2>1. TableAges({}, {})
    BY <1>11, NothingAges
    DEF LaunchFails
  <2>2. Lifetimes'
    BY <1>11, <2>1
    DEF LaunchFails, IdleSpawner, NoChild, Handle, TableAges, Lifetimes, TaskKnowledge, Live, Quarantines, TypeOK
  <2>3. TaskKnowledge'
    BY <1>11, <2>1
    DEF LaunchFails, IdleSpawner, NoChild, Handle, TableAges, Lifetimes, TaskKnowledge, Live, Quarantines, TypeOK
  <2>4. SnapshotKnowledge'
    BY <1>11, <2>1
    DEF LaunchFails, IdleSpawner, NoChild, Handle, TableAges, Lifetimes, SnapshotKnowledge, Live, Quarantines, TypeOK
  <2>5. QED  BY <2>1, <2>2, <2>3, <2>4, AgingKeepsHolder DEF IInv
<1>12. CASE Initialize(g)
  <2>1. TableAges({}, {})
    BY <1>12, NothingAges
    DEF Initialize
  <2>2. Lifetimes'
    BY <1>12, <2>1
    DEF Initialize, SpawnGoto, IdleSpawner, NoChild, Handle, TableAges, Lifetimes, TaskKnowledge, Live, Quarantines, TypeOK
  <2>3. TaskKnowledge'
    BY <1>12, <2>1
    DEF Initialize, SpawnGoto, IdleSpawner, NoChild, Handle, TableAges, Lifetimes, TaskKnowledge, Live, Quarantines, TypeOK
  <2>4. SnapshotKnowledge'
    BY <1>12, <2>1
    DEF Initialize, SpawnGoto, IdleSpawner, NoChild, Handle, TableAges, Lifetimes, SnapshotKnowledge, Live, Quarantines, TypeOK
  <2>5. QED  BY <2>1, <2>2, <2>3, <2>4, AgingKeepsHolder DEF IInv
<1>13. QED
  BY <1>1, <1>2, <1>3, <1>4, <1>5, <1>6, <1>7, <1>8, <1>9, <1>10, <1>11, <1>12 DEF SpawnStep

(* Terminating keeps the invariant.                                        *)
LEMMA TermInv ==
    ASSUME IInv, TypeOK', NEW g \in Generations, TermStep(g)
    PROVE  IInv'
<1> USE DEF IInv
<1>1. CASE TermRead(g)
  <2>1. TableAges({}, {})
    BY <1>1, NothingAges
    DEF TermRead
  <2>2. Lifetimes'
    BY <1>1, <2>1
    DEF TermRead, TableAges, Lifetimes, TaskKnowledge, Live, Quarantines, TypeOK
  <2>3. TaskKnowledge'
    BY <1>1, <2>1
    DEF TermRead, TableAges, Lifetimes, TaskKnowledge, Live, Quarantines, TypeOK
  <2>4. SnapshotKnowledge'
    BY <1>1, <2>1
    DEF TermRead, TableAges, Lifetimes, SnapshotKnowledge, Live, Quarantines, TypeOK
  <2>5. QED  BY <2>1, <2>2, <2>3, <2>4, AgingKeepsHolder DEF IInv
<1>2. CASE TermTake(g)
  <2>1. TableAges({}, {})
    BY <1>2, NothingAges
    DEF TermTake
  <2>2. Lifetimes'
    BY <1>2, <2>1
    DEF TermTake, TermGoto, Refresh, StatusAfterRefresh, TermRestore, RestoreOwned, IdleTerm, NoChild, Handle, Child, TableAges, Lifetimes, TaskKnowledge, Live, Quarantines, TypeOK
  <2>3. TaskKnowledge'
    BY <1>2, <2>1
    DEF TermTake, TermGoto, Refresh, StatusAfterRefresh, TermRestore, RestoreOwned, IdleTerm, NoChild, Handle, Child, TableAges, Lifetimes, TaskKnowledge, Live, Quarantines, TypeOK
  <2>4. SnapshotKnowledge'
    BY <1>2, <2>1
    DEF TermTake, TermGoto, Refresh, StatusAfterRefresh, TermRestore, RestoreOwned, IdleTerm, NoChild, Handle, Child, TableAges, Lifetimes, SnapshotKnowledge, Live, Quarantines, TypeOK
  <2>5. QED  BY <2>1, <2>2, <2>3, <2>4, AgingKeepsHolder DEF IInv
<1>3. CASE TermStopping(g)
  <2>1. TableAges({}, {})
    BY <1>3, TransitionKeeps, WriteAges
    DEF TermStopping, TypeOK, Term
  <2>2. UNCHANGED <<pending, spawner, rec, todo, boot, created, helpers, leader>>
    BY <1>3
    DEF TermStopping
  <2>3. \A h \in Generations : term'[h] = term[h] \/ term'[h].pc \in {"idle", "shutdown"}
    BY <1>3
    DEF TermStopping, TermGoto, TermRestore, IdleTerm, TypeOK
  <2>4. \A h \in Generations : child'[h].status = child[h].status \/ child'[h].status = "running"
    BY <1>3
    DEF TermStopping, TermRestore, RestoreOwned, NoChild, Handle, Child, TypeOK
  <2>5. Lifetimes'
    BY <2>1, <2>2, <2>3, <2>4
    DEF TableAges, Lifetimes, TaskKnowledge, Live, Quarantines, TypeOK
  <2>6. TaskKnowledge'
    BY <2>1, <2>2, <2>3, <2>4
    DEF TableAges, Lifetimes, TaskKnowledge, Live, Quarantines, TypeOK
  <2>7. SnapshotKnowledge'
    BY <2>1, <2>2, <2>3, <2>4
    DEF TableAges, Lifetimes, SnapshotKnowledge, Live, Quarantines, TypeOK
  <2>8. QED  BY <2>1, <2>5, <2>6, <2>7, AgingKeepsHolder DEF IInv
<1>4. CASE TermSignal(g)
  <2>1. TableAges({}, {})
    BY <1>4, NothingAges
    DEF TermSignal
  <2>2. Lifetimes'
    BY <1>4, <2>1
    DEF TermSignal, KillGroup, TableAges, Lifetimes, TaskKnowledge, Live, Quarantines, TypeOK
  <2>3. TaskKnowledge'
    BY <1>4, <2>1
    DEF TermSignal, KillGroup, TableAges, Lifetimes, TaskKnowledge, Live, Quarantines, TypeOK
  <2>4. SnapshotKnowledge'
    BY <1>4, <2>1
    DEF TermSignal, KillGroup, TableAges, Lifetimes, SnapshotKnowledge, Live, Quarantines, TypeOK
  <2>5. QED  BY <2>1, <2>2, <2>3, <2>4, AgingKeepsHolder DEF IInv
<1>5. CASE TermObserveExit(g)
  <2>1. TableAges({}, {})
    BY <1>5, NothingAges
    DEF TermObserveExit
  <2>2. Lifetimes'
    BY <1>5, <2>1
    DEF TermObserveExit, Refresh, Child, TableAges, Lifetimes, TaskKnowledge, Live, Quarantines, TypeOK
  <2>3. TaskKnowledge'
    BY <1>5, <2>1
    DEF TermObserveExit, Refresh, Child, TableAges, Lifetimes, TaskKnowledge, Live, Quarantines, TypeOK
  <2>4. SnapshotKnowledge'
    BY <1>5, <2>1
    DEF TermObserveExit, Refresh, Child, TableAges, Lifetimes, SnapshotKnowledge, Live, Quarantines, TypeOK
  <2>5. QED  BY <2>1, <2>2, <2>3, <2>4, AgingKeepsHolder DEF IInv
<1>6. CASE TermProve(g)
  <2>1. TableAges({}, {})
    BY <1>6, NothingAges
    DEF TermProve
  <2>2. Lifetimes'
    BY <1>6, <2>1
    DEF TermProve, TermGoto, GroupQuiescent, LeaderPresent, TableAges, Lifetimes, TaskKnowledge, Live, Quarantines, TypeOK
  <2>3. TaskKnowledge'
    BY <1>6, <2>1
    DEF TermProve, TermGoto, GroupQuiescent, LeaderPresent, TableAges, Lifetimes, TaskKnowledge, Live, Quarantines, TypeOK
  <2>4. SnapshotKnowledge'
    BY <1>6, <2>1
    DEF TermProve, TermGoto, GroupQuiescent, LeaderPresent, TableAges, Lifetimes, SnapshotKnowledge, Live, Quarantines, TypeOK
  <2>5. QED  BY <2>1, <2>2, <2>3, <2>4, AgingKeepsHolder DEF IInv
<1>7. CASE TermDeath(g)
  <2>1. TableAges({g}, {})
    BY <1>7, DeathAges
    DEF TermDeath, TypeOK, Term, EvidenceKinds
  <2>2. UNCHANGED <<pending, spawner, rec, todo, boot, created, helpers, leader>> /\ term[g].pc = "death"
    BY <1>7
    DEF TermDeath
  <2>3. \A h \in Generations : term'[h] = term[h] \/ term'[h].pc \in {"idle"}
    BY <1>7
    DEF TermDeath, TermRestore, IdleTerm, TypeOK
  <2>4. \A h \in Generations : child'[h].status = child[h].status \/ child'[h].status = "running"
    BY <1>7
    DEF TermDeath, TermRestore, RestoreOwned, NoChild, Handle, Child, TypeOK
  <2>5. Lifetimes'
    BY <2>1, <2>2, <2>3, <2>4
    DEF TableAges, Lifetimes, TaskKnowledge, Live, Quarantines, TypeOK
  <2>6. TaskKnowledge'
    BY <2>1, <2>2, <2>3, <2>4
    DEF TableAges, Lifetimes, TaskKnowledge, Live, Quarantines, TypeOK
  <2>7. SnapshotKnowledge'
    BY <2>1, <2>2, <2>3, <2>4
    DEF TableAges, Lifetimes, SnapshotKnowledge, Live, Quarantines, TypeOK
  <2>8. QED  BY <2>1, <2>5, <2>6, <2>7, AgingKeepsHolder DEF IInv
<1>8. CASE TermUnproved(g)
  <2>1. TableAges({}, {})
    BY <1>8, DeathUnknownKeeps, WriteAges
    DEF TermUnproved, TypeOK, Term, LossReasons
  <2>2. Lifetimes'
    BY <1>8, <2>1
    DEF TermUnproved, TermRestore, RestoreOwned, IdleTerm, NoChild, Handle, Child, TableAges, Lifetimes, TaskKnowledge, Live, Quarantines, TypeOK
  <2>3. TaskKnowledge'
    BY <1>8, <2>1
    DEF TermUnproved, TermRestore, RestoreOwned, IdleTerm, NoChild, Handle, Child, TableAges, Lifetimes, TaskKnowledge, Live, Quarantines, TypeOK
  <2>4. SnapshotKnowledge'
    BY <1>8, <2>1
    DEF TermUnproved, TermRestore, RestoreOwned, IdleTerm, NoChild, Handle, Child, TableAges, Lifetimes, SnapshotKnowledge, Live, Quarantines, TypeOK
  <2>5. QED  BY <2>1, <2>2, <2>3, <2>4, AgingKeepsHolder DEF IInv
<1>9. CASE TermPlatformError(g)
  <2>1. TableAges({}, {})
    BY <1>9, NothingAges
    DEF TermPlatformError
  <2>2. Lifetimes'
    BY <1>9, <2>1
    DEF TermPlatformError, TermRestore, RestoreOwned, IdleTerm, NoChild, Handle, Child, TableAges, Lifetimes, TaskKnowledge, Live, Quarantines, TypeOK
  <2>3. TaskKnowledge'
    BY <1>9, <2>1
    DEF TermPlatformError, TermRestore, RestoreOwned, IdleTerm, NoChild, Handle, Child, TableAges, Lifetimes, TaskKnowledge, Live, Quarantines, TypeOK
  <2>4. SnapshotKnowledge'
    BY <1>9, <2>1
    DEF TermPlatformError, TermRestore, RestoreOwned, IdleTerm, NoChild, Handle, Child, TableAges, Lifetimes, SnapshotKnowledge, Live, Quarantines, TypeOK
  <2>5. QED  BY <2>1, <2>2, <2>3, <2>4, AgingKeepsHolder DEF IInv
<1>10. CASE TermCancel(g)
  <2>1. TableAges({}, {})
    BY <1>10, NothingAges
    DEF TermCancel
  <2>2. Lifetimes'
    BY <1>10, <2>1
    DEF TermCancel, TermRestore, RestoreOwned, IdleTerm, NoChild, Handle, Child, TableAges, Lifetimes, TaskKnowledge, Live, Quarantines, TypeOK
  <2>3. TaskKnowledge'
    BY <1>10, <2>1
    DEF TermCancel, TermRestore, RestoreOwned, IdleTerm, NoChild, Handle, Child, TableAges, Lifetimes, TaskKnowledge, Live, Quarantines, TypeOK
  <2>4. SnapshotKnowledge'
    BY <1>10, <2>1
    DEF TermCancel, TermRestore, RestoreOwned, IdleTerm, NoChild, Handle, Child, TableAges, Lifetimes, SnapshotKnowledge, Live, Quarantines, TypeOK
  <2>5. QED  BY <2>1, <2>2, <2>3, <2>4, AgingKeepsHolder DEF IInv
<1>11. QED  BY <1>1, <1>2, <1>3, <1>4, <1>5, <1>6, <1>7, <1>8, <1>9, <1>10 DEF TermStep

(* What the reconciler does to a generation it settles: it may reap the    *)
(* leader and drop handles, and the death it goes on to write is proved.   *)
Settled(g, snap) ==
    /\ UNCHANGED <<created, helpers>> /\ pending' \subseteq pending
    /\ \A h \in Generations :
          /\ leader'[h] = leader[h] \/ (leader[h] = "zombie" /\ leader'[h] = "reaped")
          /\ child'[h].status = "exited" => child[h].status = "exited" \/ leader'[h] = "reaped"
    /\ \/ rec'.pc = "idle"
       \/ /\ rec'.pc = "write" /\ rec'.g = g /\ rec'.snap = snap
          /\ IF rec'.kind = "prior_boot_ended" THEN snap.boot # boot
             ELSE leader'[g] \in {"none", "reaped"} /\ g \notin helpers
                  /\ (leader'[g] = "none" => snap.identity = "exact")

(* reconcile_projection settles what it says it settles.                   *)
LEMMA SettleShape ==
    ASSUME TypeOK, TaskKnowledge, NEW g \in Generations, NEW snap, RecSettle(g, snap)
    PROVE  Settled(g, snap)
<1> USE DEF RecIdle, IdleRec, RecGoto
<1>1. CASE RecProveBootEnded(g, snap)
  BY <1>1 DEF RecProveBootEnded, ProvesPriorBoot, Settled
<1>2. CASE RecOwned(g, snap)
  <2>1. /\ UNCHANGED <<created, helpers, pending>>
        /\ \A h \in Generations :
              /\ leader'[h] = leader[h] \/ (leader[h] = "zombie" /\ leader'[h] = "reaped")
              /\ child'[h].status = "exited" => child[h].status = "exited" \/ leader'[h] = "reaped"
    BY <1>2 DEF RecOwned, Refresh, StatusAfterRefresh, Handle, TypeOK
  <2>2. CASE rec' = IdleRec
    BY <2>1, <2>2 DEF Settled
  <2>3. CASE /\ RecGoto(g, "write", snap, "owned_child_exit") /\ Refresh(g)
             /\ StatusAfterRefresh(g) = "exited" /\ g \notin helpers
    <3>1. leader'[g] = "reaped"
      BY <2>3 DEF Refresh, StatusAfterRefresh, TaskKnowledge, TypeOK
    <3>2. QED  BY <2>1, <2>3, <3>1 DEF Settled
  <2>4. QED  BY <1>2, <2>2, <2>3 DEF RecOwned
<1>3. CASE RecInFlight(g, snap)
  BY <1>3 DEF RecInFlight, Settled
<1>4. CASE RecRestored(g, snap)
  <2>1. UNCHANGED <<created, helpers, pending, leader, child>>
    BY <1>4 DEF RecRestored
  <2>2. CASE rec' = IdleRec
    BY <2>1, <2>2 DEF Settled
  <2>3. CASE \/ RecGoto(g, "write", snap, "macos_kernel_confirmed_gone")
             \/ RecGoto(g, "write", snap, "witnessed_exit")
    <3>1. GroupQuiescent(g) /\ snap.identity = "exact"
      BY <1>4, <2>3 DEF RecRestored
    <3>2. leader[g] \in {"none", "reaped"} /\ g \notin helpers
      BY <3>1 DEF GroupQuiescent, LeaderPresent, TypeOK
    <3>3. QED  BY <2>1, <2>3, <3>1, <3>2 DEF Settled
  <2>4. QED  BY <1>4, <2>2, <2>3 DEF RecRestored
<1>5. QED  BY <1>1, <1>2, <1>3, <1>4 DEF RecSettle

(* A settled generation keeps the invariant.                               *)
LEMMA SettleInv ==
    ASSUME IInv, TypeOK', rec.pc # "idle", Settled(rec.g, rec.snap),
           UNCHANGED <<gen, boot, spawner, term, todo>>
    PROVE  IInv'
<1> USE DEF IInv
<1>1. TableAges({}, {})
  BY NothingAges
<1>2. Lifetimes'
  BY DEF Settled, Lifetimes, Live, TypeOK
<1>3. TaskKnowledge'
  BY DEF Settled, TaskKnowledge, Live, TypeOK
<1>4. SnapshotKnowledge'
  BY DEF Settled, SnapshotKnowledge, Lifetimes, Live, TypeOK
<1>5. QED  BY <1>1, <1>2, <1>3, <1>4, AgingKeepsHolder

(* Reconciling keeps the invariant.                                        *)
LEMMA RecInv ==
    ASSUME IInv, TypeOK', RecStep
    PROVE  IInv'
<1> USE DEF IInv
<1>1. CASE RecCheck
  <2>1. UNCHANGED <<gen, boot, spawner, term, todo>> /\ rec.pc = "check"
    BY <1>1 DEF RecCheck
  <2>2. CASE RecClear(rec.g, rec.snap)
    <3>1. Settled(rec.g, rec.snap)
      BY <2>1, <2>2 DEF RecClear, RecIdle, IdleRec, Settled, NoChild, Handle, SnapshotKnowledge, TypeOK
    <3>2. QED  BY <2>1, <3>1, SettleInv
  <2>3. CASE RecGoto(rec.g, "mark", rec.snap, "none") /\ UNCHANGED <<localVars, osVars>>
    <3>1. TableAges({}, {})
      BY <2>1, NothingAges
    <3>2. Lifetimes' /\ TaskKnowledge'
      BY <2>1, <2>3 DEF Lifetimes, TaskKnowledge, Live
    <3>3. SnapshotKnowledge'
      BY <2>1, <2>3 DEF RecGoto, SnapshotKnowledge, Live
    <3>4. QED  BY <3>1, <3>2, <3>3, AgingKeepsHolder
  <2>4. CASE RecSettle(rec.g, rec.snap)
    BY <2>1, <2>4, SettleShape, SettleInv DEF SnapshotKnowledge
  <2>5. QED  BY <1>1, <2>2, <2>3, <2>4 DEF RecCheck
<1>2. CASE RecMark
  <2>1. /\ UNCHANGED <<boot, pending, child, spawner, term, todo, leader, helpers, created>>
        /\ rec.pc = "mark" /\ rec.g \in Generations
    BY <1>2 DEF RecMark, SnapshotKnowledge
  <2>2. TableAges({}, {})
    BY <1>2, <2>1, DeathUnknownKeeps, WriteAges DEF RecMark, LossReasons, Rec, Row, TypeOK
  <2>3. \/ rec'.pc = "idle"
        \/ /\ rec'.pc = "settle" /\ rec'.g = rec.g /\ rec'.snap.boot = rec.snap.boot
           /\ rec'.snap.identity = rec.snap.identity
    BY <1>2 DEF RecMark, RecGoto, RecIdle, IdleRec
  <2>4. Lifetimes' /\ TaskKnowledge'
    BY <2>1, <2>2 DEF TableAges, Lifetimes, TaskKnowledge, Live, Quarantines
  <2>5. SnapshotKnowledge'
    BY <2>1, <2>2, <2>3 DEF TableAges, SnapshotKnowledge
  <2>6. QED  BY <2>2, <2>4, <2>5, AgingKeepsHolder
<1>3. CASE RecSettleMarked
  BY <1>3, SettleShape, SettleInv DEF RecSettleMarked, SnapshotKnowledge
<1>4. CASE RecWrite
  <2>1. /\ UNCHANGED <<boot, pending, spawner, term, todo, leader, helpers, created>>
        /\ rec.pc = "write" /\ rec.g \in Generations /\ rec'.pc = "idle"
    BY <1>4 DEF RecWrite, RecIdle, IdleRec, SnapshotKnowledge
  <2>2. TableAges({rec.g}, {})
    BY <1>4, <2>1, DeathAges DEF RecWrite, Rec, Row, TypeOK
  <2>3. \A h \in Generations : child'[h].status = child[h].status \/ child'[h].status = "running"
    BY <1>4 DEF RecWrite, NoChild, Handle, TypeOK
  <2>4. Lifetimes'
    BY <2>1, <2>2 DEF TableAges, Lifetimes, SnapshotKnowledge, Live
  <2>5. TaskKnowledge'
    BY <2>1, <2>2, <2>3 DEF TableAges, TaskKnowledge, Lifetimes, SnapshotKnowledge, Live, Quarantines
  <2>6. SnapshotKnowledge'
    BY <2>1 DEF SnapshotKnowledge
  <2>7. QED  BY <2>2, <2>4, <2>5, <2>6, AgingKeepsHolder
<1>5. QED  BY <1>1, <1>2, <1>3, <1>4 DEF RecStep

(* So do the pending non-creations and the reads of a pass.                *)
LEMMA PassInv ==
    ASSUME IInv, TypeOK', NEW g \in Generations, RecPending(g) \/ RecRead(g)
    PROVE  IInv'
<1> USE DEF IInv
<1>1. CASE RecPending(g)
  <2>1. /\ UNCHANGED <<boot, rec, todo, child, spawner, term, leader, helpers, created>>
        /\ pending' \subseteq pending /\ g \in pending
    BY <1>1 DEF RecPending
  <2>2. TableAges({g}, {})
    <3>1. gen[g].rev \in Nat
      BY DEF TypeOK, Row
    <3>2. QED  BY <1>1, <3>1, DeathAges DEF RecPending, EvidenceKinds, TableAges
  <2>3. created[g] = 0 /\ ~Live(g)
    BY <2>1 DEF TaskKnowledge, Lifetimes, Live
  <2>4. Lifetimes'
    BY <2>1, <2>2, <2>3 DEF TableAges, Lifetimes, Live
  <2>5. TaskKnowledge'
    BY <2>1, <2>2, <2>3 DEF TableAges, TaskKnowledge, Live, Quarantines
  <2>6. SnapshotKnowledge'
    BY <2>1, <2>2 DEF TableAges, SnapshotKnowledge, Live
  <2>7. QED  BY <2>2, <2>4, <2>5, <2>6, AgingKeepsHolder
<1>2. CASE RecRead(g)
  <2>1. /\ UNCHANGED <<gen, boot, pending, child, spawner, term, leader, helpers, created>>
        /\ todo' \subseteq todo /\ rec'.g = g /\ rec'.pc = "check" /\ rec'.snap = gen[g]
    BY <1>2 DEF RecRead, RecGoto
  <2>2. gen[g].state # "absent"
    BY <1>2 DEF RecRead, PassGenerations, Quarantines, TaskKnowledge
  <2>3. Lifetimes' /\ TaskKnowledge'
    BY <2>1 DEF Lifetimes, TaskKnowledge, Live
  <2>4. SnapshotKnowledge'
    BY <2>1, <2>2 DEF SnapshotKnowledge
  <2>5. QED  BY <2>1, <2>3, <2>4, NothingAges, AgingKeepsHolder
<1>3. QED  BY <1>1, <1>2

(* The pending non-creations and the reads of a pass keep the types.       *)
LEMMA PassTyped ==
    ASSUME TypeOK, NEW g \in Generations, RecPending(g) \/ RecRead(g)
    PROVE  TypeOK'
<1>1. CASE RecPending(g)
  <2>1. gen[g].rev \in Nat
    BY DEF TypeOK, Row
  <2>2. gen' \in [Generations -> Row] /\ faults' \in Nat
    BY <1>1, <2>1, ResultsAreRows, WriteTyped DEF RecPending, EvidenceKinds, TypeOK
  <2>3. QED  BY <1>1, <2>2 DEF RecPending, TypeOK
<1>2. CASE RecRead(g)
  <2>1. rec' \in Rec
    BY <1>2, RecRecordsTyped DEF RecRead, RecStates, EvidenceKinds, TypeOK
  <2>2. QED  BY <1>2, <2>1 DEF RecRead, TypeOK
<1>3. QED  BY <1>1, <1>2

(* Every step keeps the invariant.                                         *)
LEMMA NextInv == IInv /\ [Next]_vars => IInv'
<1> SUFFICES ASSUME IInv, [Next]_vars PROVE IInv'
  OBVIOUS
<1>1. TypeOK /\ (rec.pc # "idle" => RecTarget)
  BY DEF IInv, SnapshotKnowledge, RecTarget, TypeOK, Rec
<1>2. CASE Start \/ StartServing \/ Crash \/ Reboot
  BY <1>1, <1>2, HostTyped, HostInv
<1>3. CASE RecStep
  BY <1>1, <1>3, RecTyped, RecInv
<1>4. ASSUME NEW g \in Generations, SpawnStep(g) PROVE IInv'
  BY <1>1, <1>4, SpawnTyped, SpawnInv
<1>5. ASSUME NEW g \in Generations, TermStep(g) PROVE IInv'
  BY <1>1, <1>5, TermTyped, TermInv
<1>6. ASSUME NEW g \in Generations, RecPending(g) \/ RecRead(g) PROVE IInv'
  BY <1>1, <1>6, PassTyped, PassInv
<1>7. ASSUME NEW g \in Generations, OsStep(g) PROVE IInv'
  BY <1>1, <1>7, OsTyped, OsInv
<1>8. CASE UNCHANGED vars
  BY <1>8 DEF vars, IInv, TypeOK, Lifetimes, TaskKnowledge, SnapshotKnowledge, OneHolder, Live
<1>9. QED  BY <1>2, <1>3, <1>4, <1>5, <1>6, <1>7, <1>8 DEF Next

----------------------------------------------------------------------------
(* The theorems.                                                           *)

(* The inductive invariant is one.                                         *)
THEOREM Invariance == Spec => []IInv
  BY InitInv, NextInv, PTL DEF Spec

(* Every variable keeps its type: no operation leaves a row, a handle or a *)
(* task in a form the code has no state for.                               *)
THEOREM TypeCorrect == Spec => []TypeOK
<1>1. IInv => TypeOK
  BY DEF IInv
<1>2. QED  BY <1>1, Invariance, PTL

(* A row recorded dead has no live process group, on every path that       *)
(* records death, for any number of generations, crashes and faults.       *)
THEOREM DeathIsTruthful == Spec => []TruthfulDeath
<1>1. IInv => TruthfulDeath
  BY DEF IInv, Lifetimes, TruthfulDeath
<1>2. QED  BY <1>1, Invariance, PTL

(* No account ever has two live process groups: whoever lives holds the    *)
(* account's quarantine, and there is one holder.                          *)
THEOREM AccountIsExclusive == Spec => []OneProcessPerAccount
<1>1. IInv => \A g \in Generations : Live(g) => Quarantines(gen[g])
  BY DEF IInv, TypeOK, Lifetimes, Live, Quarantines
<1>2. IInv => OneProcessPerAccount
  BY <1>1 DEF IInv, OneHolder, OneProcessPerAccount
<1>3. QED  BY <1>2, Invariance, PTL

(* A generation id creates at most one process, however often its launch   *)
(* is requested again.                                                     *)
THEOREM FenceIsSpentOnce == Spec => []OneCreationPerFence
<1>1. ASSUME IInv, NEW g \in Generations PROVE created[g] <= 1
  <2>1. created[g] = 0 \/ created[g] = 1
    BY <1>1 DEF IInv, Lifetimes
  <2>2. QED  BY <2>1
<1>2. IInv => OneCreationPerFence
  BY <1>1 DEF OneCreationPerFence
<1>3. QED  BY <1>2, Invariance, PTL
=============================================================================
