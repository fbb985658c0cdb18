--------------------- MODULE SupervisorRefinementProofs ---------------------
(***************************************************************************)
(* The supervisor's table moves one revision at a time, and the supervisor *)
(* implements the abstract account slot: for every set of generations,     *)
(* accounts and bounds.                                                    *)
(***************************************************************************)
EXTENDS ProcessSupervisorProofs

USE DEF storeVars, localVars, taskVars, recVars, osVars, hostVars

----------------------------------------------------------------------------
(* Revisions.                                                              *)

(* A row stays, or goes on by one revision, from anything but death.       *)
RowSteps(old, new) ==
    \/ new = old
    \/ new.rev = old.rev + 1 /\ old.state # "dead" /\ new.state # "absent"

TableSteps == \A g \in Generations : RowSteps(gen[g], gen'[g])

(* A generation without a row has no revision, so its first is the next.   *)
AbsentIsNew == \A g \in Generations : gen[g].state = "absent" => gen[g].rev = 0

(* Each transaction of the store on one row is such a step.                *)
LEMMA TransactionsStep ==
    ASSUME NEW row \in Row, NEW expected
    PROVE  /\ \A b : RowSteps(row, BindIdentity(row, expected, b).row)
           /\ RowSteps(row, MarkReady(row, expected).row)
           /\ RowSteps(row, MarkStopping(row, expected).row)
           /\ \A reason : RowSteps(row, MarkDeathUnknown(row, expected, reason).row)
           /\ \A kind, identity, b :
                 RowSteps(row, RecordDeath(row, expected, kind, identity, b).row)
<1> USE DEF RowSteps, Update, Applied, Replayed, Rejected, Row
<1>1. \A b : RowSteps(row, BindIdentity(row, expected, b).row)
  BY DEF BindIdentity
<1>2. RowSteps(row, MarkReady(row, expected).row)
  BY DEF MarkReady, Transition
<1>3. RowSteps(row, MarkStopping(row, expected).row)
  BY DEF MarkStopping, Transition
<1>4. \A reason : RowSteps(row, MarkDeathUnknown(row, expected, reason).row)
  BY DEF MarkDeathUnknown
<1>5. \A kind, identity, b : RowSteps(row, RecordDeath(row, expected, kind, identity, b).row)
  BY DEF RecordDeath
<1>6. QED  BY <1>1, <1>2, <1>3, <1>4, <1>5

(* So is a preparation, and the projection after a restart.                *)
LEMMA PreparationSteps ==
    ASSUME TypeOK, AbsentIsNew, NEW g \in Generations
    PROVE  RowSteps(gen[g], PrepareGeneration(gen, g, boot).row)
  BY DEF RowSteps, PrepareGeneration, Applied, Replayed, Rejected, AbsentIsNew, TypeOK, Row

LEMMA ProjectionSteps ==
    ASSUME TypeOK, NEW g \in Generations
    PROVE  RowSteps(gen[g], ProjectAfterSupervisorLoss(gen)[g])
  BY DEF RowSteps, ProjectAfterSupervisorLoss, Update, TypeOK, Row

(* A store call steps the table as its result steps the row.               *)
LEMMA WriteSteps ==
    ASSUME TypeOK, NEW g \in Generations, NEW result, RowSteps(gen[g], result.row),
           NEW reply, Write(g, result, reply)
    PROVE  TableSteps
  BY DEF Write, TableSteps, RowSteps, TypeOK

LEMMA NothingSteps == UNCHANGED gen => TableSteps
  BY DEF TableSteps, RowSteps

LEMMA SpawnSteps ==
    ASSUME TypeOK, AbsentIsNew, NEW g \in Generations, SpawnStep(g)
    PROVE  TableSteps
<1>0. gen[g] \in Row
  BY DEF TypeOK
<1>1. CASE UNCHANGED gen
  BY <1>1, NothingSteps
<1>2. CASE SpawnPrepare(g)
  BY <1>2, PreparationSteps, WriteSteps DEF SpawnPrepare
<1>3. CASE SpawnNotCreated(g)
  BY <1>0, <1>3, TransactionsStep, WriteSteps DEF SpawnNotCreated
<1>4. CASE SpawnBind(g)
  BY <1>0, <1>4, TransactionsStep, WriteSteps DEF SpawnBind
<1>5. CASE SpawnQuarantine(g)
  BY <1>0, <1>1, <1>5, TransactionsStep, WriteSteps DEF SpawnQuarantine
<1>6. CASE MarkSpawnedReady(g)
  BY <1>0, <1>6, TransactionsStep, WriteSteps DEF MarkSpawnedReady
<1>7. QED
  BY <1>1, <1>2, <1>3, <1>4, <1>5, <1>6
  DEF SpawnStep, SpawnReserve, SpawnAbandon, SpawnProcess, SpawnInspect, Initialize,
      FollowReceipt, LaunchFails

LEMMA TermSteps ==
    ASSUME TypeOK, NEW g \in Generations, TermStep(g)
    PROVE  TableSteps
<1>0. gen[g] \in Row
  BY DEF TypeOK
<1>1. CASE UNCHANGED gen
  BY <1>1, NothingSteps
<1>2. CASE TermStopping(g)
  BY <1>0, <1>2, TransactionsStep, WriteSteps DEF TermStopping
<1>3. CASE TermDeath(g)
  BY <1>0, <1>3, TransactionsStep, WriteSteps DEF TermDeath
<1>4. CASE TermUnproved(g)
  BY <1>0, <1>4, TransactionsStep, WriteSteps DEF TermUnproved
<1>5. QED
  BY <1>1, <1>2, <1>3, <1>4
  DEF TermStep, TermRead, TermTake, TermSignal, TermObserveExit, TermProve, TermPlatformError,
      TermCancel

LEMMA PassSteps ==
    ASSUME IInv, RecStep \/ \E g \in Generations : RecPending(g) \/ RecRead(g)
    PROVE  TableSteps
<1>0. TypeOK /\ (rec.pc # "idle" => rec.g \in Generations)
  BY DEF IInv, SnapshotKnowledge
<1>1. CASE UNCHANGED gen
  BY <1>1, NothingSteps
<1>2. CASE RecMark
  <2>1. rec.g \in Generations /\ gen[rec.g] \in Row
    BY <1>0, <1>2 DEF RecMark, TypeOK
  <2>2. QED  BY <1>0, <1>2, <2>1, TransactionsStep, WriteSteps DEF RecMark
<1>3. CASE RecWrite
  <2>1. rec.g \in Generations /\ gen[rec.g] \in Row
    BY <1>0, <1>3 DEF RecWrite, TypeOK
  <2>2. QED  BY <1>0, <1>3, <2>1, TransactionsStep, WriteSteps DEF RecWrite
<1>4. ASSUME NEW g \in Generations, RecPending(g)
      PROVE  TableSteps
  <2>1. gen[g] \in Row
    BY <1>0 DEF TypeOK
  <2>2. QED  BY <1>0, <1>1, <1>4, <2>1, TransactionsStep, WriteSteps DEF RecPending
<1>5. QED
  BY <1>1, <1>2, <1>3, <1>4 DEF RecStep, RecCheck, RecSettleMarked, RecRead

LEMMA NextSteps == IInv /\ AbsentIsNew /\ [Next]_vars => TableSteps
<1> SUFFICES ASSUME IInv, AbsentIsNew, [Next]_vars PROVE TableSteps
  OBVIOUS
<1>0. TypeOK
  BY DEF IInv
<1>1. CASE UNCHANGED gen
  BY <1>1, NothingSteps
<1>2. CASE Start
  BY <1>0, <1>2, ProjectionSteps DEF Start, TableSteps
<1>3. QED
  BY <1>0, <1>1, <1>2, SpawnSteps, TermSteps, PassSteps
  DEF Next, StartServing, Crash, Reboot, OsStep, LeaderExits, HelperStarts, HelperExits,
      ReapAbandoned, PidReused, vars

(* Rows change only by the next revision and never leave death: the        *)
(* revision in the WHERE clause of every UPDATE in process_generations.rs  *)
(* lets one of several holders of a revision commit.                       *)
THEOREM RevisionsAreFenced == Spec => RevisionFencesEveryChange
<1>1. Init => AbsentIsNew
  BY DEF Init, AbsentIsNew, AbsentRow
<1>2. AbsentIsNew /\ TableSteps => AbsentIsNew'
  BY DEF AbsentIsNew, TableSteps, RowSteps
<1>3. TableSteps => [\A g \in Generations :
                        gen'[g] # gen[g] => /\ gen'[g].rev = gen[g].rev + 1
                                            /\ gen[g].state # "dead"]_vars
  BY DEF TableSteps, RowSteps
<1>4. QED  BY <1>1, <1>2, <1>3, NextSteps, Invariance, PTL DEF Spec, RevisionFencesEveryChange

----------------------------------------------------------------------------
(* The account slot.                                                       *)

SlotStep == Slot!SlotNext \/ UNCHANGED Slot!slotVars

(* A step that records no death and creates nothing ends processes at most.*)
LEMMA EndStep ==
    ASSUME NEW binding, TableAges({}, binding), UNCHANGED created,
           \A h \in Generations : Live(h)' => Live(h)
    PROVE  SlotStep
<1>1. \A h \in Generations : /\ Quarantines(gen'[h]) <=> Quarantines(gen[h])
                             /\ gen'[h].state = "absent" <=> gen[h].state = "absent"
  BY DEF TableAges, Quarantines
<1>2. Slot!End
  BY <1>1 DEF Slot!End
<1>3. QED  BY <1>2 DEF SlotStep, Slot!SlotNext

(* A step that may record the death of a generation gives its slot back:   *)
(* nothing of it runs (Lifetimes).                                         *)
LEMMA DeathStep ==
    ASSUME Lifetimes', NEW g \in Generations, TableAges({g}, {}),
           UNCHANGED <<created, leader, helpers>>
    PROVE  SlotStep
<1>1. \A h \in Generations : Live(h)' <=> Live(h)
  BY DEF Live
<1>2. CASE gen'[g].state # "dead" \/ gen[g].state = "dead"
  <2>1. TableAges({}, {})
    BY <1>2 DEF TableAges
  <2>2. QED  BY <1>1, <2>1, EndStep
<1>3. CASE gen'[g].state = "dead" /\ gen[g].state # "dead"
  <2>1. ~Live(g)
    BY <1>1, <1>3 DEF Lifetimes
  <2>2. \A h \in Generations :
           /\ Quarantines(gen'[h]) <=> Quarantines(gen[h]) /\ h # g
           /\ gen'[h].state = "absent" <=> gen[h].state = "absent"
    BY <1>3 DEF TableAges, Quarantines
  <2>3. Quarantines(gen[g])
    BY <1>3 DEF TableAges, Quarantines
  <2>4. Slot!Release(g)
    BY <1>1, <2>1, <2>2, <2>3 DEF Slot!Release
  <2>5. QED  BY <2>4 DEF SlotStep, Slot!SlotNext
<1>4. QED  BY <1>2, <1>3

(* The preparation of a launch takes the slot, or nothing.                 *)
LEMMA PrepareStep ==
    ASSUME IInv, NEW g \in Generations, SpawnPrepare(g)
    PROVE  SlotStep
<1> DEFINE result == PrepareGeneration(gen, g, boot)
<1>1. gen \in [Generations -> Row] /\ boot \in Nat
  BY DEF IInv, TypeOK
<1>2. /\ result.outcome # "applied" => result.row = gen[g]
      /\ result.outcome = "applied" =>
            /\ gen[g].state = "absent"
            /\ \A h \in Generations : AccountOf[h] = AccountOf[g] => ~Quarantines(gen[h])
            /\ result.row.state = "starting"
  BY <1>1, PrepareShape
<1>3. PICK reply \in Replies : Write(g, result, reply)
  BY DEF SpawnPrepare
<1> HIDE DEF result
<1>4. UNCHANGED created /\ \A h \in Generations : Live(h)' <=> Live(h)
  BY DEF SpawnPrepare, Live
<1>5. CASE gen' = gen
  BY <1>4, <1>5, NothingAges, EndStep
<1>6. CASE gen' # gen
  <2>1. /\ gen[g].state = "absent" /\ gen'[g].state = "starting"
        /\ \A h \in Generations : h # g => gen'[h] = gen[h]
        /\ \A h \in Generations : AccountOf[h] = AccountOf[g] => ~Quarantines(gen[h])
    BY <1>1, <1>2, <1>3, <1>6 DEF Write
  <2>2. Slot!Claim(g)
    BY <1>4, <2>1 DEF Slot!Claim, Quarantines
  <2>3. QED  BY <2>2 DEF SlotStep, Slot!SlotNext
<1>7. QED  BY <1>5, <1>6

(* The creation of the process happens under the slot, once.               *)
LEMMA ProcessStep ==
    ASSUME IInv, NEW g \in Generations, SpawnProcess(g)
    PROVE  SlotStep
<1>1. UNCHANGED <<gen, helpers>> /\ created[g] = 0 /\ Quarantines(gen[g])
  BY DEF SpawnProcess, IInv, TaskKnowledge
<1>2. CASE UNCHANGED <<leader, created>>
  BY <1>1, <1>2, NothingAges, EndStep DEF Live
<1>3. CASE /\ leader' = [leader EXCEPT ![g] = "alive"]
           /\ created' = [created EXCEPT ![g] = @ + 1]
  <2>1. \A h \in Generations : /\ Live(h)' <=> Live(h) \/ h = g
                               /\ created'[h] > 0 <=> created[h] > 0 \/ h = g
    BY <1>1, <1>3 DEF Live, IInv, TypeOK
  <2>2. Slot!Begin(g)
    BY <1>1, <2>1 DEF Slot!Begin
  <2>3. QED  BY <2>2 DEF SlotStep, Slot!SlotNext
<1>4. QED  BY <1>2, <1>3 DEF SpawnProcess

(* The other steps of a launch record a death at most.                     *)
LEMMA SpawnSlot ==
    ASSUME IInv, IInv', NEW g \in Generations, SpawnStep(g)
    PROVE  SlotStep
<1> USE DEF IInv
<1>1. CASE SpawnPrepare(g)
  BY <1>1, PrepareStep
<1>2. CASE SpawnProcess(g)
  BY <1>2, ProcessStep
<1>3. CASE SpawnNotCreated(g)
  <2>1. TableAges({g}, {})
    BY <1>3, DeathAges DEF SpawnNotCreated, TypeOK, Spawner, EvidenceKinds
  <2>2. UNCHANGED <<created, leader, helpers>>
    BY <1>3 DEF SpawnNotCreated
  <2>3. QED  BY <2>1, <2>2, DeathStep
<1>4. CASE \/ SpawnReserve(g) \/ SpawnAbandon(g) \/ Initialize(g) \/ FollowReceipt(g)
           \/ LaunchFails(g)
  <2>1. UNCHANGED <<gen, created, leader, helpers>>
    BY <1>4 DEF SpawnReserve, SpawnAbandon, Initialize, FollowReceipt, LaunchFails
  <2>2. QED  BY <2>1, NothingAges, EndStep DEF Live
<1>5. CASE SpawnInspect(g)
  <2>1. UNCHANGED <<gen, created>>
    BY <1>5 DEF SpawnInspect
  <2>2. \A h \in Generations : Live(h)' => Live(h)
    BY <1>5 DEF SpawnInspect, KillGroup, Live, TypeOK
  <2>3. QED  BY <2>1, <2>2, NothingAges, EndStep
<1>6. CASE SpawnBind(g)
  <2>1. TableAges({}, {g})
    BY <1>6, BindAges DEF SpawnBind, TypeOK, Spawner
  <2>2. UNCHANGED created
    BY <1>6 DEF SpawnBind
  <2>3. \A h \in Generations : Live(h)' => Live(h)
    BY <1>6 DEF SpawnBind, KillGroup, Live, TypeOK
  <2>4. QED  BY <2>1, <2>2, <2>3, EndStep
<1>7. CASE SpawnQuarantine(g)
  <2>1. TableAges({}, {})
    BY <1>7, DeathUnknownKeeps, WriteAges, NothingAges
    DEF SpawnQuarantine, TypeOK, Spawner, Row, LossReasons
  <2>2. UNCHANGED <<created, helpers>>
    BY <1>7 DEF SpawnQuarantine
  <2>3. \A h \in Generations : leader'[h] = leader[h] \/ leader'[h] = "reaped"
    BY <1>7 DEF SpawnQuarantine, Refresh, TypeOK
  <2>4. QED  BY <2>1, <2>2, <2>3, EndStep DEF Live
<1>8. CASE MarkSpawnedReady(g)
  <2>1. TableAges({}, {})
    BY <1>8, TransitionKeeps, WriteAges DEF MarkSpawnedReady, TypeOK
  <2>2. UNCHANGED <<created, leader, helpers>>
    BY <1>8 DEF MarkSpawnedReady
  <2>3. QED  BY <2>1, <2>2, EndStep DEF Live
<1>9. QED  BY <1>1, <1>2, <1>3, <1>4, <1>5, <1>6, <1>7, <1>8 DEF SpawnStep

(* So do those of a termination.                                           *)
LEMMA TermSlot ==
    ASSUME IInv, IInv', NEW g \in Generations, TermStep(g)
    PROVE  SlotStep
<1> USE DEF IInv
<1>1. CASE TermRead(g) \/ TermProve(g) \/ TermPlatformError(g) \/ TermCancel(g)
  <2>1. UNCHANGED <<gen, created, leader, helpers>>
    BY <1>1 DEF TermRead, TermProve, TermPlatformError, TermCancel
  <2>2. QED  BY <2>1, NothingAges, EndStep DEF Live
<1>2. CASE TermTake(g) \/ TermObserveExit(g)
  <2>1. UNCHANGED <<gen, created, helpers>>
    BY <1>2 DEF TermTake, TermObserveExit
  <2>2. \A h \in Generations : leader'[h] = leader[h] \/ leader'[h] = "reaped"
    BY <1>2 DEF TermTake, TermObserveExit, Refresh, TypeOK
  <2>3. QED  BY <2>1, <2>2, NothingAges, EndStep DEF Live
<1>3. CASE TermSignal(g)
  <2>1. UNCHANGED <<gen, created>>
    BY <1>3 DEF TermSignal
  <2>2. \A h \in Generations : Live(h)' => Live(h)
    BY <1>3 DEF TermSignal, KillGroup, Live, TypeOK
  <2>3. QED  BY <2>1, <2>2, NothingAges, EndStep
<1>4. CASE TermStopping(g)
  <2>1. TableAges({}, {})
    BY <1>4, TransitionKeeps, WriteAges DEF TermStopping, TypeOK, Term
  <2>2. UNCHANGED <<created, leader, helpers>>
    BY <1>4 DEF TermStopping
  <2>3. QED  BY <2>1, <2>2, EndStep DEF Live
<1>5. CASE TermUnproved(g)
  <2>1. TableAges({}, {})
    BY <1>5, DeathUnknownKeeps, WriteAges DEF TermUnproved, TypeOK, Term, LossReasons
  <2>2. UNCHANGED <<created, leader, helpers>>
    BY <1>5 DEF TermUnproved
  <2>3. QED  BY <2>1, <2>2, EndStep DEF Live
<1>6. CASE TermDeath(g)
  <2>1. TableAges({g}, {})
    BY <1>6, DeathAges DEF TermDeath, TypeOK, Term, EvidenceKinds
  <2>2. UNCHANGED <<created, leader, helpers>>
    BY <1>6 DEF TermDeath
  <2>3. QED  BY <2>1, <2>2, DeathStep
<1>7. QED  BY <1>1, <1>2, <1>3, <1>4, <1>5, <1>6 DEF TermStep

(* And those of the reconciler.                                            *)
LEMMA RecSlot ==
    ASSUME IInv, IInv', RecStep
    PROVE  SlotStep
<1> USE DEF IInv
<1>1. CASE RecCheck \/ RecSettleMarked
  <2>1. UNCHANGED gen /\ rec.pc # "idle" /\ rec.g \in Generations
    BY <1>1 DEF RecCheck, RecSettleMarked, SnapshotKnowledge
  <2>2. CASE RecSettle(rec.g, rec.snap)
    <3>1. Settled(rec.g, rec.snap)
      BY <2>1, <2>2, SettleShape
    <3>2. UNCHANGED created /\ \A h \in Generations : Live(h)' => Live(h)
      BY <3>1 DEF Settled, Live
    <3>3. QED  BY <2>1, <3>2, NothingAges, EndStep
  <2>3. CASE UNCHANGED osVars
    BY <2>1, <2>3, NothingAges, EndStep DEF Live
  <2>4. QED  BY <1>1, <2>2, <2>3 DEF RecCheck, RecSettleMarked, RecClear
<1>2. CASE RecMark
  <2>1. UNCHANGED <<created, leader, helpers>> /\ rec.g \in Generations
    BY <1>2 DEF RecMark, SnapshotKnowledge
  <2>2. TableAges({}, {})
    BY <1>2, <2>1, DeathUnknownKeeps, WriteAges DEF RecMark, LossReasons, Rec, Row, TypeOK
  <2>3. QED  BY <2>1, <2>2, EndStep DEF Live
<1>3. CASE RecWrite
  <2>1. UNCHANGED <<created, leader, helpers>> /\ rec.g \in Generations
    BY <1>3 DEF RecWrite, SnapshotKnowledge
  <2>2. TableAges({rec.g}, {})
    BY <1>3, <2>1, DeathAges DEF RecWrite, Rec, Row, TypeOK
  <2>3. QED  BY <2>1, <2>2, DeathStep
<1>4. QED  BY <1>1, <1>2, <1>3 DEF RecStep

(* The reads of a pass and the pending proofs, the host and the kernel.    *)
LEMMA PassSlot ==
    ASSUME IInv, IInv', NEW g \in Generations, RecPending(g) \/ RecRead(g) \/ OsStep(g)
    PROVE  SlotStep
<1> USE DEF IInv
<1>1. CASE RecPending(g)
  <2>1. gen[g].rev \in Nat
    BY DEF TypeOK, Row
  <2>2. TableAges({g}, {})
    BY <1>1, <2>1, DeathAges DEF RecPending, EvidenceKinds, TableAges
  <2>3. UNCHANGED <<created, leader, helpers>>
    BY <1>1 DEF RecPending
  <2>4. QED  BY <2>2, <2>3, DeathStep
<1>2. CASE RecRead(g)
  <2>1. UNCHANGED <<gen, created, leader, helpers>>
    BY <1>2 DEF RecRead
  <2>2. QED  BY <2>1, NothingAges, EndStep DEF Live
<1>3. CASE OsStep(g)
  <2>1. UNCHANGED <<gen, created>>
    BY <1>3 DEF OsStep, LeaderExits, HelperStarts, HelperExits, ReapAbandoned, PidReused
  <2>2. \A h \in Generations : Live(h)' => Live(h)
    BY <1>3
    DEF OsStep, LeaderExits, HelperStarts, HelperExits, ReapAbandoned, PidReused, Live, TypeOK
  <2>3. QED  BY <2>1, <2>2, NothingAges, EndStep
<1>4. QED  BY <1>1, <1>2, <1>3

LEMMA HostSlot ==
    ASSUME IInv, Start \/ StartServing \/ Crash \/ Reboot
    PROVE  SlotStep
<1> USE DEF IInv
<1>1. CASE Start
  <2>1. TableAges({}, {})
    BY <1>1, ProjectionKeeps DEF Start, TypeOK, TableAges, RowKept
  <2>2. QED  BY <1>1, <2>1, EndStep DEF Start, Live
<1>2. CASE StartServing \/ Crash
  <2>1. UNCHANGED <<gen, created, leader, helpers>>
    BY <1>2 DEF StartServing, Crash
  <2>2. QED  BY <2>1, NothingAges, EndStep DEF Live
<1>3. CASE Reboot
  <2>1. UNCHANGED <<gen, created>> /\ \A h \in Generations : ~Live(h)'
    BY <1>3 DEF Reboot, Live
  <2>2. QED  BY <2>1, NothingAges, EndStep
<1>4. QED  BY <1>1, <1>2, <1>3

(* Initially nobody holds a slot.                                          *)
LEMMA InitSlot == Init => Slot!SlotInit
<1> SUFFICES ASSUME Init PROVE Slot!SlotInit
  OBVIOUS
<1>1. \A g \in Generations : /\ gen[g].state = "absent" /\ created[g] = 0
                             /\ ~Live(g) /\ ~Quarantines(gen[g])
  BY DEF Init, AbsentRow, Live, Quarantines
<1>2. QED  BY <1>1 DEF Slot!SlotInit

(* The supervisor implements the account slot: every step of it, a crash,  *)
(* a reboot, a replayed launch or an unanswered store call included, takes *)
(* or returns one slot, starts one process under a slot, ends processes or *)
(* leaves the slots alone.                                                 *)
THEOREM SlotIsImplemented == Spec => ImplementsAccountSlot
<1>1. IInv /\ IInv' /\ [Next]_vars => [Slot!SlotNext]_(Slot!slotVars)
  <2> SUFFICES ASSUME IInv, IInv', [Next]_vars PROVE SlotStep
    BY DEF SlotStep
  <2>1. CASE UNCHANGED vars
    <3>1. UNCHANGED <<gen, created, leader, helpers>>
      BY <2>1 DEF vars
    <3>2. QED  BY <3>1, NothingAges, EndStep DEF Live
  <2>2. QED
    BY <2>1, HostSlot, RecSlot, SpawnSlot, TermSlot, PassSlot DEF Next
<1>2. QED
  BY <1>1, InitSlot, Invariance, PTL DEF Spec, ImplementsAccountSlot, Slot!SlotSpec
=============================================================================
