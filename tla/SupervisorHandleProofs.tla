----------------------- MODULE SupervisorHandleProofs -----------------------
(***************************************************************************)
(* Who holds the handle on a generation's child, and what that guards: for *)
(* every set of generations, accounts and bounds, a spawn keeps its        *)
(* reservation, a receipt admits only the generation's own process, no     *)
(* signal leaves the generation's process group, and only a generation     *)
(* whose handle is gone is projected as lost to a restart.                 *)
(***************************************************************************)
EXTENDS ProcessSupervisorProofs

USE DEF storeVars, localVars, taskVars, recVars, osVars, hostVars

----------------------------------------------------------------------------
(* The inductive invariant, beside IInv.                                   *)

(* The states in which a spawn has its child, and those in which it needs  *)
(* the reservation no longer; the states in which a termination has it.    *)
SpawnHolds == {"inspect", "bind", "fail_identity", "fail_bound"}
SpawnOver  == {"idle", "launched", "initialized", "readied"}
TermHolds  == {"stopping", "shutdown", "death"}

(* No handle exists, and no spawn is about to make one.                    *)
Unheld(g) == child[g].at = "none" /\ spawner[g].pc # "spawn"

(* The handle is where its task is, and the reservation covers it until    *)
(* the row is dead.  Nothing of it survives the supervisor.                *)
Custody(g) ==
    /\ created[g] = 0 => child[g].at = "none"
    /\ child[g].at = "spawner" <=> spawner[g].pc \in SpawnHolds
    /\ child[g].at = "terminator" <=> term[g].pc \in TermHolds
    /\ gen[g].state # "dead" /\ child[g].at \in {"registry", "terminator"}
          => g \in supervised /\ spawner[g].pc \in SpawnOver
    /\ gen[g].state # "dead" /\ spawner[g].pc \notin SpawnOver => g \in supervised
    /\ phase = "down" => child[g].at = "none" /\ spawner[g].pc = "idle"

(* A handle not known to have exited keeps the leader unreaped, so that    *)
(* its number is not reused; a leader that is still there belongs to a row *)
(* of this boot that is not dead.                                          *)
LeaderHeld(g) ==
    /\ child[g].at # "none" /\ child[g].status = "running" => LeaderPresent(g)
    /\ spawner[g].pc \in {"inspect", "bind"} => child[g].status = "running"
    /\ g \in reused => leader[g] = "reaped"
    /\ LeaderPresent(g) => gen[g].boot = boot
    /\ gen[g].state = "dead" => ~LeaderPresent(g)
    /\ term[g].pc = "death" => ~LeaderPresent(g)

(* What the row says of the receipt and of a restart.                      *)
RowTells(g) ==
    /\ fence[g] # 0 => gen[g].identity = "exact"
    /\ spawner[g].pc = "initialized" => fence[g] # 0
    /\ gen[g].reason = "supervisor_restarted" => Unheld(g) /\ gen[g].state # "absent"

Handled(g) == Custody(g) /\ LeaderHeld(g) /\ RowTells(g)

(* What stays true of the reconciler's snapshot while it waits: a death is *)
(* final, a generation seen without authority stays without, a proof of an *)
(* exit stays one.                                                         *)
RecHandled ==
    rec.pc # "idle" =>
        /\ rec.snap.state = "dead" => gen[rec.g].state = "dead"
        /\ rec.pc = "mark" => gen[rec.g].state = "dead" \/ Unheld(rec.g)
        /\ rec.pc = "write" => ~LeaderPresent(rec.g) \/ gen[rec.g].boot # boot

HInv == (\A g \in Generations : Handled(g)) /\ RecHandled /\ strayed = {}

----------------------------------------------------------------------------
(* Steps that act on one generation.                                       *)

(* The step leaves generation h alone.                                     *)
Same(h) ==
    /\ gen'[h] = gen[h] /\ child'[h] = child[h] /\ spawner'[h] = spawner[h]
    /\ term'[h] = term[h] /\ fence'[h] = fence[h] /\ leader'[h] = leader[h]
    /\ created'[h] = created[h]
    /\ h \in reused' <=> h \in reused
    /\ h \in supervised' <=> h \in supervised

OnlyAt(g) ==
    /\ UNCHANGED <<boot, phase>>
    /\ \A h \in Generations \ {g} : Same(h)

(* What no step of a task takes from a generation that has a row: its      *)
(* death, its boot, being unheld, and the absence of a leader.             *)
Calm(g) ==
    /\ gen[g].state = "dead" => gen'[g].state = "dead"
    /\ gen[g].state # "absent" => gen'[g].boot = gen[g].boot
    /\ gen[g].state # "absent" /\ Unheld(g) => Unheld(g)'
    /\ LeaderPresent(g)' => LeaderPresent(g) \/ (created[g] = 0 /\ gen[g].boot = boot)

(* A generation left alone stays handled.                                  *)
LEMMA SameKeeps ==
    ASSUME NEW h \in Generations, Handled(h), Same(h), UNCHANGED <<boot, phase>>
    PROVE  Handled(h)' /\ Calm(h)
  BY DEF Handled, Custody, LeaderHeld, RowTells, Unheld, LeaderPresent, Same, Calm

(* A step at one generation keeps the others.                              *)
LEMMA OnlyAtKeeps ==
    ASSUME HInv, NEW g \in Generations, OnlyAt(g), Handled(g)'
    PROVE  \A h \in Generations : Handled(h)'
  BY SameKeeps DEF HInv, OnlyAt

(* A step that is not the reconciler's keeps what it knows.                *)
LEMMA RecKeeps ==
    ASSUME IInv, HInv, UNCHANGED <<rec, boot>>, \A h \in Generations : Calm(h)
    PROVE  RecHandled'
<1>1. SUFFICES ASSUME rec.pc # "idle" PROVE RecHandled'
  BY DEF RecHandled
<1>2. /\ rec.g \in Generations /\ gen[rec.g].state # "absent"
      /\ rec.pc = "write" => gen[rec.g].boot # boot \/ created[rec.g] = 1
  BY <1>1 DEF IInv, SnapshotKnowledge
<1>3. Calm(rec.g)
  BY <1>2
<1>4. QED  BY <1>1, <1>2, <1>3 DEF Calm, HInv, RecHandled

(* So a step of a task at one generation keeps the invariant.              *)
LEMMA StepKeeps ==
    ASSUME IInv, HInv, NEW g \in Generations, OnlyAt(g), UNCHANGED rec,
           Handled(g)', Calm(g), strayed' = {}
    PROVE  HInv'
<1>1. \A h \in Generations : Handled(h)'
  BY OnlyAtKeeps
<1>2. \A h \in Generations : Calm(h)
  BY SameKeeps DEF HInv, OnlyAt
<1>3. RecHandled'
  BY <1>2, RecKeeps DEF OnlyAt
<1>4. QED  BY <1>1, <1>3 DEF HInv

----------------------------------------------------------------------------
(* What a store call does to the row.                                      *)

(* Only the reconciler's mark, and the projection at a start, give a row   *)
(* the reason of a restart.                                                *)
LEMMA TransitionReason ==
    ASSUME NEW row \in Row, NEW expected \in Nat,
           NEW result \in {MarkReady(row, expected), MarkStopping(row, expected)}
    PROVE  result.row = row \/ result.row.reason = "none"
  BY DEF MarkReady, MarkStopping, Transition, Update, Applied, Replayed, Rejected

(* A loss of authority gives the row the reason it was called with.        *)
LEMMA DeathUnknownReason ==
    ASSUME NEW row \in Row, NEW expected \in Nat, NEW reason
    PROVE  LET new == MarkDeathUnknown(row, expected, reason).row
           IN  new = row \/ new.reason = reason
  BY DEF MarkDeathUnknown, Update, Applied, Replayed, Rejected

(* A binding keeps the reason.                                             *)
LEMMA BindReason ==
    ASSUME NEW row \in Row, NEW expected \in Nat, NEW b
    PROVE  BindIdentity(row, expected, b).row.reason = row.reason
  BY DEF BindIdentity, Update, Applied, Replayed, Rejected

(* A death ends it.                                                        *)
LEMMA DeathReason ==
    ASSUME NEW row \in Row, NEW expected \in Nat, NEW kind, NEW identity, NEW b
    PROVE  LET new == RecordDeath(row, expected, kind, identity, b).row
           IN  new = row \/ new.reason = "none"
  BY DEF RecordDeath, Update, Applied, Replayed, Rejected

(* A confirmed death is in the row, a confirmed binding too.               *)
LEMMA ConfirmedResults ==
    ASSUME NEW row \in Row, NEW expected \in Nat, NEW reply
    PROVE  /\ \A kind, identity, b :
                 Confirmed(RecordDeath(row, expected, kind, identity, b), reply)
                    => RecordDeath(row, expected, kind, identity, b).row.state = "dead"
           /\ \A b : Confirmed(BindIdentity(row, expected, b), reply)
                    => BindIdentity(row, expected, b).row.identity = "exact"
  BY DEF Confirmed, Accepted, RecordDeath, BindIdentity, Applied, Replayed, Rejected, Update

(* The effect of a store call on the table: the named row becomes the      *)
(* result's or stays, and an answer means that it became it.               *)
LEMMA WriteEffect ==
    ASSUME TypeOK, NEW g \in Generations, NEW result, NEW reply, Write(g, result, reply)
    PROVE  /\ gen'[g] = gen[g] \/ gen'[g] = result.row
           /\ reply = "ok" => gen'[g] = result.row
           /\ \A h \in Generations \ {g} : gen'[h] = gen[h]
  BY DEF Write, TypeOK

(* The row keeps its boot, and its identity, death, existence and reason   *)
(* only come and go as handled.                                            *)
RowOn(g) ==
    /\ gen'[g].boot = gen[g].boot
    /\ gen[g].identity = "exact" => gen'[g].identity = "exact"
    /\ gen'[g].state = "absent" <=> gen[g].state = "absent"
    /\ gen[g].state = "dead" => gen'[g].state = "dead"
    /\ gen'[g].reason = "supervisor_restarted" => gen[g].reason = "supervisor_restarted"

(* Every task's transaction but a preparation does so; those that record   *)
(* no death leave a row that is not dead so.                               *)
LEMMA TransactionsOn ==
    ASSUME TypeOK, NEW g \in Generations, NEW expected \in Nat, NEW result, NEW reply,
           Write(g, result, reply)
    PROVE  /\ \A b : result = BindIdentity(gen[g], expected, b)
                 => RowOn(g) /\ gen'[g].state = gen[g].state
           /\ result \in {MarkReady(gen[g], expected), MarkStopping(gen[g], expected)}
                 => RowOn(g) /\ (gen'[g].state = "dead" => gen[g].state = "dead")
           /\ \A reason \in LossReasons :
                 result = MarkDeathUnknown(gen[g], expected, reason)
                 => /\ reason # "supervisor_restarted" => RowOn(g)
                    /\ gen'[g].state = "dead" => gen[g].state = "dead"
           /\ \A kind \in EvidenceKinds : \A identity, b :
                 result = RecordDeath(gen[g], expected, kind, identity, b) => RowOn(g)
<1>0. gen[g] \in Row /\ (gen'[g] = gen[g] \/ gen'[g] = result.row)
  BY WriteEffect DEF TypeOK
<1>1. CASE gen'[g] = gen[g]
  BY <1>1 DEF RowOn
<1>2. CASE gen'[g] = result.row
  <2>1. ASSUME NEW b, result = BindIdentity(gen[g], expected, b)
        PROVE  RowOn(g) /\ gen'[g].state = gen[g].state
    <3>1. /\ result.row.boot = gen[g].boot /\ result.row.state = gen[g].state
          /\ result.row.identity = gen[g].identity \/ result.row.identity = "exact"
      BY <1>0, <2>1, BindShape
    <3>2. result.row.reason = gen[g].reason
      BY <1>0, <2>1, BindReason
    <3>3. QED  BY <1>2, <3>1, <3>2 DEF RowOn
  <2>2. ASSUME result \in {MarkReady(gen[g], expected), MarkStopping(gen[g], expected)}
        PROVE  RowOn(g) /\ (gen'[g].state = "dead" => gen[g].state = "dead")
    BY <1>0, <1>2, <2>2, TransitionKeeps, TransitionReason DEF RowOn, RowKept
  <2>3. ASSUME NEW reason \in LossReasons, result = MarkDeathUnknown(gen[g], expected, reason)
        PROVE  /\ reason # "supervisor_restarted" => RowOn(g)
               /\ gen'[g].state = "dead" => gen[g].state = "dead"
    <3>1. RowKept(gen[g], result.row)
      BY <1>0, <2>3, DeathUnknownKeeps
    <3>2. result.row = gen[g] \/ result.row.reason = reason
      BY <1>0, <2>3, DeathUnknownReason
    <3>3. QED  BY <1>2, <3>1, <3>2 DEF RowOn, RowKept
  <2>4. ASSUME NEW kind \in EvidenceKinds, NEW identity, NEW b,
               result = RecordDeath(gen[g], expected, kind, identity, b)
        PROVE  RowOn(g)
    <3>1. /\ result.row.boot = gen[g].boot /\ result.row.identity = gen[g].identity
          /\ (result.row.state = "absent") <=> (gen[g].state = "absent")
          /\ result.row = gen[g] \/ result.row.state = "dead"
      BY <1>0, <2>4, RecordDeathShape
    <3>2. result.row = gen[g] \/ result.row.reason = "none"
      BY <1>0, <2>4, DeathReason
    <3>3. QED  BY <1>2, <3>1, <3>2 DEF RowOn
  <2>5. QED  BY <2>1, <2>2, <2>3, <2>4
<1>3. QED  BY <1>0, <1>1, <1>2

(* A recorded death, said of the call itself.                              *)
LEMMA DeathOn ==
    ASSUME TypeOK, NEW g \in Generations, NEW expected \in Nat, NEW kind \in EvidenceKinds,
           NEW identity, NEW b, NEW reply,
           Write(g, RecordDeath(gen[g], expected, kind, identity, b), reply)
    PROVE  /\ RowOn(g)
           /\ \A h \in Generations \ {g} : gen'[h] = gen[h]
           /\ Confirmed(RecordDeath(gen[g], expected, kind, identity, b), reply)
                 => gen'[g].state = "dead"
<1> DEFINE result == RecordDeath(gen[g], expected, kind, identity, b)
<1>1. gen[g] \in Row
  BY DEF TypeOK
<1>2. Confirmed(result, reply) => result.row.state = "dead"
  BY <1>1, ConfirmedResults
<1>3. Write(g, result, reply) /\ result = RecordDeath(gen[g], expected, kind, identity, b)
  OBVIOUS
<1> HIDE DEF result
<1>4. RowOn(g)
  BY <1>3, TransactionsOn
<1>5. QED  BY <1>2, <1>3, <1>4, WriteEffect DEF Confirmed

----------------------------------------------------------------------------
(* The initial state, the operating system and the supervisor's life.      *)

(* Nothing is held at first.                                               *)
LEMMA InitHandled == Init => HInv
  BY DEF Init, HInv, RecHandled, Handled, Custody, LeaderHeld, RowTells, Unheld, LeaderPresent,
         SpawnHolds, SpawnOver, TermHolds, AbsentRow, NoChild, Handle, IdleSpawner, IdleTerm, IdleRec

(* Processes exit, are reaped and have their numbers reused.               *)
LEMMA OsHandled ==
    ASSUME IInv, HInv, NEW g \in Generations, OsStep(g)
    PROVE  HInv'
<1>1. /\ UNCHANGED <<gen, child, spawner, term, fence, created, supervised, rec, strayed, boot, phase>>
      /\ \A h \in Generations \ {g} : leader'[h] = leader[h]
      /\ \/ reused' = reused
         \/ leader' = leader /\ leader[g] = "reaped" /\ reused' = reused \cup {g}
  BY DEF OsStep, LeaderExits, HelperStarts, HelperExits, ReapAbandoned, PidReused, IInv, TypeOK
<1>2. \/ leader'[g] = leader[g]
      \/ leader[g] = "alive" /\ leader'[g] = "zombie" /\ reused' = reused
      \/ leader[g] = "zombie" /\ leader'[g] = "reaped" /\ child[g].at = "none" /\ reused' = reused
  BY DEF OsStep, LeaderExits, HelperStarts, HelperExits, ReapAbandoned, PidReused, IInv, TypeOK
<1>3. OnlyAt(g)
  BY <1>1 DEF OnlyAt, Same
<1>4. Handled(g)' /\ Calm(g)
  <2>1. Handled(g)
    BY DEF HInv
  <2>2. Custody(g)' /\ RowTells(g)'
    BY <1>1, <2>1 DEF Handled, Custody, RowTells, Unheld
  <2>3. LeaderHeld(g)'
    <3>1. spawner[g].pc \in {"inspect", "bind"} => child[g].at = "spawner"
      BY <2>1 DEF Handled, Custody, SpawnHolds
    <3>2. QED  BY <1>1, <1>2, <2>1, <3>1 DEF Handled, LeaderHeld, LeaderPresent
  <2>4. Calm(g)
    BY <1>1, <1>2 DEF Calm, Unheld, LeaderPresent
  <2>5. QED  BY <2>2, <2>3, <2>4 DEF Handled
<1>5. QED  BY <1>1, <1>3, <1>4, StepKeeps DEF HInv

(* The supervisor starts, is lost, and the host reboots.                   *)
LEMMA HostHandled ==
    ASSUME IInv, HInv, Start \/ StartServing \/ Crash \/ Reboot
    PROVE  HInv'
<1>0. TypeOK
  BY DEF IInv
<1>1. CASE Start
  <2>1. /\ phase = "down" /\ phase' = "recovering" /\ gen' = ProjectAfterSupervisorLoss(gen)
        /\ UNCHANGED <<child, spawner, term, fence, leader, created, reused, supervised, rec, boot, strayed>>
    BY <1>1 DEF Start
  <2>2. \A g \in Generations : /\ RowKept(gen[g], gen'[g])
                               /\ gen'[g] = gen[g] \/ gen'[g].state # "absent"
    BY <1>0, <2>1, ProjectionKeeps DEF TypeOK, ProjectAfterSupervisorLoss, Update
  <2>3. ASSUME NEW g \in Generations PROVE Handled(g)' /\ Calm(g)
    <3>1. Handled(g) /\ child[g].at = "none" /\ spawner[g].pc = "idle"
      BY <2>1 DEF HInv, Handled, Custody
    <3>2. QED
      BY <2>1, <2>2, <3>1
      DEF Handled, Custody, LeaderHeld, RowTells, Unheld, LeaderPresent, Calm, RowKept
  <2>4. RecHandled'
    BY <2>1, <2>3, RecKeeps
  <2>5. QED  BY <2>1, <2>3, <2>4 DEF HInv
<1>2. CASE StartServing
  <2>1. /\ phase = "recovering" /\ phase' = "serving"
        /\ UNCHANGED <<gen, child, spawner, term, fence, leader, created, reused, supervised, rec, boot, strayed>>
    BY <1>2 DEF StartServing
  <2>2. \A g \in Generations : Handled(g)'
    BY <2>1 DEF HInv, Handled, Custody, LeaderHeld, RowTells, Unheld, LeaderPresent
  <2>3. RecHandled'
    BY <2>1 DEF HInv, RecHandled, Unheld, LeaderPresent
  <2>4. QED  BY <2>1, <2>2, <2>3 DEF HInv
<1>3. CASE Crash \/ Reboot
  <2>1. LoseSupervisor /\ UNCHANGED <<gen, created, strayed>>
    BY <1>3 DEF Crash, Reboot
  <2>2. /\ rec'.pc = "idle"
        /\ \A g \in Generations :
              /\ child'[g].at = "none" /\ spawner'[g].pc = "idle" /\ term'[g].pc = "idle"
              /\ child'[g].status = "running" /\ fence'[g] = 0
    BY <2>1 DEF LoseSupervisor, NoChild, Handle, IdleSpawner, IdleTerm, IdleRec
  <2>3. \A g \in Generations :
           \/ boot' = boot /\ leader' = leader /\ reused' = reused
           \/ ~LeaderPresent(g)' /\ g \notin reused'
    BY <1>3 DEF Crash, Reboot, LeaderPresent
  <2>4. ASSUME NEW g \in Generations PROVE Handled(g)'
    <3>1. Custody(g)'
      BY <2>2 DEF Custody, SpawnHolds, SpawnOver, TermHolds
    <3>2. LeaderHeld(g)'
      BY <2>1, <2>2, <2>3 DEF LeaderHeld, LeaderPresent, HInv, Handled
    <3>3. RowTells(g)'
      BY <2>1, <2>2 DEF RowTells, Unheld, HInv, Handled
    <3>4. QED  BY <3>1, <3>2, <3>3 DEF Handled
  <2>5. QED  BY <2>1, <2>2, <2>4 DEF HInv, RecHandled
<1>4. QED  BY <1>1, <1>2, <1>3

----------------------------------------------------------------------------
(* Spawning.                                                               *)

(* What the two invariants say of one generation.                          *)
LEMMA AtGeneration ==
    ASSUME IInv, HInv, NEW g \in Generations
    PROVE  /\ TypeOK /\ Handled(g) /\ strayed = {} /\ gen[g] \in Row
           /\ created[g] = 0 <=> leader[g] = "none"
           /\ created[g] \in {0, 1}
           /\ gen[g].identity = "exact" => created[g] = 1
           /\ created[g] = 1 => gen[g].state # "absent"
           /\ gen[g].state = "absent" => created[g] = 0 /\ fence[g] = 0
           /\ child[g].status = "exited" => leader[g] = "reaped"
           /\ spawner[g].pc = "spawn" =>
                 created[g] = 0 /\ Quarantines(gen[g]) /\ gen[g].boot = boot
           /\ spawner[g].pc = "not_created" => created[g] = 0 /\ gen[g].state # "absent"
           /\ g \in pending => created[g] = 0 /\ gen[g].state # "absent"
           /\ child[g].status \in {"running", "exited"}
           /\ spawner[g].rev \in Nat /\ term[g].rev \in Nat /\ fence[g] \in Nat
  BY DEF IInv, HInv, TypeOK, Lifetimes, TaskKnowledge, Handled, RowTells, Child, Spawner, Term

(* The effect of a preparation: the row is made, or it is left.            *)
LEMMA PrepareEffect ==
    ASSUME TypeOK, NEW g \in Generations, NEW reply,
           Write(g, PrepareGeneration(gen, g, boot), reply)
    PROVE  /\ \A h \in Generations \ {g} : gen'[h] = gen[h]
           /\ \/ /\ gen'[g] = gen[g]
                 /\ ~(reply = "ok" /\ PrepareGeneration(gen, g, boot).outcome = "applied")
              \/ /\ gen[g].state = "absent" /\ gen'[g].state = "starting"
                 /\ gen'[g].boot = boot /\ gen'[g].reason = "none"
                 /\ gen'[g].identity = "none"
<1> DEFINE result == PrepareGeneration(gen, g, boot)
<1>1. \/ result.outcome # "applied" /\ result.row = gen[g]
      \/ /\ gen[g].state = "absent" /\ result.row.state = "starting"
         /\ result.row.boot = boot /\ result.row.reason = "none"
         /\ result.row.identity = "none"
  BY DEF PrepareGeneration, Applied, Replayed, Rejected
<1> HIDE DEF result
<1>2. Write(g, result, reply)
  BY DEF result
<1>3. QED  BY <1>1, <1>2, WriteEffect DEF result

(* A signal to the group leaves its leader to be reaped, and stays in the  *)
(* group while the leader is there.                                        *)
LEMMA KillEffect ==
    ASSUME TypeOK, NEW g \in Generations, KillGroup(g), strayed = {}, g \notin reused
    PROVE  /\ strayed' = {}
           /\ \A h \in Generations \ {g} : leader'[h] = leader[h]
           /\ LeaderPresent(g)' <=> LeaderPresent(g)
           /\ leader[g] \notin {"alive", "zombie"} => leader'[g] = leader[g]
  BY DEF TypeOK, KillGroup, LeaderPresent

(* So does the reaping of one child.                                       *)
LEMMA RefreshEffect ==
    ASSUME TypeOK, NEW g \in Generations, Refresh(g)
    PROVE  /\ \A h \in Generations \ {g} : leader'[h] = leader[h]
           /\ leader[g] = "zombie" => leader'[g] = "reaped"
           /\ leader[g] # "zombie" => leader'[g] = leader[g]
  BY DEF TypeOK, Refresh

(* The reservation and the preparation.                                    *)
LEMMA ReserveHandled ==
    ASSUME IInv, HInv, NEW g \in Generations,
           SpawnReserve(g) \/ SpawnPrepare(g) \/ SpawnAbandon(g)
    PROVE  HInv'
<1> USE DEF SpawnHolds, SpawnOver, TermHolds, Handled, Custody, LeaderHeld, RowTells, Unheld, LeaderPresent
<1>0. TypeOK /\ Handled(g) /\ strayed = {}
  BY AtGeneration
<1>1. CASE SpawnReserve(g)
  <2>1. /\ UNCHANGED <<gen, child, term, fence, leader, created, reused, rec, strayed, boot, phase>>
        /\ phase = "serving" /\ g \notin supervised /\ spawner[g].pc = "idle"
        /\ spawner'[g].pc = "prepare" /\ supervised' = supervised \cup {g}
        /\ \A h \in Generations \ {g} : spawner'[h] = spawner[h]
    BY <1>0, <1>1 DEF SpawnReserve, SpawnGoto, TypeOK
  <2>2. OnlyAt(g)
    BY <2>1 DEF OnlyAt, Same
  <2>3. Handled(g)' /\ Calm(g)
    BY <1>0, <2>1 DEF Calm
  <2>4. QED  BY <1>0, <2>1, <2>2, <2>3, StepKeeps
<1>2. CASE SpawnPrepare(g)
  <2>1. PICK reply \in Replies :
          LET result == PrepareGeneration(gen, g, boot)
          IN  /\ Write(g, result, reply)
              /\ IF reply = "ok" /\ result.outcome = "applied"
                 THEN SpawnGoto(g, "spawn", 1) /\ UNCHANGED <<supervised, child>>
                 ELSE ReleaseSpawn(g)
    BY <1>2 DEF SpawnPrepare
  <2>2. /\ UNCHANGED <<term, fence, leader, created, reused, rec, strayed, boot, phase>>
        /\ spawner[g].pc = "prepare"
    BY <1>2 DEF SpawnPrepare
  <2>3. /\ \A h \in Generations \ {g} : gen'[h] = gen[h] /\ child'[h] = child[h]
                                        /\ spawner'[h] = spawner[h]
        /\ \A h \in Generations \ {g} : h \in supervised' <=> h \in supervised
        /\ child'[g] = child[g]
    BY <1>0, <2>1, <2>2, PrepareEffect DEF SpawnGoto, ReleaseSpawn, TypeOK
  <2>4. \/ /\ gen'[g] = gen[g]
           /\ spawner'[g].pc = "idle" /\ g \notin supervised'
        \/ /\ gen[g].state = "absent" /\ gen'[g].state = "starting"
           /\ gen'[g].boot = boot /\ gen'[g].reason = "none" /\ gen'[g].identity = "none"
           /\ \/ spawner'[g].pc = "idle"
              \/ spawner'[g].pc = "spawn" /\ supervised' = supervised
    BY <1>0, <2>1, PrepareEffect DEF SpawnGoto, ReleaseSpawn, IdleSpawner, TypeOK
  <2>5. OnlyAt(g)
    BY <2>2, <2>3 DEF OnlyAt, Same
  <2>6. gen[g].state = "absent" => created[g] = 0 /\ fence[g] = 0 /\ leader[g] = "none"
    BY AtGeneration
  <2>7. Handled(g)' /\ Calm(g)
    BY <1>0, <2>2, <2>3, <2>4, <2>6 DEF Calm
  <2>8. QED  BY <1>0, <2>2, <2>5, <2>7, StepKeeps
<1>3. CASE SpawnAbandon(g)
  <2>1. /\ UNCHANGED <<gen, term, fence, leader, created, reused, rec, strayed, boot, phase>>
        /\ spawner[g].pc \in {"prepare", "not_created", "bind", "fail_identity", "fail_bound"}
        /\ spawner'[g].pc = "idle" /\ supervised' = supervised \ {g}
        /\ child[g].at = "spawner" => child'[g].at = "none" /\ child'[g].status = "running"
        /\ child[g].at # "spawner" => child'[g] = child[g]
        /\ \A h \in Generations \ {g} : spawner'[h] = spawner[h] /\ child'[h] = child[h]
    BY <1>0, <1>3 DEF SpawnAbandon, ReleaseSpawn, IdleSpawner, NoChild, Handle, TypeOK
  <2>2. OnlyAt(g)
    BY <2>1 DEF OnlyAt, Same
  <2>3. Handled(g)' /\ Calm(g)
    BY <1>0, <2>1 DEF Calm
  <2>4. QED  BY <1>0, <2>1, <2>2, <2>3, StepKeeps
<1>4. QED  BY <1>1, <1>2, <1>3

(* The creation of the process, or its failure.                            *)
LEMMA ProcessHandled ==
    ASSUME IInv, HInv, NEW g \in Generations, SpawnProcess(g) \/ SpawnNotCreated(g)
    PROVE  HInv'
<1> USE DEF SpawnHolds, SpawnOver, TermHolds, Handled, Custody, LeaderHeld, RowTells, Unheld, LeaderPresent
<1>0. TypeOK /\ Handled(g) /\ strayed = {}
  BY AtGeneration
<1>1. CASE SpawnProcess(g)
  <2>1. /\ UNCHANGED <<gen, term, fence, reused, supervised, rec, strayed, boot, phase>>
        /\ spawner[g].pc = "spawn"
        /\ \A h \in Generations \ {g} : /\ spawner'[h] = spawner[h] /\ child'[h] = child[h]
                                        /\ leader'[h] = leader[h] /\ created'[h] = created[h]
    BY <1>0, <1>1 DEF SpawnProcess, SpawnGoto, TypeOK
  <2>2. \/ /\ leader'[g] = "alive" /\ created'[g] = created[g] + 1
           /\ child'[g].at = "spawner" /\ child'[g].status = "running"
           /\ spawner'[g].pc = "inspect"
        \/ UNCHANGED <<leader, created, child>> /\ spawner'[g].pc = "not_created"
    BY <1>0, <1>1 DEF SpawnProcess, SpawnGoto, Handle, TypeOK
  <2>3. /\ created[g] = 0 /\ leader[g] = "none" /\ gen[g].boot = boot
        /\ gen[g].state \notin {"absent", "dead"}
    BY <2>1, AtGeneration DEF Quarantines
  <2>4. OnlyAt(g)
    BY <2>1 DEF OnlyAt, Same
  <2>5. Handled(g)' /\ Calm(g)
    BY <1>0, <2>1, <2>2, <2>3 DEF Calm
  <2>6. QED  BY <1>0, <2>1, <2>4, <2>5, StepKeeps
<1>2. CASE SpawnNotCreated(g)
  <2>1. PICK reply \in Replies :
          LET result == RecordDeath(gen[g], spawner[g].rev, "spawn_not_created", "none", boot)
          IN  /\ Write(g, result, reply)
              /\ IF Confirmed(result, reply)
                 THEN ReleaseSpawn(g) /\ UNCHANGED pending
                 ELSE /\ pending' = pending \cup {g}
                      /\ spawner' = [spawner EXCEPT ![g] = IdleSpawner]
                      /\ UNCHANGED <<supervised, child>>
    BY <1>2 DEF SpawnNotCreated
  <2> DEFINE result == RecordDeath(gen[g], spawner[g].rev, "spawn_not_created", "none", boot)
  <2>2. /\ UNCHANGED <<term, fence, leader, created, reused, rec, strayed, boot, phase>>
        /\ spawner[g].pc = "not_created"
    BY <1>2 DEF SpawnNotCreated
  <2>3. /\ gen[g] \in Row /\ spawner[g].rev \in Nat /\ created[g] = 0 /\ leader[g] = "none"
        /\ gen[g].state # "absent"
    BY <2>2, AtGeneration
  <2>4. "spawn_not_created" \in EvidenceKinds
    BY DEF EvidenceKinds
  <2>5. RowOn(g) /\ \A h \in Generations \ {g} : gen'[h] = gen[h]
    BY <1>0, <2>1, <2>3, <2>4, DeathOn
  <2>6. Confirmed(result, reply) => gen'[g].state = "dead"
    BY <1>0, <2>1, <2>3, <2>4, DeathOn
  <2>7. /\ \A h \in Generations \ {g} : child'[h] = child[h] /\ spawner'[h] = spawner[h]
        /\ \A h \in Generations \ {g} : h \in supervised' <=> h \in supervised
        /\ child'[g] = child[g] /\ spawner'[g].pc = "idle"
        /\ supervised' = supervised \/ gen'[g].state = "dead"
    <3> HIDE DEF result
    <3>1. \/ ReleaseSpawn(g) /\ gen'[g].state = "dead"
          \/ /\ spawner' = [spawner EXCEPT ![g] = IdleSpawner]
             /\ UNCHANGED <<supervised, child>>
      BY <2>1, <2>6 DEF result
    <3>2. QED  BY <1>0, <2>2, <3>1 DEF ReleaseSpawn, IdleSpawner, TypeOK
  <2>8. OnlyAt(g)
    BY <2>2, <2>5, <2>7 DEF OnlyAt, Same
  <2>9. Handled(g)' /\ Calm(g)
    BY <1>0, <2>2, <2>3, <2>5, <2>7 DEF Calm, RowOn
  <2>10. QED  BY <1>0, <2>2, <2>8, <2>9, StepKeeps
<1>3. QED  BY <1>1, <1>2

(* The inspection and the binding of the identity.                         *)
LEMMA BindHandled ==
    ASSUME IInv, HInv, NEW g \in Generations, SpawnInspect(g) \/ SpawnBind(g)
    PROVE  HInv'
<1> USE DEF SpawnHolds, SpawnOver, TermHolds, Handled, Custody, LeaderHeld, RowTells, Unheld, LeaderPresent
<1>0. TypeOK /\ Handled(g) /\ strayed = {}
  BY AtGeneration
<1>1. spawner[g].pc \in {"inspect", "bind"} /\ UNCHANGED <<term, created, reused, rec, boot, phase, supervised>>
  BY DEF SpawnInspect, SpawnBind
<1>2. /\ child[g].at = "spawner" /\ child[g].status = "running" /\ leader[g] \in {"alive", "zombie"}
      /\ g \notin reused
  BY <1>0, <1>1
<1>3. CASE SpawnInspect(g)
  <2>1. UNCHANGED <<leader, helpers, strayed>> \/ KillGroup(g)
    BY <1>3 DEF SpawnInspect
  <2>2. /\ strayed' = {} /\ leader'[g] \in {"alive", "zombie"}
        /\ \A h \in Generations \ {g} : leader'[h] = leader[h]
    BY <1>0, <1>2, <2>1, KillEffect
  <2>3. /\ UNCHANGED <<gen, fence>> /\ spawner[g].pc = "inspect"
        /\ child'[g].at = "spawner" /\ child'[g].status = "running"
        /\ spawner'[g].pc \in {"bind", "fail_identity"}
        /\ \A h \in Generations \ {g} : spawner'[h] = spawner[h] /\ child'[h] = child[h]
    BY <1>0, <1>2, <1>3 DEF SpawnInspect, SpawnGoto, Handle, TypeOK
  <2>4. OnlyAt(g)
    BY <1>1, <2>2, <2>3 DEF OnlyAt, Same
  <2>5. Handled(g)' /\ Calm(g)
    BY <1>0, <1>1, <1>2, <2>2, <2>3 DEF Calm
  <2>6. QED  BY <1>1, <2>2, <2>4, <2>5, StepKeeps
<1>4. CASE SpawnBind(g)
  <2>1. PICK reply \in Replies :
          LET result == BindIdentity(gen[g], spawner[g].rev, boot)
              bound  == Confirmed(result, reply)
              rev    == IF bound THEN result.row.rev ELSE spawner[g].rev
          IN  /\ Write(g, result, reply)
              /\ \/ /\ bound /\ g \in supervised
                    /\ child' = [child EXCEPT ![g] = Handle("registry", "exact", rev, "running")]
                    /\ fence' = [fence EXCEPT ![g] = rev]
                    /\ SpawnGoto(g, "launched", rev)
                    /\ UNCHANGED <<leader, helpers, strayed>>
                 \/ /\ SpawnGoto(g, "fail_bound", rev)
                    /\ KillGroup(g)
                    /\ UNCHANGED <<child, fence>>
    BY <1>4 DEF SpawnBind
  <2> DEFINE result == BindIdentity(gen[g], spawner[g].rev, boot)
             rev == IF Confirmed(result, reply) THEN result.row.rev ELSE spawner[g].rev
  <2>2. gen[g] \in Row /\ spawner[g].rev \in Nat
    BY AtGeneration
  <2>3. RowOn(g) /\ gen'[g].state = gen[g].state
    BY <1>0, <2>1, <2>2, TransactionsOn
  <2>4. \A h \in Generations \ {g} : gen'[h] = gen[h]
    BY <1>0, <2>1, WriteEffect
  <2>5. Confirmed(result, reply) => gen'[g].identity = "exact"
    <3>1. Confirmed(result, reply) => result.row.identity = "exact"
      BY <2>2, ConfirmedResults
    <3>2. Confirmed(result, reply) => gen'[g] = result.row
      <4> HIDE DEF result
      <4>1. Write(g, result, reply)
        BY <2>1 DEF result
      <4>2. QED  BY <1>0, <4>1, WriteEffect DEF Confirmed
    <3>3. QED  BY <3>1, <3>2
  <2>6. \/ /\ Confirmed(result, reply) /\ g \in supervised
           /\ child' = [child EXCEPT ![g] = Handle("registry", "exact", rev, "running")]
           /\ fence' = [fence EXCEPT ![g] = rev]
           /\ SpawnGoto(g, "launched", rev)
           /\ UNCHANGED <<leader, strayed>>
        \/ SpawnGoto(g, "fail_bound", rev) /\ KillGroup(g) /\ UNCHANGED <<child, fence>>
    BY <2>1
  <2> HIDE DEF result, rev
  <2>7. /\ strayed' = {} /\ leader'[g] \in {"alive", "zombie"}
        /\ \A h \in Generations \ {g} : leader'[h] = leader[h]
    BY <1>0, <1>2, <2>6, KillEffect
  <2>8. /\ \A h \in Generations \ {g} : /\ spawner'[h] = spawner[h] /\ child'[h] = child[h]
                                        /\ fence'[h] = fence[h]
        /\ \/ /\ g \in supervised /\ gen'[g].identity = "exact"
              /\ child'[g].at = "registry" /\ child'[g].status = "running"
              /\ spawner'[g].pc = "launched"
           \/ child' = child /\ fence' = fence /\ spawner'[g].pc = "fail_bound"
    BY <1>0, <2>5, <2>6 DEF SpawnGoto, Handle, TypeOK
  <2>9. OnlyAt(g)
    BY <1>1, <2>4, <2>7, <2>8 DEF OnlyAt, Same
  <2>10. Handled(g)' /\ Calm(g)
    BY <1>0, <1>1, <1>2, <2>3, <2>7, <2>8 DEF Calm, RowOn
  <2>11. QED  BY <1>1, <2>7, <2>9, <2>10, StepKeeps
<1>5. QED  BY <1>3, <1>4

(* The quarantine of a spawn whose identity is not durable.                *)
LEMMA QuarantineHandled ==
    ASSUME IInv, HInv, NEW g \in Generations, SpawnQuarantine(g)
    PROVE  HInv'
<1> USE DEF SpawnHolds, SpawnOver, TermHolds, Handled, Custody, LeaderHeld, RowTells, Unheld, LeaderPresent
<1>0. TypeOK /\ Handled(g) /\ strayed = {} /\ gen[g] \in Row /\ spawner[g].rev \in Nat
  BY AtGeneration
<1>1. /\ UNCHANGED <<supervised, term, fence, created, reused, rec, strayed, boot, phase>>
      /\ spawner[g].pc \in {"fail_identity", "fail_bound"} /\ spawner'[g].pc = "idle"
      /\ \A h \in Generations \ {g} : spawner'[h] = spawner[h]
  BY <1>0 DEF SpawnQuarantine, IdleSpawner, TypeOK
<1>2. PICK reply \in Replies, found \in BOOLEAN :
        LET rereads == spawner[g].pc = "fail_bound"
            rev     == IF rereads /\ found THEN gen[g].rev ELSE spawner[g].rev
            result  == MarkDeathUnknown(gen[g], rev, "identity_persistence_failed")
            kept    == IF Confirmed(result, reply) THEN result.row.rev ELSE rev
        IN  IF found
            THEN /\ Write(g, result, reply)
                 /\ child' = [child EXCEPT ![g] = RestoreOwned(g, kept, StatusAfterRefresh(g))]
                 /\ Refresh(g)
            ELSE /\ rereads /\ reply = "fail"
                 /\ faults' = faults + 1
                 /\ child' = [child EXCEPT ![g] = RestoreOwned(g, rev, child[g].status)]
                 /\ UNCHANGED <<gen, leader>>
  BY DEF SpawnQuarantine
<1>3. /\ RowOn(g) /\ (gen'[g].state = "dead" => gen[g].state = "dead")
      /\ \A h \in Generations \ {g} : gen'[h] = gen[h]
  <2>1. CASE gen' = gen
    BY <2>1 DEF RowOn
  <2>2. ASSUME NEW rev \in Nat,
               Write(g, MarkDeathUnknown(gen[g], rev, "identity_persistence_failed"), reply)
        PROVE  /\ RowOn(g) /\ (gen'[g].state = "dead" => gen[g].state = "dead")
               /\ \A h \in Generations \ {g} : gen'[h] = gen[h]
    <3>1. "identity_persistence_failed" \in LossReasons
      BY DEF LossReasons
    <3>2. QED  BY <1>0, <2>2, <3>1, TransactionsOn, WriteEffect
  <2>3. (IF spawner[g].pc = "fail_bound" /\ found THEN gen[g].rev ELSE spawner[g].rev) \in Nat
    BY <1>0 DEF Row
  <2>4. CASE found
    BY <1>2, <2>2, <2>3, <2>4
  <2>5. CASE ~found
    BY <1>2, <2>1, <2>5
  <2>6. QED  BY <2>4, <2>5
<1>4. PICK rev, status :
        /\ child' = [child EXCEPT ![g] = RestoreOwned(g, rev, status)]
        /\ \/ Refresh(g) /\ status = StatusAfterRefresh(g)
           \/ UNCHANGED leader /\ status = child[g].status
  BY <1>2
<1>5. /\ \A h \in Generations \ {g} : child'[h] = child[h] /\ leader'[h] = leader[h]
      /\ child'[g] = RestoreOwned(g, rev, status)
  BY <1>0, <1>4, RefreshEffect DEF TypeOK
<1>6. /\ child'[g].at = IF g \in supervised THEN "registry" ELSE "none"
      /\ child'[g].status = status \/ child'[g].at = "none"
  BY <1>5 DEF RestoreOwned, Handle, NoChild
<1>7. /\ status = "running" => leader'[g] = leader[g] /\ child[g].status = "running"
      /\ LeaderPresent(g)' => LeaderPresent(g)
      /\ leader[g] = "reaped" => leader'[g] = "reaped"
  BY <1>0, <1>4, RefreshEffect DEF StatusAfterRefresh
<1>8. OnlyAt(g)
  BY <1>1, <1>3, <1>5 DEF OnlyAt, Same
<1>9. Handled(g)' /\ Calm(g)
  <2>1. child[g].at = "spawner" /\ term[g].pc \notin TermHolds /\ created[g] # 0 /\ phase # "down"
    BY <1>0, <1>1
  <2>2. gen[g].state # "dead" => g \in supervised
    BY <1>0, <1>1
  <2>3. Custody(g)' /\ RowTells(g)'
    BY <1>0, <1>1, <1>3, <1>6, <2>1, <2>2 DEF RowOn
  <2>4. LeaderHeld(g)'
    BY <1>0, <1>1, <1>3, <1>6, <1>7, <2>1 DEF RowOn
  <2>5. Calm(g)
    BY <1>1, <1>3, <1>7, <2>1 DEF RowOn, Calm
  <2>6. QED  BY <2>3, <2>4, <2>5
<1>10. QED  BY <1>0, <1>1, <1>8, <1>9, StepKeeps

(* What the caller of a launch does with the receipt.                      *)
LEMMA ReadyHandled ==
    ASSUME IInv, HInv, NEW g \in Generations,
           Initialize(g) \/ MarkSpawnedReady(g) \/ FollowReceipt(g) \/ LaunchFails(g)
    PROVE  HInv'
<1> USE DEF SpawnHolds, SpawnOver, TermHolds, Handled, Custody, LeaderHeld, RowTells, Unheld, LeaderPresent
<1>0. TypeOK /\ Handled(g) /\ strayed = {} /\ gen[g] \in Row /\ fence[g] \in Nat
  BY AtGeneration
<1>1. /\ UNCHANGED <<supervised, term, leader, created, reused, rec, strayed, boot, phase>>
      /\ spawner[g].pc \in {"launched", "initialized", "readied"}
      /\ spawner'[g].pc \in {"idle", "initialized", "readied"}
      /\ spawner'[g].pc = "initialized" => fence'[g] # 0
      /\ \A h \in Generations \ {g} : spawner'[h] = spawner[h]
  BY <1>0 DEF Initialize, Admitted, MarkSpawnedReady, FollowReceipt, LaunchFails, SpawnGoto,
              IdleSpawner, TypeOK
<1>2. /\ \A h \in Generations \ {g} : child'[h] = child[h]
      /\ child'[g].at = child[g].at /\ child'[g].status = child[g].status
  BY <1>0 DEF Initialize, MarkSpawnedReady, FollowReceipt, LaunchFails, Child, TypeOK
<1>3. /\ \A h \in Generations \ {g} : gen'[h] = gen[h] /\ fence'[h] = fence[h]
      /\ RowOn(g) /\ (gen'[g].state = "dead" => gen[g].state = "dead")
      /\ fence'[g] # 0 => fence[g] # 0
  <2>1. CASE UNCHANGED <<gen, fence>>
    BY <2>1 DEF RowOn
  <2>2. CASE MarkSpawnedReady(g)
    <3>1. PICK reply \in Replies : Write(g, MarkReady(gen[g], fence[g]), reply)
      BY <2>2 DEF MarkSpawnedReady
    <3>2. RowOn(g) /\ (gen'[g].state = "dead" => gen[g].state = "dead")
      BY <1>0, <3>1, TransactionsOn
    <3>3. \A h \in Generations \ {g} : gen'[h] = gen[h]
      BY <1>0, <3>1, WriteEffect
    <3>4. /\ \A h \in Generations \ {g} : fence'[h] = fence[h]
          /\ fence[g] # 0
      BY <1>0, <2>2 DEF MarkSpawnedReady, TypeOK
    <3>5. QED  BY <3>2, <3>3, <3>4
  <2>3. QED  BY <2>1, <2>2 DEF Initialize, FollowReceipt, LaunchFails
<1>4. OnlyAt(g)
  BY <1>1, <1>2, <1>3 DEF OnlyAt, Same
<1>5. Handled(g)' /\ Calm(g)
  BY <1>0, <1>1, <1>2, <1>3 DEF RowOn, Calm
<1>6. QED  BY <1>0, <1>1, <1>4, <1>5, StepKeeps

(* Every step of a spawn.                                                  *)
LEMMA SpawnHandled ==
    ASSUME IInv, HInv, NEW g \in Generations, SpawnStep(g)
    PROVE  HInv'
  BY ReserveHandled, ProcessHandled, BindHandled, QuarantineHandled, ReadyHandled DEF SpawnStep

----------------------------------------------------------------------------
(* Terminating.                                                            *)

(* Taking the handle, watching the exit and signalling: no store call.     *)
LEMMA TakeHandled ==
    ASSUME IInv, HInv, NEW g \in Generations,
           TermRead(g) \/ TermTake(g) \/ TermSignal(g) \/ TermObserveExit(g) \/ TermProve(g)
    PROVE  HInv'
<1> USE DEF SpawnHolds, SpawnOver, TermHolds, Handled, Custody, LeaderHeld, RowTells, Unheld, LeaderPresent
<1>0. TypeOK /\ Handled(g) /\ strayed = {}
      /\ child[g].status \in {"running", "exited"}
      /\ (child[g].status = "exited" => leader[g] = "reaped")
  BY AtGeneration
<1>1. UNCHANGED <<gen, supervised, spawner, fence, created, reused, rec, boot, phase>>
  BY DEF TermRead, TermTake, TermSignal, TermObserveExit, TermProve
<1>2. CASE TermRead(g) \/ TermProve(g)
  <2>1. /\ UNCHANGED <<child, leader, strayed>>
        /\ \A h \in Generations \ {g} : term'[h] = term[h]
        /\ \/ term[g].pc = "idle" /\ term'[g].pc = "take"
           \/ term[g].pc = "shutdown" /\ term'[g].pc = "death" /\ GroupQuiescent(g)
    BY <1>0, <1>2 DEF TermRead, TermProve, TermGoto, TypeOK
  <2>2. OnlyAt(g)
    BY <1>1, <2>1 DEF OnlyAt, Same
  <2>3. Handled(g)' /\ Calm(g)
    BY <1>0, <1>1, <2>1 DEF Calm, GroupQuiescent
  <2>4. QED  BY <1>0, <1>1, <2>1, <2>2, <2>3, StepKeeps
<1>3. CASE TermTake(g)
  <2>1. /\ strayed' = strayed /\ term[g].pc = "take"
        /\ UNCHANGED leader \/ Refresh(g)
        /\ \A h \in Generations \ {g} : term'[h] = term[h] /\ child'[h] = child[h]
        /\ \/ /\ child[g].at = "registry" /\ g \in supervised
              /\ child'[g].at = "terminator" /\ child'[g].status = StatusAfterRefresh(g)
              /\ term'[g].pc = "stopping"
              /\ Refresh(g)
           \/ /\ child[g].at = "registry" /\ child'[g] = NoChild /\ term'[g].pc = "idle"
              /\ UNCHANGED leader
           \/ child' = child /\ term'[g].pc = "idle" /\ UNCHANGED leader
    BY <1>0, <1>3 DEF TermTake, TermGoto, Handle, IdleTerm, TypeOK
  <2>2. \A h \in Generations \ {g} : leader'[h] = leader[h]
    BY <1>0, <2>1, RefreshEffect
  <2>3. OnlyAt(g)
    BY <1>1, <2>1, <2>2 DEF OnlyAt, Same
  <2>4. Handled(g)' /\ Calm(g)
    BY <1>0, <1>1, <2>1, RefreshEffect DEF Calm, StatusAfterRefresh, NoChild, Handle
  <2>5. QED  BY <1>0, <1>1, <2>1, <2>3, <2>4, StepKeeps
<1>4. CASE TermSignal(g)
  <2>1. UNCHANGED <<child, term>> /\ KillGroup(g) /\ LeaderPresent(g) /\ g \notin reused
    BY <1>0, <1>4 DEF TermSignal
  <2>2. /\ strayed' = {} /\ leader'[g] \in {"alive", "zombie"}
        /\ \A h \in Generations \ {g} : leader'[h] = leader[h]
    BY <1>0, <2>1, KillEffect
  <2>3. OnlyAt(g)
    BY <1>1, <2>1, <2>2 DEF OnlyAt, Same
  <2>4. Handled(g)' /\ Calm(g)
    BY <1>0, <1>1, <2>1, <2>2 DEF Calm
  <2>5. QED  BY <1>1, <2>2, <2>3, <2>4, StepKeeps
<1>5. CASE TermObserveExit(g)
  <2>1. /\ UNCHANGED <<strayed, term>> /\ Refresh(g) /\ leader[g] = "zombie" /\ term[g].pc = "shutdown"
        /\ \A h \in Generations \ {g} : child'[h] = child[h]
        /\ child'[g].at = child[g].at /\ child'[g].status = "exited"
    BY <1>0, <1>5 DEF TermObserveExit, Child, TypeOK
  <2>2. /\ leader'[g] = "reaped"
        /\ \A h \in Generations \ {g} : leader'[h] = leader[h]
    BY <1>0, <2>1, RefreshEffect
  <2>3. OnlyAt(g)
    BY <1>1, <2>1, <2>2 DEF OnlyAt, Same
  <2>4. Handled(g)' /\ Calm(g)
    BY <1>0, <1>1, <2>1, <2>2 DEF Calm
  <2>5. QED  BY <1>0, <1>1, <2>1, <2>3, <2>4, StepKeeps
<1>6. QED  BY <1>2, <1>3, <1>4, <1>5

(* The steps that call the store, put the handle back or drop it.          *)
LEMMA EndHandled ==
    ASSUME IInv, HInv, NEW g \in Generations,
           \/ TermStopping(g) \/ TermDeath(g) \/ TermUnproved(g)
           \/ TermPlatformError(g) \/ TermCancel(g)
    PROVE  HInv'
<1> USE DEF SpawnHolds, SpawnOver, TermHolds, Handled, Custody, LeaderHeld, RowTells, Unheld, LeaderPresent
<1>0. /\ TypeOK /\ Handled(g) /\ strayed = {} /\ gen[g] \in Row /\ term[g].rev \in Nat
      /\ child[g].at = "terminator" /\ term[g].pc \in TermHolds
  <2>1. term[g].pc \in TermHolds
    BY DEF TermStopping, TermDeath, TermUnproved, TermPlatformError, TermCancel
  <2>2. QED  BY <2>1, AtGeneration
<1>1. UNCHANGED <<leader, spawner, fence, created, reused, strayed, rec, boot, phase>>
  BY DEF TermStopping, TermDeath, TermUnproved, TermPlatformError, TermCancel
<1>2. /\ RowOn(g) /\ (gen'[g].state = "dead" => gen[g].state = "dead" \/ term[g].pc = "death")
      /\ \A h \in Generations \ {g} : gen'[h] = gen[h]
  <2>1. CASE UNCHANGED gen
    BY <2>1 DEF RowOn
  <2>2. CASE TermStopping(g)
    <3>1. PICK reply \in Replies : Write(g, MarkStopping(gen[g], term[g].rev), reply)
      BY <2>2 DEF TermStopping
    <3>2. QED  BY <1>0, <3>1, TransactionsOn, WriteEffect
  <2>3. CASE TermUnproved(g)
    <3>1. PICK reply \in Replies :
            Write(g, MarkDeathUnknown(gen[g], term[g].rev, "termination_unproved"), reply)
      BY <2>3 DEF TermUnproved
    <3>2. "termination_unproved" \in LossReasons
      BY DEF LossReasons
    <3>3. QED  BY <1>0, <3>1, <3>2, TransactionsOn, WriteEffect
  <2>4. CASE TermDeath(g)
    <3>1. PICK reply \in Replies :
            Write(g, RecordDeath(gen[g], term[g].rev, "exact_termination_exit", "exact", boot), reply)
      BY <2>4 DEF TermDeath
    <3>2. "exact_termination_exit" \in EvidenceKinds /\ term[g].pc = "death"
      BY <2>4 DEF EvidenceKinds, TermDeath
    <3>3. QED  BY <1>0, <3>1, <3>2, DeathOn
  <2>5. QED  BY <2>1, <2>2, <2>3, <2>4 DEF TermPlatformError, TermCancel
<1>3. \/ /\ child'[g].at = "terminator" /\ child'[g].status = child[g].status
         /\ term'[g].pc = "shutdown" /\ UNCHANGED supervised
      \/ /\ child'[g] = RestoreOwned(g, child'[g].rev, child[g].status)
         /\ term'[g].pc = "idle" /\ UNCHANGED supervised
      \/ /\ child'[g] = NoChild /\ term'[g].pc = "idle" /\ supervised' = supervised \ {g}
  <2>1. CASE TermStopping(g)
    BY <1>0, <2>1 DEF TermStopping, TermGoto, TermRestore, RestoreOwned, Handle, NoChild, IdleTerm, Child, TypeOK
  <2>2. CASE TermDeath(g)
    BY <1>0, <2>2 DEF TermDeath, TermRestore, RestoreOwned, Handle, NoChild, IdleTerm, TypeOK
  <2>3. CASE TermUnproved(g) \/ TermPlatformError(g) \/ TermCancel(g)
    BY <1>0, <2>3
    DEF TermUnproved, TermPlatformError, TermCancel, TermRestore, RestoreOwned, Handle, NoChild, IdleTerm, TypeOK
  <2>4. QED  BY <2>1, <2>2, <2>3
<1>4. \A h \in Generations \ {g} : term'[h] = term[h] /\ child'[h] = child[h]
  BY <1>0
  DEF TermStopping, TermDeath, TermUnproved, TermPlatformError, TermCancel, TermRestore, TermGoto, TypeOK
<1>5. \A h \in Generations \ {g} : h \in supervised' <=> h \in supervised
  BY <1>3
<1>6. OnlyAt(g)
  BY <1>1, <1>2, <1>4, <1>5 DEF OnlyAt, Same
<1>7. Handled(g)' /\ Calm(g)
  BY <1>0, <1>1, <1>2, <1>3 DEF RowOn, Calm, RestoreOwned, Handle, NoChild
<1>8. QED  BY <1>0, <1>1, <1>6, <1>7, StepKeeps

(* Every step of a termination.                                            *)
LEMMA TermHandled ==
    ASSUME IInv, HInv, NEW g \in Generations, TermStep(g)
    PROVE  HInv'
  BY TakeHandled, EndHandled DEF TermStep

----------------------------------------------------------------------------
(* Reconciling.                                                            *)

(* A step of the reconciler at its generation keeps the handles.           *)
LEMMA RecStepKeeps ==
    ASSUME HInv, NEW g \in Generations, OnlyAt(g), Handled(g)', RecHandled', strayed' = {}
    PROVE  HInv'
  BY OnlyAtKeeps DEF HInv

(* A proof of an exit leaves no leader, or none of this boot.              *)
LEMMA SettleHandled ==
    ASSUME IInv, HInv, rec.pc # "idle", NEW g \in Generations, g = rec.g,
           RecSettle(g, rec.snap), UNCHANGED <<storeVars, taskVars, hostVars>>
    PROVE  HInv'
<1> USE DEF SpawnHolds, SpawnOver, TermHolds, Handled, Custody, LeaderHeld, RowTells, Unheld, LeaderPresent
<1>0. rec.snap.boot = gen[g].boot /\ (rec.snap.state = "dead" => gen[g].state = "dead")
  BY DEF IInv, SnapshotKnowledge, HInv, RecHandled
<1>1. /\ TypeOK /\ Handled(g) /\ strayed = {}
      /\ child[g].status \in {"running", "exited"}
      /\ (child[g].status = "exited" => leader[g] = "reaped")
  BY <1>0, AtGeneration
<1>2. UNCHANGED <<supervised, reused, created, strayed>>
  BY DEF RecSettle, RecProveBootEnded, RecOwned, RecInFlight, RecRestored
<1>3. \/ rec'.pc = "idle"
      \/ /\ rec'.pc = "write" /\ rec'.g = g /\ rec'.snap = rec.snap
         /\ \/ ProvesPriorBoot(rec.snap.boot, boot)
            \/ child[g].at = "registry" /\ StatusAfterRefresh(g) = "exited" /\ Refresh(g)
            \/ GroupQuiescent(g) /\ UNCHANGED leader
  BY DEF RecSettle, RecProveBootEnded, RecOwned, RecInFlight, RecRestored, RecGoto, RecIdle, IdleRec
<1>4. \/ UNCHANGED <<child, leader>>
      \/ /\ child[g].at = "registry" /\ Refresh(g)
         /\ child' = [child EXCEPT ![g] =
                          Handle("registry", child[g].identity, rec.snap.rev, StatusAfterRefresh(g))]
  BY DEF RecSettle, RecProveBootEnded, RecOwned, RecInFlight, RecRestored
<1>5. /\ \A h \in Generations \ {g} : child'[h] = child[h] /\ leader'[h] = leader[h]
      /\ \/ child'[g] = child[g] /\ leader'[g] = leader[g]
         \/ /\ child[g].at = "registry" /\ child'[g].at = "registry"
            /\ child'[g].status = StatusAfterRefresh(g)
            /\ leader[g] = "zombie" => leader'[g] = "reaped"
            /\ leader[g] # "zombie" => leader'[g] = leader[g]
  BY <1>0, <1>1, <1>4, RefreshEffect DEF Handle, TypeOK
<1>6. OnlyAt(g)
  BY <1>2, <1>5 DEF OnlyAt, Same
<1>7. Handled(g)'
  BY <1>1, <1>2, <1>5 DEF StatusAfterRefresh
<1>8. RecHandled'
  <2>1. CASE rec'.pc = "idle"
    BY <2>1 DEF RecHandled
  <2>2. ASSUME rec'.pc = "write", rec'.g = g, rec'.snap = rec.snap,
               ~LeaderPresent(g)' \/ gen[g].boot # boot
        PROVE  RecHandled'
    BY <1>0, <2>2 DEF RecHandled
  <2>3. CASE ProvesPriorBoot(rec.snap.boot, boot)
    BY <1>0, <1>3, <2>1, <2>2, <2>3 DEF ProvesPriorBoot
  <2>4. CASE child[g].at = "registry" /\ StatusAfterRefresh(g) = "exited" /\ Refresh(g)
    <3>1. leader'[g] = "reaped"
      BY <1>0, <1>1, <2>4, RefreshEffect DEF StatusAfterRefresh
    <3>2. QED  BY <1>3, <2>1, <2>2, <3>1
  <2>5. CASE GroupQuiescent(g) /\ UNCHANGED leader
    BY <1>3, <2>1, <2>2, <2>5 DEF GroupQuiescent
  <2>6. QED  BY <1>3, <2>1, <2>3, <2>4, <2>5
<1>9. QED  BY <1>0, <1>1, <1>2, <1>6, <1>7, <1>8, RecStepKeeps

(* The mark of a restart goes to an unheld row that is not dead.           *)
LEMMA MarkEffect ==
    ASSUME NEW row \in Row, NEW expected \in Nat
    PROVE  LET new == MarkDeathUnknown(row, expected, "supervisor_restarted").row
           IN  \/ new = row
               \/ /\ row.state \notin {"absent", "dead"} /\ new.state = "death_unknown"
                  /\ new.boot = row.boot /\ new.identity = row.identity
  BY DEF MarkDeathUnknown, Applied, Replayed, Rejected, Update, Row

(* Every step of the reconciler on the generation it works on.             *)
LEMMA RecStepHandled ==
    ASSUME IInv, HInv, NEW g \in Generations, g = rec.g, RecStep
    PROVE  HInv'
<1> USE DEF SpawnHolds, SpawnOver, TermHolds, Handled, Custody, LeaderHeld, RowTells, Unheld, LeaderPresent
<1>0. /\ rec.pc # "idle" /\ rec.snap.rev \in Nat
      /\ rec.snap.state = "dead" => gen[g].state = "dead"
      /\ rec.pc = "mark" => gen[g].state = "dead" \/ Unheld(g)
      /\ rec.pc = "write" => ~LeaderPresent(g) \/ gen[g].boot # boot
      /\ rec.kind \in EvidenceKinds
  BY DEF RecStep, RecCheck, RecMark, RecSettleMarked, RecWrite, IInv, SnapshotKnowledge, HInv, RecHandled,
         TypeOK, Rec, Row
<1>1. TypeOK /\ Handled(g) /\ strayed = {} /\ gen[g] \in Row
  BY <1>0, AtGeneration
<1>2. CASE (RecCheck \/ RecSettleMarked) /\ RecSettle(g, rec.snap)
  BY <1>0, <1>2, SettleHandled DEF RecCheck, RecSettleMarked
<1>3. CASE RecCheck /\ RecClear(g, rec.snap)
  <2>1. /\ UNCHANGED <<gen, term, spawner, fence, leader, created, reused, strayed, boot, phase>>
        /\ gen[g].state = "dead" /\ rec'.pc = "idle"
        /\ child'[g].at = (IF child[g].at = "registry" THEN "none" ELSE child[g].at)
        /\ child'[g].at # "none" => child'[g].status = child[g].status
        /\ spawner[g].pc \in {"inspect", "bind"} => child'[g].status = child[g].status
        /\ \A h \in Generations \ {g} : child'[h] = child[h]
        /\ \A h \in Generations \ {g} : h \in supervised' <=> h \in supervised
    BY <1>0, <1>1, <1>3 DEF RecCheck, RecClear, RecIdle, IdleRec, NoChild, Handle, TypeOK
  <2>2. OnlyAt(g)
    BY <2>1 DEF OnlyAt, Same
  <2>3. Handled(g)'
    BY <1>1, <2>1
  <2>4. RecHandled'
    BY <2>1 DEF RecHandled
  <2>5. QED  BY <1>0, <1>1, <2>1, <2>2, <2>3, <2>4, RecStepKeeps
<1>4. CASE RecCheck /\ RecGoto(g, "mark", rec.snap, "none") /\ Unsupervised(g, rec.snap)
           /\ UNCHANGED <<localVars, osVars>>
  <2>1. /\ UNCHANGED <<gen, child, term, spawner, fence, leader, created, reused, supervised, strayed, boot, phase>>
        /\ rec'.pc = "mark" /\ rec'.g = g /\ rec'.snap = rec.snap /\ g \notin supervised
    BY <1>4 DEF RecCheck, RecGoto, Unsupervised
  <2>2. OnlyAt(g)
    BY <2>1 DEF OnlyAt, Same
  <2>3. Handled(g)'
    BY <1>1, <2>1
  <2>4. child[g].at \in {"none", "registry", "spawner", "terminator"}
    BY <1>0, <1>1 DEF TypeOK, Child
  <2>5. RecHandled'
    BY <1>0, <1>1, <2>1, <2>4 DEF RecHandled
  <2>6. QED  BY <1>0, <1>1, <2>1, <2>2, <2>3, <2>5, RecStepKeeps
<1>5. CASE RecMark
  <2>1. PICK reply \in Replies :
          Write(g, MarkDeathUnknown(gen[g], rec.snap.rev, "supervisor_restarted"), reply)
    BY <1>5 DEF RecMark
  <2>2. /\ UNCHANGED <<child, term, spawner, fence, leader, created, reused, supervised, strayed, boot, phase>>
        /\ rec.pc = "mark"
        /\ \/ rec'.pc = "idle"
           \/ rec'.pc = "settle" /\ rec'.snap.state = "death_unknown"
    BY <1>5 DEF RecMark, RecGoto, RecIdle, IdleRec
  <2>3. /\ \A h \in Generations \ {g} : gen'[h] = gen[h]
        /\ \/ gen'[g] = gen[g]
           \/ /\ gen[g].state \notin {"absent", "dead"} /\ gen'[g].state = "death_unknown"
              /\ gen'[g].boot = gen[g].boot /\ gen'[g].identity = gen[g].identity
    BY <1>0, <1>1, <2>1, WriteEffect, MarkEffect
  <2>4. OnlyAt(g)
    BY <2>2, <2>3 DEF OnlyAt, Same
  <2>5. Handled(g)'
    BY <1>0, <1>1, <2>2, <2>3
  <2>6. RecHandled'
    BY <2>2 DEF RecHandled
  <2>7. QED  BY <1>0, <1>1, <2>2, <2>4, <2>5, <2>6, RecStepKeeps
<1>6. CASE RecWrite
  <2> DEFINE identity == IF rec.kind = "prior_boot_ended" THEN "none" ELSE rec.snap.identity
             result == RecordDeath(gen[g], rec.snap.rev, rec.kind, identity, boot)
  <2>1. PICK reply \in Replies :
          /\ Write(g, result, reply)
          /\ child' = [child EXCEPT ![g] =
                 IF Confirmed(result, reply) /\ rec.kind = "owned_child_exit" /\ @.at = "registry"
                 THEN NoChild ELSE @]
          /\ supervised' = IF Confirmed(result, reply) /\ rec.kind = "owned_child_exit"
                           THEN supervised \ {g} ELSE supervised
    BY <1>6 DEF RecWrite
  <2>2. /\ UNCHANGED <<term, spawner, fence, leader, created, reused, strayed, boot, phase>>
        /\ rec.pc = "write" /\ rec'.pc = "idle"
    BY <1>6 DEF RecWrite, RecIdle, IdleRec
  <2>3. /\ RowOn(g)
        /\ \A h \in Generations \ {g} : gen'[h] = gen[h]
        /\ Confirmed(result, reply) => gen'[g].state = "dead"
    BY <1>0, <1>1, <2>1, DeathOn
  <2> HIDE DEF result, identity
  <2>4. /\ \A h \in Generations \ {g} : child'[h] = child[h]
        /\ \A h \in Generations \ {g} : h \in supervised' <=> h \in supervised
        /\ \/ child'[g] = child[g] /\ supervised' = supervised
           \/ /\ gen'[g].state = "dead" /\ supervised' = supervised \ {g}
              /\ child'[g] = IF child[g].at = "registry" THEN NoChild ELSE child[g]
    BY <1>0, <1>1, <2>1, <2>3 DEF TypeOK
  <2>5. OnlyAt(g)
    BY <2>2, <2>3, <2>4 DEF OnlyAt, Same
  <2>6. Handled(g)'
    BY <1>0, <1>1, <2>2, <2>3, <2>4 DEF RowOn, NoChild, Handle
  <2>7. RecHandled'
    BY <2>2 DEF RecHandled
  <2>8. QED  BY <1>0, <1>1, <2>2, <2>5, <2>6, <2>7, RecStepKeeps
<1>7. QED  BY <1>2, <1>3, <1>4, <1>5, <1>6 DEF RecStep, RecCheck, RecSettleMarked

(* The pending non-creations and the reads of a pass.                      *)
LEMMA PassHandled ==
    ASSUME IInv, HInv, NEW g \in Generations, RecPending(g) \/ RecRead(g)
    PROVE  HInv'
<1> USE DEF SpawnHolds, SpawnOver, TermHolds, Handled, Custody, LeaderHeld, RowTells, Unheld, LeaderPresent
<1>0. TypeOK /\ Handled(g) /\ strayed = {} /\ gen[g] \in Row
  BY AtGeneration
<1>1. CASE RecPending(g)
  <2>1. PICK reply \in Replies :
          LET result == RecordDeath(gen[g], gen[g].rev, "spawn_not_created", "none", boot)
          IN  /\ IF gen[g].state = "dead"
                 THEN reply = "ok" /\ UNCHANGED storeVars
                 ELSE Write(g, result, reply)
              /\ IF gen[g].state = "dead" \/ Confirmed(result, reply)
                 THEN pending' = pending \ {g} /\ supervised' = supervised \ {g}
                 ELSE UNCHANGED <<pending, supervised>>
    BY <1>1 DEF RecPending
  <2> DEFINE result == RecordDeath(gen[g], gen[g].rev, "spawn_not_created", "none", boot)
  <2>2. UNCHANGED <<child, term, spawner, fence, leader, created, reused, rec, strayed, boot, phase>>
    BY <1>1 DEF RecPending
  <2>3. created[g] = 0 /\ leader[g] = "none"
    BY <1>1, AtGeneration DEF RecPending
  <2>4. /\ RowOn(g)
        /\ \A h \in Generations \ {g} : gen'[h] = gen[h]
        /\ supervised' = supervised \/ (gen'[g].state = "dead" /\ supervised' = supervised \ {g})
    <3>1. CASE gen[g].state = "dead"
      BY <2>1, <3>1 DEF RowOn
    <3>2. CASE gen[g].state # "dead"
      <4>1. Write(g, result, reply)
        BY <2>1, <3>2
      <4>2. gen[g].rev \in Nat /\ "spawn_not_created" \in EvidenceKinds
        BY <1>0 DEF Row, EvidenceKinds
      <4>3. /\ RowOn(g)
            /\ \A h \in Generations \ {g} : gen'[h] = gen[h]
            /\ Confirmed(result, reply) => gen'[g].state = "dead"
        BY <1>0, <4>1, <4>2, DeathOn
      <4>4. supervised' = supervised \/ (Confirmed(result, reply) /\ supervised' = supervised \ {g})
        BY <2>1, <3>2
      <4>5. QED  BY <4>3, <4>4
    <3>3. QED  BY <3>1, <3>2
  <2>5. OnlyAt(g)
    BY <2>2, <2>4 DEF OnlyAt, Same
  <2>6. Handled(g)' /\ Calm(g)
    BY <1>0, <2>2, <2>3, <2>4 DEF RowOn, Calm
  <2>7. QED  BY <1>0, <2>2, <2>5, <2>6, StepKeeps
<1>2. CASE RecRead(g)
  <2>1. /\ UNCHANGED <<gen, child, term, spawner, fence, leader, created, reused, supervised, strayed, boot, phase>>
        /\ rec'.pc = "check" /\ rec'.g = g /\ rec'.snap = gen[g]
    BY <1>2 DEF RecRead, RecGoto
  <2>2. OnlyAt(g)
    BY <2>1 DEF OnlyAt, Same
  <2>3. Handled(g)'
    BY <1>0, <2>1
  <2>4. RecHandled'
    BY <2>1 DEF RecHandled
  <2>5. QED  BY <1>0, <2>1, <2>2, <2>3, <2>4, RecStepKeeps
<1>3. QED  BY <1>1, <1>2

(* Every step keeps the handles.                                           *)
LEMMA NextHandled == IInv /\ HInv /\ [Next]_vars => HInv'
<1> SUFFICES ASSUME IInv, HInv, [Next]_vars PROVE HInv'
  OBVIOUS
<1>1. CASE Start \/ StartServing \/ Crash \/ Reboot
  BY <1>1, HostHandled
<1>2. CASE RecStep
  <2>1. rec.g \in Generations
    BY <1>2 DEF RecStep, RecCheck, RecMark, RecSettleMarked, RecWrite, IInv, SnapshotKnowledge
  <2>2. QED  BY <1>2, <2>1, RecStepHandled
<1>3. ASSUME NEW g \in Generations, SpawnStep(g) PROVE HInv'
  BY <1>3, SpawnHandled
<1>4. ASSUME NEW g \in Generations, TermStep(g) PROVE HInv'
  BY <1>4, TermHandled
<1>5. ASSUME NEW g \in Generations, RecPending(g) \/ RecRead(g) PROVE HInv'
  BY <1>5, PassHandled
<1>6. ASSUME NEW g \in Generations, OsStep(g) PROVE HInv'
  BY <1>6, OsHandled
<1>7. CASE UNCHANGED vars
  BY <1>7
  DEF vars, HInv, RecHandled, Handled, Custody, LeaderHeld, RowTells, Unheld, LeaderPresent
<1>8. QED  BY <1>1, <1>2, <1>3, <1>4, <1>5, <1>6, <1>7 DEF Next

(* The two invariants hold together.                                       *)
LEMMA HandlesKept == Spec => [](IInv /\ HInv)
<1>1. Init => IInv /\ HInv
  BY InitInv, InitHandled
<1>2. IInv /\ HInv /\ [Next]_vars => (IInv /\ HInv)'
  BY NextInv, NextHandled
<1>3. QED  BY <1>1, <1>2, PTL DEF Spec

----------------------------------------------------------------------------
(* The theorems.                                                           *)

(* The reservation taken before the durable fence covers a spawn until it  *)
(* returns, whatever the reconciler, a termination or a pending proof of   *)
(* non-creation does meanwhile: replace_owned after a bind never refuses.  *)
THEOREM ReservationCoversSpawn == Spec => []SpawnStaysReserved
<1>1. HInv => SpawnStaysReserved
  BY DEF HInv, Handled, Custody, SpawnOver, SpawnStaysReserved
<1>2. QED  BY <1>1, HandlesKept, PTL

(* with_fenced_child admits an operation only on the generation's own      *)
(* unreaped process, under a bound row that still quarantines the account. *)
THEOREM ReceiptIsExact == Spec => []AdmissionIsExact
<1>1. ASSUME IInv, HInv, NEW g \in Generations, Admitted(g)
      PROVE  LeaderPresent(g) /\ gen[g].identity = "exact" /\ Quarantines(gen[g])
  <2>1. LeaderPresent(g) /\ gen[g].identity = "exact"
    BY <1>1 DEF Admitted, HInv, Handled, LeaderHeld, RowTells
  <2>2. gen[g].state # "dead" /\ gen[g].state # "absent"
    BY <1>1, <2>1, AtGeneration DEF HInv, Handled, LeaderHeld
  <2>3. QED  BY <2>1, <2>2 DEF Quarantines
<1>2. IInv /\ HInv => AdmissionIsExact
  BY <1>1 DEF AdmissionIsExact
<1>3. QED  BY <1>2, HandlesKept, PTL

(* Only a generation whose handle is gone is recorded as lost to a         *)
(* restart, however old the snapshot the reconciler decided on.            *)
THEOREM RestartFindsNoHandle == Spec => []RestartReasonMeansUnheld
<1>1. HInv => RestartReasonMeansUnheld
  BY DEF HInv, Handled, RowTells, Unheld, RestartReasonMeansUnheld
<1>2. QED  BY <1>1, HandlesKept, PTL

(* No signal reaches a process group that took over the number: the        *)
(* supervisor signals while its own handle keeps the leader unreaped.      *)
THEOREM SignalsStayInGroup == Spec => []NoForeignSignal
<1>1. HInv => NoForeignSignal
  BY DEF HInv, NoForeignSignal
<1>2. QED  BY <1>1, HandlesKept, PTL
=============================================================================
