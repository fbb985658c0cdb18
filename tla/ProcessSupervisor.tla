------------------------- MODULE ProcessSupervisor -------------------------
(***************************************************************************)
(* The runtime's process supervisor (crates/decodex-runtime/src/process_   *)
(* supervisor.rs) over the durable generation table, and the operating     *)
(* system under both.  One Codex app-server process may run per account;   *)
(* the supervisor may crash, the host may reboot, a store call may fail or *)
(* commit and lose its answer, a future may be dropped at an await, and a  *)
(* process leader may exit before the helpers in its process group do.     *)
(*                                                                         *)
(* A step ends where the code awaits the store: what was read before the   *)
(* await may be stale after it.                                            *)
(***************************************************************************)
EXTENDS ProcessGenerationStore

CONSTANTS
    NoGeneration,   \* "no generation", for an idle reconciler
    BootScheme,     \* boot number -> the identity scheme of that boot's binary
    MacOS,          \* TRUE: the macOS ESRCH recovery of an unwitnessed exit exists
    MaxBoot,        \* bound: reboots
    MaxCrashes,     \* bound: supervisor crashes
    MaxFaults,      \* bound: store calls failed or unanswered, launches requested again
    MaxRevision     \* bound: no termination is requested past this revision

ASSUME SupervisorAssumption ==
    /\ NoGeneration \notin Generations
    /\ MacOS \in BOOLEAN
    /\ MaxBoot \in Nat /\ MaxCrashes \in Nat /\ MaxFaults \in Nat /\ MaxRevision \in Nat

VARIABLES
    gen,            \* the durable rows
    phase,          \* the supervisor: "down", "recovering" or "serving"
    boot,           \* the boot the host is in
    supervised,     \* generations reserved by a spawn, an owner or a termination
    pending,        \* non-creation proofs that are not durable yet
    witness,        \* kernel exit witnesses on restored processes
    child,          \* the one handle on a generation's unreaped child, and who holds it
    spawner,        \* the spawn_fenced_inner call of a generation, and its caller's launch
    fence,          \* revision in the FencedProcess receipt the caller holds; 0: none
    term,           \* the terminate_exact call of a generation
    rec,            \* the reconciler's current generation and its snapshot
    todo,           \* generations left in the pass start() makes before serving
    leader,         \* the operating system: the spawned process itself
    helpers,        \* generations with other live members of the process group
    reused,         \* generations whose process id now names an unrelated process
    created,        \* processes ever created for the generation
    strayed,        \* generations whose signal reached an unrelated process group
    crashes, faults

storeVars == <<gen, faults>>
localVars == <<supervised, pending, witness, child>>
taskVars  == <<spawner, fence, term>>
recVars   == <<rec, todo>>
osVars    == <<leader, helpers, reused, created, strayed>>
hostVars  == <<phase, boot, crashes>>
vars == <<storeVars, localVars, taskVars, recVars, osVars, hostVars>>

----------------------------------------------------------------------------
(* Types.                                                                  *)

(* OwnedGeneration is a linear value: in the registry, or taken by a task. *)
Child == [at       : {"none", "registry", "spawner", "terminator"},
          identity : Identities,               \* as inspected after the spawn
          rev      : Nat,
          status   : {"running", "exited"}]    \* leader_exited: try_wait reaped it
Handle(at, identity, rev, status) ==
    [at |-> at, identity |-> identity, rev |-> rev, status |-> status]
NoChild == Handle("none", "none", 0, "running")

SpawnStates == {"idle", "prepare", "spawn", "not_created", "inspect", "bind",
                "fail_identity", "fail_bound", "launched", "initialized", "readied"}
Spawner == [pc : SpawnStates, rev : Nat]
IdleSpawner == [pc |-> "idle", rev |-> 0]

TermStates == {"idle", "take", "stopping", "shutdown", "death"}
Term == [pc : TermStates, rev : Nat, identity : Identities]
IdleTerm == [pc |-> "idle", rev |-> 0, identity |-> "none"]

RecStates == {"idle", "check", "mark", "settle", "write"}
Rec == [pc : RecStates, g : Generations \cup {NoGeneration}, snap : Row, kind : EvidenceKinds]
IdleRec == [pc |-> "idle", g |-> NoGeneration, snap |-> AbsentRow, kind |-> "none"]

TypeOK ==
    /\ gen \in [Generations -> Row]
    /\ phase \in {"down", "recovering", "serving"}
    /\ boot \in Nat
    /\ supervised \subseteq Generations
    /\ pending \subseteq Generations
    /\ witness \in [Generations -> {"none", "attached", "fired"}]
    /\ child \in [Generations -> Child]
    /\ spawner \in [Generations -> Spawner]
    /\ fence \in [Generations -> Nat]
    /\ term \in [Generations -> Term]
    /\ rec \in Rec
    /\ todo \subseteq Generations
    /\ leader \in [Generations -> {"none", "alive", "zombie", "reaped"}]
    /\ helpers \subseteq Generations
    /\ reused \subseteq Generations
    /\ created \in [Generations -> Nat]
    /\ strayed \subseteq Generations
    /\ crashes \in Nat
    /\ faults \in Nat

Init ==
    /\ gen = [g \in Generations |-> AbsentRow]
    /\ phase = "down"
    /\ boot = 0
    /\ supervised = {}
    /\ pending = {}
    /\ witness = [g \in Generations |-> "none"]
    /\ child = [g \in Generations |-> NoChild]
    /\ spawner = [g \in Generations |-> IdleSpawner]
    /\ fence = [g \in Generations |-> 0]
    /\ term = [g \in Generations |-> IdleTerm]
    /\ rec = IdleRec
    /\ todo = {}
    /\ leader = [g \in Generations |-> "none"]
    /\ helpers = {}
    /\ reused = {}
    /\ created = [g \in Generations |-> 0]
    /\ strayed = {}
    /\ crashes = 0
    /\ faults = 0

----------------------------------------------------------------------------
(* The platform (process_platform.rs) and the store as the tasks see them. *)

Live(g) == leader[g] = "alive" \/ g \in helpers

(* The pid still names the child: it is there until somebody reaps it.     *)
LeaderPresent(g) == leader[g] \in {"alive", "zombie"}

(* Mutant: the leader's exit is taken for the group's.                     *)
LeaderGone(g) == ~LeaderPresent(g) /\ g \notin reused

(* kill(-pgid, 0) answers ESRCH.  A zombie leader, a helper and a stranger *)
(* that now owns the number all make it answer something else.             *)
GroupQuiescent(g) == ~LeaderPresent(g) /\ g \notin helpers \cup reused

(* boot_identity_mismatch_proves_prior_boot                                *)
ProvesPriorBoot(expected, current) ==
    expected # current /\ BootScheme[expected] = BootScheme[current]

(* refresh_owned_exit: try_wait reaps an exited leader.                    *)
Refresh(g) == leader' = [leader EXCEPT ![g] = IF @ = "zombie" THEN "reaped" ELSE @]
(* Mutant: the exit status is reaped and not remembered.                   *)
StatusUnchanged(g) == child[g].status

StatusAfterRefresh(g) == IF leader[g] = "zombie" THEN "exited" ELSE child[g].status

(* SIGKILL of the group.  The signal may fail; if the number was reused it *)
(* reaches a stranger.                                                     *)
KillGroup(g) ==
    \/ UNCHANGED <<leader, helpers, strayed>>
    \/ /\ leader' = [leader EXCEPT ![g] = IF @ = "alive" THEN "zombie" ELSE @]
       /\ helpers' = helpers \ {g}
       /\ strayed' = strayed \cup (reused \cap {g})

(* A store call answers, fails before its commit, or commits and fails to  *)
(* answer.                                                                 *)
Replies == {"ok"} \cup (IF faults < MaxFaults THEN {"fail", "lost"} ELSE {})

Write(g, result, reply) ==
    /\ gen' = IF reply = "fail" THEN gen ELSE [gen EXCEPT ![g] = result.row]
    /\ faults' = IF reply = "ok" THEN faults ELSE faults + 1

Confirmed(result, reply) == reply = "ok" /\ Accepted(result)

(* replace_owned refuses an unreserved generation: the handle is dropped.  *)
RestoreOwned(g, rev, status) ==
    IF g \in supervised THEN Handle("registry", child[g].identity, rev, status) ELSE NoChild

(* Mutant: the exit of the child is not looked at.                         *)
AdmittedAfterExit(g) ==
    /\ fence[g] # 0
    /\ child[g].at = "registry"
    /\ child[g].rev = fence[g]
    /\ child[g].identity = "exact"

(* with_fenced_child: the receipt admits an operation on the owned child.  *)
Admitted(g) ==
    /\ fence[g] # 0
    /\ child[g].at = "registry"
    /\ child[g].rev = fence[g]
    /\ child[g].identity = "exact"
    /\ child[g].status = "running"

----------------------------------------------------------------------------
(* The supervisor's life.                                                  *)

(* Generations a reconciliation pass visits: every non-dead row, and what  *)
(* local_generation_ids still remembers of dead ones.                      *)
Remembered == supervised \cup {g \in Generations : witness[g] # "none"}

PassGenerations(rows, local) ==
    {g \in Generations : Quarantines(rows[g]) \/ (rows[g].state = "dead" /\ g \in local)}

(* ProcessGenerationControl::start: project, then one pass before serving. *)
Start ==
    /\ phase = "down"
    /\ gen' = ProjectAfterSupervisorLoss(gen)
    /\ phase' = "recovering"
    /\ todo' = PassGenerations(gen, {})
    /\ UNCHANGED <<faults, localVars, taskVars, rec, osVars, boot, crashes>>

StartServing ==
    /\ phase = "recovering" /\ todo = {} /\ rec.pc = "idle"
    /\ phase' = "serving"
    /\ UNCHANGED <<storeVars, localVars, taskVars, recVars, osVars, boot, crashes>>

LoseSupervisor ==
    /\ phase' = "down"
    /\ supervised' = {}
    /\ pending' = {}
    /\ witness' = [g \in Generations |-> "none"]
    /\ child' = [g \in Generations |-> NoChild]
    /\ spawner' = [g \in Generations |-> IdleSpawner]
    /\ fence' = [g \in Generations |-> 0]
    /\ term' = [g \in Generations |-> IdleTerm]
    /\ rec' = IdleRec
    /\ todo' = {}

(* The service dies; its children may outlive it.                          *)
Crash ==
    /\ phase # "down" /\ crashes < MaxCrashes
    /\ crashes' = crashes + 1
    /\ LoseSupervisor
    /\ UNCHANGED <<storeVars, osVars, boot>>

(* The host restarts; nothing of the old boot survives.                    *)
Reboot ==
    /\ boot < MaxBoot
    /\ boot' = boot + 1
    /\ LoseSupervisor
    /\ leader' = [g \in Generations |-> IF leader[g] = "none" THEN "none" ELSE "reaped"]
    /\ helpers' = {}
    /\ reused' = {}
    /\ UNCHANGED <<storeVars, created, strayed, crashes>>

----------------------------------------------------------------------------
(* spawn_fenced_inner.                                                     *)

(* Dropping the SupervisionReservation, and the child if the task has it.  *)
ReleaseSpawn(g) ==
    /\ supervised' = supervised \ {g}
    /\ child' = [child EXCEPT ![g] = IF @.at = "spawner" THEN NoChild ELSE @]
    /\ spawner' = [spawner EXCEPT ![g] = IdleSpawner]

SpawnGoto(g, pc, rev) == spawner' = [spawner EXCEPT ![g] = [pc |-> pc, rev |-> rev]]

(* reserve_supervision comes before the durable fence.  A launch request   *)
(* repeated under an id that has a row counts against the fault budget.    *)
SpawnReserve(g) ==
    /\ phase = "serving" /\ spawner[g].pc = "idle" /\ g \notin supervised
    /\ gen[g].state # "absent" => faults < MaxFaults
    /\ faults' = IF gen[g].state # "absent" THEN faults + 1 ELSE faults
    /\ supervised' = supervised \cup {g}
    /\ SpawnGoto(g, "prepare", 0)
    /\ UNCHANGED <<gen, pending, witness, child, fence, term, recVars, osVars, hostVars>>

SpawnPrepare(g) ==
    /\ spawner[g].pc = "prepare"
    /\ \E reply \in Replies :
         LET result == PrepareGeneration(gen, g, boot)
         IN  /\ Write(g, result, reply)
             /\ IF reply = "ok" /\ result.outcome = "applied"
                THEN SpawnGoto(g, "spawn", 1) /\ UNCHANGED <<supervised, child>>
                ELSE ReleaseSpawn(g)
    /\ UNCHANGED <<pending, witness, fence, term, recVars, osVars, hostVars>>

(* Account, receipt, epoch or credential authority refused the admission,  *)
(* or the future was dropped: at any await of the call.                    *)
SpawnAbandon(g) ==
    /\ spawner[g].pc \in {"prepare", "not_created", "bind", "fail_identity", "fail_bound"}
    /\ ReleaseSpawn(g)
    /\ UNCHANGED <<storeVars, pending, witness, fence, term, recVars, osVars, hostVars>>

SpawnProcess(g) ==
    /\ spawner[g].pc = "spawn"
    /\ \/ /\ leader' = [leader EXCEPT ![g] = "alive"]
          /\ created' = [created EXCEPT ![g] = @ + 1]
          /\ child' = [child EXCEPT ![g] =
                          Handle("spawner", "none", spawner[g].rev, "running")]
          /\ SpawnGoto(g, "inspect", spawner[g].rev)
       \/ /\ SpawnGoto(g, "not_created", spawner[g].rev)
          /\ UNCHANGED <<leader, created, child>>
    /\ UNCHANGED <<storeVars, supervised, pending, witness, fence, term, recVars,
                   helpers, reused, strayed, hostVars>>

SpawnNotCreated(g) ==
    /\ spawner[g].pc = "not_created"
    /\ \E reply \in Replies :
         LET result == RecordDeath(gen[g], spawner[g].rev, "spawn_not_created", "none", boot)
         IN  /\ Write(g, result, reply)
             /\ IF Confirmed(result, reply)
                THEN ReleaseSpawn(g) /\ UNCHANGED pending
                ELSE /\ pending' = pending \cup {g}
                     /\ spawner' = [spawner EXCEPT ![g] = IdleSpawner]
                     /\ UNCHANGED <<supervised, child>>
    /\ UNCHANGED <<witness, fence, term, recVars, osVars, hostVars>>

(* inspect_process_identity; a failure kills the group at once.            *)
SpawnInspect(g) ==
    /\ spawner[g].pc = "inspect"
    /\ \/ /\ SpawnGoto(g, "bind", spawner[g].rev)
          /\ child' = [child EXCEPT ![g] = Handle("spawner", "exact", @.rev, @.status)]
          /\ UNCHANGED <<leader, helpers, strayed>>
       \/ /\ SpawnGoto(g, "fail_identity", spawner[g].rev)
          /\ KillGroup(g)
          /\ UNCHANGED child
    /\ UNCHANGED <<storeVars, supervised, pending, witness, fence, term, recVars,
                   reused, created, hostVars>>

(* The identity is bound, the private channels are there and the receipt   *)
(* is issued; otherwise the child is killed and quarantined.  replace_owned*)
(* cannot refuse: the reservation is still this call's (SpawnStaysReserved)*)
SpawnBind(g) ==
    /\ spawner[g].pc = "bind"
    /\ \E reply \in Replies :
         LET result == BindIdentity(gen[g], spawner[g].rev, boot)
             bound  == Confirmed(result, reply)
             rev    == IF bound THEN result.row.rev ELSE spawner[g].rev
         IN  /\ Write(g, result, reply)
             /\ \/ /\ bound /\ g \in supervised
                   /\ child' = [child EXCEPT ![g] = Handle("registry", "exact", rev, "running")]
                   /\ fence' = [fence EXCEPT ![g] = rev]
                   /\ SpawnGoto(g, "launched", rev)
                   /\ UNCHANGED <<leader, helpers, strayed>>
                \/ /\ SpawnGoto(g, "fail_bound", rev)
                   /\ KillGroup(g)
                   /\ UNCHANGED <<child, fence>>
    /\ UNCHANGED <<supervised, pending, witness, term, recVars, reused, created, hostVars>>

(* quarantine_failed_identity and quarantine_failed_bound_identity after   *)
(* the kill: record the loss, wait briefly, keep the handle in the         *)
(* registry whatever the store said.  The second re-reads the revision,    *)
(* since the bind may have committed; that read may fail too.              *)
SpawnQuarantine(g) ==
    /\ spawner[g].pc \in {"fail_identity", "fail_bound"}
    /\ \E reply \in Replies, found \in BOOLEAN :
         LET rereads == spawner[g].pc = "fail_bound"
             rev     == IF rereads /\ found THEN gen[g].rev ELSE spawner[g].rev
             result  == MarkDeathUnknown(gen[g], rev, "identity_persistence_failed")
             kept    == IF Confirmed(result, reply) THEN result.row.rev ELSE rev
         IN  IF found
             THEN /\ Write(g, result, reply)
                  /\ child' = [child EXCEPT ![g] =
                                   RestoreOwned(g, kept, StatusAfterRefresh(g))]
                  /\ Refresh(g)
             ELSE /\ rereads /\ reply = "fail"
                  /\ faults' = faults + 1
                  /\ child' = [child EXCEPT ![g] = RestoreOwned(g, rev, child[g].status)]
                  /\ UNCHANGED <<gen, leader>>
    /\ spawner' = [spawner EXCEPT ![g] = IdleSpawner]
    /\ UNCHANGED <<supervised, pending, witness, fence, term, recVars,
                   helpers, reused, created, strayed, hostVars>>

----------------------------------------------------------------------------
(* initialize_account_process and mark_spawned_ready.                      *)

(* The caller initializes its child under the registry's lock, which is    *)
(* released before the row is marked.                                      *)
Initialize(g) ==
    /\ spawner[g].pc = "launched"
    /\ Admitted(g)
    /\ SpawnGoto(g, "initialized", spawner[g].rev)
    /\ UNCHANGED <<storeVars, localVars, fence, term, recVars, osVars, hostVars>>

(* Whether the child is still there, and running, is not asked again.      *)
MarkSpawnedReady(g) ==
    /\ spawner[g].pc = "initialized"
    /\ \E reply \in Replies :
         LET result == MarkReady(gen[g], fence[g])
         IN  /\ Write(g, result, reply)
             /\ IF Confirmed(result, reply)
                THEN /\ fence' = [fence EXCEPT ![g] = result.row.rev]
                     /\ SpawnGoto(g, "readied", result.row.rev)
                ELSE /\ spawner' = [spawner EXCEPT ![g] = IdleSpawner]
                     /\ UNCHANGED fence
    /\ UNCHANGED <<localVars, term, recVars, osVars, hostVars>>

(* The registry entry follows the receipt, if it is still there.           *)
FollowReceipt(g) ==
    /\ spawner[g].pc = "readied"
    /\ child' = [child EXCEPT ![g].rev =
                    IF child[g].at = "registry" /\ child[g].identity = "exact" THEN fence[g] ELSE @]
    /\ spawner' = [spawner EXCEPT ![g] = IdleSpawner]
    /\ UNCHANGED <<storeVars, supervised, pending, witness, fence, term, recVars, osVars, hostVars>>

(* Initialization failed: the caller goes on to terminate.                 *)
LaunchFails(g) ==
    /\ spawner[g].pc = "launched"
    /\ spawner' = [spawner EXCEPT ![g] = IdleSpawner]
    /\ UNCHANGED <<storeVars, localVars, fence, term, recVars, osVars, hostVars>>

----------------------------------------------------------------------------
(* terminate_exact.                                                        *)

TermGoto(g, pc, rev) ==
    term' = [term EXCEPT ![g] = [pc |-> pc, rev |-> rev, identity |-> term[g].identity]]

(* The caller's expected revision is the row's; a dead row, a stale caller *)
(* or a generation not owned returns here and changes nothing.             *)
TermRead(g) ==
    /\ phase = "serving" /\ term[g].pc = "idle" /\ child[g].at = "registry"
    /\ Quarantines(gen[g]) /\ gen[g].rev <= MaxRevision
    /\ term' = [term EXCEPT ![g] = [pc |-> "take", rev |-> gen[g].rev,
                                    identity |-> gen[g].identity]]
    /\ UNCHANGED <<storeVars, localVars, spawner, fence, recVars, osVars, hostVars>>

(* Take the handle out of the registry, so that nobody else uses it.       *)
TermTake(g) ==
    /\ term[g].pc = "take"
    /\ \/ /\ child[g].at = "registry" /\ g \in supervised
          /\ child[g].identity = "exact" /\ term[g].identity = "exact"
          /\ child' = [child EXCEPT ![g] =
                          Handle("terminator", "exact", term[g].rev, StatusAfterRefresh(g))]
          /\ Refresh(g)
          /\ TermGoto(g, "stopping", term[g].rev)
       \/ /\ child[g].at = "registry" /\ g \notin supervised
          /\ child' = [child EXCEPT ![g] = NoChild]
          /\ term' = [term EXCEPT ![g] = IdleTerm]
          /\ UNCHANGED leader
       \/ /\ \/ child[g].at # "registry"
             \/ child[g].identity # "exact" \/ term[g].identity # "exact"
          /\ child[g].at = "registry" => g \in supervised
          /\ term' = [term EXCEPT ![g] = IdleTerm]
          /\ UNCHANGED <<child, leader>>
    /\ UNCHANGED <<storeVars, supervised, pending, witness, spawner, fence, recVars,
                   helpers, reused, created, strayed, hostVars>>

(* Any ending but a recorded death puts the handle back.                   *)
TermRestore(g, rev) ==
    /\ child' = [child EXCEPT ![g] = RestoreOwned(g, rev, child[g].status)]
    /\ term' = [term EXCEPT ![g] = IdleTerm]

TermStopping(g) ==
    /\ term[g].pc = "stopping"
    /\ \E reply \in Replies :
         LET result == MarkStopping(gen[g], term[g].rev)
         IN  /\ Write(g, result, reply)
             /\ IF Confirmed(result, reply)
                THEN /\ child' = [child EXCEPT ![g].rev = result.row.rev]
                     /\ TermGoto(g, "shutdown", result.row.rev)
                ELSE TermRestore(g, term[g].rev)
    /\ UNCHANGED <<supervised, pending, witness, spawner, fence, recVars, osVars, hostVars>>

(* Mutant: the group is signalled after its leader was reaped.             *)
SignalAfterReap(g) ==
    /\ term[g].pc = "shutdown"
    /\ KillGroup(g)
    /\ UNCHANGED <<storeVars, localVars, taskVars, recVars, reused, created, hostVars>>

(* begin_owned_shutdown and the loop: signal only a leader nobody reaped.  *)
TermSignal(g) ==
    /\ term[g].pc = "shutdown" /\ child[g].status = "running"
    /\ LeaderPresent(g)
    /\ KillGroup(g)
    /\ UNCHANGED <<storeVars, localVars, taskVars, recVars, reused, created, hostVars>>

TermObserveExit(g) ==
    /\ term[g].pc = "shutdown" /\ child[g].status = "running" /\ leader[g] = "zombie"
    /\ child' = [child EXCEPT ![g].status = "exited"]
    /\ Refresh(g)
    /\ UNCHANGED <<storeVars, supervised, pending, witness, taskVars, recVars,
                   helpers, reused, created, strayed, hostVars>>

TermProve(g) ==
    /\ term[g].pc = "shutdown" /\ child[g].status = "exited" /\ GroupQuiescent(g)
    /\ TermGoto(g, "death", term[g].rev)
    /\ UNCHANGED <<storeVars, localVars, spawner, fence, recVars, osVars, hostVars>>

TermDeath(g) ==
    /\ term[g].pc = "death"
    /\ \E reply \in Replies :
         LET result == RecordDeath(gen[g], term[g].rev, "exact_termination_exit", "exact", boot)
         IN  /\ Write(g, result, reply)
             /\ IF Confirmed(result, reply)
                THEN /\ supervised' = supervised \ {g}
                     /\ child' = [child EXCEPT ![g] = NoChild]
                     /\ term' = [term EXCEPT ![g] = IdleTerm]
                ELSE TermRestore(g, term[g].rev) /\ UNCHANGED supervised
    /\ UNCHANGED <<pending, witness, spawner, fence, recVars, osVars, hostVars>>

(* The deadline passed.                                                    *)
TermUnproved(g) ==
    /\ term[g].pc = "shutdown"
    /\ \E reply \in Replies :
         LET result == MarkDeathUnknown(gen[g], term[g].rev, "termination_unproved")
         IN  /\ Write(g, result, reply)
             /\ TermRestore(g, IF Confirmed(result, reply) THEN result.row.rev ELSE term[g].rev)
    /\ UNCHANGED <<supervised, pending, witness, spawner, fence, recVars, osVars, hostVars>>

(* A platform error ends the shutdown early.                               *)
TermPlatformError(g) ==
    /\ term[g].pc = "shutdown"
    /\ TermRestore(g, term[g].rev)
    /\ UNCHANGED <<storeVars, supervised, pending, witness, spawner, fence, recVars, osVars, hostVars>>

(* The future was dropped: the handle and the reservation go with it.      *)
TermCancel(g) ==
    /\ term[g].pc \in {"stopping", "shutdown", "death"}
    /\ supervised' = supervised \ {g}
    /\ child' = [child EXCEPT ![g] = NoChild]
    /\ term' = [term EXCEPT ![g] = IdleTerm]
    /\ UNCHANGED <<storeVars, pending, witness, spawner, fence, recVars, osVars, hostVars>>

----------------------------------------------------------------------------
(* reconcile_all: one generation at a time.                                *)

RecIdle == rec' = IdleRec
RecGoto(g, pc, snap, kind) == rec' = [pc |-> pc, g |-> g, snap |-> snap, kind |-> kind]

(* Mutant: the retry expects the revision the death would have.            *)
PendingAtNextRevision(g) ==
    /\ phase # "down" /\ rec.pc = "idle" /\ g \in pending
    /\ \E reply \in Replies :
         LET result == RecordDeath(gen[g], gen[g].rev + 1, "spawn_not_created", "none", boot)
         IN  /\ Write(g, result, reply)
             /\ IF Confirmed(result, reply)
                THEN pending' = pending \ {g} /\ supervised' = supervised \ {g}
                ELSE UNCHANGED <<pending, supervised>>
    /\ UNCHANGED <<witness, child, taskVars, recVars, osVars, hostVars>>

(* reconcile_pending_non_creation_exact                                    *)
RecPending(g) ==
    /\ phase # "down" /\ rec.pc = "idle" /\ g \in pending
    /\ \E reply \in Replies :
         LET result == RecordDeath(gen[g], gen[g].rev, "spawn_not_created", "none", boot)
         IN  /\ IF gen[g].state = "dead"
                THEN reply = "ok" /\ UNCHANGED storeVars
                ELSE Write(g, result, reply)
             /\ IF gen[g].state = "dead" \/ Confirmed(result, reply)
                THEN pending' = pending \ {g} /\ supervised' = supervised \ {g}
                ELSE UNCHANGED <<pending, supervised>>
    /\ UNCHANGED <<witness, child, taskVars, recVars, osVars, hostVars>>

(* The pass reads a row; what it does with the row comes later.            *)
RecRead(g) ==
    /\ rec.pc = "idle"
    /\ \/ phase = "recovering" /\ g \in todo
       \/ phase = "serving" /\ g \in PassGenerations(gen, Remembered)
    /\ todo' = todo \ {g}
    /\ RecGoto(g, "check", gen[g], "none")
    /\ UNCHANGED <<storeVars, localVars, taskVars, osVars, hostVars>>

(* clear_local_generation                                                  *)
RecClear(g, snap) ==
    /\ snap.state = "dead"
    /\ witness' = [witness EXCEPT ![g] = "none"]
    /\ child' = [child EXCEPT ![g] = IF @.at = "registry" THEN NoChild ELSE @]
    /\ supervised' = supervised \ {g}
    /\ pending' = pending \ {g}
    /\ RecIdle
    /\ UNCHANGED osVars

(* Mutant: an unbound generation of an older boot stays quarantined.       *)
ProveBootEndedIfBound(g, snap) ==
    /\ ProvesPriorBoot(snap.boot, boot)
    /\ IF snap.identity = "exact" THEN RecGoto(g, "write", snap, "prior_boot_ended") ELSE RecIdle
    /\ UNCHANGED <<localVars, osVars>>

RecProveBootEnded(g, snap) ==
    /\ ProvesPriorBoot(snap.boot, boot)
    /\ RecGoto(g, "write", snap, "prior_boot_ended")
    /\ UNCHANGED <<localVars, osVars>>

(* owned_positive_exit.  It also overwrites the owned revision with the    *)
(* snapshot's.  A handle without an identity conflicts with a bound row.   *)
RecOwned(g, snap) ==
    /\ ~ProvesPriorBoot(snap.boot, boot) /\ child[g].at = "registry"
    /\ \/ /\ snap.identity = "exact" /\ child[g].identity = "none"
          /\ RecIdle
          /\ UNCHANGED <<child, leader>>
       \/ /\ snap.identity = "exact" => child[g].identity = "exact"
          /\ child' = [child EXCEPT ![g] =
                          Handle("registry", child[g].identity, snap.rev, StatusAfterRefresh(g))]
          /\ Refresh(g)
          /\ IF StatusAfterRefresh(g) = "exited" /\ g \notin helpers \cup reused
             THEN RecGoto(g, "write", snap, "owned_child_exit")
             ELSE RecIdle
    /\ UNCHANGED <<supervised, pending, witness, helpers, reused, created, strayed>>

(* Mutant: a reservation without a child is taken for a leftover.          *)
ReleaseInFlight(g, snap) ==
    /\ ~ProvesPriorBoot(snap.boot, boot) /\ child[g].at # "registry" /\ g \in supervised
    /\ supervised' = supervised \ {g}
    /\ RecIdle
    /\ UNCHANGED <<pending, witness, child, osVars>>

RecInFlight(g, snap) ==
    /\ ~ProvesPriorBoot(snap.boot, boot) /\ child[g].at # "registry" /\ g \in supervised
    /\ RecIdle
    /\ UNCHANGED <<localVars, osVars>>

(* Mutant: a witness that fired while helpers lived is not looked at again.*)
RestoredFiresOnce(g, snap) ==
    LET bound == snap.identity = "exact"
        gone  == MacOS /\ GroupQuiescent(g)
    IN  /\ ~ProvesPriorBoot(snap.boot, boot) /\ child[g].at # "registry" /\ g \notin supervised
        /\ \/ /\ bound /\ gone
              /\ RecGoto(g, "write", snap, "macos_kernel_confirmed_gone")
              /\ UNCHANGED witness
           \/ /\ bound /\ ~gone /\ witness[g] = "none" /\ LeaderPresent(g)
              /\ witness' = [witness EXCEPT ![g] = "attached"]
              /\ RecIdle
           \/ /\ bound /\ ~gone /\ witness[g] = "attached" /\ leader[g] # "alive"
              /\ witness' = [witness EXCEPT ![g] = "fired"]
              /\ IF GroupQuiescent(g) THEN RecGoto(g, "write", snap, "witnessed_exit")
                                      ELSE RecIdle
           \/ /\ bound /\ ~gone => IF witness[g] = "none" THEN ~LeaderPresent(g)
                                ELSE witness[g] = "fired" \/ leader[g] = "alive"
              /\ ~(bound /\ gone)
              /\ RecIdle
              /\ UNCHANGED witness
        /\ UNCHANGED <<supervised, pending, child, osVars>>

(* reconcile_restored_observer: only a witness attached to the exact live  *)
(* process, or on macOS two ESRCH answers, prove anything; an absent pid   *)
(* or another process under it proves nothing.                             *)
RecRestored(g, snap) ==
    LET bound == snap.identity = "exact"
        gone  == MacOS /\ GroupQuiescent(g)
    IN  /\ ~ProvesPriorBoot(snap.boot, boot) /\ child[g].at # "registry" /\ g \notin supervised
        /\ \/ /\ bound /\ gone
              /\ RecGoto(g, "write", snap, "macos_kernel_confirmed_gone")
              /\ UNCHANGED witness
           \/ /\ bound /\ ~gone /\ witness[g] = "none" /\ LeaderPresent(g)
              /\ witness' = [witness EXCEPT ![g] = "attached"]
              /\ RecIdle
           \/ /\ bound /\ ~gone /\ witness[g] # "none" /\ leader[g] # "alive"
              /\ witness' = [witness EXCEPT ![g] = "fired"]
              /\ IF GroupQuiescent(g) THEN RecGoto(g, "write", snap, "witnessed_exit")
                                      ELSE RecIdle
           \/ /\ bound /\ ~gone => IF witness[g] = "none" THEN ~LeaderPresent(g)
                                                              ELSE leader[g] = "alive"
              /\ ~(bound /\ gone)
              /\ RecIdle
              /\ UNCHANGED witness
        /\ UNCHANGED <<supervised, pending, child, osVars>>

(* reconcile_projection once authority is accounted for.                   *)
RecSettle(g, snap) ==
    \/ RecProveBootEnded(g, snap) \/ RecOwned(g, snap)
    \/ RecInFlight(g, snap) \/ RecRestored(g, snap)

(* Mutant: a spawn or a termination in flight is not looked at.            *)
UnsupervisedOrInFlight(g, snap) == snap.state # "death_unknown" /\ child[g].at # "registry"

(* A generation nobody supervises has lost its authority.                  *)
Unsupervised(g, snap) == snap.state # "death_unknown" /\ g \notin supervised

RecCheck ==
    /\ rec.pc = "check"
    /\ \/ RecClear(rec.g, rec.snap)
       \/ /\ rec.snap.state # "dead" /\ Unsupervised(rec.g, rec.snap)
          /\ RecGoto(rec.g, "mark", rec.snap, "none")
          /\ UNCHANGED <<localVars, osVars>>
       \/ /\ rec.snap.state # "dead" /\ ~Unsupervised(rec.g, rec.snap)
          /\ RecSettle(rec.g, rec.snap)
    /\ UNCHANGED <<storeVars, taskVars, todo, hostVars>>

RecMark ==
    /\ rec.pc = "mark"
    /\ \E reply \in Replies :
         LET result == MarkDeathUnknown(gen[rec.g], rec.snap.rev, "supervisor_restarted")
             marked == [state |-> "death_unknown", boot |-> rec.snap.boot,
                        identity |-> rec.snap.identity, reason |-> "supervisor_restarted",
                        evidence |-> rec.snap.evidence, rev |-> result.row.rev]
         IN  /\ Write(rec.g, result, reply)
             /\ IF Confirmed(result, reply)
                THEN RecGoto(rec.g, "settle", marked, "none")
                ELSE RecIdle
    /\ UNCHANGED <<localVars, taskVars, todo, osVars, hostVars>>

RecSettleMarked ==
    /\ rec.pc = "settle"
    /\ RecSettle(rec.g, rec.snap)
    /\ UNCHANGED <<storeVars, taskVars, todo, hostVars>>

(* record_positive_death, then remove_owned or remove_observer.  Prior-    *)
(* boot evidence names no identity.                                        *)
RecWrite ==
    /\ rec.pc = "write"
    /\ \E reply \in Replies :
         LET g      == rec.g
             identity == IF rec.kind = "prior_boot_ended" THEN "none" ELSE rec.snap.identity
             result == RecordDeath(gen[g], rec.snap.rev, rec.kind, identity, boot)
             done   == Confirmed(result, reply)
             owned  == done /\ rec.kind = "owned_child_exit"
         IN  /\ Write(g, result, reply)
             /\ child' = [child EXCEPT ![g] = IF owned /\ @.at = "registry" THEN NoChild ELSE @]
             /\ supervised' = IF owned THEN supervised \ {g} ELSE supervised
             /\ witness' = [witness EXCEPT ![g] =
                                IF done /\ rec.kind = "witnessed_exit" THEN "none" ELSE @]
    /\ RecIdle
    /\ UNCHANGED <<pending, taskVars, todo, osVars, hostVars>>

----------------------------------------------------------------------------
(* The operating system.                                                   *)

LeaderExits(g) ==
    /\ leader[g] = "alive"
    /\ leader' = [leader EXCEPT ![g] = "zombie"]
    /\ UNCHANGED <<storeVars, localVars, taskVars, recVars, helpers, reused, created,
                   strayed, hostVars>>

HelperStarts(g) ==
    /\ leader[g] = "alive" /\ g \notin helpers
    /\ helpers' = helpers \cup {g}
    /\ UNCHANGED <<storeVars, localVars, taskVars, recVars, leader, reused, created,
                   strayed, hostVars>>

HelperExits(g) ==
    /\ g \in helpers
    /\ helpers' = helpers \ {g}
    /\ UNCHANGED <<storeVars, localVars, taskVars, recVars, leader, reused, created,
                   strayed, hostVars>>

(* init, or the reaper a dropped handle was transferred to.                *)
ReapAbandoned(g) ==
    /\ leader[g] = "zombie" /\ child[g].at = "none"
    /\ leader' = [leader EXCEPT ![g] = "reaped"]
    /\ UNCHANGED <<storeVars, localVars, taskVars, recVars, helpers, reused, created,
                   strayed, hostVars>>

(* The number is free once the leader is reaped and the group is empty.    *)
(* Reuse is followed while somebody may still look at the number.          *)
PidReused(g) ==
    /\ leader[g] = "reaped" /\ g \notin helpers \cup reused
    /\ Quarantines(gen[g]) /\ gen[g].boot = boot
    /\ reused' = reused \cup {g}
    /\ UNCHANGED <<storeVars, localVars, taskVars, recVars, leader, helpers, created,
                   strayed, hostVars>>

----------------------------------------------------------------------------
SpawnStep(g) ==
    \/ SpawnReserve(g) \/ SpawnPrepare(g) \/ SpawnAbandon(g) \/ SpawnProcess(g)
    \/ SpawnNotCreated(g) \/ SpawnInspect(g) \/ SpawnBind(g) \/ SpawnQuarantine(g)
    \/ Initialize(g) \/ MarkSpawnedReady(g) \/ FollowReceipt(g) \/ LaunchFails(g)

TermStep(g) ==
    \/ TermRead(g) \/ TermTake(g) \/ TermStopping(g) \/ TermSignal(g) \/ TermObserveExit(g)
    \/ TermProve(g) \/ TermDeath(g) \/ TermUnproved(g)
    \/ TermPlatformError(g) \/ TermCancel(g)

RecStep == RecCheck \/ RecMark \/ RecSettleMarked \/ RecWrite

OsStep(g) ==
    \/ LeaderExits(g) \/ HelperStarts(g) \/ HelperExits(g) \/ ReapAbandoned(g) \/ PidReused(g)

Next ==
    \/ Start \/ StartServing \/ Crash \/ Reboot
    \/ RecStep
    \/ \E g \in Generations :
          SpawnStep(g) \/ TermStep(g) \/ RecPending(g) \/ RecRead(g) \/ OsStep(g)

Spec == Init /\ [][Next]_vars

(* The reconciliation task ticks forever and every pass begins with all    *)
(* pending non-creations and then visits every generation, hence strong    *)
(* fairness of the visits.  A launch in progress runs on, the termination  *)
(* loop has a deadline.  The host restarts the service, and init and the   *)
(* reaper thread reap.                                                     *)
Fairness ==
    /\ WF_vars(Start) /\ WF_vars(StartServing)
    /\ WF_vars(RecStep)
    /\ \A g \in Generations :
          /\ SF_vars(RecPending(g)) /\ SF_vars(RecRead(g))
          /\ WF_vars(SpawnPrepare(g) \/ SpawnProcess(g) \/ SpawnNotCreated(g)
                        \/ SpawnInspect(g) \/ SpawnBind(g) \/ SpawnQuarantine(g))
          /\ WF_vars(TermTake(g) \/ TermStopping(g) \/ TermProve(g) \/ TermDeath(g)
                        \/ TermUnproved(g))
          /\ WF_vars(ReapAbandoned(g))

FairSpec == Spec /\ Fairness

----------------------------------------------------------------------------
(* Properties.                                                             *)

(* A row says dead only when nothing of the generation's process group is  *)
(* running: every path that records death (non-creation, owned exit,       *)
(* witness, macOS ESRCH, exact termination, prior boot) carries proof.     *)
TruthfulDeath == \A g \in Generations : gen[g].state = "dead" => ~Live(g)

(* No two live process groups share an account, across crashes, restarts,  *)
(* reboots, lost answers and dropped futures: the point of the durable     *)
(* spawn fence and of the account quarantine.                              *)
OneProcessPerAccount ==
    \A g, h \in Generations :
        g # h /\ AccountOf[g] = AccountOf[h] => ~(Live(g) /\ Live(h))

(* A generation id creates at most one process however often its spawn is  *)
(* asked for again: a replayed preparation is never a fresh fence.         *)
OneCreationPerFence == \A g \in Generations : created[g] <= 1

(* Only a generation whose child handle is gone is ever projected as lost  *)
(* to a supervisor restart; a spawn or a termination in flight is not,     *)
(* although the reconciler decides on an older snapshot.                   *)
RestartReasonMeansUnheld ==
    \A g \in Generations : gen[g].reason = "supervisor_restarted" => child[g].at = "none"

(* The reservation taken before the durable fence covers the spawn until   *)
(* it returns: nothing the reconciler or a termination does takes it away. *)
(* (A retry under an id that is already dead may lose it; it is refused.)  *)
SpawnStaysReserved ==
    \A g \in Generations :
        /\ spawner[g].pc \notin {"idle", "launched", "initialized", "readied"}
        /\ gen[g].state # "dead"
        => g \in supervised

(* with_fenced_child admits an operation only on the generation's own      *)
(* unreaped process, whose pid cannot have been reused, and only while its *)
(* row has the identity and still quarantines the account.                 *)
AdmissionIsExact ==
    \A g \in Generations :
        Admitted(g) => LeaderPresent(g) /\ gen[g].identity = "exact" /\ Quarantines(gen[g])

(* No signal reaches a process group that reused the child's number: the   *)
(* supervisor signals only while its own handle keeps the leader unreaped. *)
NoForeignSignal == strayed = {}

(* A row changes only by the next revision, and a dead row never: two      *)
(* holders of one revision cannot both commit.                             *)
RevisionFencesEveryChange ==
    [][\A g \in Generations :
          gen'[g] # gen[g] => /\ gen'[g].rev = gen[g].rev + 1
                              /\ gen[g].state # "dead"]_vars

(* A process group that ended while its handle is in the registry is       *)
(* recorded dead, which frees the account, unless its number was reused    *)
(* first or the handle is lost.                                            *)
OwnedExitSettles ==
    \A g \in Generations :
        (child[g].at = "registry" /\ ~Live(g))
            ~> (gen[g].state = "dead" \/ g \in reused \/ child[g].at = "none")

(* After a restart, the exit of a process under a kernel witness is        *)
(* recorded, unless the number is reused or the witness is lost first.     *)
WitnessedExitSettles ==
    \A g \in Generations :
        (witness[g] # "none" /\ ~Live(g))
            ~> (gen[g].state = "dead" \/ g \in reused \/ witness[g] = "none")

(* Once the host has rebooted, every older generation is recorded dead:    *)
(* whatever was lost, the quarantine ends.                                 *)
RebootEndsQuarantine ==
    \A g \in Generations :
        (Quarantines(gen[g]) /\ ProvesPriorBoot(gen[g].boot, boot))
            ~> (gen[g].state = "dead" \/ ~ProvesPriorBoot(gen[g].boot, boot))

(* A proof of non-creation that could not be written is written later.     *)
PendingNonCreationSettles ==
    \A g \in Generations : g \in pending ~> g \notin pending

(* The supervisor implements the abstract account slot: a row takes it, a  *)
(* recorded death gives it back, and no crash, replay or lost answer does. *)
Slot == INSTANCE AccountSlot WITH
            held    <- {g \in Generations : Quarantines(gen[g])},
            spent   <- {g \in Generations : gen[g].state # "absent"},
            started <- {g \in Generations : created[g] > 0},
            running <- {g \in Generations : Live(g)}

ImplementsAccountSlot == Slot!SlotSpec

(* A current receipt for a ready, still-owned, running child is admitted.  *)
ReceiptAdmitsItsChild ==
    \A g \in Generations :
        (/\ fence[g] # 0 /\ fence[g] = gen[g].rev /\ gen[g].state = "ready"
         /\ spawner[g].pc = "idle" /\ child[g].at = "registry" /\ leader[g] = "alive")
        => Admitted(g)
=============================================================================
