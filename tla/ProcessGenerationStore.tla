---------------------- MODULE ProcessGenerationStore ----------------------
(***************************************************************************)
(* The durable ProcessGeneration table of database/src/process_generations *)
(* .rs.  Every store operation is one SQLite transaction on one row (two   *)
(* look at the whole table), so each is an operator that takes the current *)
(* row and the caller's arguments and returns what the transaction answers *)
(* and the row it leaves behind.                                           *)
(*                                                                         *)
(* A generation has at most one process, so its exact identity (boot, pid, *)
(* start time, group, session) is abstracted to "exact", and an absent one *)
(* to "none".                                                              *)
(***************************************************************************)
EXTENDS Naturals

CONSTANTS
    Generations,        \* generation ids ever used
    Accounts,           \* account ids
    AccountOf           \* the account each generation id is minted for

ASSUME AccountAssumption == AccountOf \in [Generations -> Accounts]

----------------------------------------------------------------------------
(* Rows.                                                                   *)

States == {"absent", "starting", "ready", "stopping", "dead", "death_unknown"}

LossReasons == {"none", "identity_persistence_failed", "supervisor_restarted",
                "termination_unproved"}

(* linux_pidfd_exit and macos_kqueue_exit_and_group_quiescence are one     *)
(* kind here, "witnessed_exit": the platform picks which, never both.      *)
EvidenceKinds == {"none", "spawn_not_created", "owned_child_exit", "witnessed_exit",
                  "macos_kernel_confirmed_gone", "exact_termination_exit",
                  "prior_boot_ended"}

Identities == {"none", "exact"}

Row == [state    : States,
        boot     : Nat,             \* intended_boot_id
        identity : Identities,      \* process_identity
        reason   : LossReasons,     \* authority_loss_reason
        evidence : EvidenceKinds,   \* death_evidence_id, derived from the kind
        rev      : Nat]

AbsentRow == [state |-> "absent", boot |-> 0, identity |-> "none",
              reason |-> "none", evidence |-> "none", rev |-> 0]

(* ProcessGenerationState::quarantines_account: every state but dead.      *)
Quarantines(row) == row.state \notin {"absent", "dead"}

Applied(row)  == [outcome |-> "applied",  row |-> row]
Replayed(row) == [outcome |-> "replayed", row |-> row]
Rejected(row) == [outcome |-> "rejected", row |-> row]

(* Mutant: the UPDATE forgets the revision.                                *)
UpdateSameRevision(row, state, identity, reason, evidence) ==
    [state |-> state, boot |-> row.boot, identity |-> identity,
     reason |-> reason, evidence |-> evidence, rev |-> row.rev]

(* An UPDATE: some columns, always at the next revision.                   *)
Update(row, state, identity, reason, evidence) ==
    [state |-> state, boot |-> row.boot, identity |-> identity,
     reason |-> reason, evidence |-> evidence, rev |-> row.rev + 1]

(* accepted_mutation: a replay is as good as an application.               *)
Accepted(result) == result.outcome # "rejected"

----------------------------------------------------------------------------
(* Operations.                                                             *)

(* Mutant: a generation of unknown death does not quarantine its account.  *)
PrepareBesideUnknown(rows, g, boot) ==
    IF rows[g].state # "absent"
    THEN IF rows[g].boot = boot THEN Replayed(rows[g]) ELSE Rejected(rows[g])
    ELSE IF \E h \in Generations : /\ AccountOf[h] = AccountOf[g]
                                   /\ rows[h].state \in {"starting", "ready", "stopping"}
         THEN Rejected(rows[g])
         ELSE Applied([state |-> "starting", boot |-> boot, identity |-> "none",
                       reason |-> "none", evidence |-> "none", rev |-> 1])

(* prepare_bound_generation: an existing id is a replay (never a fresh     *)
(* fence); a new one is admitted only if no generation of the account      *)
(* quarantines it.                                                         *)
PrepareGeneration(rows, g, boot) ==
    IF rows[g].state # "absent"
    THEN IF rows[g].boot = boot THEN Replayed(rows[g]) ELSE Rejected(rows[g])
    ELSE IF \E h \in Generations : AccountOf[h] = AccountOf[g] /\ Quarantines(rows[h])
         THEN Rejected(rows[g])
         ELSE Applied([state |-> "starting", boot |-> boot, identity |-> "none",
                       reason |-> "none", evidence |-> "none", rev |-> 1])

BindIdentity(row, expected, boot) ==
    IF row.rev = expected + 1 /\ row.identity = "exact" THEN Replayed(row)
    ELSE IF \/ row.rev # expected \/ row.state # "starting"
            \/ row.identity # "none" \/ row.boot # boot
         THEN Rejected(row)
         ELSE Applied(Update(row, row.state, "exact", row.reason, row.evidence))

(* transition_generation, shared by mark_ready and mark_stopping.          *)
Transition(row, expected, sources, target) ==
    IF row.state = target /\ row.rev = expected + 1 THEN Replayed(row)
    ELSE IF row.rev # expected \/ row.state \notin sources \/ row.identity = "none"
         THEN Rejected(row)
         ELSE Applied(Update(row, target, row.identity, "none", row.evidence))

MarkReady(row, expected) == Transition(row, expected, {"starting"}, "ready")

MarkStopping(row, expected) ==
    Transition(row, expected, {"starting", "ready", "stopping", "death_unknown"}, "stopping")

MarkDeathUnknown(row, expected, reason) ==
    IF row.state = "death_unknown" /\ row.reason = reason /\ row.rev = expected + 1
    THEN Replayed(row)
    ELSE IF row.state = "absent" \/ row.rev # expected \/ row.state = "dead"
         THEN Rejected(row)
         ELSE Applied(Update(row, "death_unknown", row.identity, reason, row.evidence))

(* record_process_generation_death.  The evidence id is a digest of the    *)
(* generation and the kind, so the kind stands for it.                     *)
RecordDeath(row, expected, kind, identity, observedBoot) ==
    LET identityMatches ==
            IF kind = "prior_boot_ended"
            THEN identity = "none" /\ observedBoot # row.boot
            ELSE identity = row.identity
    IN  IF row.state = "dead"
        THEN IF row.evidence = kind THEN Replayed(row) ELSE Rejected(row)
        ELSE IF row.state = "absent" \/ row.rev # expected \/ ~identityMatches
             THEN Rejected(row)
             ELSE Applied(Update(row, "dead", row.identity, "none", kind))

(* project_process_generations_after_supervisor_loss, on the whole table.  *)
ProjectAfterSupervisorLoss(rows) ==
    [g \in Generations |->
        IF rows[g].state \in {"absent", "dead", "death_unknown"}
        THEN rows[g]
        ELSE Update(rows[g], "death_unknown", rows[g].identity, "supervisor_restarted",
                    rows[g].evidence)]
=============================================================================
