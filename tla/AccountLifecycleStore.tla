----------------------- MODULE AccountLifecycleStore -----------------------
(***************************************************************************)
(* The durable account of database/src/account_lifecycle.rs: its registry  *)
(* row, its credential record and the journal of its lifecycle operations, *)
(* all in one SQLite file.  Each operator is one transaction: from the     *)
(* database and the caller's arguments to the outcome and the database it  *)
(* leaves.                                                                 *)
(***************************************************************************)
EXTENDS Naturals

CONSTANTS
    Operations,     \* identities of lifecycle operations
    NoOperation     \* SQL NULL where an operation is referred to

ASSUME StoreAssumption == NoOperation \notin Operations

(* AccountOperationKind; Import behaves as Enroll.                         *)
Kinds == {"none", "enroll", "refresh", "logout"}

(* AccountOperationPhase; "none" is no row.                                *)
Phases == {"none", "prepared", "pending", "applied", "committed", "cancelled", "recovery"}
UnsettledPhases == {"prepared", "pending", "applied", "recovery"}

(* recovery_code.  "rejected" stands for provider_refresh_rejected and     *)
(* provider_access_rejected_after_refresh, "other" for the ambiguous ones. *)
Codes == {"none", "rejected", "other"}

(* CredentialBinding: its version, the operation that wrote it, and the    *)
(* refresh token its fingerprint stands for.                               *)
Reference == Operations \cup {NoOperation}
Credential == [v : Nat, by : Reference, t : Nat]
NoCredential == [v |-> 0, by |-> NoOperation, t |-> 0]
Binding(v, o, t) == [v |-> v, by |-> o, t |-> t]

(* rev is expected_account_revision, 0 for NULL; recovers and by are       *)
(* recovery_operation_id and superseded_by_operation_id.                   *)
Operation == [kind : Kinds, phase : Phases, rev : Nat, expected : Credential,
              target : Credential, code : Codes, recovers : Reference, by : Reference]
NewOperation(kind, rev, expected, target, recovers) ==
    [kind |-> kind, phase |-> "prepared", rev |-> rev, expected |-> expected,
     target |-> target, code |-> "none", recovers |-> recovers, by |-> NoOperation]
NoOp == [NewOperation("none", 0, NoCredential, NoCredential, NoOperation)
         EXCEPT !.phase = "none"]

Account == [row : {"none", "live", "tombstone"}, rev : Nat, enabled : BOOLEAN]
Database == [acct : Account, cred : Credential, ops : [Operations -> Operation]]

Result(outcome, db) == [outcome |-> outcome, db |-> db]
Accepted(r) == r.outcome \in {"applied", "replayed"}

IsUnsettled(op) == op.phase \in UnsettledPhases /\ op.by = NoOperation
UnsettledOf(db) == {o \in Operations : IsUnsettled(db.ops[o])}

(* unsettled_operation_sync: the takeover of an operation comes first.     *)
UnsettledOperation(db) ==
    LET takeovers == {o \in UnsettledOf(db) : db.ops[o].recovers # NoOperation}
    IN IF UnsettledOf(db) = {} THEN NoOperation
       ELSE CHOOSE o \in UnsettledOf(db) : takeovers = {} \/ o \in takeovers

----------------------------------------------------------------------------
(* Preparation.                                                            *)

(* tombstone_predecessor_credential_sync: the credential the last logout   *)
(* removed, NoCredential where the function fails.                         *)
Predecessor(db) ==
    LET logouts == {o \in Operations : db.ops[o].kind = "logout" /\ db.ops[o].phase = "committed"}
        last == {o \in logouts : \A x \in logouts : db.ops[x].rev <= db.ops[o].rev}
        removed == {db.ops[o].expected : o \in {x \in last : db.ops[x].rev + 1 = db.acct.rev}}
    IN IF removed = {} THEN NoCredential ELSE CHOOSE credential \in removed : TRUE

(* resolve_account_enrollment_sync succeeds; a credential under a tombstone *)
(* must be what the unsettled enrollment wrote.                            *)
Resolves(db) ==
    db.acct.row = "tombstone" =>
        /\ Predecessor(db) # NoCredential
        /\ db.cred # NoCredential =>
              \E o \in UnsettledOf(db) : /\ db.ops[o].kind = "enroll"
                                         /\ db.ops[o].target = db.cred
                                         /\ db.ops[o].rev = db.acct.rev

EnrollmentRejection(db, op) ==
    IF db.acct.row = "none" THEN (IF op.rev = 0 THEN "none" ELSE "stale")
    ELSE IF db.acct.row = "live" THEN "identity_conflict"
    ELSE IF \/ op.rev # db.acct.rev
            \/ db.cred # NoCredential
            \/ op.target.v # Predecessor(db).v + 1
         THEN "stale" ELSE "none"

(* recovery_action_matches and the exact ambiguity both transactions of a  *)
(* takeover ask for.                                                       *)
TakesOver(op, recovery) ==
    /\ \/ op.kind = "refresh" /\ op.target # NoCredential
       \/ op.kind = "logout" /\ op.target = NoCredential /\ recovery.code = "rejected"
    /\ recovery.kind = "refresh" /\ recovery.phase = "recovery"
    /\ recovery.target = NoCredential
    /\ recovery.recovers = NoOperation /\ recovery.by = NoOperation
    /\ recovery.rev = op.rev /\ recovery.expected = op.expected

(* validate_recovery_takeover_sync                                         *)
TakeoverRejection(db, op) ==
    IF ~TakesOver(op, db.ops[op.recovers]) THEN "stale_operation"
    ELSE IF \E o \in Operations : /\ db.ops[o].recovers = op.recovers
                                  /\ db.ops[o].phase \in UnsettledPhases
         THEN "unsettled" ELSE "none"

(* Mutant: an operation in recovery does not hold the account.             *)
UnsettledRejectionButRecovery(db, op) ==
    IF op.recovers # NoOperation THEN TakeoverRejection(db, op)
    ELSE IF \E o \in UnsettledOf(db) : db.ops[o].phase # "recovery" THEN "unsettled" ELSE "none"

UnsettledRejection(db, op) ==
    IF op.recovers # NoOperation THEN TakeoverRejection(db, op)
    ELSE IF UnsettledOf(db) # {} THEN "unsettled" ELSE "none"

RowRejection(db, op) ==
    IF op.kind = "enroll" THEN EnrollmentRejection(db, op)
    ELSE IF db.acct.row # "live" THEN "missing"
    ELSE IF op.rev # db.acct.rev \/ op.expected # db.cred THEN "stale" ELSE "none"

SameDescriptor(a, b) ==
    /\ a.kind = b.kind /\ a.rev = b.rev /\ a.expected = b.expected
    /\ a.target = b.target /\ a.recovers = b.recovers

(* prepare_operation_sync                                                  *)
Prepare(db, o, op) ==
    IF db.ops[o].phase # "none"
    THEN Result(IF SameDescriptor(db.ops[o], op) THEN "replayed" ELSE "identity_conflict", db)
    ELSE IF UnsettledRejection(db, op) # "none" THEN Result(UnsettledRejection(db, op), db)
    ELSE IF RowRejection(db, op) # "none" THEN Result(RowRejection(db, op), db)
    ELSE Result("applied", [db EXCEPT !.ops[o] = op])

----------------------------------------------------------------------------
(* Phases.                                                                 *)

(* allowed_operation_transition                                            *)
Allowed == {<<"prepared", "pending">>, <<"prepared", "applied">>, <<"prepared", "cancelled">>,
            <<"prepared", "recovery">>, <<"pending", "applied">>, <<"pending", "cancelled">>,
            <<"pending", "recovery">>, <<"applied", "committed">>, <<"applied", "recovery">>,
            <<"recovery", "applied">>, <<"recovery", "cancelled">>}

(* The rejections of commit_account_enrollment.                            *)
EnrollCommitRejection(db, op) ==
    IF db.cred # op.target THEN "stale"
    ELSE IF db.acct.row = "live" THEN "identity_conflict"
    ELSE IF \/ db.acct.row = "none" /\ (op.rev # 0 \/ op.target.v # 1)
            \/ /\ db.acct.row = "tombstone"
               /\ op.rev # db.acct.rev \/ op.target.v # Predecessor(db).v + 1
         THEN "stale" ELSE "none"

(* Mutant: a logout commits under a running process.                       *)
LogoutCommitRejectionUnused(db, inUse) ==
    IF db.cred # NoCredential THEN "stale"
    ELSE IF db.acct.row # "live" THEN "missing" ELSE "none"

(* The rejections of commit_account_logout.  inUse: a process generation   *)
(* of the account is not dead.                                             *)
LogoutCommitRejection(db, inUse) ==
    IF inUse THEN "in_use"
    ELSE IF db.cred # NoCredential THEN "stale"
    ELSE IF db.acct.row # "live" THEN "missing" ELSE "none"

RefreshCommitRejection(db, op) ==
    IF op.target = NoCredential \/ db.cred # op.target THEN "stale"
    ELSE IF db.acct.row # "live" THEN "missing" ELSE "none"

(* validate_recovery_takeover_commit, then the kind's own checks.          *)
CommitRejection(db, o, inUse) ==
    LET op == db.ops[o]
    IN IF op.recovers # NoOperation /\ ~TakesOver(op, db.ops[op.recovers]) THEN "stale_operation"
       ELSE CASE op.kind = "enroll" -> EnrollCommitRejection(db, op)
              [] op.kind = "refresh" -> RefreshCommitRejection(db, op)
              [] OTHER -> LogoutCommitRejection(db, inUse)

(* The registry row commit_account_enrollment (which enables the account   *)
(* as asked, here TRUE), _refresh and _logout leave.                       *)
CommittedAccount(db, o) ==
    CASE db.ops[o].kind = "enroll" ->
            [row |-> "live", rev |-> db.acct.rev + 1, enabled |-> TRUE]
      [] db.ops[o].kind = "refresh" -> [db.acct EXCEPT !.rev = @ + 1]
      [] OTHER -> [row |-> "tombstone", rev |-> db.acct.rev + 1, enabled |-> FALSE]

(* record_recovery_supersession                                            *)
Superseded(db, o) ==
    [x \in Operations |-> IF x = db.ops[o].recovers THEN [db.ops[x] EXCEPT !.by = o]
                          ELSE db.ops[x]]

Moved(ops, o, to, code) == [ops EXCEPT ![o].phase = to, ![o].code = code]

(* Mutant: a commit leaves the operation it took over as it was.           *)
AdvanceWithoutSupersession(db, o, from, to, code, inUse) ==
    IF (to = "recovery") # (code # "none") THEN Result("invalid_input", db)
    ELSE IF db.ops[o].phase = to THEN Result("replayed", db)
    ELSE IF db.ops[o].by # NoOperation \/ db.ops[o].phase # from \/ <<from, to>> \notin Allowed
         THEN Result("stale_operation", db)
    ELSE IF to # "committed" THEN Result("applied", [db EXCEPT !.ops = Moved(@, o, to, code)])
    ELSE IF CommitRejection(db, o, inUse) # "none" THEN Result(CommitRejection(db, o, inUse), db)
    ELSE Result("applied", [acct |-> CommittedAccount(db, o), cred |-> db.cred,
                            ops |-> Moved(db.ops, o, to, code)])

(* advance_operation_sync                                                  *)
Advance(db, o, from, to, code, inUse) ==
    IF (to = "recovery") # (code # "none") THEN Result("invalid_input", db)
    ELSE IF db.ops[o].phase = to THEN Result("replayed", db)
    ELSE IF db.ops[o].by # NoOperation \/ db.ops[o].phase # from \/ <<from, to>> \notin Allowed
         THEN Result("stale_operation", db)
    ELSE IF to # "committed" THEN Result("applied", [db EXCEPT !.ops = Moved(@, o, to, code)])
    ELSE IF CommitRejection(db, o, inUse) # "none" THEN Result(CommitRejection(db, o, inUse), db)
    ELSE Result("applied", [acct |-> CommittedAccount(db, o), cred |-> db.cred,
                            ops |-> Moved(Superseded(db, o), o, to, code)])

(* set_operation_target_sync                                               *)
SetTarget(db, o, target) ==
    IF db.ops[o].target = target THEN Result("replayed", db)
    ELSE IF \/ db.ops[o].phase # "pending" \/ db.ops[o].target # NoCredential
            \/ db.ops[o].by # NoOperation \/ target.by # o
         THEN Result("stale_operation", db)
    ELSE Result("applied", [db EXCEPT !.ops[o].target = target])

(* set_account_enabled_sync                                                *)
SetEnabled(db, expected, enabled) ==
    IF db.acct.row # "live" THEN Result("missing", db)
    ELSE IF db.acct.rev # expected THEN Result("stale", db)
    ELSE Result("applied", [db EXCEPT !.acct.enabled = enabled, !.acct.rev = expected + 1])

----------------------------------------------------------------------------
(* The credential record: sqlite_store.rs over database/src/credentials.rs *)
(* (one statement each).                                                   *)

ReadExact(db, binding) ==
    IF db.cred = NoCredential THEN "not_found"
    ELSE IF db.cred = binding THEN "exact" ELSE "mismatch"

(* create and restore_absent: both insert a row that must not be there.    *)
CreateCredential(db, target) ==
    IF db.cred # NoCredential THEN Result("already_exists", db)
    ELSE Result("applied", [db EXCEPT !.cred = target])

(* compare_and_swap_rotate                                                 *)
RotateCredential(db, expected, target) ==
    IF target.v # expected.v + 1 \/ ReadExact(db, expected) = "mismatch"
    THEN Result("version_conflict", db)
    ELSE IF db.cred = NoCredential THEN Result("not_found", db)
    ELSE Result("applied", [db EXCEPT !.cred = target])

DeleteCredential(db, expected) ==
    IF ReadExact(db, expected) = "exact" THEN Result("applied", [db EXCEPT !.cred = NoCredential])
    ELSE Result(ReadExact(db, expected), db)
=============================================================================
