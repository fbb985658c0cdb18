--------------------------- MODULE AccountService ---------------------------
(***************************************************************************)
(* The credential lifecycle of one account: AccountService of              *)
(* crates/decodex-runtime/src/account_service.rs over the journal of       *)
(* AccountLifecycleStore.  An operation has an effect outside the journal  *)
(* (a provider call spends the refresh token, a write or a delete changes  *)
(* the credential record) and the service may stop, or a store call fail,  *)
(* between any two steps; the journal's phase says what may have happened. *)
(*                                                                         *)
(* Handlers run under the account's lock, so what one reads before its     *)
(* next write does not change under it: a read and the write that follows  *)
(* it are one action.  A command carries an operation and has a receipt;   *)
(* its client repeats it until it is answered.                             *)
(***************************************************************************)
EXTENDS AccountLifecycleStore, FiniteSets

CONSTANTS
    Handlers,       \* commands and tasks in progress at a time
    Free,           \* nobody holds the account's lock, or a receipt's claim
    MaxTokens,      \* bound: refresh tokens the provider issues
    MaxCrashes,     \* bound: crashes of the service
    MaxFaults,      \* bound: calls of the database that fail
    MaxToggles      \* bound: changes of enablement

ASSUME ServiceAssumption ==
    /\ Free \notin Handlers
    /\ MaxTokens \in Nat /\ MaxCrashes \in Nat /\ MaxFaults \in Nat /\ MaxToggles \in Nat

VARIABLES
    db,         \* the durable account
    receipt,    \* the durable receipt of the command that carries an operation
    handler,    \* the commands and background tasks in progress
    lock,       \* the account's lock
    valid,      \* refresh tokens the provider would accept
    issued,     \* the last token the provider issued
    inUse,      \* a process generation of the account is not dead
    unanswered, \* a command was refused the very answer it was to record
    phase,      \* "starting" (reconcile_startup) or "up"
    crashes, faults, toggles

bounds == <<crashes, faults, toggles>>
vars == <<db, receipt, handler, lock, valid, issued, inUse, unanswered, phase, bounds>>

----------------------------------------------------------------------------
(* Types.                                                                  *)

(* Commands with a receipt, refreshes and observations without one, and    *)
(* the two actions of a manual recovery (whose receipt is not kept here).  *)
Commands == {"enroll", "refresh", "reauth", "logout"}
Tasks == {"background", "observe"}
Recoveries == {"reconcile", "cancel"}

Answers == {"none", "ok", "current", "error"}

(* claim: the handler whose claim token the receipt holds, Free when there *)
(* is none or it expired.  recovers and token: the recovery operation a    *)
(* reauthentication names, and what the credential file of a command holds.*)
Receipt == [state : {"none", "reserved", "done"}, cmd : Commands \cup {"none"}, rev : Nat,
            recovers : Reference, token : Nat, claim : Handlers \cup {Free}, answer : Answers]
NoReceipt == [state |-> "none", cmd |-> "none", rev |-> 0, recovers |-> NoOperation,
              token |-> 0, claim |-> Free, answer |-> "none"]

Steps == {"idle", "wait", "pend", "provider", "resolve", "rotate", "create", "delete",
          "apply", "commit", "complete", "reject"}
Results == {"none", "rotated", "mismatch", "current", "refused", "rejected", "ambiguous"}

(* rev: the account revision the handler read before it waits.             *)
Handler == [pc : Steps, cmd : Commands \cup Tasks \cup Recoveries \cup {"none"},
            o : Reference, rev : Nat, result : Results, token : Nat]
IdleHandler == [pc |-> "idle", cmd |-> "none", o |-> NoOperation, rev |-> 0,
                result |-> "none", token |-> 0]

TypeOK ==
    /\ db \in Database
    /\ receipt \in [Operations -> Receipt]
    /\ handler \in [Handlers -> Handler]
    /\ lock \in Handlers \cup {Free}
    /\ valid \subseteq Nat /\ issued \in Nat
    /\ inUse \in BOOLEAN /\ unanswered \in BOOLEAN
    /\ phase \in {"starting", "up"}
    /\ crashes \in Nat /\ faults \in Nat /\ toggles \in Nat

Init ==
    /\ db = [acct |-> [row |-> "none", rev |-> 0, enabled |-> FALSE],
             cred |-> NoCredential, ops |-> [o \in Operations |-> NoOp]]
    /\ receipt = [o \in Operations |-> NoReceipt]
    /\ handler = [h \in Handlers |-> IdleHandler]
    /\ lock = Free
    /\ valid = {} /\ issued = 0
    /\ inUse = FALSE /\ unanswered = FALSE
    /\ phase = "up"
    /\ crashes = 0 /\ faults = 0 /\ toggles = 0

----------------------------------------------------------------------------
(* Calls and answers.                                                      *)

At(h, pc) == handler[h].pc = pc
Op(h) == db.ops[handler[h].o]
Goto(h, pc) == handler' = [handler EXCEPT ![h].pc = pc]
Finish(h) == handler' = [handler EXCEPT ![h] = IdleHandler] /\ lock' = Free

(* A database call answers, or fails with Unavailable.                     *)
Calls == {"ok"} \cup (IF faults < MaxFaults THEN {"unavailable"} ELSE {})
Charge(call) == faults' = IF call = "ok" THEN faults ELSE faults + 1

(* read_exact as a caller sees it.                                         *)
Seen(call, binding) == IF call = "ok" THEN ReadExact(db, binding) ELSE call

(* The receipt of a command knows the claim of its handler; tasks have no  *)
(* receipt.                                                                *)
HasReceipt(h) == handler[h].cmd \in Commands
Owns(h) == HasReceipt(h) => receipt[handler[h].o].claim = h

(* finish_command_sync, and a claim nobody is left to use, which will      *)
(* expire.                                                                 *)
Answered(h, answer) ==
    IF HasReceipt(h) /\ Owns(h)
    THEN [receipt EXCEPT ![handler[h].o] = [@ EXCEPT !.state = "done", !.claim = Free,
                                                     !.answer = answer]]
    ELSE receipt
Released(h) ==
    IF HasReceipt(h) /\ Owns(h) THEN [receipt EXCEPT ![handler[h].o].claim = Free] ELSE receipt

(* Mutant: success is reported whatever the journal's outcome.             *)
CompleteTellsSuccess(h, d, from, to, code, answer) ==
    LET r == Advance(d, handler[h].o, from, to, code, inUse)
        valued == r.outcome # "invalid_input"
    IN /\ db' = IF valued /\ Owns(h) THEN r.db ELSE d
       /\ receipt' = IF valued THEN Answered(h, answer) ELSE Released(h)
       /\ unanswered' = (unanswered \/ ~valued)
       /\ Finish(h)

(* complete_account_operation_command on the database d: the journal's     *)
(* change and the answer are one transaction, undone when the claim is no  *)
(* longer the caller's.  An invalid argument leaves the command without an *)
(* answer.                                                                 *)
Complete(h, d, from, to, code, answer) ==
    LET r == Advance(d, handler[h].o, from, to, code, inUse)
        valued == r.outcome # "invalid_input"
    IN /\ db' = IF valued /\ Owns(h) THEN r.db ELSE d
       /\ receipt' = IF valued THEN Answered(h, IF Accepted(r) THEN answer ELSE "error")
                     ELSE Released(h)
       /\ unanswered' = (unanswered \/ ~valued)
       /\ Finish(h)

(* complete_account_command_error, complete_recovery_command_error: an     *)
(* answer and no change.                                                   *)
Refuse(h) == receipt' = Answered(h, "error") /\ Finish(h) /\ UNCHANGED <<db, unanswered>>

(* Mutant: the guard is not dropped on the error path.                     *)
AbandonKeepingLock(h) ==
    /\ receipt' = Released(h) /\ handler' = [handler EXCEPT ![h] = IdleHandler] /\ lock' = h
    /\ UNCHANGED <<db, unanswered>>

(* The handler returns Err: nothing is recorded.                           *)
Abandon(h) == receipt' = Released(h) /\ Finish(h) /\ UNCHANGED <<db, unanswered>>

(* A database step within a handler, which holds the lock from then on,    *)
(* and what follows it.                                                    *)
Step(h, r, pc) ==
    IF Accepted(r)
    THEN db' = r.db /\ lock' = h /\ Goto(h, pc) /\ UNCHANGED <<receipt, unanswered>>
    ELSE Abandon(h)

Resume(h, pc) == Step(h, Result("replayed", db), pc)
AdvanceStep(h, from, to, pc) == Step(h, Advance(db, handler[h].o, from, to, "none", inUse), pc)

(* prepare_account_operation or its refusal; an operation that is already  *)
(* past its preparation is refused too.                                    *)
PrepareStep(h, op, pc) ==
    LET r == Prepare(db, handler[h].o, op)
    IN IF Accepted(r) /\ r.db.ops[handler[h].o].phase = "prepared" THEN Step(h, r, pc)
       ELSE Refuse(h)

Acquire(h, cmd) ==
    /\ phase = "up" /\ lock = Free
    /\ At(h, "wait") /\ handler[h].cmd = cmd

NoProvider == UNCHANGED <<valid, issued>>
NoWorld == UNCHANGED <<inUse, phase, crashes, toggles>>
Quiet == NoProvider /\ NoWorld
NoFault == UNCHANGED faults

----------------------------------------------------------------------------
(* Submission.                                                             *)

Unused(o) ==
    /\ receipt[o].state = "none" /\ db.ops[o].phase = "none"
    /\ \A h \in Handlers : handler[h].o # o

Waiting(cmd, o, rev) ==
    [IdleHandler EXCEPT !.pc = "wait", !.cmd = cmd, !.o = o, !.rev = rev]

(* The recovery a client names in a reauthentication: the one it is shown. *)
ShownRecovery ==
    LET u == UnsettledOperation(db)
    IN IF u # NoOperation /\ db.ops[u].kind = "refresh" /\ db.ops[u].phase = "recovery"
       THEN u ELSE NoOperation

(* reserve_account_command, then the wait for the lock.  A login before an *)
(* enrollment or a reauthentication issues a token.                        *)
Submit(h, o, cmd) ==
    LET login == cmd \in {"enroll", "reauth"}
    IN /\ phase = "up" /\ At(h, "idle") /\ Unused(o)
       /\ login => issued < MaxTokens
       /\ issued' = IF login THEN issued + 1 ELSE issued
       /\ valid' = IF login THEN valid \cup {issued + 1} ELSE valid
       /\ receipt' = [receipt EXCEPT ![o] =
                        [state |-> "reserved", cmd |-> cmd,
                         rev |-> IF cmd = "enroll" THEN 0 ELSE db.acct.rev,
                         recovers |-> IF cmd = "reauth" THEN ShownRecovery ELSE NoOperation,
                         token |-> IF login THEN issued + 1 ELSE 0,
                         claim |-> h, answer |-> "none"]]
       /\ handler' = [handler EXCEPT ![h] = Waiting(cmd, o, db.acct.rev)]
       /\ UNCHANGED <<db, lock, unanswered>> /\ NoWorld /\ NoFault

(* The client repeats the command under the same key.                      *)
Retry(h, o) ==
    /\ phase = "up" /\ At(h, "idle")
    /\ receipt[o].state = "reserved" /\ receipt[o].claim = Free
    /\ receipt' = [receipt EXCEPT ![o].claim = h]
    /\ handler' = [handler EXCEPT ![h] = Waiting(receipt[o].cmd, o, db.acct.rev)]
    /\ UNCHANGED <<db, lock, unanswered>> /\ Quiet /\ NoFault

(* CLAIM_LIFETIME_MICROS passes while the handler is at work.              *)
ClaimExpires(o) ==
    /\ receipt[o].claim # Free
    /\ receipt' = [receipt EXCEPT ![o].claim = Free]
    /\ UNCHANGED <<db, handler, lock, unanswered>> /\ Quiet /\ NoFault

(* An observation names the revision it saw; a process asks for a refresh  *)
(* of whatever is current (rev 0).                                         *)
StartTask(h, o, cmd) ==
    /\ phase = "up" /\ At(h, "idle") /\ Unused(o) /\ db.acct.row # "none"
    /\ \E rev \in {db.acct.rev} \cup (IF cmd = "background" /\ inUse THEN {0} ELSE {}) :
          handler' = [handler EXCEPT ![h] = Waiting(cmd, o, rev)]
    /\ UNCHANGED <<db, receipt, lock, unanswered>> /\ Quiet /\ NoFault

SubmitRecovery(h, o, cmd) ==
    /\ phase = "up" /\ At(h, "idle") /\ db.ops[o].phase # "none"
    /\ handler' = [handler EXCEPT ![h] = Waiting(cmd, o, db.acct.rev)]
    /\ UNCHANGED <<db, receipt, lock, unanswered>> /\ Quiet /\ NoFault

----------------------------------------------------------------------------
(* Enrollment: install_credentials_command.                                *)

EnrollmentOf(h) ==
    LET o == handler[h].o
        restore == db.acct.row = "tombstone"
    IN NewOperation("enroll", IF restore THEN db.acct.rev ELSE 0, NoCredential,
                    Binding(IF restore THEN Predecessor(db).v + 1 ELSE 1, o, receipt[o].token),
                    NoOperation)

(* The account is resolved before the lock and again under it.  An         *)
(* operation that is already there is taken up where it stands.            *)
BeginEnroll(h) ==
    /\ Acquire(h, "enroll")
    /\ IF handler[h].rev # db.acct.rev THEN Refuse(h)
       ELSE IF ~Resolves(db) THEN Abandon(h)
       ELSE IF ~Accepted(Prepare(db, handler[h].o, EnrollmentOf(h))) THEN Refuse(h)
       ELSE CASE Op(h).phase \in {"none", "prepared"} -> PrepareStep(h, EnrollmentOf(h), "create")
              [] Op(h).phase \in {"applied", "committed"} -> Resume(h, "complete")
              [] OTHER -> Complete(h, db, Op(h).phase, Op(h).phase, "none", "error")
    /\ Quiet /\ NoFault

Create(h) ==
    LET r == CreateCredential(db, Op(h).target)
    IN /\ At(h, "create")
       /\ \E call \in Calls :
             /\ Charge(call)
             /\ IF Accepted(r)
                THEN IF call = "ok" THEN Step(h, r, "apply")
                     ELSE \E d \in {db, r.db} :
                             Complete(h, d, "prepared", "recovery", "other", "error")
                ELSE IF Seen(call, Op(h).target) = "exact" THEN Resume(h, "apply")
                ELSE \E to \in {"cancelled"} \cup (IF call = "ok" THEN {} ELSE {"recovery"}) :
                        Complete(h, db, "prepared", to,
                                 IF to = "recovery" THEN "other" ELSE "none", "error")
       /\ Quiet

----------------------------------------------------------------------------
(* Refresh: refresh_command, and refresh_while_locked of a task.           *)

Admitted(enabled) ==
    /\ db.acct.row = "live" /\ (enabled => db.acct.enabled)
    /\ UnsettledOf(db) = {} /\ db.cred # NoCredential

(* replay_refresh_command, reconcile_pending_refresh_command               *)
ReplayRefresh(h, call) ==
    CASE Op(h).phase = "committed" ->
            IF db.cred = Op(h).target THEN Resume(h, "complete") ELSE Abandon(h)
      [] Op(h).phase = "applied" -> Resume(h, "commit")
      [] Op(h).phase = "prepared" -> Complete(h, db, "prepared", "cancelled", "none", "error")
      [] Op(h).phase = "pending" ->
            IF Op(h).target # NoCredential /\ Seen(call, Op(h).target) = "exact"
            THEN AdvanceStep(h, "pending", "applied", "commit")
            ELSE Complete(h, db, "pending", "recovery", "other", "error")
      [] OTHER -> Complete(h, db, Op(h).phase, Op(h).phase, "none", "error")

BeginRefresh(h) ==
    LET o == handler[h].o
    IN /\ Acquire(h, "refresh")
       /\ \E call \in Calls :
             /\ Charge(call)
             /\ IF db.acct.row = "none" \/ db.cred = NoCredential THEN Refuse(h)
                ELSE IF Op(h).phase # "none" THEN ReplayRefresh(h, call)
                ELSE IF receipt[o].rev # db.acct.rev \/ ~Admitted(TRUE) \/ call # "ok"
                THEN Refuse(h)
                ELSE PrepareStep(h, NewOperation("refresh", db.acct.rev, db.cred,
                                                 NoCredential, NoOperation), "pend")
       /\ Quiet

(* A process's callback may find the account unsettled: prepare refuses.   *)
(* The request has a fresh operation id (conversation.rs:6581,             *)
(* account_api.rs:462): refresh_while_locked finds none to replay.         *)
BeginBackground(h) ==
    /\ Acquire(h, "background")
    /\ \E call \in Calls :
          /\ Charge(call)
          /\ IF \/ db.acct.row # "live" \/ db.cred = NoCredential \/ call # "ok"
                \/ handler[h].rev \notin {0, db.acct.rev}
                \/ handler[h].rev # 0 /\ ~Admitted(FALSE)
             THEN Abandon(h)
             ELSE PrepareStep(h, NewOperation("refresh", db.acct.rev, db.cred,
                                              NoCredential, NoOperation), "pend")
    /\ Quiet

Pend(h) ==
    /\ At(h, "pend") /\ AdvanceStep(h, "prepared", "pending", "provider")
    /\ Quiet /\ NoFault

(* The provider's part of refresh_or_reconcile_shared.  A call that rotates*)
(* spends the token; an ambiguous one may have.  "mismatch": the answer    *)
(* names another account.                                                  *)
Provider(h, result) ==
    LET t == db.cred.t
        spends == {<<(valid \ {t}) \cup {issued + 1}, issued + 1>>}
        keeps == {<<valid, issued>>}
    IN /\ At(h, "provider")
       /\ result \in {"rotated", "mismatch"} => t \in valid
       /\ result \in {"rotated", "mismatch", "ambiguous"} => issued < MaxTokens
       /\ \E world \in CASE result \in {"rotated", "mismatch"} -> spends
                         [] result = "ambiguous" /\ t \in valid -> spends \cup keeps
                         [] OTHER -> keeps :
             valid' = world[1] /\ issued' = world[2]
       /\ handler' = [handler EXCEPT ![h].pc = "resolve", ![h].result = result,
                                     ![h].token = IF result = "rotated" THEN issued + 1 ELSE 0]
       /\ UNCHANGED <<db, receipt, lock, unanswered>> /\ NoWorld /\ NoFault

(* Mutant: an outcome that cannot be proved is taken for no effect.        *)
ResolveAmbiguityAsNoEffect(h) ==
    /\ At(h, "resolve")
    /\ CASE handler[h].result = "rotated" ->
              Step(h, SetTarget(db, handler[h].o,
                                Binding(db.cred.v + 1, handler[h].o, handler[h].token)), "rotate")
         [] handler[h].result = "current" ->
              Complete(h, db, "pending", "cancelled", "none", "current")
         [] handler[h].result \in {"refused", "ambiguous"} ->
              Complete(h, db, "pending", "cancelled", "none", "error")
         [] handler[h].result = "rejected" ->
              Complete(h, db, "pending", "recovery", "rejected", "error")
         [] OTHER -> Complete(h, db, "pending", "recovery", "other", "error")
    /\ Quiet /\ NoFault

(* resolve_refresh_command and commit_refresh_command up to the target;    *)
(* complete_refresh_while_locked                                           *)
Resolve(h) ==
    /\ At(h, "resolve")
    /\ CASE handler[h].result = "rotated" ->
              Step(h, SetTarget(db, handler[h].o,
                                Binding(db.cred.v + 1, handler[h].o, handler[h].token)), "rotate")
         [] handler[h].result = "current" ->
              Complete(h, db, "pending", "cancelled", "none", "current")
         [] handler[h].result = "refused" ->
              Complete(h, db, "pending", "cancelled", "none", "error")
         [] handler[h].result = "rejected" ->
              Complete(h, db, "pending", "recovery", "rejected", "error")
         [] OTHER -> Complete(h, db, "pending", "recovery", "other", "error")
    /\ Quiet /\ NoFault

(* compare_and_swap_rotate.  After a failure a reauthentication looks for  *)
(* its target (resolve_reauthentication_store_effect).                     *)
Rotate(h) ==
    LET op == Op(h)
        r == RotateCredential(db, op.expected, op.target)
        Failed(d, rotation, read) ==
            IF op.phase = "pending" THEN Complete(h, d, "pending", "recovery", "other", "error")
            ELSE IF d.cred = op.target /\ read = "ok" THEN Step(h, Result("applied", d), "apply")
            ELSE IF rotation = "ok" THEN Complete(h, d, "prepared", "cancelled", "none", "error")
            ELSE Complete(h, d, "prepared", "recovery", "other", "error")
    IN /\ At(h, "rotate")
       /\ \E rotation \in Calls :
             /\ Charge(rotation)
             /\ IF rotation = "ok" /\ Accepted(r) THEN Step(h, r, "apply")
                ELSE \E d \in {db} \cup (IF rotation = "ok" THEN {} ELSE {r.db}), read \in Calls :
                        Failed(d, rotation, read)
       /\ Quiet

----------------------------------------------------------------------------
(* Reauthentication, logout and observation.                               *)

(* classify_prepared_refresh_reconciliation                                *)
PreparedRefresh(op, call) ==
    IF op.target = NoCredential THEN "not_applied"
    ELSE IF Seen(call, op.target) = "exact" THEN "applied"
    ELSE IF call = "ok" /\ db.cred = op.expected THEN "not_applied" ELSE "unknown"

(* complete_reauthentication_replay, classify_reauthentication_replay      *)
ReplayReauth(h, call) ==
    LET op == Op(h)
    IN CASE op.phase \in {"applied", "committed"} -> Resume(h, "complete")
         [] op.phase = "cancelled" -> Complete(h, db, "cancelled", "cancelled", "none", "error")
         [] /\ op.phase \in {"prepared", "recovery"}
            /\ Seen(call, op.target) = "exact" -> AdvanceStep(h, op.phase, "applied", "complete")
         [] op.phase = "prepared" /\ PreparedRefresh(op, call) = "not_applied" ->
               Complete(h, db, "prepared", "cancelled", "none", "error")
         [] OTHER -> Complete(h, db, op.phase, "recovery", "other", "error")

BeginReauth(h) ==
    LET o == handler[h].o
    IN /\ Acquire(h, "reauth")
       /\ \E call \in Calls :
             /\ Charge(call)
             /\ IF db.acct.row = "none" THEN Refuse(h)
                ELSE IF Op(h).phase # "none" THEN ReplayReauth(h, call)
                ELSE IF receipt[o].rev # db.acct.rev \/ db.cred = NoCredential \/ call # "ok"
                THEN Refuse(h)
                ELSE PrepareStep(h, NewOperation("refresh", receipt[o].rev, db.cred,
                                                 Binding(db.cred.v + 1, o, receipt[o].token),
                                                 receipt[o].recovers), "rotate")
       /\ Quiet

(* prepare_logout: a logout takes over a rejected refresh.                 *)
RejectedRecovery ==
    LET u == UnsettledOperation(db)
    IN IF /\ u # NoOperation /\ db.ops[u].kind = "refresh"
          /\ db.ops[u].phase = "recovery" /\ db.ops[u].code = "rejected"
       THEN u ELSE NoOperation

(* Mutant: the account is loaded before the operation is looked up.        *)
BeginLogoutAccountFirst(h) ==
    LET o == handler[h].o
    IN /\ Acquire(h, "logout")
       /\ IF db.acct.row = "none" \/ db.cred = NoCredential THEN Refuse(h)
          ELSE CASE Op(h).phase \in {"applied", "committed"} -> Resume(h, "complete")
                 [] Op(h).phase = "prepared" -> Resume(h, "delete")
                 [] Op(h).phase = "none" ->
                       PrepareStep(h, NewOperation("logout", receipt[o].rev, db.cred,
                                                   NoCredential, RejectedRecovery), "delete")
                 [] OTHER -> Complete(h, db, Op(h).phase, Op(h).phase, "none", "error")
       /\ Quiet /\ NoFault

BeginLogout(h) ==
    LET o == handler[h].o
    IN /\ Acquire(h, "logout")
       /\ CASE Op(h).phase \in {"applied", "committed"} -> Resume(h, "complete")
            [] Op(h).phase = "prepared" -> Resume(h, "delete")
            [] Op(h).phase = "none" ->
                 IF db.acct.row = "none" \/ db.cred = NoCredential THEN Refuse(h)
                 ELSE PrepareStep(h, NewOperation("logout", receipt[o].rev, db.cred,
                                                  NoCredential, RejectedRecovery), "delete")
            [] OTHER -> Complete(h, db, Op(h).phase, Op(h).phase, "none", "error")
       /\ Quiet /\ NoFault

(* The delete of complete_logout_command and of complete_unproved_recovery.*)
Delete(h) ==
    LET op == Op(h)
        r == DeleteCredential(db, op.expected)
        Failed(d) == Complete(h, d, op.phase, "recovery",
                              IF op.phase = "recovery" THEN "none" ELSE "other", "error")
    IN /\ At(h, "delete")
       /\ \E call \in Calls :
             /\ Charge(call)
             /\ IF call # "ok" THEN \E d \in {db, r.db} : Failed(d)
                ELSE IF r.outcome = "mismatch" THEN Failed(db)
                ELSE Step(h, Result("applied", r.db), "apply")
       /\ Quiet

(* require_observation_reauthentication                                    *)
BeginObserve(h) ==
    /\ Acquire(h, "observe")
    /\ IF \/ handler[h].rev # db.acct.rev \/ UnsettledOf(db) # {} \/ db.cred = NoCredential
       THEN Abandon(h)
       ELSE PrepareStep(h, NewOperation("refresh", db.acct.rev, db.cred,
                                        NoCredential, NoOperation), "reject")
    /\ Quiet /\ NoFault

Reject(h) ==
    /\ At(h, "reject")
    /\ Complete(h, db, "prepared", "recovery", "rejected", "error")
    /\ Quiet /\ NoFault

(* accept_observation_recovery: under the lock it took, an observation was *)
(* served with the credential whose refresh was rejected.                  *)
AcceptRecovery(o) ==
    LET op == db.ops[o]
    IN /\ phase = "up" /\ lock = Free /\ db.acct.row = "live"
       /\ RejectedRecovery = o
       /\ op.expected = db.cred /\ op.rev = db.acct.rev /\ op.target = NoCredential
       /\ db' = Advance(db, o, "recovery", "cancelled", "none", inUse).db
       /\ UNCHANGED <<receipt, handler, lock, unanswered>> /\ Quiet /\ NoFault

----------------------------------------------------------------------------
(* The end of every operation.                                             *)

Apply(h) ==
    /\ At(h, "apply")
    /\ AdvanceStep(h, Op(h).phase, "applied",
                   IF handler[h].cmd \in {"refresh", "background"} THEN "commit" ELSE "complete")
    /\ Quiet /\ NoFault

(* commit_and_project_refresh_result: a refresh commits before its command *)
(* is answered.                                                            *)
Commit(h) ==
    LET r == Advance(db, handler[h].o, "applied", "committed", "none", inUse)
    IN /\ At(h, "commit")
       /\ IF Accepted(r) /\ handler[h].cmd = "background"
          THEN db' = r.db /\ Finish(h) /\ UNCHANGED <<receipt, unanswered>>
          ELSE Step(h, r, "complete")
       /\ Quiet /\ NoFault

(* complete_account_operation_success                                      *)
CompleteSuccess(h) ==
    /\ At(h, "complete")
    /\ Complete(h, db, "applied", "committed", "none", "ok")
    /\ Quiet /\ NoFault

----------------------------------------------------------------------------
(* Manual recovery: recover_operation_command.                             *)

(* Mutant: a prepared operation is cancelled without a look at its effect. *)
ProvedAbsentUnread(op, call) ==
    IF op.kind = "enroll"
    THEN op.phase \in {"prepared", "recovery"} /\ Seen(call, op.target) = "not_found"
    ELSE \/ op.phase = "prepared"
         \/ /\ op.phase = "recovery" /\ (op.kind = "logout" \/ op.recovers # NoOperation)
            /\ Seen(call, op.expected) = "exact"

(* cancel_recovery_before_effect                                           *)
ProvedAbsent(op, call) ==
    IF op.kind = "enroll"
    THEN op.phase \in {"prepared", "recovery"} /\ Seen(call, op.target) = "not_found"
    ELSE /\ \/ op.phase = "prepared"
            \/ op.phase = "recovery" /\ (op.kind = "logout" \/ op.recovers # NoOperation)
         /\ Seen(call, op.expected) = "exact"

(* reconcile_recovery_command                                              *)
ProvedApplied(op, call) ==
    IF op.kind = "logout" THEN Seen(call, op.expected) = "not_found"
    ELSE op.target # NoCredential /\ Seen(call, op.target) = "exact"
ProvedNotApplied(op, call) ==
    /\ op.phase = "prepared"
    /\ \/ op.kind = "enroll" /\ Seen(call, op.target) = "not_found"
       \/ op.kind = "refresh" /\ PreparedRefresh(op, call) = "not_applied"

ReconcileExact(h, call) ==
    LET op == Op(h)
    IN IF op.phase = "applied" THEN Complete(h, db, "applied", "committed", "none", "ok")
       ELSE IF ProvedApplied(op, call) THEN AdvanceStep(h, op.phase, "applied", "complete")
       ELSE IF op.kind = "logout" THEN Resume(h, "delete")
       ELSE IF ProvedNotApplied(op, call)
       THEN Complete(h, db, "prepared", "cancelled", "none", "ok")
       ELSE Complete(h, db, op.phase, "recovery",
                     IF op.phase = "recovery" THEN "none" ELSE "other", "error")

(* Mutant: a recovery that has not proved anything cancels.                *)
RecoverUnproved(h, cmd) ==
    LET op == Op(h)
        terminal == op.phase \in {"committed", "cancelled"}
        replay == op.phase = IF cmd = "reconcile" THEN "committed" ELSE "cancelled"
    IN /\ Acquire(h, cmd)
       /\ \E call \in Calls :
             /\ Charge(call)
             /\ IF op.by # NoOperation \/ (terminal /\ ~replay) THEN Refuse(h)
                ELSE IF terminal THEN Complete(h, db, op.phase, op.phase, "none", "ok")
                ELSE IF db.acct.row = "none" THEN Abandon(h)
                ELSE IF handler[h].rev # db.acct.rev THEN Refuse(h)
                ELSE IF cmd = "reconcile" THEN ReconcileExact(h, call)
                ELSE Complete(h, db, op.phase, "cancelled", "none", "ok")
       /\ Quiet

(* An account that was never enrolled cannot be loaded: the command fails. *)
Recover(h, cmd) ==
    LET op == Op(h)
        terminal == op.phase \in {"committed", "cancelled"}
        replay == op.phase = IF cmd = "reconcile" THEN "committed" ELSE "cancelled"
    IN /\ Acquire(h, cmd)
       /\ \E call \in Calls :
             /\ Charge(call)
             /\ IF op.by # NoOperation \/ (terminal /\ ~replay) THEN Refuse(h)
                ELSE IF terminal THEN Complete(h, db, op.phase, op.phase, "none", "ok")
                ELSE IF db.acct.row = "none" THEN Abandon(h)
                ELSE IF handler[h].rev # db.acct.rev THEN Refuse(h)
                ELSE IF cmd = "reconcile" THEN ReconcileExact(h, call)
                ELSE IF ProvedAbsent(op, call)
                THEN Complete(h, db, op.phase, "cancelled", "none", "ok")
                ELSE Complete(h, db, op.phase, op.phase, "none", "error")
       /\ Quiet

----------------------------------------------------------------------------
(* Startup: reconcile_startup.                                             *)

Startup == phase = "starting" /\ UNCHANGED <<receipt, handler, lock, unanswered>>
StartupKeeps == NoProvider /\ UNCHANGED <<inUse, crashes, toggles>>

(* A step of reconcile_operation; a step that is rejected ends startup.    *)
Settle(r) == IF Accepted(r) THEN db' = r.db /\ UNCHANGED phase ELSE phase' = "up" /\ UNCHANGED db

(* Mutant: startup does not look at operations whose effect is pending.    *)
UnreconciledButPending ==
    {o \in UnsettledOf(db) : db.ops[o].phase \in {"prepared", "applied"}}

Unreconciled == {o \in UnsettledOf(db) : db.ops[o].phase # "recovery"}

Reconcile(o) ==
    LET op == db.ops[o]
        To(to, code) == Settle(Advance(db, o, op.phase, to, code, inUse))
    IN /\ Startup /\ o \in Unreconciled
       /\ op.phase = "applied" \/ op.kind # "logout"
       /\ \E call \in Calls :
             /\ Charge(call)
             /\ CASE op.phase = "applied" -> To("committed", "none")
                  [] op.phase # "applied" /\ ProvedApplied(op, call) -> To("applied", "none")
                  [] op.phase # "applied" /\ ProvedNotApplied(op, call) -> To("cancelled", "none")
                  [] OTHER -> To("recovery", "other")
       /\ StartupKeeps

(* reconcile_logout_operation deletes again, and then commits.             *)
ReconcileLogout(o) ==
    LET op == db.ops[o]
        r == DeleteCredential(db, op.expected)
        To(d, to, code) == Settle(Advance(d, o, "prepared", to, code, inUse))
    IN /\ Startup /\ o \in Unreconciled
       /\ op.kind = "logout" /\ op.phase = "prepared"
       /\ \E call \in Calls :
             /\ Charge(call)
             /\ IF call # "ok" THEN \E d \in {db, r.db} : To(d, "recovery", "other")
                ELSE IF r.outcome = "mismatch" THEN To(db, "recovery", "other")
                ELSE IF r.outcome = "not_found" THEN To(db, "applied", "none")
                ELSE Settle(r)
       /\ StartupKeeps

StartupEnds ==
    /\ Startup /\ StartupKeeps /\ UNCHANGED db
    /\ \/ Unreconciled = {} /\ NoFault
       \/ "unavailable" \in Calls /\ Charge("unavailable")
    /\ phase' = "up"

----------------------------------------------------------------------------
(* The rest of the world.                                                  *)

(* set_account_enabled_command                                             *)
Toggle(enabled) ==
    /\ phase = "up" /\ lock = Free /\ toggles < MaxToggles
    /\ db.acct.row = "live" /\ db.acct.enabled # enabled
    /\ db' = SetEnabled(db, db.acct.rev, enabled).db
    /\ toggles' = toggles + 1
    /\ UNCHANGED <<receipt, handler, lock, unanswered, inUse, phase, crashes>>
    /\ NoProvider /\ NoFault

(* process_credential and the reservation of a generation under its guard; *)
(* the supervisor settles a generation dead.                               *)
Launch ==
    /\ phase = "up" /\ lock = Free /\ Admitted(TRUE) /\ ~inUse
    /\ inUse' = TRUE
    /\ UNCHANGED <<db, receipt, handler, lock, unanswered, phase, crashes, toggles>>
    /\ NoProvider /\ NoFault

ProcessDies ==
    /\ inUse /\ inUse' = FALSE
    /\ UNCHANGED <<db, receipt, handler, lock, unanswered, phase, crashes, toggles>>
    /\ NoProvider /\ NoFault

(* A journal call of a handler fails.                                      *)
JournalFails(h) ==
    /\ lock = h /\ "unavailable" \in Calls /\ Charge("unavailable")
    /\ Abandon(h) /\ Quiet

(* The service stops; the claims of its handlers expire.                   *)
Crash ==
    /\ crashes < MaxCrashes /\ crashes' = crashes + 1
    /\ handler' = [h \in Handlers |-> IdleHandler] /\ lock' = Free
    /\ receipt' = [o \in Operations |-> [receipt[o] EXCEPT !.claim = Free]]
    /\ phase' = "starting"
    /\ UNCHANGED <<db, unanswered, inUse, toggles>> /\ NoProvider /\ NoFault

----------------------------------------------------------------------------
(* What a handler or startup does once begun.                              *)
HandlerStep(h) ==
    \/ BeginEnroll(h) \/ BeginRefresh(h) \/ BeginBackground(h) \/ BeginReauth(h)
    \/ BeginLogout(h) \/ BeginObserve(h) \/ \E cmd \in Recoveries : Recover(h, cmd)
    \/ Create(h) \/ Pend(h) \/ \E result \in Results \ {"none"} : Provider(h, result)
    \/ Resolve(h) \/ Rotate(h) \/ Delete(h) \/ Reject(h)
    \/ Apply(h) \/ Commit(h) \/ CompleteSuccess(h)

StartupStep == StartupEnds \/ \E o \in Operations : Reconcile(o) \/ ReconcileLogout(o)

Next ==
    \/ \E h \in Handlers :
          \/ HandlerStep(h) \/ JournalFails(h)
          \/ \E o \in Operations :
                \/ \E cmd \in Commands : Submit(h, o, cmd)
                \/ \E cmd \in Tasks : StartTask(h, o, cmd)
                \/ \E cmd \in Recoveries : SubmitRecovery(h, o, cmd)
                \/ Retry(h, o)
    \/ \E o \in Operations : ClaimExpires(o) \/ AcceptRecovery(o)
    \/ StartupStep
    \/ \E enabled \in BOOLEAN : Toggle(enabled)
    \/ Launch \/ ProcessDies \/ Crash

Spec == Init /\ [][Next]_vars

(* The account's mutex is fair, so a handler that waits gets its turn; the *)
(* runtime runs what is begun, and the startup of a restarted service.     *)
LiveSpec ==
    /\ Spec
    /\ \A h \in Handlers : SF_vars(HandlerStep(h))
    /\ WF_vars(StartupStep)

----------------------------------------------------------------------------
(* Properties.                                                             *)

(* The journal admits one unsettled operation of an account, and beside it *)
(* at most the one that takes it over (prepare_operation_sync): whatever   *)
(* two commands, a background refresh, a restart and a manual recovery do. *)
OneUnsettledOperation ==
    \A a, b \in UnsettledOf(db) :
        a # b => db.ops[a].recovers = b \/ db.ops[b].recovers = a

(* While a takeover is unsettled the ambiguity it took over stays exactly  *)
(* as it was, so that the takeover can still be cancelled; it is           *)
(* superseded only by the commit of its takeover.                          *)
TakeoverKeepsItsRecovery ==
    \A o \in Operations :
        LET op == db.ops[o]
        IN /\ IsUnsettled(op) /\ op.recovers # NoOperation =>
                 TakesOver(op, db.ops[op.recovers])
           /\ op.phase = "committed" /\ op.recovers # NoOperation =>
                 db.ops[op.recovers].by = o
           /\ op.by # NoOperation =>
                 db.ops[op.by].phase = "committed" /\ db.ops[op.by].recovers = o

(* A credential whose refresh token the provider has already spent is held *)
(* back by an unsettled operation, across crashes and failed calls: no     *)
(* launch and no new operation uses it.                                    *)
SpentTokenIsFenced ==
    db.cred # NoCredential /\ db.cred.t \notin valid => UnsettledOf(db) # {}

(* A spent refresh token is never presented again (the provider would      *)
(* revoke the whole family).                                               *)
PresentedTokenIsValid ==
    \A h \in Handlers : At(h, "provider") => db.cred.t \in valid

(* The client is told of success only when the operation is committed, and *)
(* that the credential was current only when it is cancelled; what it was  *)
(* told stays true.                                                        *)
AnswerIsTrue ==
    \A o \in Operations :
        /\ receipt[o].answer = "ok" => db.ops[o].phase = "committed"
        /\ receipt[o].answer = "current" => db.ops[o].phase = "cancelled"

(* A tombstoned account has no process: commit_account_logout refuses      *)
(* while one may run, and no launch is admitted from the preparation of    *)
(* the logout on.                                                          *)
TombstoneHasNoProcess == inUse => db.acct.row = "live"

(* A logout or a reauthentication that is answered with an error has not   *)
(* been committed, by the handler or by a startup before its retry.        *)
ErrorIsTrue ==
    [][\A o \in Operations :
          /\ receipt[o].state = "reserved" /\ receipt'[o].answer = "error"
          /\ receipt[o].cmd \in {"logout", "reauth"}
          => db'.ops[o].phase # "committed"]_vars

(* A settled operation is never moved again, nor is a superseded one.      *)
SettledIsFinal ==
    [][\A o \in Operations :
          \/ db.ops[o].phase \in {"committed", "cancelled"}
          \/ db.ops[o].by # NoOperation
          => db'.ops[o] = db.ops[o]]_vars

(* Whatever a crash interrupted, startup ends, and without failing calls   *)
(* it leaves no operation between its preparation and its effect.          *)
StartupSettles ==
    phase = "starting" ~>
        /\ phase = "up"
        /\ \A o \in UnsettledOf(db) : db.ops[o].phase \in {"applied", "recovery"}

(* Every handler ends: no operation leaves the account locked.             *)
HandlersEnd == \A h \in Handlers : ~At(h, "idle") ~> At(h, "idle")

(* A refresh the provider rejected can be signed out of:                   *)
(* openwiki/operations/accounts-and-routing.md.                            *)
RejectedRefreshAllowsLogout ==
    \A o \in UnsettledOf(db) :
        db.ops[o].code = "rejected" =>
            TakesOver(NewOperation("logout", db.acct.rev, db.cred, NoCredential, o), db.ops[o])

(* A command's phase and result are committed atomically: it is never      *)
(* refused its own answer (recover_operation_command).                     *)
CommandsAreAnswered == ~unanswered

(* An installation whose outcome is unknown stays unknown until recovered  *)
(* (openwiki/specs/account-login-authority.md): an enrollment is cancelled *)
(* only when its credential is not stored.                                 *)
UnknownInstallStaysUnknown ==
    \A o \in Operations :
        db.ops[o].kind = "enroll" /\ db.ops[o].phase = "cancelled" => db.cred # db.ops[o].target

----------------------------------------------------------------------------
(* The account of AccountPromise.                                          *)

Stage(op) ==
    IF op.phase = "none" THEN "new"
    ELSE IF op.by # NoOperation THEN "replaced"
    ELSE CASE op.phase = "committed" -> "done"
           [] op.phase = "cancelled" -> "undone"
           [] OTHER -> "open"

Promise == INSTANCE AccountPromise WITH
    Nobody <- NoOperation,
    row <- db.acct.row,
    cred <- db.cred.by,
    stage <- [o \in Operations |-> Stage(db.ops[o])],
    found <- [o \in Operations |-> db.ops[o].expected.by],
    takes <- [o \in Operations |-> db.ops[o].recovers]

(* The lifecycle keeps the promise of AccountPromise: across crashes,      *)
(* failed calls, expired claims, retries, takeovers and manual recoveries  *)
(* every step on the account's file is one of an operation that holds it,  *)
(* from the credential that operation found to its own.                    *)
ImplementsAccountPromise == Promise!PromiseSpec
=============================================================================
