------------------------ MODULE ProviderAttemptStore ------------------------
(***************************************************************************)
(* The durable ProviderAttempt table of database/src/provider_attempts.rs. *)
(* An attempt is one intent to make the provider work on one user turn.    *)
(* Each operation is one SQLite transaction on the attempt's row: an       *)
(* operator from the row and the caller's arguments to the answer and the  *)
(* row it leaves.  (Preparation also looks at the turn, the session and    *)
(* the generation; it is in ConversationTurns.)                            *)
(***************************************************************************)
EXTENDS Naturals

(* ProviderAttemptState; "none" is no row.                                 *)
AttemptStates == {"none", "prepared", "dispatch_authorized", "canceled", "unknown",
                  "succeeded", "failed_definitive", "not_submitted"}

TerminalAttempt == {"canceled", "succeeded", "failed_definitive", "not_submitted"}
UnresolvedAttempt == {"prepared", "dispatch_authorized", "unknown"}

(* gen and session are the generation and the RuntimeSession the attempt   *)
(* was prepared for.                                                       *)
Attempt == [state : AttemptStates, rev : Nat, gen : Nat, session : Nat]

NoAttempt == [state |-> "none", rev |-> 0, gen |-> 0, session |-> 0]

PreparedAttempt(g, n) == [state |-> "prepared", rev |-> 1, gen |-> g, session |-> n]

AttemptResult(outcome, row) == [outcome |-> outcome, row |-> row]

(* Every UPDATE of an attempt is at the next revision.                     *)
Advance(row, state) ==
    [state |-> state, rev |-> row.rev + 1, gen |-> row.gen, session |-> row.session]

(* transition_attempt, shared by cancel and mark_unknown.                  *)
TransitionAttempt(row, expected, source, target) ==
    IF row.state = target /\ row.rev = expected + 1 THEN AttemptResult("replayed", row)
    ELSE IF row.rev # expected \/ row.state # source THEN AttemptResult("rejected", row)
    ELSE AttemptResult("applied", Advance(row, target))

CancelAttempt(row, expected) == TransitionAttempt(row, expected, "prepared", "canceled")

(* Mutant: the mark is not fenced by the state and revision it was for.    *)
MarkUnknownUnfenced(row, expected) == AttemptResult("applied", Advance(row, "unknown"))

MarkUnknown(row, expected) ==
    TransitionAttempt(row, expected, "dispatch_authorized", "unknown")

(* authorize_provider_attempt_dispatch.  ready: the generation is ready    *)
(* at the attempt's revision and the turn is still active.                 *)
AuthorizeDispatch(row, expected, ready) ==
    IF row.state = "dispatch_authorized" /\ row.rev = expected + 1
    THEN AttemptResult("replayed", row)
    ELSE IF row.rev # expected \/ row.state # "prepared" \/ ~ready
         THEN AttemptResult("rejected", row)
         ELSE AttemptResult("applied", Advance(row, "dispatch_authorized"))

(* record_provider_attempt_positive_evidence.  A terminal attempt accepts  *)
(* only the evidence that made it so, which its state stands for.          *)
RecordEvidence(row, outcome) ==
    IF row.state \in TerminalAttempt
    THEN AttemptResult(IF row.state = outcome THEN "replayed" ELSE "rejected", row)
    ELSE IF row.state \notin {"dispatch_authorized", "unknown"}
         THEN AttemptResult("rejected", row)
         ELSE AttemptResult("applied", Advance(row, outcome))

(* project_provider_attempts_after_supervisor_loss, on one row.            *)
ProjectAttempt(row) ==
    IF row.state \in {"prepared", "dispatch_authorized"} THEN Advance(row, "unknown") ELSE row
=============================================================================
