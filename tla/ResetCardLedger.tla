-------------------------- MODULE ResetCardLedger --------------------------
(***************************************************************************)
(* The ledger of manual reset-card operations of one account:              *)
(* database/src/reset_cards.rs.  A row is one confirmed intent, named by   *)
(* the client's idempotency key.  Each operator is one statement or one    *)
(* transaction, from the rows to the rows it leaves.                       *)
(***************************************************************************)
EXTENDS Naturals

CONSTANTS
    Keys,       \* idempotency keys
    Cards,      \* the account's reset cards, each with a descriptor of its own
    NoKey, NoCard

ASSUME LedgerAssumption == NoKey \notin Keys /\ NoCard \notin Cards

(* What the provider says of one redemption; "not_reset" stands for        *)
(* nothing_to_reset, no_credit and already_redeemed.                       *)
Outcomes == {"reset", "not_reset"}

(* ResetCardOperation: the state column, the receipt and the card and the  *)
(* account revision the user confirmed.                                    *)
States == {"none", "prepared", "sending", "completed", "failed"}
Row == [state : States, outcome : Outcomes \cup {"none"}, card : Cards \cup {NoCard}, rev : Nat]
NoRow == [state |-> "none", outcome |-> "none", card |-> NoCard, rev |-> 0]

(* The operations that hold the account: prepared, or sent and not settled.*)
ActiveStates == {"prepared", "sending"}

(* Mutant: a sent operation does not hold the account any more.            *)
ActiveUnlessSent(rows) == {k \in Keys : rows[k].state = "prepared"}

Active(rows) == {k \in Keys : rows[k].state \in ActiveStates}

SameIntent(row, target) == row.card = target.card /\ row.rev = target.rev

(* prepare_reset_card: a known key is replayed or refused, never rebound;  *)
(* a new one waits for the operation that holds the account.               *)
PrepareAnswer(rows, k, target) ==
    IF rows[k] # NoRow THEN (IF SameIntent(rows[k], target) THEN "accepted" ELSE "rejected")
    ELSE IF Active(rows) # {} THEN "unknown" ELSE "accepted"
PrepareResetCard(rows, k, target) ==
    IF rows[k] = NoRow /\ Active(rows) = {}
    THEN [rows EXCEPT ![k] = [NoRow EXCEPT !.state = "prepared", !.card = target.card,
                                           !.rev = target.rev]]
    ELSE rows

(* Mutant: a receipt is nothing to take up again.                          *)
PendingIntents(rows) == {k \in Keys : rows[k].state = "prepared"}

(* pending_reset_cards: intents never sent, and receipts to be completed.  *)
PendingResetCards(rows) ==
    {k \in Keys : \/ rows[k].state = "prepared"
                  \/ rows[k].state = "sending" /\ rows[k].outcome # "none"}

(* The updates; each names the state it expects and changes nothing else.  *)
BeginSend(rows, k) ==
    IF rows[k].state = "prepared" THEN [rows EXCEPT ![k].state = "sending"] ELSE rows
RecordOutcome(rows, k, outcome) ==
    IF rows[k].state = "sending" /\ rows[k].outcome = "none"
    THEN [rows EXCEPT ![k].outcome = outcome] ELSE rows
Complete(rows, k) ==
    IF rows[k].state = "sending" /\ rows[k].outcome # "none"
    THEN [rows EXCEPT ![k].state = "completed"] ELSE rows
FailBeforeSend(rows, k) ==
    IF rows[k].state = "prepared" THEN [rows EXCEPT ![k].state = "failed"] ELSE rows

(* operation_status                                                        *)
Statuses == {"not_found", "prepared", "ambiguous", "completed", "failed"}
Status(rows, k) ==
    CASE rows[k].state = "none" -> "not_found"
      [] rows[k].state = "sending" -> "ambiguous"
      [] OTHER -> rows[k].state
Terminal(status) == status \in {"completed", "failed"}
=============================================================================
