-------------------------- MODULE ResetCardClients --------------------------
(***************************************************************************)
(* The clients that ask for a redemption, and the whole system.            *)
(*                                                                         *)
(*   - the native menu (ResetCardStore.swift) saves each attempt in a      *)
(*     journal (reset_card_journal.rs of decodex-app-client-ffi) before it *)
(*     sends it, and forgets it only on a final observation;               *)
(*   - the accounts panel (shell_reset_cards.rs) keeps the key of its      *)
(*     request in memory and blocks the account's cards while it is        *)
(*     unsettled;                                                          *)
(*   - the command line sends what the user types, also twice.             *)
(*                                                                         *)
(* A client that times out does not know whether its request is still on   *)
(* its way.  Card and revision of a request are what the user confirmed,   *)
(* perhaps long ago: any card, any revision so far.                        *)
(***************************************************************************)
EXTENDS ResetCards

CONSTANTS
    JournalLimit,       \* LIMIT: attempts the journal holds
    MaxTyped            \* bound: requests typed on the command line

ASSUME ClientAssumption == JournalLimit \in Nat /\ MaxTyped \in Nat

VARIABLES
    owner,      \* whose request a key names; "gone" is a panel that was killed
    journal,    \* the menu's saved attempts: the card of each key in it
    menu,       \* the key of the dispatch in progress, which has the lease
    recovery,   \* a key whose final status the recovery task read and will apply
    panel,      \* the panel's row of the account
    typed

clientVars == <<owner, journal, menu, recovery, panel, typed>>
vars == <<serviceVars, clientVars, mishaps>>

----------------------------------------------------------------------------
(* Types.                                                                  *)

Owners == {"none", "menu", "panel", "gone", "cli"}
MaybeKey == Keys \cup {NoKey}

(* CardRow: pending_key and blocked; waits is the request in progress.     *)
Panel == [waits : BOOLEAN, blocked : BOOLEAN, pending : MaybeKey]
NewPanel == [waits |-> FALSE, blocked |-> TRUE, pending |-> NoKey]

(* Every variable has its type.                                            *)
TypeOK ==
    /\ ServiceTypeOK
    /\ owner \in [Keys -> Owners]
    /\ journal \in [Keys -> Cards \cup {NoCard}]
    /\ menu \in MaybeKey /\ recovery \in MaybeKey /\ panel \in Panel
    /\ typed \in Nat

Init ==
    /\ ServiceInit
    /\ owner = [k \in Keys |-> "none"]
    /\ journal = [k \in Keys |-> NoCard] /\ menu = NoKey /\ recovery = NoKey
    /\ panel = NewPanel /\ typed = 0

----------------------------------------------------------------------------
(* Requests and connections.                                               *)

Fresh(k) == owner[k] = "none"
Owned(k, who) == owner' = [owner EXCEPT ![k] = who]

(* consume_inner: the request is on its way and its connection open.       *)
Send(k, c, r) ==
    /\ phase = "up"
    /\ queue' = queue \cup {[key |-> k, card |-> c, rev |-> r]}
    /\ conn' = [conn EXCEPT ![k] = "open"]
Close(k) == conn' = [conn EXCEPT ![k] = "closed"] /\ UNCHANGED queue

----------------------------------------------------------------------------
(* The native menu.                                                        *)

Saved == {k \in Keys : journal[k] # NoCard}
MenuFrame == UNCHANGED <<panel, typed, service>>

(* The journal is written, or that fails and keeps the attempt.            *)
Writes == {TRUE} \cup (IF mishaps < MaxMishaps THEN {FALSE} ELSE {})
ChargeWrite(written) == mishaps' = IF written THEN mishaps ELSE mishaps + 1

(* Mutants: a missing operation is forgotten; a failed one is not.         *)
RetiresMissing(seen) == seen \in {"completed", "failed", "rejected", "not_found"}
RetiresCompleted(seen) == seen \in {"completed", "rejected"}

(* Observation::retires                                                    *)
Retires(seen) == seen \in {"completed", "failed", "rejected"}

Without(k) == [journal EXCEPT ![k] = NoCard]

(* use: one attempt at a time, none for a card that has one.  The attempt  *)
(* is inserted; then it is sent under the lease, or the service cannot be  *)
(* reached or the menu is killed first, and it stays unsent.               *)
MenuUse(k, c, r, sent) ==
    /\ menu = NoKey /\ Fresh(k) /\ Owned(k, "menu")
    /\ \A j \in Saved : journal[j] # c
    /\ Cardinality(Saved) < JournalLimit
    /\ journal' = [journal EXCEPT ![k] = c]
    /\ IF sent THEN Send(k, c, r) /\ menu' = k ELSE UNCHANGED <<queue, conn, menu>>
    /\ UNCHANGED <<recovery, mishaps>> /\ MenuFrame

(* FinishDispatch with the answer; accepted and unknown are not final.     *)
MenuAnswered(written) ==
    /\ menu # NoKey /\ conn[menu] \in Answers
    /\ journal' = IF Retires(conn[menu]) /\ written THEN Without(menu) ELSE journal
    /\ ChargeWrite(written) /\ Close(menu) /\ menu' = NoKey
    /\ UNCHANGED <<owner, recovery>> /\ MenuFrame

(* The request timed out, its connection broke, or the menu is killed and  *)
(* only the journal is left: FinishDispatch is unconfirmed or never comes. *)
MenuGivesUp ==
    /\ menu # NoKey /\ Close(menu) /\ menu' = NoKey
    /\ UNCHANGED <<owner, journal, recovery, mishaps>> /\ MenuFrame

(* recoverPendingAttempts reads a status, and applies it when it comes     *)
(* back.  A status that is not final changes nothing and is left out.      *)
RecoveryRead(k) ==
    /\ recovery = NoKey /\ menu = NoKey /\ phase = "up"
    /\ k \in Saved /\ Retires(Status(ops, k)) /\ recovery' = k
    /\ UNCHANGED <<owner, journal, menu, queue, conn, mishaps>> /\ MenuFrame

(* Resolve is denied while a dispatch begun meanwhile has the lease.       *)
RecoveryApply(written) ==
    /\ recovery # NoKey /\ recovery' = NoKey
    /\ journal' = IF written /\ menu = NoKey THEN Without(recovery) ELSE journal
    /\ ChargeWrite(written)
    /\ UNCHANGED <<owner, menu, queue, conn>> /\ MenuFrame

----------------------------------------------------------------------------
(* The accounts panel.                                                     *)

PanelFrame == UNCHANGED <<journal, menu, recovery, typed, service>>

(* tap_reset_card, the second tap.                                         *)
PanelTap(k, c, r) ==
    /\ ~panel.blocked /\ Fresh(k) /\ Owned(k, "panel") /\ Send(k, c, r)
    /\ panel' = [waits |-> TRUE, blocked |-> TRUE, pending |-> k]
    /\ UNCHANGED mishaps /\ PanelFrame

(* Update::not_accepted, where nothing was sent, and a load that misses    *)
(* the status or the inventory: the cards are blocked and no key is kept.  *)
PanelBlocks ==
    /\ ~panel.blocked /\ panel' = NewPanel
    /\ UNCHANGED <<owner, queue, conn, mishaps>> /\ PanelFrame

(* A rejection is not_accepted too; any other answer is looked up by key.  *)
PanelAnswered ==
    /\ panel.waits /\ conn[panel.pending] \in Answers
    /\ panel' = IF conn[panel.pending] = "rejected" THEN NewPanel
                ELSE [panel EXCEPT !.waits = FALSE]
    /\ Close(panel.pending)
    /\ UNCHANGED <<owner, mishaps>> /\ PanelFrame

PanelGivesUp ==
    /\ panel.waits /\ Close(panel.pending)
    /\ panel' = [panel EXCEPT !.waits = FALSE]
    /\ UNCHANGED <<owner, mishaps>> /\ PanelFrame

(* Mutant: a request that is not found is over.                            *)
BlocksUnlessMissing(seen, key) == seen \in {"prepared", "ambiguous"}

(* operation_presentation: whether the operation seen blocks the cards.    *)
Blocks(seen, key) == ~Terminal(seen) /\ ~(seen = "not_found" /\ key = NoKey)

(* load reads the status of the known key, or the account's latest         *)
(* operation, and poll_reset_cards applies Update::observed.  The panel    *)
(* does nothing in between, and what it read stays true or is overtaken    *)
(* just as it would be afterwards.                                         *)
PanelLoad ==
    LET key == IF panel.pending # NoKey THEN panel.pending ELSE latest
        seen == IF key = NoKey THEN "not_found" ELSE Status(ops, key)
    IN /\ ~panel.waits /\ phase = "up"
       /\ panel' = [waits |-> FALSE, blocked |-> Blocks(seen, key),
                    pending |-> IF Blocks(seen, key) THEN key ELSE NoKey]
       /\ UNCHANGED <<owner, queue, conn, mishaps>> /\ PanelFrame

(* Its keys are nobody's now.                                              *)
PanelCrash ==
    /\ Mishap /\ panel' = NewPanel
    /\ owner' = [k \in Keys |-> IF owner[k] = "panel" THEN "gone" ELSE owner[k]]
    /\ conn' = [k \in Keys |-> IF owner[k] = "panel" THEN "closed" ELSE conn[k]]
    /\ UNCHANGED queue /\ PanelFrame

----------------------------------------------------------------------------
(* The command line: a new key, or a key used before with any arguments.   *)
Typed(k, c, r) ==
    /\ phase = "up" /\ typed < MaxTyped /\ typed' = typed + 1
    /\ owner[k] \in {"none", "cli"} /\ Owned(k, "cli")
    /\ queue' = queue \cup {[key |-> k, card |-> c, rev |-> r]}
    /\ UNCHANGED <<service, conn, journal, menu, recovery, panel, mishaps>>

----------------------------------------------------------------------------
CommandStep ==
    \/ \E r \in queue : Execute(r)
    \/ \E call \in Calls : CommandLookup(call) \/ CommandStore(call)
    \/ \E b \in BOOLEAN : CommandSession(b) \/ CommandInventory(b)

WorkerStep ==
    \/ WorkerPost \/ WorkerUnanswered
    \/ \E k \in Keys : WorkerPick(k)
    \/ \E b \in BOOLEAN, call \in Calls : WorkerSession(b, call) \/ WorkerPreflight(b, call)
    \/ \E call \in Calls : WorkerBarrier(call) \/ WorkerRecord(call) \/ WorkerComplete(call)

WorldStep ==
    \/ \E k \in Keys, answer \in Outcomes : ProviderConsumes(k, answer)
    \/ AccountChanges \/ BeginShutdown \/ Exit \/ Crash \/ Restart

ServiceStep == (CommandStep \/ WorkerStep \/ WorldStep) /\ UNCHANGED clientVars

MenuStep ==
    \/ \E k \in Keys, c \in Cards, r \in 1..rev, sent \in BOOLEAN : MenuUse(k, c, r, sent)
    \/ MenuGivesUp
    \/ \E k \in Keys : RecoveryRead(k)
    \/ \E written \in Writes : MenuAnswered(written) \/ RecoveryApply(written)

PanelStep ==
    \/ \E k \in Keys, c \in Cards, r \in 1..rev : PanelTap(k, c, r)
    \/ PanelBlocks \/ PanelAnswered \/ PanelGivesUp \/ PanelLoad \/ PanelCrash

Next ==
    \/ ServiceStep \/ MenuStep \/ PanelStep
    \/ \E k \in Keys, c \in Cards, r \in 1..rev : Typed(k, c, r)

Spec == Init /\ [][Next]_vars

(* The worker and the actor run; a stop ends and a supervisor restarts the *)
(* service; requests are answered or time out; the menu's recovery and the *)
(* panel's refresh come again and again.                                   *)
RequestStep == MenuGivesUp \/ \E written \in Writes : MenuAnswered(written)
RecoveryStep == (\E k \in Keys : RecoveryRead(k)) \/ \E written \in Writes : RecoveryApply(written)
Fairness ==
    /\ WF_vars(WorkerStep /\ UNCHANGED clientVars)
    /\ WF_vars(CommandStep /\ UNCHANGED clientVars)
    /\ WF_vars((Exit \/ Restart) /\ UNCHANGED clientVars)
    /\ WF_vars(RequestStep) /\ WF_vars(RecoveryStep)
    /\ WF_vars(PanelAnswered \/ PanelGivesUp) /\ WF_vars(PanelLoad)
LiveSpec == Spec /\ Fairness

----------------------------------------------------------------------------
(* Properties.                                                             *)

(* A request of a key may still have an effect nobody has read yet.        *)
OnItsWay(k) == (\E r \in queue : r.key = k) \/ cmd.key = k
Unsettled(k) == OnItsWay(k) \/ ops[k].state \in ActiveStates

(* No ledger row is ever sent to the provider twice, whatever crashes,     *)
(* restarts, lost answers and repeated commands come between.              *)
PostedOnce == \A k \in Keys : post[k].sent <= 1

(* A request may still redeem a card, or an operation may still be sent.   *)
AtStake(k) == post[k].at = "flying" \/ ops[k].state \in ActiveStates

(* At most one card of the account is at stake: while one request may      *)
(* still redeem its card, or one operation may still be sent, there is no  *)
(* second, also after the service that sent it is gone.                    *)
OneCardAtStake == \A j, k \in Keys : AtStake(j) /\ AtStake(k) => j = k

(* The ledger tells the truth of every card: an operation called failed    *)
(* was never sent, one completed has the provider's own answer, and a      *)
(* redeemed card is the one its operation names.                           *)
OutcomeIsTrue ==
    /\ \A k \in Keys :
          /\ ops[k].state = "failed" => post[k].sent = 0
          /\ ops[k].state = "completed" =>
                (ops[k].outcome = "reset" <=> spent[ops[k].card] = k)
    /\ \A c \in Cards : spent[c] \in Keys => /\ ops[spent[c]].card = c
                                             /\ ops[spent[c]].state \in {"sending", "completed"}

(* The account does not change between the check of its revision and the   *)
(* recording of the answer: a redemption is made with the revision the     *)
(* user confirmed.                                                         *)
SentAsConfirmed ==
    worker.pc \in {"barrier", "post", "wait"} => ops[worker.key].rev = rev

(* An operation without an answer is being redeemed right now, or a crash, *)
(* a timeout or a database failure cut its answer off: a stop of the       *)
(* service never does.                                                     *)
StopLosesNoAnswer ==
    \A k \in Keys : ops[k].state = "sending" /\ ops[k].outcome = "none" /\ k \notin excused =>
                        worker.key = k /\ worker.pc \in {"post", "wait"}

(* The menu's journal remembers each of its requests that is not settled,  *)
(* also one the menu gave up on and the service has not read yet.          *)
UnsettledIsRemembered == \A k \in Keys : owner[k] = "menu" /\ Unsettled(k) => k \in Saved

(* A panel that is not killed blocks the account's cards and knows the key *)
(* as long as its own request is not settled.                              *)
PanelKnowsItsRequest ==
    \A k \in Keys : owner[k] = "panel" /\ Unsettled(k) => panel.blocked /\ panel.pending = k

(* Every intent the ledger accepted is redeemed or given up in the end,    *)
(* and every answer it holds completes its operation: time and again       *)
(* nothing is left for the worker, whatever it meets on the way.           *)
LedgerDrains ==
    []<>(\A k \in Keys : /\ ops[k].state # "prepared"
                         /\ ops[k].state = "sending" => ops[k].outcome = "none")

(* An operation that is over is forgotten by the menu's journal and lets   *)
(* go of the panel's cards.                                                *)
ClientsLetGo ==
    []<>(\A k \in Keys : Terminal(Status(ops, k)) => k \notin Saved /\ panel.pending # k)

----------------------------------------------------------------------------
(* The abstract specification.                                             *)

(* What the ledger tells of an intent, and where its request is.           *)
Verdict(k) ==
    CASE ops[k].state = "none" -> "new"
      [] ops[k].state \in ActiveStates -> "open"
      [] ops[k].state = "completed" -> ops[k].outcome
      [] ops[k].state = "failed" -> "failed"
Whereabouts(k) == IF post[k].at = "none" THEN "unsent" ELSE post[k].at

Promise == INSTANCE RedemptionPromise WITH
               card <- [k \in Keys |-> ops[k].card],
               verdict <- [k \in Keys |-> Verdict(k)],
               request <- [k \in Keys |-> Whereabouts(k)]

(* The service keeps the promise of RedemptionPromise: whatever crashes,   *)
(* stops, lost answers and repeated commands come between, each intent is  *)
(* sent at most once, taken only for a card that is still there and while  *)
(* no other is open, and closed once, with the truth.                      *)
ImplementsRedemptionPromise == Promise!PromiseSpec
=============================================================================
