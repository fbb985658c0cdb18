----------------------------- MODULE ResetCards -----------------------------
(***************************************************************************)
(* The use of a reset card: one account's cards at the provider, the       *)
(* service that redeems them (crates/decodex-runtime/src/account_launch/   *)
(* api_reset_card.rs behind the command actor of websocket.rs) and the     *)
(* requests on their way to it.                                            *)
(*                                                                         *)
(* A redemption is one HTTP request that cannot be taken back.  The        *)
(* service commits the ledger row to "sending" before it lets the request  *)
(* go, never sends a row twice, and holds the account's lock from the      *)
(* checks before the request to the recording of its answer.  It may crash *)
(* at any step; a stop waits for the redemption in progress.  The request  *)
(* may take effect at any time, or never, whether or not the service is    *)
(* still there to hear of it.                                              *)
(***************************************************************************)
EXTENDS ResetCardLedger, FiniteSets

CONSTANTS
    MaxRevision,    \* bound: account revisions
    MaxMishaps      \* bound: stops, crashes and writes that fail, in all

ASSUME ServiceAssumption == MaxRevision \in Nat \ {0} /\ MaxMishaps \in Nat

VARIABLES
    ops,        \* the ledger
    latest,     \* the key of its last row
    rev,        \* the account's revision
    spent,      \* who redeemed a card: a key, or nobody yet
    post,       \* the redemption requests that left the service
    phase,      \* "up", "stopping" (stopping is set) or "down"
    worker,     \* process_pending: the row it is at
    cmd,        \* the command the actor executes
    receipts,   \* PublicationState.receipts: keys this run of the service answered
    queue,      \* requests on their way to the actor
    conn,       \* a key's connection: the answer on it, or "open", or "closed"
    excused,    \* keys whose answer a crash, a timeout or a fault cut off
    mishaps

service == <<ops, latest, rev, spent, post, phase, worker, cmd, receipts, excused>>
serviceVars == <<service, queue, conn>>

----------------------------------------------------------------------------
(* Types.                                                                  *)

Answers == {"accepted", "rejected", "unknown"}
Connections == Answers \cup {"closed", "open"}

Request == [key : Keys, card : Cards, rev : Nat]

(* sent counts the requests that left for the key's row; at is where the    *)
(* last one is, or its answer.                                             *)
Post == [sent : Nat, at : {"none", "flying"} \cup Outcomes]
NoPost == [sent |-> 0, at |-> "none"]

WorkerSteps ==
    {"idle", "session", "preflight", "barrier", "post", "wait", "complete", "receipt"}
Worker == [pc : WorkerSteps, key : Keys \cup {NoKey}]
IdleWorker == [pc |-> "idle", key |-> NoKey]

CommandSteps == {"idle", "lookup", "session", "inventory", "store"}
Command == [pc : CommandSteps, key : Keys \cup {NoKey}, card : Cards \cup {NoCard}, rev : Nat]
IdleCommand == [pc |-> "idle", key |-> NoKey, card |-> NoCard, rev |-> 0]

ServiceTypeOK ==
    /\ ops \in [Keys -> Row] /\ latest \in Keys \cup {NoKey}
    /\ rev \in Nat /\ spent \in [Cards -> Keys \cup {NoKey}]
    /\ post \in [Keys -> Post]
    /\ phase \in {"up", "stopping", "down"}
    /\ worker \in Worker /\ cmd \in Command
    /\ receipts \subseteq Keys /\ queue \subseteq Request
    /\ conn \in [Keys -> Connections]
    /\ excused \subseteq Keys /\ mishaps \in Nat

ServiceInit ==
    /\ ops = [k \in Keys |-> NoRow] /\ latest = NoKey
    /\ rev = 1 /\ spent = [c \in Cards |-> NoKey]
    /\ post = [k \in Keys |-> NoPost]
    /\ phase = "up" /\ worker = IdleWorker /\ cmd = IdleCommand
    /\ receipts = {} /\ queue = {} /\ conn = [k \in Keys |-> "closed"]
    /\ excused = {} /\ mishaps = 0

----------------------------------------------------------------------------
(* The account's lock.  A ResetCardSession owns it: the worker's lives to  *)
(* the end of process, a command's to the end of prepare.                  *)

(* Mutant: the session is dropped once it has seen the inventory.          *)
WorkerHoldsForPreflight == worker.pc = "preflight"

WorkerHolds == worker.pc \in {"preflight", "barrier", "post", "wait", "complete"}

(* Mutant: the command's session ends when it has chosen its card.         *)
CommandHoldsForInventory == cmd.pc = "inventory"

CommandHolds == cmd.pc \in {"inventory", "store"}
LockFree == ~WorkerHolds /\ ~CommandHolds

Mishap == mishaps < MaxMishaps /\ mishaps' = mishaps + 1

(* A database call answers, or fails and leaves the rows alone: each is    *)
(* one transaction, and its caller waits for it to end.                    *)
Calls == {"ok"} \cup (IF mishaps < MaxMishaps THEN {"failed"} ELSE {})
Charge(call) == mishaps' = IF call = "ok" THEN mishaps ELSE mishaps + 1
Called(call, after) == IF call = "ok" THEN after ELSE ops

----------------------------------------------------------------------------
(* prepare: one command at a time, from the actor's queue.                 *)

CommandFrame == UNCHANGED <<rev, spent, post, phase, worker, excused>>

Target(r) == [card |-> r.card, rev |-> r.rev]

(* handle_command_request: an answered key is answered again from its      *)
(* receipt, any other request becomes the command.                         *)
Execute(r) ==
    /\ phase = "up" /\ cmd.pc = "idle" /\ r \in queue
    /\ queue' = queue \ {r}
    /\ cmd' = IF r.key \in receipts THEN cmd
              ELSE [pc |-> "lookup", key |-> r.key, card |-> r.card, rev |-> r.rev]
    /\ CommandFrame /\ UNCHANGED <<ops, latest, receipts, conn, mishaps>>

(* finish_active_command keeps every answer but an unknown acceptance, and *)
(* tells a client that is still there.                                     *)
Answer(answer) ==
    /\ cmd' = IdleCommand
    /\ receipts' = IF answer = "unknown" THEN receipts ELSE receipts \cup {cmd.key}
    /\ conn' = IF conn[cmd.key] = "open" THEN [conn EXCEPT ![cmd.key] = answer] ELSE conn
    /\ queue' = queue

Proceed(pc) == cmd' = [cmd EXCEPT !.pc = pc] /\ UNCHANGED <<receipts, queue, conn>>

(* The durable replay comes before every other check; a stopping service   *)
(* takes no new intent.                                                    *)
LookupAnswer ==
    IF ops[cmd.key] # NoRow THEN PrepareAnswer(ops, cmd.key, Target(cmd))
    ELSE IF phase = "stopping" THEN "rejected" ELSE "none"
CommandLookup(call) ==
    LET answer == IF call = "ok" THEN LookupAnswer ELSE "rejected"
    IN /\ cmd.pc = "lookup" /\ call \in Calls /\ Charge(call)
       /\ IF answer = "none" THEN Proceed("session") ELSE Answer(answer)
       /\ CommandFrame /\ UNCHANGED <<ops, latest>>

(* api_credential_for_reset under the lock; usable is its look at the      *)
(* account's health and token.                                             *)
CommandSession(usable) ==
    /\ cmd.pc = "session" /\ LockFree
    /\ IF cmd.rev = rev /\ usable THEN Proceed("inventory") ELSE Answer("rejected")
    /\ CommandFrame /\ UNCHANGED <<ops, latest, mishaps>>

(* select_credit: complete is an inventory that answers, is whole and      *)
(* names one card by the descriptor.  A card that expired or was redeemed  *)
(* elsewhere is one it does not name.                                      *)
CommandInventory(complete) ==
    /\ cmd.pc = "inventory"
    /\ IF complete /\ spent[cmd.card] = NoKey THEN Proceed("store") ELSE Answer("rejected")
    /\ CommandFrame /\ UNCHANGED <<ops, latest, mishaps>>

CommandStore(call) ==
    /\ cmd.pc = "store" /\ call \in Calls /\ Charge(call)
    /\ ops' = Called(call, PrepareResetCard(ops, cmd.key, Target(cmd)))
    /\ latest' = IF ops' = ops THEN latest ELSE cmd.key
    /\ Answer(IF call = "ok" THEN PrepareAnswer(ops, cmd.key, Target(cmd)) ELSE "rejected")
    /\ CommandFrame

----------------------------------------------------------------------------
(* process_pending and process: the one worker.  Only it moves a row, and  *)
(* an account has one pending row at a time, so the rows a pass read are   *)
(* still pending, one by one, when it comes to them.                       *)

WorkerFrame == UNCHANGED <<latest, rev, spent, phase, cmd, receipts, queue, conn>>
Goto(pc) == worker' = [worker EXCEPT !.pc = pc]
Leave == worker' = IdleWorker
Quiet == UNCHANGED <<ops, post, excused, mishaps>>

(* A stopping service takes no other row; a row with a receipt needs only  *)
(* its completion, and no session.                                         *)
WorkerPick(k) ==
    /\ phase = "up" /\ worker.pc = "idle" /\ k \in PendingResetCards(ops)
    /\ worker' = [pc |-> IF ops[k].outcome # "none" THEN "receipt" ELSE "session", key |-> k]
    /\ WorkerFrame /\ Quiet

(* fail_reset_card_before_send, and the pass goes on without the row.      *)
GiveUp(call) ==
    /\ call \in Calls /\ Charge(call)
    /\ ops' = Called(call, FailBeforeSend(ops, worker.key)) /\ Leave

(* session_for_operation: the session, and the inventory it reads.         *)
WorkerSession(usable, call) ==
    /\ worker.pc = "session" /\ LockFree
    /\ IF ops[worker.key].rev = rev /\ usable
       THEN Goto("preflight") /\ UNCHANGED <<ops, mishaps>> ELSE GiveUp(call)
    /\ WorkerFrame /\ UNCHANGED <<post, excused>>

WorkerPreflight(complete, call) ==
    /\ worker.pc = "preflight"
    /\ IF complete /\ spent[ops[worker.key].card] = NoKey
       THEN Goto("barrier") /\ UNCHANGED <<ops, mishaps>> ELSE GiveUp(call)
    /\ WorkerFrame /\ UNCHANGED <<post, excused>>

(* begin_reset_card_send changed the row, or nothing is sent.              *)
WorkerBarrier(call) ==
    /\ worker.pc = "barrier" /\ call \in Calls /\ Charge(call)
    /\ ops' = Called(call, BeginSend(ops, worker.key))
    /\ IF ops' = ops THEN Leave ELSE Goto("post")
    /\ WorkerFrame /\ UNCHANGED <<post, excused>>

WorkerPost ==
    /\ worker.pc = "post" /\ Goto("wait")
    /\ post' = [post EXCEPT ![worker.key] = [sent |-> @.sent + 1, at |-> "flying"]]
    /\ WorkerFrame /\ UNCHANGED <<ops, excused, mishaps>>

(* Mutant: a request nobody answered was a failure.                        *)
WorkerUnansweredFails ==
    /\ worker.pc = "wait" /\ Leave
    /\ ops' = [ops EXCEPT ![worker.key].state = "failed"]
    /\ excused' = excused \cup {worker.key}
    /\ WorkerFrame /\ UNCHANGED <<post, mishaps>>

(* A timeout, a broken connection or an answer that makes no sense.        *)
WorkerUnanswered ==
    /\ worker.pc = "wait" /\ Leave
    /\ excused' = excused \cup {worker.key}
    /\ WorkerFrame /\ UNCHANGED <<ops, post, mishaps>>

(* The answer is here and is recorded.                                     *)
WorkerRecord(call) ==
    /\ worker.pc = "wait" /\ post[worker.key].at \in Outcomes /\ call \in Calls /\ Charge(call)
    /\ ops' = Called(call, RecordOutcome(ops, worker.key, post[worker.key].at))
    /\ IF ops' = ops THEN Leave /\ excused' = excused \cup {worker.key}
                     ELSE Goto("complete") /\ excused' = excused
    /\ WorkerFrame /\ UNCHANGED post

WorkerComplete(call) ==
    /\ worker.pc \in {"complete", "receipt"} /\ call \in Calls /\ Charge(call)
    /\ ops' = Called(call, Complete(ops, worker.key)) /\ Leave
    /\ WorkerFrame /\ UNCHANGED <<post, excused>>

----------------------------------------------------------------------------
(* The provider, the account and the life of the service.                  *)

WorldFrame == UNCHANGED <<ops, latest, worker, cmd, receipts, queue, conn, excused>>

(* The request arrives: it redeems its card, or says why it does not.      *)
ProviderConsumes(k, answer) ==
    LET card == ops[k].card
    IN /\ post[k].at = "flying"
       /\ answer = "reset" => spent[card] = NoKey
       /\ post' = [post EXCEPT ![k].at = answer]
       /\ spent' = IF answer = "reset" THEN [spent EXCEPT ![card] = k] ELSE spent
       /\ WorldFrame /\ UNCHANGED <<rev, phase, mishaps>>

(* A refresh, a login, a change of enablement: under the account's lock.   *)
AccountChanges ==
    /\ phase = "up" /\ LockFree /\ rev < MaxRevision /\ rev' = rev + 1
    /\ WorldFrame /\ UNCHANGED <<spent, post, phase, mishaps>>

(* begin_shutdown; the actor refuses what is still in its queue without    *)
(* executing it.                                                           *)
BeginShutdown ==
    /\ phase = "up" /\ Mishap /\ phase' = "stopping" /\ queue' = {}
    /\ UNCHANGED <<ops, latest, rev, spent, post, worker, cmd, receipts, conn, excused>>

(* The process ends: nothing but the ledger is left of the service.        *)
Gone == /\ phase' = "down" /\ worker' = IdleWorker /\ cmd' = IdleCommand
        /\ receipts' = {} /\ queue' = {}
        /\ UNCHANGED <<ops, latest, rev, spent, post, conn>>

(* Mutant: the process ends without waiting for the worker.                *)
ExitAtOnce == phase = "stopping" /\ Gone /\ UNCHANGED <<excused, mishaps>>

(* wait_for_shutdown gets the worker's mutex, so no row is in progress.    *)
Exit == phase = "stopping" /\ worker.pc = "idle" /\ Gone /\ UNCHANGED <<excused, mishaps>>

Crash ==
    /\ phase # "down" /\ Mishap /\ Gone
    /\ excused' = IF worker.pc \in {"post", "wait"} THEN excused \cup {worker.key}
                  ELSE excused

Restart ==
    /\ phase = "down" /\ phase' = "up"
    /\ WorldFrame /\ UNCHANGED <<rev, spent, post, mishaps>>
=============================================================================
