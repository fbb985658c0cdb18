-------------------------- MODULE ResetCardsProofs --------------------------
(***************************************************************************)
(* Proofs about ResetCardClients, for any keys, cards and bounds.          *)
(***************************************************************************)
EXTENDS ResetCardClients, TLAPS

----------------------------------------------------------------------------
(* The inductive invariant.                                                *)

(* What a row, its request and the cards say together.                     *)
RowKnows(k) ==
    /\ ops[k].state = "none" => ops[k] = NoRow
    /\ ops[k].state # "none" => ops[k].card \in Cards
    /\ ops[k].state = "completed" => ops[k].outcome # "none"
    /\ ops[k].outcome # "none" =>
          ops[k].state \in {"sending", "completed"} /\ post[k].at = ops[k].outcome
    /\ ops[k].state \in {"none", "prepared", "failed"} => post[k] = NoPost
    /\ post[k].sent <= 1 /\ (post[k].sent = 0 <=> post[k].at = "none")
    /\ post[k].at = "reset" => spent[ops[k].card] = k

Ledger ==
    /\ \A k \in Keys : RowKnows(k)
    /\ \A c \in Cards : spent[c] \in Keys =>
          ops[spent[c]].card = c /\ post[spent[c]].at = "reset"
    /\ \A j, k \in Active(ops) : j = k

(* What the worker knows of the row it is at, and who knows of a row that  *)
(* is sent and has no answer.                                              *)
WorkerKnows ==
    /\ worker.pc # "idle" => worker.key \in Keys
    /\ worker.pc \in {"session", "preflight", "barrier"} => ops[worker.key].state = "prepared"
    /\ worker.pc \in {"post", "wait"} =>
          ops[worker.key].state = "sending" /\ ops[worker.key].outcome = "none"
    /\ worker.pc = "post" => post[worker.key] = NoPost
    /\ worker.pc \in {"preflight", "barrier", "post", "wait"} => ops[worker.key].rev = rev
    /\ StopLosesNoAnswer

(* Keys whose client sends one request and no more.                        *)
SentOnce(k) ==
    /\ OnItsWay(k) => ops[k] = NoRow /\ conn[k] \in {"open", "closed"}
    /\ \A r \in queue : r.key = k => cmd.key # k
    /\ \A r, q \in queue : r.key = k /\ q.key = k => r = q
    /\ conn[k] = "rejected" => ops[k] = NoRow

Requests ==
    /\ IF cmd.pc = "idle" THEN cmd.key = NoKey ELSE cmd.key \in Keys /\ cmd.card \in Cards
    /\ \A k \in Keys : Fresh(k) => ~OnItsWay(k) /\ ops[k] = NoRow
    /\ \A k \in Keys : owner[k] \in {"menu", "panel", "gone"} => SentOnce(k)

Clients ==
    /\ menu # NoKey => owner[menu] = "menu"
    /\ \A k \in Saved : owner[k] = "menu"
    /\ recovery # NoKey => owner[recovery] = "menu" /\ Terminal(Status(ops, recovery))
    /\ panel.waits => panel.blocked /\ panel.pending \in Keys /\ owner[panel.pending] = "panel"
    /\ UnsettledIsRemembered
    /\ PanelKnowsItsRequest

IInv == TypeOK /\ Ledger /\ WorkerKnows /\ Requests /\ Clients

----------------------------------------------------------------------------
(* Types and the ledger's operators.                                       *)

USE DEF MaybeKey

(* A row after any statement of the ledger is a row.                       *)
LEMMA StatementsAreTyped ==
    ASSUME NEW rows \in [Keys -> Row], NEW k \in Keys
    PROVE  /\ BeginSend(rows, k) \in [Keys -> Row]
           /\ \A outcome \in Outcomes : RecordOutcome(rows, k, outcome) \in [Keys -> Row]
           /\ Complete(rows, k) \in [Keys -> Row]
           /\ FailBeforeSend(rows, k) \in [Keys -> Row]
           /\ \A target : target.card \in Cards /\ target.rev \in Nat =>
                 PrepareResetCard(rows, k, target) \in [Keys -> Row]
  <1>1. BeginSend(rows, k) \in [Keys -> Row] BY DEF BeginSend, Row, States
  <1>2. \A outcome \in Outcomes : RecordOutcome(rows, k, outcome) \in [Keys -> Row]
    BY DEF RecordOutcome, Row
  <1>3. Complete(rows, k) \in [Keys -> Row] BY DEF Complete, Row, States
  <1>4. FailBeforeSend(rows, k) \in [Keys -> Row] BY DEF FailBeforeSend, Row, States
  <1>5. \A target : target.card \in Cards /\ target.rev \in Nat =>
           PrepareResetCard(rows, k, target) \in [Keys -> Row]
    BY DEF PrepareResetCard, Row, NoRow, States
  <1> QED BY <1>1, <1>2, <1>3, <1>4, <1>5

LEMMA InitInv == Init => IInv
  <1> SUFFICES ASSUME Init PROVE IInv OBVIOUS
  <1> USE LedgerAssumption, ServiceAssumption, ClientAssumption DEF Init, ServiceInit
  <1>1. TypeOK
    BY DEF TypeOK, ServiceTypeOK, Row, States, NoRow, Post, NoPost, Worker, WorkerSteps, IdleWorker,
           Command, CommandSteps, IdleCommand, Request, Connections, Owners, Panel, NewPanel
  <1>2. Ledger BY DEF Ledger, RowKnows, NoRow, NoPost, Active, ActiveStates
  <1>3. WorkerKnows BY DEF WorkerKnows, IdleWorker, StopLosesNoAnswer, NoRow
  <1>4. Requests BY DEF Requests, SentOnce, OnItsWay, IdleCommand, Fresh
  <1>5. Clients
    BY DEF Clients, UnsettledIsRemembered, PanelKnowsItsRequest, Saved, NewPanel
  <1> QED BY <1>1, <1>2, <1>3, <1>4, <1>5 DEF IInv

----------------------------------------------------------------------------
(* Every step keeps the types.                                             *)

LEMMA CommandTypes == TypeOK /\ Requests /\ CommandStep /\ UNCHANGED clientVars => TypeOK'
  <1> SUFFICES ASSUME TypeOK, Requests, CommandStep, UNCHANGED clientVars PROVE TypeOK' OBVIOUS
  <1> USE DEF TypeOK, ServiceTypeOK, CommandFrame, clientVars
  <1>1. CASE \E r \in queue : Execute(r)
    BY <1>1 DEF Execute, Command, CommandSteps, Request
  <1>0. ASSUME NEW answer \in Answers, Answer(answer), cmd.pc # "idle"
        PROVE  /\ cmd' \in Command /\ receipts' \subseteq Keys /\ queue' \subseteq Request
               /\ conn' \in [Keys -> Connections]
    BY <1>0 DEF Answer, Requests, Command, CommandSteps, IdleCommand, Connections
  <1>p. ASSUME NEW pc \in CommandSteps, Proceed(pc)
        PROVE  /\ cmd' \in Command /\ receipts' \subseteq Keys /\ queue' \subseteq Request
               /\ conn' \in [Keys -> Connections]
    BY <1>p DEF Proceed, Command
  <1>m. \A call : Charge(call) => mishaps' \in Nat BY DEF Charge
  <1>2. ASSUME NEW call \in Calls, CommandLookup(call) PROVE TypeOK'
    BY <1>2, <1>0, <1>p, <1>m DEF CommandLookup, LookupAnswer, PrepareAnswer, Answers, CommandSteps
  <1>3. ASSUME NEW call \in Calls, CommandStore(call) PROVE TypeOK'
    <2>1. Target(cmd).card \in Cards /\ Target(cmd).rev \in Nat /\ cmd.key \in Keys
      BY <1>3 DEF CommandStore, Requests, Target, Command
    <2>2. ops' \in [Keys -> Row] BY <1>3, <2>1, StatementsAreTyped DEF CommandStore, Called
    <2>3. PICK answer \in Answers : Answer(answer)
      BY <1>3 DEF CommandStore, PrepareAnswer, Answers
    <2> QED BY <1>3, <2>1, <2>2, <2>3, <1>0, <1>m DEF CommandStore
  <1>4. ASSUME NEW b \in BOOLEAN, CommandSession(b) PROVE TypeOK'
    BY <1>4, <1>0, <1>p DEF CommandSession, Answers, CommandSteps
  <1>5. ASSUME NEW b \in BOOLEAN, CommandInventory(b) PROVE TypeOK'
    BY <1>5, <1>0, <1>p DEF CommandInventory, Answers, CommandSteps
  <1> QED BY <1>1, <1>2, <1>3, <1>4, <1>5 DEF CommandStep

LEMMA WorkerTypes == TypeOK /\ WorkerKnows /\ WorkerStep /\ UNCHANGED clientVars => TypeOK'
  <1> SUFFICES ASSUME TypeOK, WorkerKnows, WorkerStep, UNCHANGED clientVars PROVE TypeOK' OBVIOUS
  <1> USE DEF TypeOK, ServiceTypeOK, WorkerFrame, clientVars
  <1>m. \A call : Charge(call) => mishaps' \in Nat BY DEF Charge
  <1>g. ASSUME NEW pc \in WorkerSteps, Goto(pc) PROVE worker' \in Worker
    BY <1>g DEF Goto, Worker
  <1>i. Leave => worker' \in Worker BY DEF Leave, IdleWorker, Worker, WorkerSteps
  <1>k. worker.pc # "idle" => worker.key \in Keys BY DEF WorkerKnows
  <1>u. ASSUME NEW call \in Calls, GiveUp(call), worker.pc # "idle"
        PROVE  ops' \in [Keys -> Row] /\ worker' \in Worker /\ mishaps' \in Nat
    BY <1>u, <1>m, <1>i, <1>k, StatementsAreTyped DEF GiveUp, Called
  <1>1. CASE WorkerPost
    BY <1>1, <1>g, <1>k DEF WorkerPost, WorkerSteps, Post, WorkerKnows, NoPost
  <1>2. CASE WorkerUnanswered BY <1>2, <1>i, <1>k DEF WorkerUnanswered
  <1>3. ASSUME NEW k \in Keys, WorkerPick(k) PROVE TypeOK'
    BY <1>3 DEF WorkerPick, Quiet, Worker, WorkerSteps
  <1>4. ASSUME NEW b \in BOOLEAN, NEW call \in Calls, WorkerSession(b, call) PROVE TypeOK'
    BY <1>4, <1>g, <1>u DEF WorkerSession, WorkerSteps
  <1>5. ASSUME NEW b \in BOOLEAN, NEW call \in Calls, WorkerPreflight(b, call) PROVE TypeOK'
    BY <1>5, <1>g, <1>u DEF WorkerPreflight, WorkerSteps
  <1>6. ASSUME NEW call \in Calls, WorkerBarrier(call) PROVE TypeOK'
    <2>1. ops' \in [Keys -> Row] BY <1>6, <1>k, StatementsAreTyped DEF WorkerBarrier, Called
    <2> QED BY <1>6, <2>1, <1>g, <1>i, <1>m DEF WorkerBarrier, WorkerSteps
  <1>7. ASSUME NEW call \in Calls, WorkerRecord(call) PROVE TypeOK'
    <2>1. ops' \in [Keys -> Row] BY <1>7, <1>k, StatementsAreTyped DEF WorkerRecord, Called
    <2> QED BY <1>7, <2>1, <1>g, <1>i, <1>m, <1>k DEF WorkerRecord, WorkerSteps
  <1>8. ASSUME NEW call \in Calls, WorkerComplete(call) PROVE TypeOK'
    <2>1. ops' \in [Keys -> Row] BY <1>8, <1>k, StatementsAreTyped DEF WorkerComplete, Called
    <2> QED BY <1>8, <2>1, <1>i, <1>m DEF WorkerComplete
  <1> QED BY <1>1, <1>2, <1>3, <1>4, <1>5, <1>6, <1>7, <1>8 DEF WorkerStep

LEMMA WorldTypes == TypeOK /\ WorkerKnows /\ WorldStep /\ UNCHANGED clientVars => TypeOK'
  <1> SUFFICES ASSUME TypeOK, WorkerKnows, WorldStep, UNCHANGED clientVars PROVE TypeOK' OBVIOUS
  <1> USE LedgerAssumption
      DEF TypeOK, ServiceTypeOK, WorldFrame, clientVars, Mishap
  <1>g. Gone => /\ ops' \in [Keys -> Row] /\ latest' \in Keys \cup {NoKey}
                /\ rev' \in Nat /\ spent' \in [Cards -> Keys \cup {NoKey}]
                /\ post' \in [Keys -> Post] /\ phase' = "down"
                /\ worker' \in Worker /\ cmd' \in Command
                /\ receipts' \subseteq Keys /\ queue' \subseteq Request
                /\ conn' \in [Keys -> Connections]
    BY DEF Gone, IdleWorker, Worker, WorkerSteps, IdleCommand, Command, CommandSteps
  <1>1. ASSUME NEW k \in Keys, NEW answer \in Outcomes, ProviderConsumes(k, answer) PROVE TypeOK'
    BY <1>1 DEF ProviderConsumes, Post
  <1>2. CASE AccountChanges BY <1>2 DEF AccountChanges
  <1>3. CASE BeginShutdown BY <1>3 DEF BeginShutdown
  <1>4. CASE Exit BY <1>4, <1>g DEF Exit
  <1>5. CASE Crash
    <2>1. worker.pc \in {"post", "wait"} => worker.key \in Keys BY DEF WorkerKnows
    <2>2. excused' \subseteq Keys BY <1>5, <2>1 DEF Crash
    <2> QED BY <1>5, <1>g, <2>2 DEF Crash
  <1>6. CASE Restart BY <1>6 DEF Restart
  <1> QED BY <1>1, <1>2, <1>3, <1>4, <1>5, <1>6 DEF WorldStep

LEMMA CloseTypes ==
    \A k : conn \in [Keys -> Connections] /\ Close(k) =>
              queue' = queue /\ conn' \in [Keys -> Connections]
  BY DEF Close, Connections

LEMMA MenuTypes == TypeOK /\ MenuStep => TypeOK'
  <1> SUFFICES ASSUME TypeOK, MenuStep PROVE TypeOK' OBVIOUS
  <1> USE LedgerAssumption DEF TypeOK, ServiceTypeOK, MenuFrame, service
  <1>1. ASSUME NEW k \in Keys, NEW c \in Cards, NEW r \in 1..rev, NEW sent \in BOOLEAN,
               MenuUse(k, c, r, sent)
        PROVE  TypeOK'
    BY <1>1 DEF MenuUse, Send, Owned, Owners, Request, Connections
  <1>2. CASE MenuGivesUp BY <1>2, CloseTypes DEF MenuGivesUp
  <1>3. ASSUME NEW k \in Keys, RecoveryRead(k) PROVE TypeOK' BY <1>3 DEF RecoveryRead
  <1>4. ASSUME NEW written \in Writes, MenuAnswered(written) PROVE TypeOK'
    BY <1>4, CloseTypes DEF MenuAnswered, ChargeWrite, Without
  <1>5. ASSUME NEW written \in Writes, RecoveryApply(written) PROVE TypeOK'
    BY <1>5 DEF RecoveryApply, ChargeWrite, Without
  <1> QED BY <1>1, <1>2, <1>3, <1>4, <1>5 DEF MenuStep

LEMMA PanelTypes == TypeOK /\ PanelStep => TypeOK'
  <1> SUFFICES ASSUME TypeOK, PanelStep PROVE TypeOK' OBVIOUS
  <1> USE LedgerAssumption DEF TypeOK, ServiceTypeOK, PanelFrame, service, Panel, NewPanel
  <1>1. ASSUME NEW k \in Keys, NEW c \in Cards, NEW r \in 1..rev, PanelTap(k, c, r) PROVE TypeOK'
    BY <1>1 DEF PanelTap, Send, Owned, Owners, Request, Connections
  <1>2. CASE PanelBlocks BY <1>2 DEF PanelBlocks
  <1>3. CASE PanelAnswered BY <1>3, CloseTypes DEF PanelAnswered
  <1>4. CASE PanelGivesUp BY <1>4, CloseTypes DEF PanelGivesUp
  <1>5. CASE PanelLoad
    <2> DEFINE key == IF panel.pending # NoKey THEN panel.pending ELSE latest
               seen == IF key = NoKey THEN "not_found" ELSE Status(ops, key)
    <2>1. Blocks(seen, key) \in BOOLEAN BY DEF Blocks, Terminal
    <2> QED BY <1>5, <2>1 DEF PanelLoad
  <1>6. CASE PanelCrash BY <1>6 DEF PanelCrash, Mishap, Owners, Connections
  <1> QED BY <1>1, <1>2, <1>3, <1>4, <1>5, <1>6 DEF PanelStep

LEMMA TypedTypes ==
    ASSUME TypeOK, NEW k \in Keys, NEW c \in Cards, NEW r \in 1..rev, Typed(k, c, r)
    PROVE  TypeOK'
  BY DEF TypeOK, ServiceTypeOK, Typed, Owned, Owners, Request, service

----------------------------------------------------------------------------
(* The ledger, its requests and the cards.                                 *)

LEMMA LedgerFrame == Ledger /\ UNCHANGED <<ops, post, spent>> => Ledger'
  BY DEF Ledger, RowKnows, Active

(* A step of one row, between states that hold the account alike.          *)
LEMMA LedgerStep ==
    ASSUME TypeOK, Ledger, NEW k \in Keys, ops' \in [Keys -> Row], post' \in [Keys -> Post],
           \A j \in Keys \ {k} : ops'[j] = ops[j] /\ post'[j] = post[j],
           UNCHANGED spent, RowKnows(k)',
           ops'[k].card = ops[k].card,
           (post[k].at = "reset") => post'[k].at = "reset",
           (ops'[k].state \in ActiveStates) => ops[k].state \in ActiveStates
    PROVE  Ledger'
  <1>1. \A j \in Keys : RowKnows(j)' BY DEF Ledger, RowKnows
  <1>2. \A c \in Cards : spent'[c] \in Keys =>
            ops'[spent'[c]].card = c /\ post'[spent'[c]].at = "reset"
    BY DEF Ledger, TypeOK, ServiceTypeOK
  <1>3. \A i, j \in Active(ops') : i = j BY DEF Ledger, Active
  <1> QED BY <1>1, <1>2, <1>3 DEF Ledger

LEMMA CommandLedger ==
    TypeOK /\ Requests /\ Ledger /\ CommandStep => Ledger'
  <1> SUFFICES ASSUME TypeOK, Requests, Ledger, CommandStep PROVE Ledger' OBVIOUS
  <1> USE DEF CommandFrame
  <1>1. CASE UNCHANGED ops
    BY <1>1, LedgerFrame
       DEF CommandStep, Execute, CommandLookup, CommandSession, CommandInventory, CommandStore
  <1>2. ASSUME NEW call \in Calls, CommandStore(call) PROVE Ledger'
    <2>0. PICK k : k = cmd.key OBVIOUS
    <2> USE <2>0
    <2>1. CASE ops' # ops
      <3>1. /\ k \in Keys /\ ops[k] = NoRow /\ Active(ops) = {} /\ cmd.card \in Cards
            /\ UNCHANGED <<post, spent>>
        BY <1>2, <2>1 DEF CommandStore, PrepareResetCard, Called, Requests
      <3>2. ops' = [ops EXCEPT ![k] = [NoRow EXCEPT !.state = "prepared", !.card = cmd.card,
                                                    !.rev = cmd.rev]]
        BY <1>2, <2>1, <3>1 DEF CommandStore, PrepareResetCard, Called, Target
      <3>3. /\ ops'[k] = [NoRow EXCEPT !.state = "prepared", !.card = cmd.card, !.rev = cmd.rev]
            /\ \A j \in Keys \ {k} : ops'[j] = ops[j]
        BY <3>1, <3>2 DEF TypeOK, ServiceTypeOK
      <3>4. ops'[k].state = "prepared" /\ ops'[k].outcome = "none" /\ ops'[k].card = cmd.card
        BY <3>3 DEF NoRow
      <3>5. post[k] = NoPost /\ post[k].at # "reset"
        BY <3>1 DEF Ledger, RowKnows, NoRow, NoPost
      <3>6. \A j \in Keys : RowKnows(j)'
        <4>1. RowKnows(k)'
          BY <3>1, <3>4, <3>5 DEF RowKnows, NoPost
        <4>2. \A j \in Keys \ {k} : RowKnows(j)' BY <3>1, <3>3 DEF Ledger, RowKnows
        <4> QED BY <4>1, <4>2
      <3>7. \A c \in Cards : spent'[c] \in Keys =>
                ops'[spent'[c]].card = c /\ post'[spent'[c]].at = "reset"
        BY <3>1, <3>3, <3>5 DEF Ledger
      <3>8. \A i, j \in Active(ops') : i = j BY <3>1, <3>3 DEF Active
      <3> QED BY <3>6, <3>7, <3>8 DEF Ledger
    <2> QED BY <2>1, <1>1
  <1> QED BY <1>1, <1>2
          DEF CommandStep, Execute, CommandLookup, CommandSession, CommandInventory

LEMMA WorkerLedger ==
    ASSUME TypeOK, TypeOK', WorkerKnows, Ledger, WorkerStep
    PROVE  Ledger'
  <1> USE DEF WorkerFrame
  <1>0. PICK k : k = worker.key OBVIOUS
  <1> USE <1>0
  <1>k. worker.pc # "idle" => k \in Keys BY DEF WorkerKnows
  <1>t. /\ ops \in [Keys -> Row] /\ ops' \in [Keys -> Row]
        /\ post \in [Keys -> Post] /\ post' \in [Keys -> Post]
    BY DEF TypeOK, ServiceTypeOK
  <1>1. CASE UNCHANGED <<ops, post>>
    BY <1>1, LedgerFrame
       DEF WorkerStep, WorkerPost, WorkerUnanswered, WorkerPick, WorkerSession, WorkerPreflight,
           WorkerBarrier, WorkerRecord, WorkerComplete
  <1>2. CASE WorkerPost
    <2>1. k \in Keys /\ ops[k].state = "sending" /\ ops[k].outcome = "none" /\ post[k] = NoPost
      BY <1>2, <1>k DEF WorkerPost, WorkerKnows
    <2>2. post'[k] = [sent |-> 1, at |-> "flying"] /\ \A j \in Keys \ {k} : post'[j] = post[j]
      BY <1>2, <1>t, <2>1 DEF WorkerPost, NoPost
    <2>3. RowKnows(k)' BY <1>2, <2>1, <2>2 DEF WorkerPost, RowKnows, Ledger
    <2> QED BY <1>2, <1>t, <2>1, <2>2, <2>3, LedgerStep DEF WorkerPost, NoPost
  <1>u. ASSUME NEW call \in Calls, GiveUp(call), worker.pc # "idle", UNCHANGED <<post, spent>>
        PROVE  Ledger'
    <2>1. CASE ops' # ops
      <3>1. k \in Keys /\ ops[k].state = "prepared" /\ ops' = [ops EXCEPT ![k].state = "failed"]
        BY <1>u, <1>k, <2>1 DEF GiveUp, Called, FailBeforeSend
      <3>2. ops'[k] = [ops[k] EXCEPT !.state = "failed"] /\ \A j \in Keys \ {k} : ops'[j] = ops[j]
        BY <1>t, <3>1
      <3>3. /\ ops'[k].state = "failed" /\ ops'[k].outcome = ops[k].outcome
            /\ ops'[k].card = ops[k].card
        BY <1>t, <3>1, <3>2 DEF Row
      <3>4. RowKnows(k)' BY <1>u, <3>1, <3>3 DEF RowKnows, Ledger
      <3> QED BY <1>u, <1>t, <3>1, <3>2, <3>3, <3>4, LedgerStep DEF ActiveStates
    <2> QED BY <1>u, <2>1, LedgerFrame
  <1>3. ASSUME NEW b \in BOOLEAN, NEW call \in Calls, WorkerSession(b, call) PROVE Ledger'
    BY <1>3, <1>u, <1>1 DEF WorkerSession
  <1>4. ASSUME NEW b \in BOOLEAN, NEW call \in Calls, WorkerPreflight(b, call) PROVE Ledger'
    BY <1>4, <1>u, <1>1 DEF WorkerPreflight
  <1>5. ASSUME NEW call \in Calls, WorkerBarrier(call) PROVE Ledger'
    <2>1. CASE ops' # ops
      <3>1. /\ k \in Keys /\ ops[k].state = "prepared" /\ ops' = [ops EXCEPT ![k].state = "sending"]
            /\ UNCHANGED <<post, spent>>
        BY <1>5, <1>k, <2>1 DEF WorkerBarrier, Called, BeginSend
      <3>2. ops'[k] = [ops[k] EXCEPT !.state = "sending"] /\ \A j \in Keys \ {k} : ops'[j] = ops[j]
        BY <1>t, <3>1
      <3>3. /\ ops'[k].state = "sending" /\ ops'[k].outcome = ops[k].outcome
            /\ ops'[k].card = ops[k].card
        BY <1>t, <3>1, <3>2 DEF Row
      <3>4. RowKnows(k)' BY <3>1, <3>3 DEF RowKnows, Ledger
      <3> QED BY <1>t, <3>1, <3>2, <3>3, <3>4, LedgerStep DEF ActiveStates
    <2> QED BY <1>5, <2>1, <1>1 DEF WorkerBarrier
  <1>6. ASSUME NEW call \in Calls, WorkerRecord(call) PROVE Ledger'
    <2>1. CASE ops' # ops
      <3>1. /\ k \in Keys /\ ops[k].state = "sending" /\ post[k].at \in Outcomes
            /\ ops' = [ops EXCEPT ![k].outcome = post[k].at]
            /\ UNCHANGED <<post, spent>>
        BY <1>6, <1>k, <2>1 DEF WorkerRecord, Called, RecordOutcome
      <3>2. ops'[k] = [ops[k] EXCEPT !.outcome = post[k].at] /\ \A j \in Keys \ {k} : ops'[j] = ops[j]
        BY <1>t, <3>1
      <3>3. /\ ops'[k].state = "sending" /\ ops'[k].outcome = post[k].at
            /\ ops'[k].card = ops[k].card
        BY <1>t, <3>1, <3>2 DEF Row
      <3>4. RowKnows(k)' BY <3>1, <3>3 DEF RowKnows, Ledger
      <3> QED BY <1>t, <3>1, <3>2, <3>3, <3>4, LedgerStep DEF ActiveStates
    <2> QED BY <1>6, <2>1, <1>1 DEF WorkerRecord
  <1>7. ASSUME NEW call \in Calls, WorkerComplete(call) PROVE Ledger'
    <2>1. CASE ops' # ops
      <3>1. /\ k \in Keys /\ ops[k].state = "sending" /\ ops[k].outcome # "none"
            /\ ops' = [ops EXCEPT ![k].state = "completed"]
            /\ UNCHANGED <<post, spent>>
        BY <1>7, <1>k, <2>1 DEF WorkerComplete, Called, Complete
      <3>2. ops'[k] = [ops[k] EXCEPT !.state = "completed"] /\ \A j \in Keys \ {k} : ops'[j] = ops[j]
        BY <1>t, <3>1
      <3>3. /\ ops'[k].state = "completed" /\ ops'[k].outcome = ops[k].outcome
            /\ ops'[k].card = ops[k].card
        BY <1>t, <3>1, <3>2 DEF Row
      <3>4. RowKnows(k)' BY <3>1, <3>3 DEF RowKnows, Ledger
      <3> QED BY <1>t, <3>1, <3>2, <3>3, <3>4, LedgerStep DEF ActiveStates
    <2> QED BY <1>7, <2>1, <1>1 DEF WorkerComplete
  <1>8. CASE WorkerUnanswered \/ \E j \in Keys : WorkerPick(j)
    BY <1>8, <1>1 DEF WorkerUnanswered, WorkerPick, Quiet
  <1> QED BY <1>2, <1>3, <1>4, <1>5, <1>6, <1>7, <1>8 DEF WorkerStep

LEMMA WorldLedger == TypeOK /\ Ledger /\ WorldStep => Ledger'
  <1> SUFFICES ASSUME TypeOK, Ledger, WorldStep PROVE Ledger' OBVIOUS
  <1>1. ASSUME NEW k \in Keys, NEW answer \in Outcomes, ProviderConsumes(k, answer) PROVE Ledger'
    <2>1. /\ ops \in [Keys -> Row] /\ post \in [Keys -> Post]
          /\ spent \in [Cards -> Keys \cup {NoKey}]
      BY DEF TypeOK, ServiceTypeOK
    <2>2. post[k].at = "flying" /\ post[k].sent \in Nat /\ RowKnows(k)
      BY <1>1, <2>1 DEF ProviderConsumes, Ledger, Post
    <2>3. post[k].sent = 1 /\ ops[k].state \in {"sending", "completed"}
      <3>1. post[k].sent = 1 BY <2>2 DEF RowKnows
      <3>2. post[k] # NoPost BY <2>2 DEF NoPost
      <3>3. ops[k].state \in States BY <2>1 DEF Row
      <3> QED BY <3>1, <3>2, <3>3, <2>2 DEF RowKnows, States
    <2>4. ops[k].outcome = "none" /\ ops[k].card \in Cards
      BY <2>1, <2>2, <2>3 DEF RowKnows, Row, Outcomes
    <2>5. /\ post'[k].sent = 1 /\ post'[k].at = answer /\ ops' = ops
          /\ \A j \in Keys \ {k} : post'[j] = post[j]
      BY <1>1, <2>1, <2>3 DEF ProviderConsumes, WorldFrame, Post
    <2>6. answer = "reset" => spent[ops[k].card] = NoKey /\ spent' = [spent EXCEPT ![ops[k].card] = k]
      BY <1>1 DEF ProviderConsumes
    <2>7. answer # "reset" => spent' = spent BY <1>1 DEF ProviderConsumes
    <2>8. RowKnows(k)'
      <3>1. answer = "reset" => spent'[ops[k].card] = k BY <2>1, <2>4, <2>6
      <3>2. /\ ops'[k] = ops[k] /\ ops'[k].state \notin {"none", "prepared", "failed"}
            /\ ops'[k].outcome = "none" /\ ops'[k].card \in Cards
            /\ ops'[k].state = "completed" => FALSE
        BY <2>2, <2>3, <2>4, <2>5 DEF RowKnows
      <3>3. post'[k].at # "none" /\ post'[k].sent <= 1 /\ post'[k].sent # 0
        BY <2>5 DEF Outcomes
      <3>4. post'[k].at = "reset" => spent'[ops'[k].card] = k BY <2>5, <3>1, <3>2
      <3> QED BY <3>2, <3>3, <3>4 DEF RowKnows
    <2>9. ASSUME NEW j \in Keys \ {k} PROVE RowKnows(j)'
      <3>1. RowKnows(j) /\ post'[j] = post[j] /\ ops'[j] = ops[j] BY <2>5 DEF Ledger
      <3>2. post[j].at = "reset" => ops[j].card \in Cards
        BY <2>1, <3>1 DEF RowKnows, NoPost
      <3>3. post[j].at = "reset" => spent'[ops[j].card] = j
        BY <2>1, <2>4, <2>6, <2>7, <3>1, <3>2, LedgerAssumption DEF RowKnows
      <3> QED BY <3>1, <3>3 DEF RowKnows
    <2>10. ASSUME NEW c \in Cards, spent'[c] \in Keys
           PROVE  ops'[spent'[c]].card = c /\ post'[spent'[c]].at = "reset"
      <3>1. CASE answer = "reset" /\ c = ops[k].card
        <4>1. spent'[c] = k BY <2>1, <2>4, <2>6, <3>1
        <4> QED BY <4>1, <2>5, <3>1
      <3>2. CASE ~(answer = "reset" /\ c = ops[k].card)
        <4>1. spent'[c] = spent[c] BY <2>1, <2>4, <2>6, <2>7, <3>2
        <4>2. ops[spent[c]].card = c /\ post[spent[c]].at = "reset" BY <2>10, <4>1 DEF Ledger
        <4>3. spent[c] # k BY <2>2, <4>2
        <4> QED BY <2>5, <2>10, <4>1, <4>2, <4>3
      <3> QED BY <3>1, <3>2
    <2>11. \A i, j \in Active(ops') : i = j BY <2>5 DEF Ledger
    <2> QED BY <2>8, <2>9, <2>10, <2>11 DEF Ledger
  <1>2. CASE AccountChanges \/ BeginShutdown \/ Exit \/ Crash \/ Restart
    BY <1>2, LedgerFrame DEF AccountChanges, BeginShutdown, Exit, Crash, Gone, Restart, WorldFrame
  <1> QED BY <1>1, <1>2 DEF WorldStep

----------------------------------------------------------------------------
(* The worker.                                                             *)

LEMMA WorkerFrames ==
    WorkerKnows /\ UNCHANGED <<worker, rev, excused, ops, post>> => WorkerKnows'
  BY DEF WorkerKnows, StopLosesNoAnswer

LEMMA CommandWorker ==
    TypeOK /\ Requests /\ Ledger /\ WorkerKnows /\ CommandStep => WorkerKnows'
  <1> SUFFICES ASSUME TypeOK, Requests, Ledger, WorkerKnows, CommandStep PROVE WorkerKnows' OBVIOUS
  <1>1. UNCHANGED <<worker, rev, excused, post>>
    BY DEF CommandStep, Execute, CommandLookup, CommandSession, CommandInventory, CommandStore,
           CommandFrame
  <1>2. CASE UNCHANGED ops BY <1>1, <1>2, WorkerFrames
  <1>3. ASSUME NEW call \in Calls, CommandStore(call), ops' # ops PROVE WorkerKnows'
    <2>1. /\ cmd.key \in Keys /\ ops[cmd.key] = NoRow
          /\ ops' = [ops EXCEPT ![cmd.key] = [NoRow EXCEPT !.state = "prepared", !.card = cmd.card,
                                                           !.rev = cmd.rev]]
      BY <1>3 DEF CommandStore, PrepareResetCard, Called, Requests, Target
    <2>2. ops'[cmd.key].state = "prepared" /\ \A j \in Keys : j # cmd.key => ops'[j] = ops[j]
      BY <2>1 DEF TypeOK, ServiceTypeOK, NoRow
    <2>3. worker.pc \in {"session", "preflight", "barrier", "post", "wait"} => worker.key # cmd.key
      BY <2>1 DEF WorkerKnows, NoRow
    <2>4. worker.pc # "idle" => worker.key \in Keys BY DEF WorkerKnows
    <2>5. StopLosesNoAnswer' BY <1>1, <2>1, <2>2 DEF StopLosesNoAnswer, WorkerKnows
    <2> QED BY <1>1, <2>2, <2>3, <2>4, <2>5 DEF WorkerKnows
  <1> QED BY <1>2, <1>3
          DEF CommandStep, Execute, CommandLookup, CommandSession, CommandInventory, CommandFrame

LEMMA WorkerWorker ==
    ASSUME TypeOK, TypeOK', Ledger, WorkerKnows, WorkerStep
    PROVE  WorkerKnows'
  <1>0. PICK k : k = worker.key OBVIOUS
  <1> USE <1>0 DEF WorkerFrame
  <1>k. worker.pc # "idle" => k \in Keys BY DEF WorkerKnows
  <1>t. /\ ops \in [Keys -> Row] /\ post \in [Keys -> Post] /\ worker \in Worker
        /\ \A j \in Keys : ops[j].rev \in Nat
    BY DEF TypeOK, ServiceTypeOK, Row
  <1>s. \A j \in Keys : ops[j].state = "sending" /\ ops[j].outcome = "none" /\ j \notin excused =>
            k = j /\ worker.pc \in {"post", "wait"}
    BY DEF WorkerKnows, StopLosesNoAnswer
  <1>1. CASE WorkerPost
    BY <1>1, <1>k, <1>t, <1>s DEF WorkerPost, Goto, WorkerKnows, StopLosesNoAnswer, Worker
  <1>2. CASE WorkerUnanswered
    BY <1>2, <1>k, <1>t, <1>s
       DEF WorkerUnanswered, Leave, IdleWorker, WorkerKnows, StopLosesNoAnswer
  <1>3. ASSUME NEW j \in Keys, WorkerPick(j) PROVE WorkerKnows'
    BY <1>3, <1>t, <1>s
       DEF WorkerPick, PendingResetCards, Quiet, WorkerKnows, StopLosesNoAnswer, Ledger, RowKnows
  <1>u. ASSUME NEW call \in Calls, GiveUp(call), worker.pc \in {"session", "preflight"},
               UNCHANGED <<rev, excused, post>>
        PROVE  WorkerKnows'
    <2>1. worker' = IdleWorker BY <1>u DEF GiveUp, Leave
    <2>2. \A j \in Keys : ops'[j].state = "sending" => ops'[j] = ops[j]
      BY <1>u, <1>k, <1>t DEF GiveUp, Called, FailBeforeSend, Row
    <2> QED BY <1>u, <2>1, <2>2, <1>s DEF WorkerKnows, StopLosesNoAnswer, IdleWorker
  <1>4. ASSUME NEW b \in BOOLEAN, NEW call \in Calls, WorkerSession(b, call) PROVE WorkerKnows'
    BY <1>4, <1>u, <1>k, <1>t, <1>s
       DEF WorkerSession, Goto, WorkerKnows, StopLosesNoAnswer, Worker
  <1>5. ASSUME NEW b \in BOOLEAN, NEW call \in Calls, WorkerPreflight(b, call) PROVE WorkerKnows'
    BY <1>5, <1>u, <1>k, <1>t, <1>s
       DEF WorkerPreflight, Goto, WorkerKnows, StopLosesNoAnswer, Worker
  <1>6. ASSUME NEW call \in Calls, WorkerBarrier(call) PROVE WorkerKnows'
    <2>1. CASE ops' = ops
      BY <1>6, <2>1, <1>s
         DEF WorkerBarrier, Leave, IdleWorker, WorkerKnows, StopLosesNoAnswer
    <2>2. CASE ops' # ops
      <3>1. /\ k \in Keys /\ ops[k].state = "prepared" /\ ops' = [ops EXCEPT ![k].state = "sending"]
            /\ ops[k].rev = rev /\ worker' = [worker EXCEPT !.pc = "post"]
            /\ UNCHANGED <<post, rev, excused>>
        BY <1>6, <2>2, <1>k DEF WorkerBarrier, Called, BeginSend, Goto, WorkerKnows
      <3>2. /\ ops'[k].state = "sending" /\ ops'[k].outcome = ops[k].outcome /\ ops'[k].rev = rev
            /\ \A j \in Keys \ {k} : ops'[j] = ops[j]
        BY <3>1, <1>t DEF Row
      <3>3. ops[k].outcome = "none" /\ post[k] = NoPost
        BY <3>1 DEF Ledger, RowKnows
      <3>4. worker'.pc = "post" /\ worker'.key = k BY <3>1, <1>t DEF Worker
      <3> QED BY <3>1, <3>2, <3>3, <3>4, <1>s DEF WorkerKnows, StopLosesNoAnswer
    <2> QED BY <2>1, <2>2
  <1>7. ASSUME NEW call \in Calls, WorkerRecord(call) PROVE WorkerKnows'
    <2>1. CASE ops' = ops
      BY <1>7, <2>1, <1>s
         DEF WorkerRecord, Leave, IdleWorker, WorkerKnows, StopLosesNoAnswer
    <2>2. CASE ops' # ops
      <3>1. /\ k \in Keys /\ post[k].at \in Outcomes
            /\ ops' = [ops EXCEPT ![k].outcome = post[k].at]
            /\ worker' = [worker EXCEPT !.pc = "complete"]
            /\ UNCHANGED <<post, rev, excused>>
        BY <1>7, <2>2, <1>k DEF WorkerRecord, Called, RecordOutcome, Goto, WorkerKnows
      <3>2. ops'[k].outcome # "none" /\ \A j \in Keys \ {k} : ops'[j] = ops[j]
        BY <3>1, <1>t DEF Row, Outcomes
      <3>4. worker'.pc = "complete" /\ worker'.key = k BY <3>1, <1>t DEF Worker
      <3> QED BY <3>1, <3>2, <3>4, <1>s DEF WorkerKnows, StopLosesNoAnswer
    <2> QED BY <2>1, <2>2
  <1>8. ASSUME NEW call \in Calls, WorkerComplete(call) PROVE WorkerKnows'
    <2>1. worker' = IdleWorker /\ UNCHANGED <<rev, excused, post>> BY <1>8 DEF WorkerComplete, Leave
    <2>2. \A j \in Keys : ops'[j].state = "sending" => ops'[j] = ops[j]
      BY <1>8, <1>k, <1>t DEF WorkerComplete, Called, Complete, Row
    <2>3. worker.pc \in {"complete", "receipt"} BY <1>8 DEF WorkerComplete
    <2> QED BY <2>1, <2>2, <2>3, <1>s DEF WorkerKnows, StopLosesNoAnswer, IdleWorker
  <1> QED BY <1>1, <1>2, <1>3, <1>4, <1>5, <1>6, <1>7, <1>8 DEF WorkerStep

LEMMA WorldWorker == TypeOK /\ WorkerKnows /\ WorldStep => WorkerKnows'
  <1> SUFFICES ASSUME TypeOK, WorkerKnows, WorldStep PROVE WorkerKnows' OBVIOUS
  <1>1. ASSUME NEW k \in Keys, NEW answer \in Outcomes, ProviderConsumes(k, answer)
        PROVE  WorkerKnows'
    BY <1>1 DEF ProviderConsumes, WorldFrame, WorkerKnows, StopLosesNoAnswer, NoPost, TypeOK,
                ServiceTypeOK
  <1>2. CASE AccountChanges
    <2>1. worker.pc \notin {"preflight", "barrier", "post", "wait"}
      BY <1>2 DEF AccountChanges, LockFree, WorkerHolds
    <2> QED BY <1>2, <2>1 DEF AccountChanges, WorldFrame, WorkerKnows, StopLosesNoAnswer
  <1>3. CASE BeginShutdown BY <1>3, WorkerFrames DEF BeginShutdown
  <1>4. CASE Exit
    BY <1>4 DEF Exit, Gone, IdleWorker, WorkerKnows, StopLosesNoAnswer
  <1>5. CASE Crash
    BY <1>5 DEF Crash, Gone, IdleWorker, WorkerKnows, StopLosesNoAnswer
  <1>6. CASE Restart BY <1>6, WorkerFrames DEF Restart, WorldFrame
  <1> QED BY <1>1, <1>2, <1>3, <1>4, <1>5, <1>6 DEF WorldStep

----------------------------------------------------------------------------
(* Requests, their keys and their connections.                             *)

(* Requests that are read, dropped or given up, by a service or a client   *)
(* that writes no new row.                                                 *)
LEMMA RequestsShrink ==
    ASSUME TypeOK, Requests, queue' \subseteq queue, cmd' \in {cmd, IdleCommand},
           \A j \in Keys : ops[j] = NoRow => ops'[j] = NoRow,
           \A j \in Keys : conn'[j] \in {conn[j], "closed"},
           \A j \in Keys : owner'[j] = "none" => owner[j] = "none",
           \A j \in Keys : owner'[j] \in {"menu", "panel", "gone"} =>
                               owner[j] \in {"menu", "panel", "gone"}
    PROVE  Requests'
  <1>1. \A j \in Keys : OnItsWay(j)' => OnItsWay(j)
    BY LedgerAssumption DEF OnItsWay, IdleCommand
  <1>2. IF cmd'.pc = "idle" THEN cmd'.key = NoKey ELSE cmd'.key \in Keys /\ cmd'.card \in Cards
    BY DEF Requests, IdleCommand
  <1>3. \A j \in Keys : Fresh(j)' => ~OnItsWay(j)' /\ ops'[j] = NoRow
    BY <1>1 DEF Requests, Fresh
  <1>4. ASSUME NEW j \in Keys, owner'[j] \in {"menu", "panel", "gone"} PROVE SentOnce(j)'
    <2>1. SentOnce(j) BY <1>4 DEF Requests
    <2>2. cmd'.key = j => cmd.key = j BY LedgerAssumption DEF IdleCommand
    <2> QED BY <1>1, <2>1, <2>2 DEF SentOnce
  <1> QED BY <1>2, <1>3, <1>4 DEF Requests

(* The answer that ends a command.                                         *)
LEMMA AnswerRequests ==
    ASSUME TypeOK, Requests, cmd.pc # "idle", NEW answer \in Answers, Answer(answer),
           UNCHANGED owner, \A j \in Keys \ {cmd.key} : ops'[j] = ops[j],
           answer = "rejected" /\ ops[cmd.key] = NoRow => ops'[cmd.key] = NoRow
    PROVE  Requests'
  <1>0. PICK k : k = cmd.key OBVIOUS
  <1> USE <1>0
  <1>1. k \in Keys BY DEF Requests
  <1>2. cmd' = IdleCommand /\ queue' = queue BY DEF Answer
  <1>3. \A j \in Keys : OnItsWay(j)' => OnItsWay(j)
    BY <1>2, LedgerAssumption DEF OnItsWay, IdleCommand
  <1>4. \A j \in Keys \ {k} : conn'[j] = conn[j] BY <1>1 DEF Answer, TypeOK, ServiceTypeOK
  <1>5. conn'[k] \in {conn[k], answer} BY <1>1 DEF Answer, TypeOK, ServiceTypeOK
  <1>6. \A j \in Keys : Fresh(j)' => ~OnItsWay(j)' /\ ops'[j] = NoRow
    BY <1>1, <1>3 DEF Requests, Fresh, OnItsWay
  <1>7. ASSUME NEW j \in Keys \ {k}, SentOnce(j) PROVE SentOnce(j)'
    <2>1. ops'[j] = ops[j] /\ conn'[j] = conn[j] BY <1>4
    <2> QED BY <1>2, <1>3, <1>7, <2>1, LedgerAssumption DEF SentOnce, IdleCommand
  <1>8. ASSUME SentOnce(k) PROVE SentOnce(k)'
    <2>1. ops[k] = NoRow /\ conn[k] \in {"open", "closed"} /\ \A r \in queue : r.key # k
      BY <1>1, <1>8 DEF SentOnce, OnItsWay
    <2>2. ~OnItsWay(k)' BY <1>1, <1>2, <2>1, LedgerAssumption DEF OnItsWay, IdleCommand
    <2>3. conn'[k] = "rejected" => ops'[k] = NoRow BY <1>5, <2>1
    <2> QED BY <1>2, <2>1, <2>2, <2>3 DEF SentOnce
  <1>9. \A j \in Keys : owner'[j] \in {"menu", "panel", "gone"} => SentOnce(j)'
    BY <1>7, <1>8 DEF Requests
  <1>10. IF cmd'.pc = "idle" THEN cmd'.key = NoKey ELSE cmd'.key \in Keys /\ cmd'.card \in Cards
    BY <1>2 DEF IdleCommand
  <1> QED BY <1>6, <1>9, <1>10 DEF Requests

LEMMA CommandRequests == TypeOK /\ Requests /\ CommandStep /\ UNCHANGED clientVars => Requests'
  <1> SUFFICES ASSUME TypeOK, Requests, CommandStep, UNCHANGED owner PROVE Requests'
    BY DEF clientVars
  <1>1. ASSUME NEW r \in queue, Execute(r) PROVE Requests'
    <2>1. r \in Request /\ r.key \in Keys /\ r.card \in Cards
      BY DEF TypeOK, ServiceTypeOK, Request
    <2>2. CASE r.key \in receipts
      BY <1>1, <2>2, RequestsShrink DEF Execute
    <2>3. CASE r.key \notin receipts
      <3>1. /\ cmd' = [pc |-> "lookup", key |-> r.key, card |-> r.card, rev |-> r.rev]
            /\ queue' = queue \ {r} /\ UNCHANGED <<ops, conn>> /\ cmd.key = NoKey
        BY <1>1, <2>3 DEF Execute, Requests
      <3>2. \A j \in Keys : OnItsWay(j)' => OnItsWay(j) BY <3>1 DEF OnItsWay
      <3>3. ASSUME NEW j \in Keys, SentOnce(j) PROVE SentOnce(j)'
        BY <3>1, <3>2, <3>3 DEF SentOnce
      <3>4. \A j \in Keys : Fresh(j)' => ~OnItsWay(j)' /\ ops'[j] = NoRow
        BY <3>1, <3>2 DEF Requests, Fresh
      <3>5. cmd'.pc # "idle" /\ cmd'.key \in Keys /\ cmd'.card \in Cards BY <2>1, <3>1
      <3> QED BY <3>3, <3>4, <3>5 DEF Requests
    <2> QED BY <2>2, <2>3
  <1>2. ASSUME NEW pc \in CommandSteps \ {"idle"}, cmd.pc # "idle", Proceed(pc), UNCHANGED ops
        PROVE  Requests'
    <2>1. cmd'.pc = pc /\ cmd'.key = cmd.key /\ cmd'.card = cmd.card /\ UNCHANGED <<queue, conn>>
      BY <1>2 DEF Proceed, TypeOK, ServiceTypeOK, Command
    <2> QED BY <1>2, <2>1 DEF Requests, Fresh, OnItsWay, SentOnce
  <1>3. ASSUME NEW call \in Calls, CommandLookup(call) PROVE Requests'
    <2>1. cmd.pc # "idle" /\ UNCHANGED ops BY <1>3 DEF CommandLookup
    <2>2. CASE Proceed("session") BY <1>2, <2>1, <2>2 DEF CommandSteps
    <2>3. CASE ~Proceed("session")
      <3>1. PICK answer \in Answers : Answer(answer)
        BY <1>3, <2>3 DEF CommandLookup, LookupAnswer, PrepareAnswer, Answers
      <3> QED BY <2>1, <3>1, AnswerRequests
    <2> QED BY <2>2, <2>3
  <1>4. ASSUME NEW b \in BOOLEAN, CommandSession(b) PROVE Requests'
    <2>1. cmd.pc # "idle" /\ UNCHANGED ops /\ (Proceed("inventory") \/ Answer("rejected"))
      BY <1>4 DEF CommandSession
    <2> QED BY <1>2, <2>1, AnswerRequests DEF CommandSteps, Answers
  <1>5. ASSUME NEW b \in BOOLEAN, CommandInventory(b) PROVE Requests'
    <2>1. cmd.pc # "idle" /\ UNCHANGED ops /\ (Proceed("store") \/ Answer("rejected"))
      BY <1>5 DEF CommandInventory
    <2> QED BY <1>2, <2>1, AnswerRequests DEF CommandSteps, Answers
  <1>6. ASSUME NEW call \in Calls, CommandStore(call) PROVE Requests'
    <2>1. cmd.pc # "idle" BY <1>6 DEF CommandStore
    <2>2. \A j \in Keys \ {cmd.key} : ops'[j] = ops[j]
      BY <1>6 DEF CommandStore, Called, PrepareResetCard, TypeOK, ServiceTypeOK
    <2>3. PICK answer \in Answers :
            /\ Answer(answer)
            /\ answer = "rejected" /\ ops[cmd.key] = NoRow => ops' = ops
      BY <1>6 DEF CommandStore, Called, PrepareAnswer, Answers
    <2> QED BY <2>1, <2>2, <2>3, AnswerRequests
  <1> QED BY <1>1, <1>3, <1>4, <1>5, <1>6 DEF CommandStep

(* What the worker and the world never do to a row: begin one, take one    *)
(* up again that is over.                                                  *)
LEMMA RowsMove ==
    ASSUME TypeOK, WorkerKnows, WorkerStep \/ WorldStep, NEW j \in Keys
    PROVE  /\ ops[j] = NoRow => ops'[j] = NoRow
           /\ ops'[j].state \in ActiveStates => ops[j].state \in ActiveStates
           /\ ops[j].state \in {"completed", "failed"} => ops'[j].state = ops[j].state
  <1>0. PICK k : k = worker.key OBVIOUS
  <1> USE <1>0
  <1>k. worker.pc # "idle" => k \in Keys BY DEF WorkerKnows
  <1>t. ops \in [Keys -> Row] BY DEF TypeOK, ServiceTypeOK
  <1>1. CASE UNCHANGED ops BY <1>1
  <1>2. CASE /\ k \in Keys /\ ops[k].state \in ActiveStates
             /\ ops' \in {BeginSend(ops, k), FailBeforeSend(ops, k), Complete(ops, k)}
    <2>1. /\ \A i \in Keys \ {k} : ops'[i] = ops[i]
          /\ ops'[k] = ops[k] \/ ops[k].state # "none"
      BY <1>t, <1>2 DEF BeginSend, FailBeforeSend, Complete, ActiveStates
    <2>2. ops[k] # NoRow BY <1>2 DEF NoRow, ActiveStates
    <2> QED BY <1>2, <2>1, <2>2 DEF ActiveStates
  <1>3. CASE /\ k \in Keys /\ ops[k].state = "sending"
             /\ \E outcome \in Outcomes : ops' = RecordOutcome(ops, k, outcome)
    <2>1. \A i \in Keys \ {k} : ops'[i] = ops[i] BY <1>t, <1>3 DEF RecordOutcome
    <2>2. ops'[k].state = ops[k].state BY <1>t, <1>3 DEF RecordOutcome, Row
    <2>3. ops[k] # NoRow BY <1>3 DEF NoRow
    <2> QED BY <1>3, <2>1, <2>2, <2>3 DEF ActiveStates
  <1>4. ASSUME NEW call \in Calls, worker.pc \in {"session", "preflight"}, GiveUp(call)
        PROVE  UNCHANGED ops \/ (/\ k \in Keys /\ ops[k].state \in ActiveStates
                                 /\ ops' = FailBeforeSend(ops, k))
    BY <1>4, <1>k DEF GiveUp, Called, WorkerKnows, ActiveStates
  <1>5. ASSUME NEW call \in Calls, WorkerBarrier(call)
        PROVE  UNCHANGED ops \/ (/\ k \in Keys /\ ops[k].state \in ActiveStates
                                 /\ ops' = BeginSend(ops, k))
    BY <1>5, <1>k DEF WorkerBarrier, Called, WorkerKnows, ActiveStates
  <1>6. ASSUME NEW call \in Calls, WorkerComplete(call)
        PROVE  UNCHANGED ops \/ (/\ k \in Keys /\ ops[k].state \in ActiveStates
                                 /\ ops' = Complete(ops, k))
    BY <1>6, <1>k DEF WorkerComplete, Called, Complete, ActiveStates
  <1>7. ASSUME NEW call \in Calls, WorkerRecord(call)
        PROVE  UNCHANGED ops \/ (/\ k \in Keys /\ ops[k].state = "sending"
                                 /\ \E outcome \in Outcomes : ops' = RecordOutcome(ops, k, outcome))
    BY <1>7, <1>k DEF WorkerRecord, Called, WorkerKnows
  <1>8. CASE WorkerStep
    <2>1. CASE WorkerPost \/ WorkerUnanswered \/ \E i \in Keys : WorkerPick(i)
      BY <2>1, <1>1 DEF WorkerPost, WorkerUnanswered, WorkerPick, Quiet
    <2>2. ASSUME NEW b \in BOOLEAN, NEW call \in Calls,
                 WorkerSession(b, call) \/ WorkerPreflight(b, call)
          PROVE  UNCHANGED ops \/ (/\ k \in Keys /\ ops[k].state \in ActiveStates
                                   /\ ops' = FailBeforeSend(ops, k))
      BY <2>2, <1>4 DEF WorkerSession, WorkerPreflight
    <2> QED BY <1>8, <1>1, <1>2, <1>3, <1>5, <1>6, <1>7, <2>1, <2>2 DEF WorkerStep
  <1>9. CASE WorldStep
    BY <1>9, <1>1 DEF WorldStep, ProviderConsumes, AccountChanges, BeginShutdown, Exit, Crash,
                      Restart, Gone, WorldFrame
  <1> QED BY <1>8, <1>9

LEMMA WorkerWorldRequests ==
    TypeOK /\ WorkerKnows /\ Requests /\ (WorkerStep \/ WorldStep) /\ UNCHANGED clientVars
        => Requests'
  <1> SUFFICES ASSUME TypeOK, WorkerKnows, Requests, WorkerStep \/ WorldStep, UNCHANGED clientVars
               PROVE  Requests'
    OBVIOUS
  <1>1. UNCHANGED <<conn, owner>> /\ queue' \subseteq queue /\ cmd' \in {cmd, IdleCommand}
    <2>1. CASE WorkerStep
      BY <2>1 DEF WorkerStep, WorkerPost, WorkerUnanswered, WorkerPick, WorkerSession, WorkerPreflight,
                  WorkerBarrier, WorkerRecord, WorkerComplete, WorkerFrame, clientVars
    <2>2. CASE WorldStep
      BY <2>2 DEF WorldStep, ProviderConsumes, AccountChanges, BeginShutdown, Exit, Crash,
                  Restart, Gone, WorldFrame, clientVars
    <2> QED BY <2>1, <2>2
  <1> QED BY <1>1, RowsMove, RequestsShrink

(* A new key is sent, or saved and not sent.                               *)
LEMMA NewRequest ==
    ASSUME TypeOK, Requests, NEW k \in Keys, Fresh(k), UNCHANGED <<ops, cmd>>,
           NEW who \in {"menu", "panel"}, Owned(k, who),
           \/ \E c \in Cards, r \in Nat : Send(k, c, r)
           \/ UNCHANGED <<queue, conn>>
    PROVE  Requests' /\ (\A j \in Keys \ {k} : OnItsWay(j)' => OnItsWay(j))
  <1>1. ~OnItsWay(k) /\ ops[k] = NoRow BY DEF Requests
  <1>2. owner'[k] = who /\ \A j \in Keys \ {k} : owner'[j] = owner[j]
    BY DEF Owned, TypeOK, ServiceTypeOK
  <1>3. ASSUME NEW c \in Cards, NEW r \in Nat, Send(k, c, r)
        PROVE  Requests' /\ (\A j \in Keys \ {k} : OnItsWay(j)' => OnItsWay(j))
    <2>1. /\ queue' = queue \cup {[key |-> k, card |-> c, rev |-> r]}
          /\ conn'[k] = "open" /\ \A j \in Keys \ {k} : conn'[j] = conn[j]
      BY <1>3 DEF Send, TypeOK, ServiceTypeOK
    <2>2. \A j \in Keys \ {k} : OnItsWay(j)' => OnItsWay(j) BY <2>1 DEF OnItsWay
    <2>3. SentOnce(k)' BY <1>1, <2>1 DEF SentOnce, OnItsWay
    <2>4. ASSUME NEW j \in Keys \ {k}, SentOnce(j) PROVE SentOnce(j)'
      BY <2>1, <2>2, <2>4 DEF SentOnce
    <2>5. \A j \in Keys : owner'[j] \in {"menu", "panel", "gone"} => SentOnce(j)'
      BY <1>2, <2>3, <2>4 DEF Requests
    <2>6. \A j \in Keys : Fresh(j)' => ~OnItsWay(j)' /\ ops'[j] = NoRow
      BY <1>2, <2>2 DEF Requests, Fresh
    <2> QED BY <2>2, <2>5, <2>6 DEF Requests
  <1>4. ASSUME UNCHANGED <<queue, conn>>
        PROVE  Requests' /\ (\A j \in Keys \ {k} : OnItsWay(j)' => OnItsWay(j))
    <2>1. SentOnce(k)' BY <1>1, <1>4 DEF SentOnce, OnItsWay
    <2>2. ASSUME NEW j \in Keys \ {k}, SentOnce(j) PROVE SentOnce(j)'
      BY <1>4, <2>2 DEF SentOnce, OnItsWay
    <2>3. \A j \in Keys : owner'[j] \in {"menu", "panel", "gone"} => SentOnce(j)'
      BY <1>2, <2>1, <2>2 DEF Requests
    <2> QED BY <1>2, <1>4, <2>3 DEF Requests, Fresh, OnItsWay
  <1> QED BY <1>3, <1>4

(* A client hears of its request, or stops to wait for it.                 *)
LEMMA CloseRequests ==
    ASSUME TypeOK, Requests, NEW k \in Keys, Close(k), UNCHANGED <<ops, cmd, owner>>
    PROVE  Requests'
  <1>1. queue' = queue /\ \A j \in Keys : conn'[j] \in {conn[j], "closed"}
    BY DEF Close, TypeOK, ServiceTypeOK
  <1> QED BY <1>1, RequestsShrink

LEMMA MenuRequests == TypeOK /\ Requests /\ MenuStep => Requests'
  <1> SUFFICES ASSUME TypeOK, Requests, MenuStep PROVE Requests' OBVIOUS
  <1> USE DEF MenuFrame, service
  <1>1. ASSUME NEW k \in Keys, NEW c \in Cards, NEW r \in 1..rev, NEW sent \in BOOLEAN,
               MenuUse(k, c, r, sent)
        PROVE  Requests'
    <2>1. r \in Nat BY DEF TypeOK, ServiceTypeOK
    <2>2. Send(k, c, r) \/ UNCHANGED <<queue, conn>> BY <1>1 DEF MenuUse
    <2> QED BY <1>1, <2>1, <2>2, NewRequest DEF MenuUse
  <1>2. menu # NoKey => menu \in Keys BY DEF TypeOK
  <1>3. CASE MenuGivesUp BY <1>2, <1>3, CloseRequests DEF MenuGivesUp
  <1>4. ASSUME NEW written \in Writes, MenuAnswered(written) PROVE Requests'
    BY <1>2, <1>4, CloseRequests DEF MenuAnswered
  <1>5. ASSUME NEW k \in Keys, RecoveryRead(k) PROVE Requests'
    BY <1>5, RequestsShrink DEF RecoveryRead
  <1>6. ASSUME NEW written \in Writes, RecoveryApply(written) PROVE Requests'
    BY <1>6, RequestsShrink DEF RecoveryApply
  <1> QED BY <1>1, <1>3, <1>4, <1>5, <1>6 DEF MenuStep

LEMMA PanelRequests == TypeOK /\ Requests /\ Clients /\ PanelStep => Requests'
  <1> SUFFICES ASSUME TypeOK, Requests, Clients, PanelStep PROVE Requests' OBVIOUS
  <1> USE DEF PanelFrame, service
  <1>1. ASSUME NEW k \in Keys, NEW c \in Cards, NEW r \in 1..rev, PanelTap(k, c, r)
        PROVE  Requests'
    <2>1. r \in Nat BY DEF TypeOK, ServiceTypeOK
    <2> QED BY <1>1, <2>1, NewRequest DEF PanelTap
  <1>2. panel.waits => panel.pending \in Keys BY DEF Clients
  <1>3. CASE PanelBlocks \/ PanelLoad BY <1>3, RequestsShrink DEF PanelBlocks, PanelLoad
  <1>4. CASE PanelAnswered BY <1>2, <1>4, CloseRequests DEF PanelAnswered
  <1>5. CASE PanelGivesUp BY <1>2, <1>5, CloseRequests DEF PanelGivesUp
  <1>6. CASE PanelCrash
    <2>1. \A j \in Keys : /\ conn'[j] \in {conn[j], "closed"}
                          /\ owner'[j] = IF owner[j] = "panel" THEN "gone" ELSE owner[j]
      BY <1>6 DEF PanelCrash
    <2> QED BY <1>6, <2>1, RequestsShrink DEF PanelCrash
  <1> QED BY <1>1, <1>3, <1>4, <1>5, <1>6 DEF PanelStep

LEMMA TypedRequests ==
    ASSUME TypeOK, Requests, NEW k \in Keys, NEW c \in Cards, NEW r \in 1..rev, Typed(k, c, r)
    PROVE  Requests' /\ (\A j \in Keys \ {k} : OnItsWay(j)' => OnItsWay(j))
  <1>1. /\ owner'[k] = "cli" /\ \A j \in Keys \ {k} : owner'[j] = owner[j]
        /\ queue' = queue \cup {[key |-> k, card |-> c, rev |-> r]}
        /\ UNCHANGED <<ops, cmd, conn>>
    BY DEF Typed, Owned, TypeOK, service
  <1>2. \A j \in Keys \ {k} : OnItsWay(j)' => OnItsWay(j) BY <1>1 DEF OnItsWay
  <1>3. ASSUME NEW j \in Keys \ {k}, SentOnce(j) PROVE SentOnce(j)'
    BY <1>1, <1>2, <1>3 DEF SentOnce
  <1>4. \A j \in Keys : owner'[j] \in {"menu", "panel", "gone"} => SentOnce(j)'
    BY <1>1, <1>3 DEF Requests
  <1>5. \A j \in Keys : Fresh(j)' => ~OnItsWay(j)' /\ ops'[j] = NoRow
    BY <1>1, <1>2 DEF Requests, Fresh
  <1> QED BY <1>1, <1>2, <1>4, <1>5 DEF Requests

----------------------------------------------------------------------------
(* What the clients remember.                                              *)

LEMMA TerminalStatus ==
    ASSUME TypeOK, NEW k \in Keys
    PROVE  /\ Terminal(Status(ops, k)) <=> ops[k].state \in {"completed", "failed"}
           /\ Retires(Status(ops, k)) => Terminal(Status(ops, k))
  <1>1. ops[k].state \in States BY DEF TypeOK, ServiceTypeOK, Row
  <1> QED BY <1>1 DEF Terminal, Retires, Status, States

(* The operation of a key sent once is settled once it is over.            *)
LEMMA TerminalSettles ==
    ASSUME TypeOK, NEW k \in Keys, SentOnce(k), Terminal(Status(ops, k))
    PROVE  ~Unsettled(k)
  <1>1. ops[k].state \in {"completed", "failed"} BY TerminalStatus
  <1> QED BY <1>1 DEF SentOnce, Unsettled, ActiveStates, NoRow

(* No step of the service takes up a request that is settled.              *)
LEMMA ServiceSettles ==
    ASSUME TypeOK, WorkerKnows, Requests, CommandStep \/ WorkerStep \/ WorldStep, NEW k \in Keys
    PROVE  /\ Unsettled(k)' => Unsettled(k)
           /\ ops[k].state \in {"completed", "failed"} => ops'[k].state = ops[k].state
  <1>1. CASE WorkerStep \/ WorldStep
    <2>1. queue' \subseteq queue /\ cmd' \in {cmd, IdleCommand}
      <3>1. CASE WorkerStep
        BY <3>1 DEF WorkerStep, WorkerPost, WorkerUnanswered, WorkerPick, WorkerSession,
                    WorkerPreflight, WorkerBarrier, WorkerRecord, WorkerComplete, WorkerFrame
      <3>2. CASE WorldStep
        BY <3>2 DEF WorldStep, ProviderConsumes, AccountChanges, BeginShutdown, Exit, Crash,
                    Restart, Gone, WorldFrame
      <3> QED BY <1>1, <3>1, <3>2
    <2>2. OnItsWay(k)' => OnItsWay(k) BY <2>1, LedgerAssumption DEF OnItsWay, IdleCommand
    <2> QED BY <1>1, <2>2, RowsMove DEF Unsettled
  <1>2. ASSUME NEW r \in queue, Execute(r)
        PROVE  UNCHANGED ops /\ (OnItsWay(k)' => OnItsWay(k))
    BY <1>2 DEF Execute, CommandFrame, OnItsWay
  <1>3. ASSUME NEW answer, Answer(answer) PROVE OnItsWay(k)' => OnItsWay(k)
    BY <1>3, LedgerAssumption DEF Answer, OnItsWay, IdleCommand
  <1>4. ASSUME NEW pc, Proceed(pc) PROVE OnItsWay(k)' => OnItsWay(k)
    BY <1>4 DEF Proceed, OnItsWay, TypeOK, ServiceTypeOK, Command
  <1>5. ASSUME NEW call \in Calls, CommandLookup(call)
        PROVE  UNCHANGED ops /\ (OnItsWay(k)' => OnItsWay(k))
    BY <1>3, <1>4, <1>5 DEF CommandLookup
  <1>6. ASSUME NEW b \in BOOLEAN, CommandSession(b) \/ CommandInventory(b)
        PROVE  UNCHANGED ops /\ (OnItsWay(k)' => OnItsWay(k))
    BY <1>3, <1>4, <1>6 DEF CommandSession, CommandInventory
  <1>7. ASSUME NEW call \in Calls, CommandStore(call)
        PROVE  /\ Unsettled(k)' => Unsettled(k)
               /\ ops[k].state \in {"completed", "failed"} => ops'[k].state = ops[k].state
    <2>1. OnItsWay(k)' => OnItsWay(k) BY <1>3, <1>7 DEF CommandStore
    <2>2. k # cmd.key => ops'[k] = ops[k]
      BY <1>7 DEF CommandStore, Called, PrepareResetCard, TypeOK, ServiceTypeOK
    <2>3. ops' = ops \/ ops[cmd.key] = NoRow
      BY <1>7 DEF CommandStore, Called, PrepareResetCard
    <2> QED BY <2>1, <2>2, <2>3 DEF Unsettled, OnItsWay, NoRow
  <1> QED BY <1>1, <1>2, <1>5, <1>6, <1>7 DEF CommandStep, Unsettled

LEMMA ServiceClients ==
    TypeOK /\ TypeOK' /\ WorkerKnows /\ Requests /\ Clients /\ ServiceStep => Clients'
  <1> SUFFICES ASSUME TypeOK, TypeOK', WorkerKnows, Requests, Clients, ServiceStep PROVE Clients'
    OBVIOUS
  <1>1. UNCHANGED <<owner, journal, menu, recovery, panel>> BY DEF ServiceStep, clientVars
  <1>2. \A k \in Keys : Unsettled(k)' => Unsettled(k) BY ServiceSettles DEF ServiceStep
  <1>3. recovery # NoKey => Terminal(Status(ops, recovery))'
    <2>0. PICK k : k = recovery OBVIOUS
    <2>1. ASSUME k # NoKey PROVE Terminal(Status(ops', k))
      <3>1. k \in Keys /\ Terminal(Status(ops, k)) BY <2>0, <2>1 DEF TypeOK, Clients
      <3>2. ops'[k].state \in {"completed", "failed"}
        BY <3>1, TerminalStatus, ServiceSettles DEF ServiceStep
      <3> QED BY <3>2 DEF Terminal, Status
    <2> QED BY <1>1, <2>0, <2>1
  <1>4. UnsettledIsRemembered' BY <1>1, <1>2 DEF Clients, UnsettledIsRemembered, Saved
  <1>5. PanelKnowsItsRequest' BY <1>1, <1>2 DEF Clients, PanelKnowsItsRequest
  <1> QED BY <1>1, <1>3, <1>4, <1>5 DEF Clients, Saved

LEMMA MenuClients == TypeOK /\ Requests /\ Clients /\ MenuStep => Clients'
  <1> SUFFICES ASSUME TypeOK, Requests, Clients, MenuStep PROVE Clients' OBVIOUS
  <1> USE DEF MenuFrame, service
  <1>t. /\ owner \in [Keys -> Owners] /\ journal \in [Keys -> Cards \cup {NoCard}]
        /\ menu \in MaybeKey /\ recovery \in MaybeKey
    BY DEF TypeOK
  <1>1. ASSUME NEW k \in Keys, NEW c \in Cards, NEW r \in 1..rev, NEW sent \in BOOLEAN,
               MenuUse(k, c, r, sent)
        PROVE  Clients'
    <2>1. r \in Nat BY DEF TypeOK, ServiceTypeOK
    <2>2. Send(k, c, r) \/ UNCHANGED <<queue, conn>> BY <1>1 DEF MenuUse
    <2>3. \A j \in Keys \ {k} : OnItsWay(j)' => OnItsWay(j)
      BY <1>1, <2>1, <2>2, NewRequest DEF MenuUse
    <2>4. /\ owner[k] = "none" /\ owner'[k] = "menu" /\ \A j \in Keys \ {k} : owner'[j] = owner[j]
          /\ journal'[k] = c /\ \A j \in Keys \ {k} : journal'[j] = journal[j]
          /\ menu = NoKey /\ menu' \in {k, NoKey}
          /\ UNCHANGED <<ops, recovery, panel>>
      BY <1>1, <1>t DEF MenuUse, Fresh, Owned
    <2>5. \A j \in Keys \ {k} : Unsettled(j)' => Unsettled(j) BY <2>3, <2>4 DEF Unsettled
    <2>6. c # NoCard BY LedgerAssumption
    <2>7. UnsettledIsRemembered'
      BY <2>4, <2>5, <2>6 DEF Clients, UnsettledIsRemembered, Saved
    <2>8. PanelKnowsItsRequest' BY <2>4, <2>5 DEF Clients, PanelKnowsItsRequest
    <2>9. \A j \in Saved' : owner'[j] = "menu" BY <2>4 DEF Clients, Saved
    <2>10. recovery' # NoKey => owner'[recovery'] = "menu" /\ Terminal(Status(ops, recovery))'
      BY <1>t, <2>4 DEF Clients, Terminal, Status
    <2>11. panel'.waits => panel'.blocked /\ panel'.pending \in Keys /\ owner'[panel'.pending] = "panel"
      BY <2>4 DEF Clients
    <2> QED BY <2>4, <2>7, <2>8, <2>9, <2>10, <2>11 DEF Clients
  <1>2. ASSUME UNCHANGED <<ops, cmd, queue, owner, panel>>,
               menu' \in {menu, NoKey}, recovery' \in {recovery, NoKey},
               NEW gone \in MaybeKey, gone # NoKey => owner[gone] = "menu" /\ ~Unsettled(gone),
               journal' = IF gone = NoKey THEN journal ELSE Without(gone)
        PROVE  Clients'
    <2>1. \A j \in Keys : Unsettled(j)' <=> Unsettled(j) BY <1>2 DEF Unsettled, OnItsWay
    <2>2. \A j \in Keys : journal'[j] = IF j = gone THEN NoCard ELSE journal[j]
      BY <1>2, <1>t, LedgerAssumption DEF Without
    <2>3. UnsettledIsRemembered' BY <1>2, <2>1, <2>2 DEF Clients, UnsettledIsRemembered, Saved
    <2>4. PanelKnowsItsRequest' BY <1>2, <2>1 DEF Clients, PanelKnowsItsRequest
    <2>5. recovery' # NoKey => owner'[recovery'] = "menu" /\ Terminal(Status(ops, recovery))'
      BY <1>2 DEF Clients, Terminal, Status
    <2> QED BY <1>2, <2>2, <2>3, <2>4, <2>5 DEF Clients, Saved
  <1>3. CASE MenuGivesUp BY <1>2, <1>3 DEF MenuGivesUp, Close
  <1>4. ASSUME NEW written \in Writes, MenuAnswered(written) PROVE Clients'
    <2>1. menu \in Keys /\ owner[menu] = "menu" /\ conn[menu] \in Answers
      BY <1>4, <1>t DEF MenuAnswered, Clients
    <2>2. SentOnce(menu) BY <2>1 DEF Requests
    <2>3. conn[menu] = "rejected" => ~Unsettled(menu)
      BY <2>1, <2>2 DEF SentOnce, Unsettled, Answers, NoRow, ActiveStates
    <2>4. Retires(conn[menu]) => conn[menu] = "rejected" BY <2>1 DEF Retires, Answers
    <2>5. /\ UNCHANGED <<ops, cmd, queue, owner, panel, recovery>> /\ menu' = NoKey
          /\ journal' = IF Retires(conn[menu]) /\ written THEN Without(menu) ELSE journal
      BY <1>4 DEF MenuAnswered, Close
    <2>6. CASE Retires(conn[menu]) /\ written
      BY <2>1, <2>3, <2>4, <2>5, <2>6, <1>2, LedgerAssumption
    <2>7. CASE ~(Retires(conn[menu]) /\ written) BY <2>5, <2>7, <1>2
    <2> QED BY <2>6, <2>7
  <1>5. ASSUME NEW k \in Keys, RecoveryRead(k) PROVE Clients'
    <2>1. /\ k \in Saved /\ Retires(Status(ops, k)) /\ recovery' = k
          /\ UNCHANGED <<ops, cmd, queue, owner, panel, menu, journal>>
      BY <1>5 DEF RecoveryRead
    <2>2. owner[k] = "menu" /\ Terminal(Status(ops, k)) BY <2>1, TerminalStatus DEF Clients
    <2>3. \A j \in Keys : Unsettled(j)' <=> Unsettled(j) BY <2>1 DEF Unsettled, OnItsWay
    <2>4. UnsettledIsRemembered' BY <2>1, <2>3 DEF Clients, UnsettledIsRemembered, Saved
    <2>5. PanelKnowsItsRequest' BY <2>1, <2>3 DEF Clients, PanelKnowsItsRequest
    <2>6. owner'[recovery'] = "menu" /\ Terminal(Status(ops, recovery))'
      BY <2>1, <2>2 DEF Terminal, Status
    <2> QED BY <2>1, <2>4, <2>5, <2>6 DEF Clients, Saved
  <1>6. ASSUME NEW written \in Writes, RecoveryApply(written) PROVE Clients'
    <2>1. recovery \in Keys /\ owner[recovery] = "menu" /\ Terminal(Status(ops, recovery))
      BY <1>6, <1>t DEF RecoveryApply, Clients
    <2>2. ~Unsettled(recovery) BY <2>1, TerminalSettles DEF Requests
    <2>3. /\ UNCHANGED <<ops, cmd, queue, owner, panel, menu>> /\ recovery' = NoKey
          /\ journal' = IF written /\ menu = NoKey THEN Without(recovery) ELSE journal
      BY <1>6 DEF RecoveryApply
    <2>4. CASE written /\ menu = NoKey BY <2>1, <2>2, <2>3, <2>4, <1>2, LedgerAssumption
    <2>5. CASE ~(written /\ menu = NoKey) BY <2>3, <2>5, <1>2
    <2> QED BY <2>4, <2>5
  <1> QED BY <1>1, <1>3, <1>4, <1>5, <1>6 DEF MenuStep

LEMMA PanelClients == TypeOK /\ Requests /\ Clients /\ PanelStep => Clients'
  <1> SUFFICES ASSUME TypeOK, Requests, Clients, PanelStep PROVE Clients' OBVIOUS
  <1> USE DEF PanelFrame, service
  <1>t. owner \in [Keys -> Owners] /\ panel \in Panel /\ menu \in MaybeKey /\ recovery \in MaybeKey
    BY DEF TypeOK
  <1>1. ASSUME UNCHANGED <<ops, journal, menu, recovery>>,
               \A j \in Keys : owner[j] = "menu" => owner'[j] = "menu",
               \A j \in Keys : owner'[j] = "menu" => owner[j] = "menu" /\ (OnItsWay(j)' => OnItsWay(j)),
               panel'.waits => /\ panel'.blocked /\ panel'.pending \in Keys
                               /\ owner'[panel'.pending] = "panel",
               PanelKnowsItsRequest'
        PROVE  Clients'
    <2>1. UnsettledIsRemembered' BY <1>1 DEF Clients, UnsettledIsRemembered, Unsettled, Saved
    <2>2. recovery' # NoKey => owner'[recovery'] = "menu" /\ Terminal(Status(ops, recovery))'
      BY <1>t, <1>1 DEF Clients, Terminal, Status
    <2> QED BY <1>t, <1>1, <2>1, <2>2 DEF Clients, Saved
  <1>2. ASSUME NEW k \in Keys, NEW c \in Cards, NEW r \in 1..rev, PanelTap(k, c, r)
        PROVE  Clients'
    <2>1. r \in Nat BY DEF TypeOK, ServiceTypeOK
    <2>2. \A j \in Keys \ {k} : OnItsWay(j)' => OnItsWay(j) BY <1>2, <2>1, NewRequest DEF PanelTap
    <2>3. /\ owner[k] = "none" /\ owner'[k] = "panel" /\ \A j \in Keys \ {k} : owner'[j] = owner[j]
          /\ panel' = [waits |-> TRUE, blocked |-> TRUE, pending |-> k] /\ ~panel.blocked
          /\ UNCHANGED <<ops, journal, menu, recovery>>
      BY <1>2, <1>t DEF PanelTap, Fresh, Owned
    <2>4. \A j \in Keys \ {k} : owner'[j] = "panel" => ~Unsettled(j)'
      BY <2>2, <2>3 DEF Clients, PanelKnowsItsRequest, Unsettled
    <2>5. PanelKnowsItsRequest' BY <2>3, <2>4 DEF PanelKnowsItsRequest
    <2> QED BY <1>1, <2>2, <2>3, <2>5
  <1>3. ASSUME UNCHANGED <<ops, cmd, queue, owner, journal, menu, recovery>>, ~panel'.waits,
               \A j \in Keys : owner[j] = "panel" /\ Unsettled(j) =>
                                   panel'.blocked /\ panel'.pending = j
        PROVE  Clients'
    BY <1>1, <1>3 DEF PanelKnowsItsRequest, Unsettled, OnItsWay
  <1>4. CASE PanelBlocks
    BY <1>3, <1>4 DEF PanelBlocks, NewPanel, Clients, PanelKnowsItsRequest
  <1>5. CASE PanelAnswered
    <2>1. /\ panel.pending \in Keys /\ owner[panel.pending] = "panel" /\ panel.blocked
          /\ conn[panel.pending] \in Answers
          /\ UNCHANGED <<ops, cmd, queue, owner, journal, menu, recovery>>
      BY <1>5 DEF PanelAnswered, Close, Clients
    <2>2. conn[panel.pending] = "rejected" => ~Unsettled(panel.pending)
      BY <2>1 DEF Requests, SentOnce, Unsettled, Answers, NoRow, ActiveStates
    <2>3. \A j \in Keys : owner[j] = "panel" /\ Unsettled(j) => panel.pending = j
      BY DEF Clients, PanelKnowsItsRequest
    <2>4. CASE conn[panel.pending] = "rejected"
      BY <1>3, <1>5, <2>1, <2>2, <2>3, <2>4 DEF PanelAnswered, NewPanel
    <2>5. CASE conn[panel.pending] # "rejected"
      <3>1. ~panel'.waits /\ panel'.blocked /\ panel'.pending = panel.pending
        BY <1>5, <1>t, <2>1, <2>5 DEF PanelAnswered, Panel
      <3> QED BY <1>3, <2>1, <2>3, <3>1
    <2> QED BY <2>4, <2>5
  <1>6. CASE PanelGivesUp
    <2>1. /\ ~panel'.waits /\ panel'.blocked = panel.blocked /\ panel'.pending = panel.pending
          /\ UNCHANGED <<ops, cmd, queue, owner, journal, menu, recovery>>
      BY <1>6, <1>t DEF PanelGivesUp, Close, Panel
    <2> QED BY <1>3, <2>1 DEF Clients, PanelKnowsItsRequest
  <1>7. CASE PanelLoad
    <2>0. PICK key : key = IF panel.pending # NoKey THEN panel.pending ELSE latest OBVIOUS
    <2>1. PICK seen : seen = IF key = NoKey THEN "not_found" ELSE Status(ops, key) OBVIOUS
    <2>2. /\ panel' = [waits |-> FALSE, blocked |-> Blocks(seen, key),
                       pending |-> IF Blocks(seen, key) THEN key ELSE NoKey]
          /\ UNCHANGED <<ops, cmd, queue, owner, journal, menu, recovery>>
      BY <1>7, <2>0, <2>1 DEF PanelLoad
    <2>3. ASSUME NEW j \in Keys, owner[j] = "panel", Unsettled(j)
          PROVE  panel'.blocked /\ panel'.pending = j
      <3>1. panel.pending = j BY <2>3 DEF Clients, PanelKnowsItsRequest
      <3>2. key = j /\ key # NoKey BY <2>0, <3>1, LedgerAssumption
      <3>3. ~Terminal(Status(ops, j)) BY <2>3, TerminalSettles DEF Requests
      <3>4. Blocks(seen, key) BY <2>1, <3>2, <3>3 DEF Blocks
      <3> QED BY <2>2, <3>2, <3>4
    <2> QED BY <1>3, <2>2, <2>3
  <1>8. CASE PanelCrash
    <2>1. /\ \A j \in Keys : owner'[j] = IF owner[j] = "panel" THEN "gone" ELSE owner[j]
          /\ panel' = NewPanel /\ UNCHANGED <<ops, cmd, queue, journal, menu, recovery>>
      BY <1>8 DEF PanelCrash
    <2>2. PanelKnowsItsRequest' BY <2>1 DEF PanelKnowsItsRequest
    <2> QED BY <1>1, <2>1, <2>2 DEF NewPanel, OnItsWay
  <1> QED BY <1>2, <1>4, <1>5, <1>6, <1>7, <1>8 DEF PanelStep

LEMMA TypedClients ==
    ASSUME TypeOK, Requests, Clients, NEW k \in Keys, NEW c \in Cards, NEW r \in 1..rev,
           Typed(k, c, r)
    PROVE  Clients'
  <1>1. /\ owner[k] \in {"none", "cli"} /\ owner'[k] = "cli"
        /\ \A j \in Keys \ {k} : owner'[j] = owner[j]
        /\ UNCHANGED <<ops, journal, menu, recovery, panel>>
    BY DEF Typed, Owned, TypeOK, service
  <1>2. \A j \in Keys \ {k} : Unsettled(j)' => Unsettled(j) BY <1>1, TypedRequests DEF Unsettled
  <1>3. UnsettledIsRemembered' BY <1>1, <1>2 DEF Clients, UnsettledIsRemembered, Saved
  <1>4. PanelKnowsItsRequest' BY <1>1, <1>2 DEF Clients, PanelKnowsItsRequest
  <1>5. menu \in MaybeKey /\ recovery \in MaybeKey BY DEF TypeOK
  <1>6. recovery' # NoKey => owner'[recovery'] = "menu" /\ Terminal(Status(ops, recovery))'
    BY <1>1, <1>5 DEF Clients, Terminal, Status
  <1> QED BY <1>1, <1>3, <1>4, <1>5, <1>6 DEF Clients, Saved

----------------------------------------------------------------------------
(* The theorems.                                                           *)

LEMMA NextInv == IInv /\ [Next]_vars => IInv'
  <1> SUFFICES ASSUME TypeOK, Ledger, WorkerKnows, Requests, Clients, [Next]_vars PROVE IInv'
    BY DEF IInv
  <1>1. CASE ServiceStep
    <2>1. UNCHANGED clientVars /\ (CommandStep \/ WorkerStep \/ WorldStep)
      BY <1>1 DEF ServiceStep
    <2>2. TypeOK' BY <2>1, CommandTypes, WorkerTypes, WorldTypes
    <2>3. Ledger' BY <2>1, <2>2, CommandLedger, WorkerLedger, WorldLedger
    <2>4. WorkerKnows' BY <2>1, <2>2, CommandWorker, WorkerWorker, WorldWorker
    <2>5. Requests' BY <2>1, CommandRequests, WorkerWorldRequests
    <2>6. Clients' BY <1>1, <2>2, ServiceClients
    <2> QED BY <2>2, <2>3, <2>4, <2>5, <2>6 DEF IInv
  <1>2. ASSUME UNCHANGED service, TypeOK', Requests', Clients' PROVE IInv'
    BY <1>2, LedgerFrame, WorkerFrames DEF service, IInv
  <1>3. CASE MenuStep
    <2>1. UNCHANGED service
      BY <1>3 DEF MenuStep, MenuUse, MenuGivesUp, RecoveryRead, MenuAnswered, RecoveryApply, MenuFrame
    <2> QED BY <1>2, <1>3, <2>1, MenuTypes, MenuRequests, MenuClients
  <1>4. CASE PanelStep
    <2>1. UNCHANGED service
      BY <1>4 DEF PanelStep, PanelTap, PanelBlocks, PanelAnswered, PanelGivesUp, PanelLoad, PanelCrash,
                  PanelFrame
    <2> QED BY <1>2, <1>4, <2>1, PanelTypes, PanelRequests, PanelClients
  <1>5. ASSUME NEW k \in Keys, NEW c \in Cards, NEW r \in 1..rev, Typed(k, c, r) PROVE IInv'
    <2>1. UNCHANGED service BY <1>5 DEF Typed
    <2> QED BY <1>2, <1>5, <2>1, TypedTypes, TypedRequests, TypedClients
  <1>6. CASE UNCHANGED vars
    <2>1. /\ UNCHANGED <<owner, journal, menu, recovery, panel, typed, queue, conn, mishaps>>
          /\ UNCHANGED <<ops, latest, rev, spent, post, phase, worker, cmd, receipts, excused>>
      BY <1>6 DEF vars, serviceVars, service, clientVars
    <2>2. TypeOK' BY <2>1 DEF TypeOK, ServiceTypeOK
    <2>3. Requests' BY <2>1, RequestsShrink
    <2>4. Clients'
      BY <2>1 DEF Clients, UnsettledIsRemembered, PanelKnowsItsRequest, Saved, Unsettled, OnItsWay,
                  Terminal, Status
    <2> QED BY <2>1, <2>2, <2>3, <2>4, <1>2 DEF service
  <1> QED BY <1>1, <1>3, <1>4, <1>5, <1>6 DEF Next

LEMMA Invariance == Spec => []IInv
  BY InitInv, NextInv, PTL DEF Spec

(* Every variable of the service, the provider and the clients has its     *)
(* type.                                                                   *)
THEOREM ResetCardsTypeCorrect == Spec => []TypeOK
  <1>1. IInv => TypeOK BY DEF IInv
  <1> QED BY <1>1, Invariance, PTL

(* begin_reset_card_send, the worker and its recovery never send a ledger  *)
(* row to the provider twice.                                              *)
THEOREM SentAtMostOnce == Spec => []PostedOnce
  <1>1. IInv => PostedOnce BY DEF IInv, Ledger, RowKnows, PostedOnce
  <1> QED BY <1>1, Invariance, PTL

(* prepare_reset_card and the states of the rows let one card of the       *)
(* account be at stake at a time, also across crashes of the service.      *)
THEOREM OneCardIsAtStake == Spec => []OneCardAtStake
  <1>1. ASSUME IInv PROVE OneCardAtStake
    <2>1. ASSUME NEW k \in Keys, AtStake(k) PROVE k \in Active(ops)
      <3>1. RowKnows(k) /\ ops[k] \in Row BY <1>1 DEF IInv, Ledger, TypeOK, ServiceTypeOK
      <3>2. CASE post[k].at = "flying"
        <4>1. ops[k].outcome = "none" BY <3>1, <3>2 DEF RowKnows, Row, Outcomes
        <4>2. post[k] # NoPost BY <3>2 DEF NoPost
        <4>3. ops[k].state = "sending" BY <3>1, <4>1, <4>2 DEF RowKnows, Row, States
        <4> QED BY <4>3 DEF Active, ActiveStates
      <3>3. CASE ops[k].state \in ActiveStates BY <3>3 DEF Active
      <3> QED BY <2>1, <3>2, <3>3 DEF AtStake
    <2> QED BY <1>1, <2>1 DEF IInv, Ledger, OneCardAtStake
  <1> QED BY <1>1, Invariance, PTL

(* What record_reset_card_outcome, complete_reset_card and                 *)
(* fail_reset_card_before_send leave in the ledger agrees with what the    *)
(* provider did.                                                           *)
THEOREM OutcomesAreTrue == Spec => []OutcomeIsTrue
  <1>1. ASSUME IInv PROVE OutcomeIsTrue
    <2>1. ASSUME NEW k \in Keys
          PROVE  /\ ops[k].state = "failed" => post[k].sent = 0
                 /\ ops[k].state = "completed" =>
                       (ops[k].outcome = "reset" <=> spent[ops[k].card] = k)
      <3>1. RowKnows(k) BY <1>1 DEF IInv, Ledger
      <3>2. ops[k].state = "failed" => post[k].sent = 0 BY <3>1 DEF RowKnows, NoPost
      <3>3. CASE ops[k].state = "completed"
        <4>1. ops[k].outcome # "none" /\ post[k].at = ops[k].outcome /\ ops[k].card \in Cards
          BY <3>1, <3>3 DEF RowKnows
        <4>2. ops[k].outcome = "reset" => spent[ops[k].card] = k BY <3>1, <4>1 DEF RowKnows
        <4>3. spent[ops[k].card] = k => post[k].at = "reset"
          BY <1>1, <4>1 DEF IInv, Ledger
        <4> QED BY <3>2, <4>1, <4>2, <4>3
      <3> QED BY <3>2, <3>3
    <2>2. ASSUME NEW c \in Cards, spent[c] \in Keys
          PROVE  ops[spent[c]].card = c /\ ops[spent[c]].state \in {"sending", "completed"}
      <3>1. /\ ops[spent[c]].card = c /\ post[spent[c]].at = "reset" /\ RowKnows(spent[c])
            /\ ops[spent[c]] \in Row
        BY <1>1, <2>2 DEF IInv, Ledger, TypeOK, ServiceTypeOK
      <3>2. post[spent[c]] # NoPost BY <3>1 DEF NoPost
      <3> QED BY <3>1, <3>2 DEF RowKnows, Row, States
    <2> QED BY <2>1, <2>2 DEF OutcomeIsTrue
  <1> QED BY <1>1, Invariance, PTL

(* process holds the account's lock from the check of the revision to the  *)
(* recording of the answer, so the revision is still the confirmed one.    *)
THEOREM SentWithConfirmedRevision == Spec => []SentAsConfirmed
  <1>1. IInv => SentAsConfirmed BY DEF IInv, WorkerKnows, SentAsConfirmed
  <1> QED BY <1>1, Invariance, PTL

(* begin_shutdown and wait_for_shutdown let the redemption in progress     *)
(* end: only a crash, a timeout or a fault cuts an answer off.             *)
THEOREM StopsLoseNothing == Spec => []StopLosesNoAnswer
  <1>1. IInv => StopLosesNoAnswer BY DEF IInv, WorkerKnows
  <1> QED BY <1>1, Invariance, PTL

(* The native menu's journal forgets no request that may still have an     *)
(* effect.                                                                 *)
THEOREM MenuRemembers == Spec => []UnsettledIsRemembered
  <1>1. IInv => UnsettledIsRemembered BY DEF IInv, Clients
  <1> QED BY <1>1, Invariance, PTL

(* The accounts panel does not offer a card while its own request may      *)
(* still have an effect.                                                   *)
THEOREM PanelRemembers == Spec => []PanelKnowsItsRequest
  <1>1. IInv => PanelKnowsItsRequest BY DEF IInv, Clients
  <1> QED BY <1>1, Invariance, PTL

----------------------------------------------------------------------------
(* The refinement of RedemptionPromise.                                    *)

(* The account's lock: a command that has the session never meets a worker *)
(* between its checks and its answer.                                      *)
LocksApart == CommandHolds => worker.pc \notin {"preflight", "barrier", "post", "wait"}

(* The card of an intent that was not sent yet is still there.             *)
OpenCardIsThere ==
    \A k \in Keys : ops[k].state \in ActiveStates /\ post[k].at = "none" =>
                        spent[ops[k].card] = NoKey

(* The card a command chose is still there, or the intent that redeems it  *)
(* holds the account.                                                      *)
ChosenCardIsThere ==
    cmd.pc = "store" /\ spent[cmd.card] \in Keys =>
        /\ ops[spent[cmd.card]].state = "sending"
        /\ ops[spent[cmd.card]].outcome = "none"

CardInv == LocksApart /\ OpenCardIsThere /\ ChosenCardIsThere

(* The steps that write a row or move its request.                         *)
TakeStep(k) ==
    /\ cmd.pc = "store" /\ cmd.card \in Cards
    /\ ops[k] = NoRow /\ Active(ops) = {}
    /\ ops'[k].state = "prepared" /\ ops'[k].card = cmd.card
    /\ \A j \in Keys \ {k} : ops'[j] = ops[j]
    /\ cmd' = IdleCommand /\ UNCHANGED <<post, spent>>

BeginStep(k) ==
    /\ ops[k].state = "prepared" /\ ops'[k].state = "sending"
RecordStep(k) ==
    /\ worker.pc = "wait" /\ ops[k].state = "sending" /\ ops'[k].state = "sending"
CompleteStep(k) ==
    /\ ops[k].state = "sending" /\ ops'[k].state = "completed"
    /\ ops[k].outcome # "none" /\ ops'[k].outcome = ops[k].outcome
FailStep(k) ==
    /\ ops[k].state = "prepared" /\ ops'[k].state = "failed"

MoveStep(k) ==
    /\ BeginStep(k) \/ RecordStep(k) \/ CompleteStep(k) \/ FailStep(k)
    /\ ops'[k].card = ops[k].card
    /\ \A j \in Keys \ {k} : ops'[j] = ops[j]
    /\ UNCHANGED <<cmd, post, spent>>

SendStep(k) ==
    /\ ops[k].state = "sending" /\ post[k] = NoPost
    /\ post'[k].at = "flying"
    /\ \A j \in Keys \ {k} : post'[j] = post[j]
    /\ UNCHANGED <<ops, cmd, spent>>

ArriveStep(k, answer) ==
    /\ post[k].at = "flying" /\ post'[k].at = answer
    /\ \A j \in Keys \ {k} : post'[j] = post[j]
    /\ answer = "reset" => spent[ops[k].card] = NoKey
    /\ spent' = IF answer = "reset" THEN [spent EXCEPT ![ops[k].card] = k] ELSE spent
    /\ UNCHANGED <<ops, cmd>>

RowStep ==
    \E k \in Keys :
        \/ TakeStep(k) \/ MoveStep(k) \/ SendStep(k)
        \/ \E answer \in Outcomes : ArriveStep(k, answer)

LEMMA CommandMoves ==
    ASSUME TypeOK, Requests, CommandStep
    PROVE  UNCHANGED <<ops, post, spent>> \/ RowStep
  <1> USE DEF CommandFrame
  <1>1. ASSUME NEW call \in Calls, CommandStore(call), ops' # ops PROVE RowStep
    <2>0. PICK k : k = cmd.key OBVIOUS
    <2>1. /\ k \in Keys /\ cmd.card \in Cards /\ ops[k] = NoRow /\ Active(ops) = {}
          /\ ops' = [ops EXCEPT ![k] = [NoRow EXCEPT !.state = "prepared", !.card = cmd.card,
                                                     !.rev = cmd.rev]]
      BY <1>1, <2>0 DEF CommandStore, PrepareResetCard, Called, Requests, Target
    <2>2. /\ ops'[k] = [NoRow EXCEPT !.state = "prepared", !.card = cmd.card, !.rev = cmd.rev]
          /\ \A j \in Keys \ {k} : ops'[j] = ops[j]
      BY <2>1 DEF TypeOK, ServiceTypeOK
    <2>3. ops'[k].state = "prepared" /\ ops'[k].card = cmd.card BY <2>2 DEF NoRow
    <2>4. TakeStep(k) BY <1>1, <2>1, <2>2, <2>3 DEF CommandStore, Answer, TakeStep
    <2> QED BY <2>1, <2>4 DEF RowStep
  <1> QED BY <1>1
          DEF CommandStep, Execute, CommandLookup, CommandSession, CommandInventory, CommandStore

LEMMA WorkerMoves ==
    ASSUME TypeOK, WorkerKnows, WorkerStep
    PROVE  UNCHANGED <<ops, post, spent>> \/ RowStep
  <1>0. PICK k : k = worker.key OBVIOUS
  <1> USE <1>0 DEF WorkerFrame
  <1>k. worker.pc # "idle" => k \in Keys BY DEF WorkerKnows
  <1>t. ops \in [Keys -> Row] /\ post \in [Keys -> Post] BY DEF TypeOK, ServiceTypeOK
  <1>1. CASE WorkerPost
    <2>1. k \in Keys /\ ops[k].state = "sending" /\ post[k] = NoPost
      BY <1>1, <1>k DEF WorkerPost, WorkerKnows
    <2>2. post'[k].at = "flying" /\ \A j \in Keys \ {k} : post'[j] = post[j]
      BY <1>1, <1>t, <2>1 DEF WorkerPost
    <2>3. SendStep(k) BY <1>1, <2>1, <2>2 DEF WorkerPost, SendStep
    <2> QED BY <2>1, <2>3 DEF RowStep
  <1>2. CASE UNCHANGED <<ops, post>>
    BY <1>2 DEF WorkerStep, WorkerPost, WorkerUnanswered, WorkerPick, WorkerSession,
                WorkerPreflight, WorkerBarrier, WorkerRecord, WorkerComplete
  <1>u. ASSUME NEW call \in Calls, GiveUp(call), worker.pc # "idle", ops' # ops,
               UNCHANGED <<post, spent, cmd>>
        PROVE  RowStep
    <2>1. k \in Keys /\ ops[k].state = "prepared" /\ ops' = [ops EXCEPT ![k].state = "failed"]
      BY <1>u, <1>k DEF GiveUp, Called, FailBeforeSend
    <2>2. /\ ops'[k].state = "failed" /\ ops'[k].card = ops[k].card
          /\ \A j \in Keys \ {k} : ops'[j] = ops[j]
      BY <1>t, <2>1 DEF Row
    <2>3. MoveStep(k) BY <1>u, <2>1, <2>2 DEF MoveStep, FailStep
    <2> QED BY <2>1, <2>3 DEF RowStep
  <1>3. ASSUME NEW b \in BOOLEAN, NEW call \in Calls,
               WorkerSession(b, call) \/ WorkerPreflight(b, call), ops' # ops
        PROVE  RowStep
    BY <1>3, <1>u DEF WorkerSession, WorkerPreflight
  <1>4. ASSUME NEW call \in Calls, WorkerBarrier(call), ops' # ops PROVE RowStep
    <2>1. k \in Keys /\ ops[k].state = "prepared" /\ ops' = [ops EXCEPT ![k].state = "sending"]
      BY <1>4, <1>k DEF WorkerBarrier, Called, BeginSend
    <2>2. /\ ops'[k].state = "sending" /\ ops'[k].card = ops[k].card
          /\ \A j \in Keys \ {k} : ops'[j] = ops[j]
      BY <1>t, <2>1 DEF Row
    <2>3. MoveStep(k) BY <1>4, <2>1, <2>2 DEF WorkerBarrier, MoveStep, BeginStep
    <2> QED BY <2>1, <2>3 DEF RowStep
  <1>5. ASSUME NEW call \in Calls, WorkerRecord(call), ops' # ops PROVE RowStep
    <2>1. /\ k \in Keys /\ ops[k].state = "sending"
          /\ ops' = [ops EXCEPT ![k].outcome = post[k].at]
      BY <1>5, <1>k DEF WorkerRecord, Called, RecordOutcome
    <2>2. /\ ops'[k].state = "sending" /\ ops'[k].card = ops[k].card
          /\ \A j \in Keys \ {k} : ops'[j] = ops[j]
      BY <1>t, <2>1 DEF Row
    <2>3. MoveStep(k) BY <1>5, <2>1, <2>2 DEF WorkerRecord, MoveStep, RecordStep
    <2> QED BY <2>1, <2>3 DEF RowStep
  <1>6. ASSUME NEW call \in Calls, WorkerComplete(call), ops' # ops PROVE RowStep
    <2>1. /\ k \in Keys /\ ops[k].state = "sending" /\ ops[k].outcome # "none"
          /\ ops' = [ops EXCEPT ![k].state = "completed"]
      BY <1>6, <1>k DEF WorkerComplete, Called, Complete
    <2>2. /\ ops'[k].state = "completed" /\ ops'[k].card = ops[k].card
          /\ ops'[k].outcome = ops[k].outcome
          /\ \A j \in Keys \ {k} : ops'[j] = ops[j]
      BY <1>t, <2>1 DEF Row
    <2>3. MoveStep(k) BY <1>6, <2>1, <2>2 DEF WorkerComplete, MoveStep, CompleteStep
    <2> QED BY <2>1, <2>3 DEF RowStep
  <1>7. CASE UNCHANGED ops
    BY <1>7, <1>1, <1>2 DEF WorkerStep, WorkerUnanswered, WorkerPick, Quiet, WorkerSession,
                            WorkerPreflight, WorkerBarrier, WorkerRecord, WorkerComplete
  <1>8. CASE WorkerUnanswered \/ \E j \in Keys : WorkerPick(j)
    BY <1>8, <1>7 DEF WorkerUnanswered, WorkerPick, Quiet
  <1> QED BY <1>1, <1>3, <1>4, <1>5, <1>6, <1>7, <1>8 DEF WorkerStep

LEMMA WorldMoves ==
    ASSUME TypeOK, WorldStep
    PROVE  UNCHANGED <<ops, post, spent>> \/ RowStep
  <1>1. ASSUME NEW k \in Keys, NEW answer \in Outcomes, ProviderConsumes(k, answer) PROVE RowStep
    <2>1. post'[k].at = answer /\ \A j \in Keys \ {k} : post'[j] = post[j]
      BY <1>1 DEF ProviderConsumes, TypeOK, ServiceTypeOK, Post
    <2>2. ArriveStep(k, answer) BY <1>1, <2>1 DEF ProviderConsumes, WorldFrame, ArriveStep
    <2> QED BY <2>2 DEF RowStep
  <1>2. CASE AccountChanges \/ BeginShutdown \/ Exit \/ Crash \/ Restart
    BY <1>2 DEF AccountChanges, BeginShutdown, Exit, Crash, Gone, Restart, WorldFrame
  <1> QED BY <1>1, <1>2 DEF WorldStep

(* A command comes to the card it chose by its session and the inventory;  *)
(* a worker comes to its checks by its session.                            *)
LEMMA LocksMove ==
    ASSUME TypeOK, CommandStep \/ WorkerStep \/ WorldStep
    PROVE  \/ /\ cmd' = cmd
              /\ \/ worker' = worker \/ LockFree
                 \/ worker.pc \in {"preflight", "barrier", "post", "wait"}
                 \/ worker'.pc \notin {"preflight", "barrier", "post", "wait"}
           \/ worker' = worker /\ cmd'.pc \notin {"inventory", "store"}
           \/ worker' = worker /\ LockFree /\ cmd'.pc = "inventory"
           \/ /\ worker' = worker /\ cmd.pc = "inventory" /\ cmd'.card = cmd.card
              /\ spent[cmd.card] = NoKey /\ UNCHANGED <<ops, post, spent>>
           \/ cmd' = IdleCommand /\ worker' = IdleWorker
  <1>a. \A answer : Answer(answer) => cmd'.pc \notin {"inventory", "store"}
    BY DEF Answer, IdleCommand
  <1>p. ASSUME NEW pc, Proceed(pc) PROVE cmd'.pc = pc /\ cmd'.card = cmd.card
    BY <1>p DEF Proceed, TypeOK, ServiceTypeOK, Command
  <1>g. ASSUME NEW pc, Goto(pc) PROVE worker'.pc = pc
    BY <1>g DEF Goto, TypeOK, ServiceTypeOK, Worker
  <1>i. Leave => worker'.pc = "idle" BY DEF Leave, IdleWorker
  <1>1. CASE CommandStep
    <2> USE DEF CommandFrame
    <2>1. ASSUME NEW r \in queue, Execute(r)
          PROVE  worker' = worker /\ (cmd' = cmd \/ cmd'.pc \notin {"inventory", "store"})
      BY <2>1 DEF Execute
    <2>2. ASSUME NEW call \in Calls, CommandLookup(call) \/ CommandStore(call)
          PROVE  worker' = worker /\ cmd'.pc \notin {"inventory", "store"}
      BY <2>2, <1>a, <1>p DEF CommandLookup, CommandStore
    <2>3. ASSUME NEW b \in BOOLEAN, CommandSession(b)
          PROVE  /\ worker' = worker
                 /\ \/ cmd'.pc \notin {"inventory", "store"}
                    \/ LockFree /\ cmd'.pc = "inventory"
      BY <2>3, <1>a, <1>p DEF CommandSession
    <2>4. ASSUME NEW b \in BOOLEAN, CommandInventory(b), cmd'.pc \in {"inventory", "store"}
          PROVE  /\ worker' = worker /\ cmd.pc = "inventory" /\ cmd'.card = cmd.card
                 /\ spent[cmd.card] = NoKey /\ UNCHANGED <<ops, post, spent>>
      BY <2>4, <1>a, <1>p DEF CommandInventory
    <2>5. \A b \in BOOLEAN : CommandInventory(b) => worker' = worker
      BY DEF CommandInventory
    <2> QED BY <1>1, <2>1, <2>2, <2>3, <2>4, <2>5 DEF CommandStep
  <1>2. CASE WorkerStep
    <2> USE DEF WorkerFrame
    <2>1. cmd' = cmd
      BY <1>2 DEF WorkerStep, WorkerPost, WorkerUnanswered, WorkerPick, WorkerSession,
                  WorkerPreflight, WorkerBarrier, WorkerRecord, WorkerComplete
    <2>2. CASE WorkerPost \/ WorkerUnanswered
      BY <2>1, <2>2 DEF WorkerPost, WorkerUnanswered
    <2>3. ASSUME NEW k \in Keys, WorkerPick(k) PROVE worker'.pc \in {"receipt", "session"}
      BY <2>3 DEF WorkerPick
    <2>4. ASSUME NEW b \in BOOLEAN, NEW call \in Calls, WorkerSession(b, call) PROVE LockFree
      BY <2>4 DEF WorkerSession
    <2>5. ASSUME NEW b \in BOOLEAN, NEW call \in Calls, WorkerPreflight(b, call)
          PROVE  worker.pc = "preflight"
      BY <2>5 DEF WorkerPreflight
    <2>6. ASSUME NEW call \in Calls, WorkerBarrier(call) \/ WorkerRecord(call)
          PROVE  worker.pc \in {"barrier", "wait"}
      BY <2>6 DEF WorkerBarrier, WorkerRecord
    <2>7. ASSUME NEW call \in Calls, WorkerComplete(call) PROVE worker'.pc = "idle"
      BY <2>7, <1>i DEF WorkerComplete
    <2> QED BY <1>2, <2>1, <2>2, <2>3, <2>4, <2>5, <2>6, <2>7 DEF WorkerStep
  <1>3. CASE WorldStep
    BY <1>3 DEF WorldStep, ProviderConsumes, AccountChanges, BeginShutdown, Exit, Crash, Restart,
                Gone, WorldFrame
  <1> QED BY <1>1, <1>2, <1>3

LEMMA LocksStayApart ==
    ASSUME TypeOK, LocksApart, CommandStep \/ WorkerStep \/ WorldStep
    PROVE  LocksApart'
  BY LocksMove DEF LocksApart, CommandHolds, LockFree, WorkerHolds, IdleCommand, IdleWorker

(* An intent that holds the account alone, and whose request is not        *)
(* answered, keeps its card.                                               *)
LEMMA OpenCardStays ==
    ASSUME TypeOK, Ledger, CardInv, NEW k \in Keys,
           \/ TakeStep(k) \/ MoveStep(k) \/ SendStep(k)
           \/ \E answer \in Outcomes : ArriveStep(k, answer)
    PROVE  OpenCardIsThere'
  <1>t. /\ spent \in [Cards -> Keys \cup {NoKey}] /\ ops \in [Keys -> Row]
        /\ post \in [Keys -> Post]
    BY DEF TypeOK, ServiceTypeOK
  <1>1. CASE TakeStep(k)
    <2>1. spent[cmd.card] = NoKey
      <3>1. \A j \in Keys : ops[j].state # "sending" BY <1>1 DEF TakeStep, Active, ActiveStates
      <3> QED BY <1>1, <1>t, <3>1 DEF TakeStep, CardInv, ChosenCardIsThere
    <2> QED BY <1>1, <2>1 DEF TakeStep, CardInv, OpenCardIsThere
  <1>2. CASE MoveStep(k)
    <2>1. ops'[k].state \in ActiveStates => ops[k].state \in ActiveStates
      BY <1>2 DEF MoveStep, BeginStep, RecordStep, CompleteStep, FailStep, ActiveStates
    <2> QED BY <1>2, <2>1 DEF MoveStep, CardInv, OpenCardIsThere
  <1>3. CASE SendStep(k) BY <1>3 DEF SendStep, CardInv, OpenCardIsThere
  <1>4. ASSUME NEW answer \in Outcomes, ArriveStep(k, answer) PROVE OpenCardIsThere'
    <2>1. SUFFICES ASSUME NEW j \in Keys, ops'[j].state \in ActiveStates, post'[j].at = "none"
                   PROVE  spent'[ops'[j].card] = NoKey
      BY DEF OpenCardIsThere
    <2>2. j # k BY <1>4, <2>1 DEF ArriveStep, Outcomes
    <2>3. ops[j].state \in ActiveStates /\ post[j].at = "none" /\ ops' = ops
      BY <1>4, <2>1, <2>2 DEF ArriveStep
    <2>4. spent[ops[j].card] = NoKey BY <2>3 DEF CardInv, OpenCardIsThere
    <2>5. ops[k].state # "sending"
      BY <2>2, <2>3 DEF Ledger, Active, ActiveStates
    <2>6. ops[k].state = "completed"
      BY <1>4, <1>t, <2>5 DEF ArriveStep, Ledger, RowKnows, NoPost, Row, States
    <2>7. FALSE BY <1>4, <2>6 DEF ArriveStep, Ledger, RowKnows, Outcomes, Row, TypeOK, ServiceTypeOK
    <2> QED BY <2>7
  <1> QED BY <1>1, <1>2, <1>3, <1>4

LEMMA ChosenCardStays ==
    ASSUME TypeOK, Ledger, Requests, CardInv, NEW k \in Keys,
           \/ TakeStep(k) \/ MoveStep(k) \/ SendStep(k)
           \/ \E answer \in Outcomes : ArriveStep(k, answer)
    PROVE  ChosenCardIsThere'
  <1>t. /\ spent \in [Cards -> Keys \cup {NoKey}] /\ ops \in [Keys -> Row]
        /\ post \in [Keys -> Post] /\ cmd.pc = "store" => cmd.card \in Cards
    BY DEF TypeOK, ServiceTypeOK, Requests
  <1>1. CASE TakeStep(k) BY <1>1 DEF TakeStep, IdleCommand, ChosenCardIsThere
  <1>2. CASE MoveStep(k)
    <2>1. SUFFICES ASSUME cmd.pc = "store", spent[cmd.card] \in Keys
                   PROVE  /\ ops'[spent[cmd.card]].state = "sending"
                          /\ ops'[spent[cmd.card]].outcome = "none"
      BY <1>2 DEF MoveStep, ChosenCardIsThere
    <2>2. ops[spent[cmd.card]].state = "sending" /\ ops[spent[cmd.card]].outcome = "none"
      BY <2>1 DEF CardInv, ChosenCardIsThere
    <2>3. worker.pc # "wait" BY <2>1 DEF CardInv, LocksApart, CommandHolds
    <2>4. k # spent[cmd.card]
      BY <1>2, <2>2, <2>3 DEF MoveStep, BeginStep, RecordStep, CompleteStep, FailStep
    <2> QED BY <1>2, <2>1, <2>2, <2>4 DEF MoveStep
  <1>3. CASE SendStep(k) BY <1>3 DEF SendStep, CardInv, ChosenCardIsThere
  <1>4. ASSUME NEW answer \in Outcomes, ArriveStep(k, answer) PROVE ChosenCardIsThere'
    <2>1. ops[k].outcome = "none" /\ ops[k].state \in {"sending", "completed"}
      BY <1>4, <1>t DEF ArriveStep, Ledger, RowKnows, NoPost, Row, States, Outcomes
    <2>2. ops[k].state = "sending" BY <2>1 DEF Ledger, RowKnows
    <2>3. ops[k].card \in Cards BY <2>2 DEF Ledger, RowKnows
    <2>4. \A c \in Cards : spent'[c] = spent[c] \/ spent'[c] = k BY <1>4, <1>t, <2>3 DEF ArriveStep
    <2> QED BY <1>4, <1>t, <2>1, <2>2, <2>4 DEF ArriveStep, CardInv, ChosenCardIsThere
  <1> QED BY <1>1, <1>2, <1>3, <1>4

(* A step that writes no row comes to a card only by the inventory.        *)
LEMMA QuietCards ==
    ASSUME TypeOK, CardInv, CommandStep \/ WorkerStep \/ WorldStep, UNCHANGED <<ops, post, spent>>
    PROVE  OpenCardIsThere' /\ ChosenCardIsThere'
  <1>1. OpenCardIsThere' BY DEF CardInv, OpenCardIsThere
  <1>2. \/ cmd' = cmd \/ cmd'.pc # "store"
        \/ cmd'.card = cmd.card /\ spent[cmd.card] = NoKey
    BY LocksMove DEF IdleCommand
  <1>3. ChosenCardIsThere'
    BY <1>2, LedgerAssumption DEF CardInv, ChosenCardIsThere
  <1> QED BY <1>1, <1>3

LEMMA NextCards == IInv /\ CardInv /\ [Next]_vars => CardInv'
  <1> SUFFICES ASSUME IInv, CardInv, [Next]_vars PROVE CardInv' OBVIOUS
  <1>0. TypeOK /\ Ledger /\ WorkerKnows /\ Requests BY DEF IInv
  <1>1. CASE ServiceStep
    <2>1. CommandStep \/ WorkerStep \/ WorldStep BY <1>1 DEF ServiceStep
    <2>2. UNCHANGED <<ops, post, spent>> \/ RowStep
      BY <1>0, <2>1, CommandMoves, WorkerMoves, WorldMoves
    <2>3. OpenCardIsThere' /\ ChosenCardIsThere'
      BY <1>0, <2>1, <2>2, QuietCards, OpenCardStays, ChosenCardStays DEF RowStep
    <2> QED BY <1>0, <2>1, <2>3, LocksStayApart DEF CardInv
  <1>2. CASE UNCHANGED service
    BY <1>2 DEF service, CardInv, LocksApart, CommandHolds, OpenCardIsThere, ChosenCardIsThere
  <1>3. CASE MenuStep
    BY <1>2, <1>3
       DEF MenuStep, MenuUse, MenuGivesUp, RecoveryRead, MenuAnswered, RecoveryApply, MenuFrame
  <1>4. CASE PanelStep
    BY <1>2, <1>4 DEF PanelStep, PanelTap, PanelBlocks, PanelAnswered, PanelGivesUp, PanelLoad,
                      PanelCrash, PanelFrame
  <1>5. CASE \E k \in Keys, c \in Cards, r \in 1..rev : Typed(k, c, r)
    BY <1>2, <1>5 DEF Typed
  <1>6. CASE UNCHANGED vars BY <1>2, <1>6 DEF vars, serviceVars
  <1> QED BY <1>1, <1>3, <1>4, <1>5, <1>6 DEF Next

LEMMA InitCards == Init => CardInv
  BY DEF Init, ServiceInit, CardInv, LocksApart, CommandHolds, OpenCardIsThere, ChosenCardIsThere,
         IdleCommand, IdleWorker, NoRow, ActiveStates

LEMMA CardInvariance == Spec => []CardInv
  BY InitCards, NextCards, Invariance, PTL DEF Spec

(* The step as the promise sees it.                                        *)
PromiseStep ==
    \/ Promise!PromiseNext
    \/ UNCHANGED <<[k \in Keys |-> ops[k].card], [k \in Keys |-> Verdict(k)],
                   [k \in Keys |-> Whereabouts(k)]>>

LEMMA RedeemedIsSpent ==
    ASSUME TypeOK, Ledger, NEW c, Promise!Redeemed(c)
    PROVE  spent[c] \in Keys
  <1>1. PICK k \in Keys : ops[k].card = c /\ Whereabouts(k) = "reset"
    BY DEF Promise!Redeemed
  <1>2. post[k].at = "reset" BY <1>1 DEF Whereabouts
  <1>3. spent[ops[k].card] = k BY <1>2 DEF Ledger, RowKnows
  <1> QED BY <1>1, <1>3

LEMMA TakeKeepsPromise ==
    ASSUME IInv, CardInv, NEW k \in Keys, TakeStep(k)
    PROVE  PromiseStep
  <1>0. PICK c \in Cards : c = cmd.card BY DEF TakeStep
  <1>1. Verdict(k) = "new" /\ Verdict(k)' = "open"
    BY DEF TakeStep, Verdict, NoRow, ActiveStates
  <1>2. \A j \in Keys : Verdict(j) # "open"
    <2>1. SUFFICES ASSUME NEW j \in Keys PROVE Verdict(j) # "open" OBVIOUS
    <2>2. ops[j].state \notin ActiveStates BY DEF TakeStep, Active
    <2>3. ops[j] \in Row BY DEF IInv, TypeOK, ServiceTypeOK
    <2>4. ops[j].state \in {"none", "completed", "failed"} /\ ops[j].outcome # "open"
      BY <2>2, <2>3 DEF Row, States, ActiveStates, Outcomes
    <2> QED BY <2>2, <2>4 DEF Verdict
  <1>3. ~Promise!Redeemed(c)
    <2>1. \A j \in Keys : ops[j].state # "sending" BY DEF TakeStep, Active, ActiveStates
    <2>2. spent[c] \notin Keys
      BY <1>0, <2>1 DEF TakeStep, CardInv, ChosenCardIsThere
    <2> QED BY <2>2, RedeemedIsSpent DEF IInv
  <1>4. [j \in Keys |-> ops'[j].card] = [[j \in Keys |-> ops[j].card] EXCEPT ![k] = c]
    BY <1>0 DEF TakeStep
  <1>5. [j \in Keys |-> Verdict(j)]' = [[j \in Keys |-> Verdict(j)] EXCEPT ![k] = "open"]
    <2>1. \A j \in Keys \ {k} : Verdict(j)' = Verdict(j) BY DEF TakeStep, Verdict
    <2> QED BY <1>1, <2>1
  <1>6. [j \in Keys |-> Whereabouts(j)]' = [j \in Keys |-> Whereabouts(j)]
    BY DEF TakeStep, Whereabouts
  <1>7. Promise!Take(k, c) BY <1>1, <1>2, <1>3, <1>4, <1>5, <1>6 DEF Promise!Take
  <1> QED BY <1>7 DEF PromiseStep, Promise!PromiseNext

LEMMA MoveKeepsPromise ==
    ASSUME IInv, IInv', NEW k \in Keys, MoveStep(k)
    PROVE  PromiseStep
  <1>1. [j \in Keys |-> ops'[j].card] = [j \in Keys |-> ops[j].card] BY DEF MoveStep
  <1>2. [j \in Keys |-> Whereabouts(j)]' = [j \in Keys |-> Whereabouts(j)]
    BY DEF MoveStep, Whereabouts
  <1>3. \A j \in Keys \ {k} : Verdict(j)' = Verdict(j) BY DEF MoveStep, Verdict
  <1>4. Verdict(k) = "open"
    BY DEF MoveStep, BeginStep, RecordStep, CompleteStep, FailStep, Verdict, ActiveStates
  <1>5. CASE BeginStep(k) \/ RecordStep(k)
    <2>1. Verdict(k)' = "open" BY <1>5 DEF BeginStep, RecordStep, Verdict, ActiveStates
    <2>2. [j \in Keys |-> Verdict(j)]' = [j \in Keys |-> Verdict(j)] BY <1>3, <1>4, <2>1
    <2> QED BY <1>1, <1>2, <2>2 DEF PromiseStep
  <1>6. CASE CompleteStep(k) \/ FailStep(k)
    <2>0. PICK v : v = Verdict(k)' OBVIOUS
    <2>1. [j \in Keys |-> Verdict(j)]' = [[j \in Keys |-> Verdict(j)] EXCEPT ![k] = v]
      BY <1>3, <2>0
    <2>2. /\ v \in Promise!Answered \cup {"failed"}
          /\ Whereabouts(k) = IF v = "failed" THEN "unsent" ELSE v
      <3>1. RowKnows(k) /\ ops[k] \in Row BY DEF IInv, Ledger, TypeOK, ServiceTypeOK
      <3>2. CASE CompleteStep(k)
        <4>1. v = ops[k].outcome BY <2>0, <3>2 DEF CompleteStep, Verdict, ActiveStates
        <4>2. ops[k].outcome \in Outcomes /\ post[k].at = ops[k].outcome
          BY <3>1, <3>2 DEF CompleteStep, RowKnows, Row
        <4> QED BY <4>1, <4>2 DEF Outcomes, Promise!Answered, Whereabouts
      <3>3. CASE FailStep(k)
        <4>1. v = "failed" BY <2>0, <3>3 DEF FailStep, Verdict, ActiveStates
        <4>2. post[k].at = "none" BY <3>1, <3>3 DEF FailStep, RowKnows, NoPost
        <4> QED BY <4>1, <4>2 DEF Whereabouts
      <3> QED BY <1>6, <3>2, <3>3
    <2>3. Promise!Close(k, v) BY <1>1, <1>2, <1>4, <2>1, <2>2 DEF Promise!Close
    <2> QED BY <2>2, <2>3 DEF PromiseStep, Promise!PromiseNext
  <1> QED BY <1>5, <1>6 DEF MoveStep

LEMMA SendKeepsPromise ==
    ASSUME IInv, CardInv, NEW k \in Keys, SendStep(k)
    PROVE  PromiseStep
  <1>1. Verdict(k) = "open" /\ Whereabouts(k) = "unsent"
    BY DEF SendStep, Verdict, ActiveStates, Whereabouts, NoPost
  <1>2. ~Promise!Redeemed(ops[k].card)
    <2>1. spent[ops[k].card] = NoKey
      BY DEF SendStep, CardInv, OpenCardIsThere, ActiveStates, NoPost
    <2> QED BY <2>1, RedeemedIsSpent, LedgerAssumption DEF IInv
  <1>3. [j \in Keys |-> ops'[j].card] = [j \in Keys |-> ops[j].card] BY DEF SendStep
  <1>4. [j \in Keys |-> Verdict(j)]' = [j \in Keys |-> Verdict(j)] BY DEF SendStep, Verdict
  <1>5. [j \in Keys |-> Whereabouts(j)]' = [[j \in Keys |-> Whereabouts(j)] EXCEPT ![k] = "flying"]
    BY DEF SendStep, Whereabouts
  <1>6. Promise!Send(k) BY <1>1, <1>2, <1>3, <1>4, <1>5 DEF Promise!Send
  <1> QED BY <1>6 DEF PromiseStep, Promise!PromiseNext

LEMMA ArriveKeepsPromise ==
    ASSUME IInv, NEW k \in Keys, NEW answer \in Outcomes, ArriveStep(k, answer)
    PROVE  PromiseStep
  <1>1. Whereabouts(k) = "flying" BY DEF ArriveStep, Whereabouts
  <1>2. answer = "reset" => ~Promise!Redeemed(ops[k].card)
    BY RedeemedIsSpent, LedgerAssumption DEF ArriveStep, IInv
  <1>3. [j \in Keys |-> ops'[j].card] = [j \in Keys |-> ops[j].card] BY DEF ArriveStep
  <1>4. [j \in Keys |-> Verdict(j)]' = [j \in Keys |-> Verdict(j)] BY DEF ArriveStep, Verdict
  <1>5. [j \in Keys |-> Whereabouts(j)]' = [[j \in Keys |-> Whereabouts(j)] EXCEPT ![k] = answer]
    BY DEF ArriveStep, Whereabouts, Outcomes
  <1>6. Promise!Arrive(k, answer) BY <1>1, <1>2, <1>3, <1>4, <1>5 DEF Promise!Arrive
  <1>7. answer \in Promise!Answered BY DEF Promise!Answered, Outcomes
  <1> QED BY <1>6, <1>7 DEF PromiseStep, Promise!PromiseNext

LEMMA QuietPromise == UNCHANGED <<ops, post>> => PromiseStep
  BY DEF PromiseStep, Verdict, Whereabouts

LEMMA StepKeepsPromise ==
    ASSUME IInv, IInv', CardInv, [Next]_vars
    PROVE  PromiseStep
  <1>1. CASE ServiceStep
    <2>1. UNCHANGED <<ops, post>> \/ RowStep
      BY <1>1, CommandMoves, WorkerMoves, WorldMoves DEF ServiceStep, IInv
    <2> QED BY <2>1, QuietPromise, TakeKeepsPromise, MoveKeepsPromise, SendKeepsPromise,
               ArriveKeepsPromise DEF RowStep
  <1>2. CASE UNCHANGED service BY <1>2, QuietPromise DEF service
  <1>3. CASE MenuStep
    BY <1>2, <1>3
       DEF MenuStep, MenuUse, MenuGivesUp, RecoveryRead, MenuAnswered, RecoveryApply, MenuFrame
  <1>4. CASE PanelStep
    BY <1>2, <1>4 DEF PanelStep, PanelTap, PanelBlocks, PanelAnswered, PanelGivesUp, PanelLoad,
                      PanelCrash, PanelFrame
  <1>5. CASE \E k \in Keys, c \in Cards, r \in 1..rev : Typed(k, c, r)
    BY <1>2, <1>5 DEF Typed
  <1>6. CASE UNCHANGED vars BY <1>2, <1>6 DEF vars, serviceVars
  <1> QED BY <1>1, <1>3, <1>4, <1>5, <1>6 DEF Next

LEMMA InitPromise == Init => Promise!PromiseInit
  <1> SUFFICES ASSUME Init PROVE Promise!PromiseInit OBVIOUS
  <1>1. ASSUME NEW k \in Keys PROVE Verdict(k) = "new"
    <2>1. ops[k].state = "none" BY DEF Init, ServiceInit, NoRow
    <2> QED BY <2>1 DEF Verdict, ActiveStates
  <1>2. \A k \in Keys : Whereabouts(k) = "unsent" BY DEF Init, ServiceInit, Whereabouts, NoPost
  <1> QED BY <1>1, <1>2 DEF Promise!PromiseInit

(* The service keeps its promise: every step of a command, the worker, the *)
(* provider, a client, a crash or a restart takes one intent for a card    *)
(* that is there, sends it once, lets its request arrive or closes it with *)
(* the truth, or changes nothing the owner of the account can see.         *)
THEOREM RedemptionsKeepTheirPromise == Spec => ImplementsRedemptionPromise
  <1>1. Init => Promise!PromiseInit BY InitPromise
  <1>2. IInv /\ IInv' /\ CardInv /\ [Next]_vars =>
            [Promise!PromiseNext]_<<[k \in Keys |-> ops[k].card], [k \in Keys |-> Verdict(k)],
                                    [k \in Keys |-> Whereabouts(k)]>>
    BY StepKeepsPromise DEF PromiseStep
  <1> QED BY <1>1, <1>2, Invariance, CardInvariance, PTL
          DEF Spec, ImplementsRedemptionPromise, Promise!PromiseSpec, Promise!promiseVars
=============================================================================
