------------------------- MODULE TurnOutcomeProofs -------------------------
(***************************************************************************)
(* How the turns of a conversation end: proofs that a closed turn, its     *)
(* attempt and what the provider did agree, and that an input is handed    *)
(* over alone, for any number of turns, crashes and store faults.          *)
(***************************************************************************)
EXTENDS ConversationTurnsProofs

----------------------------------------------------------------------------
(* The inductive invariant, beside that of ConversationTurnsProofs.        *)

Closed(t) == turn[t] \in {"completed", "failed"}
NoneOpen == \A t \in Turns : turn[t] # "active"

(* A running process has a row that is not dead, and a row a turn.         *)
Processes ==
    /\ gen[0] # "absent"
    /\ \A g \in Turns :
         /\ g \in alive => gen[g] \in {"ready", "lost"}
         /\ gen[g] # "absent" => turn[g] # "absent"

(* What an attempt records of an input is what became of it.               *)
Effects ==
    \A t \in Turns :
        /\ att[t].gen \in Turns
        /\ sent[t] = 0 => world[t] = "unsent"
        /\ att[t].state = "none" => sent[t] = 0
        /\ world[t] = "running" => att[t].gen \in alive
        /\ att[t].state = "succeeded" => world[t] = "ok"
        /\ att[t].state = "failed_definitive" => world[t] \in {"failed", "cut"}
        /\ att[t].state \in {"canceled", "not_submitted"} => sent[t] = 0

(* What a turn, its attempt, the attempt's generation and the input are    *)
(* like once the turn is closed.                                           *)
ClosedWell(state, row, g, input) ==
    /\ state = "completed" <=> row.state = "succeeded"
    /\ row.state \notin {"prepared", "dispatch_authorized"}
    /\ row.state = "unknown" => g = "dead"
    /\ input # "running"

Closings ==
    \A t \in Turns : Closed(t) => ClosedWell(turn[t], att[t], gen[att[t].gen], world[t])

(* At most one turn is open, in the current session.                       *)
OneOpen ==
    /\ \A t, u \in Turns : turn[t] = "active" /\ turn[u] = "active" => t = u
    /\ \A t \in Turns : turn[t] = "active" => bound[t] = session.n

DurableInv == Processes /\ Effects /\ Closings /\ OneOpen

(* What the driver's place in its command tells of its turn.               *)
NoAttemptYet == BeforeAttempt \cup
    {"refuse", "refuse_manual", "recover_bound", "stop_refuse", "stop_reconcile", "reconcile"}
OpenAttempt == {"authorize", "start", "cancel", "not_submitted", "refuse_bound"}

OpKnows ==
    /\ gen[op.proc] # "absent"
    /\ op.pc = "reserve" => NoneOpen
    /\ op.pc \in NoAttemptYet => turn[op.t] = "active" /\ att[op.t].state = "none"
    /\ op.pc \in {"plan", "prior", "launch"} => gen[op.t] = "absent"
    /\ op.pc \in OpenAttempt => turn[op.t] = "active" /\ sent[op.t] = 0
    /\ op.pc = "not_submitted" => att[op.t].state = "dispatch_authorized"
    /\ op.pc = "refuse_bound" => att[op.t].state \in {"none", "canceled"}
    /\ op.pc = "drive" => turn[op.t] = "active"
    /\ op.pc = "evidence" =>
         /\ turn[op.t] = "active"
         /\ \/ op.outcome = "succeeded" /\ world[op.t] = "ok"
            \/ op.outcome = "failed_definitive" /\ world[op.t] = "failed"

LocalKnows ==
    /\ gen[local.proc] # "absent"
    /\ local.state = "ready" => op = Idle /\ NoneOpen

OutcomeInv == DurableInv /\ OpKnows /\ LocalKnows

(* The typed facts the steps below need.                                   *)
LEMMA Typed ==
    ASSUME IInv
    PROVE  /\ op.t \in Turns /\ op.proc \in Turns /\ op.rev \in Nat /\ local.proc \in Turns
           /\ 0 \in Turns
           /\ op.outcome \in {"none", "succeeded", "failed_definitive"}
           /\ att \in [Turns -> Attempt] /\ turn \in [Turns -> TurnStates]
           /\ gen \in [Turns -> GenStates] /\ sent \in [Turns -> Nat]
           /\ world \in [Turns -> WorldStates] /\ bound \in [Turns -> Nat]
           /\ alive \subseteq Turns /\ session.n \in Nat
<1>1. 0 \in Turns
  BY TurnsAssumption DEF Turns
<1>2. /\ op.t \in Turns /\ op.proc \in Turns /\ op.rev \in Nat
      /\ op.outcome \in {"none", "succeeded", "failed_definitive"}
  BY DEF IInv, TypeOK, Op
<1>3. local.proc \in Turns /\ session.n \in Nat
  BY DEF IInv, TypeOK
<1>4. QED  BY <1>1, <1>2, <1>3 DEF IInv, TypeOK

(* The invariant holds at the start.                                       *)
LEMMA InitOutcomeInv == Init => OutcomeInv
  BY TurnsAssumption DEF Init, OutcomeInv, DurableInv, Processes, Effects, Closings, Closed, ClosedWell,
     OneOpen, OpKnows, LocalKnows, NoneOpen, Turns, Idle, NoLocal, Local, NoAttempt,
     BeforeAttempt, NoAttemptYet, OpenAttempt

----------------------------------------------------------------------------
(* What each kind of step does to the durable state and the world.         *)

(* The session's number is all that matters of it.                         *)
LEMMA DurableKept ==
    ASSUME DurableInv, UNCHANGED <<turn, bound, att, gen, alive, world, sent>>,
           session'.n = session.n
    PROVE  DurableInv'
  BY DEF DurableInv, Processes, Effects, Closings, Closed, ClosedWell, OneOpen

(* A turn is closed.                                                       *)
LEMMA ClosingStep ==
    ASSUME IInv, DurableInv, NEW t \in Turns, NEW state \in {"completed", "failed"},
           turn[t] = "active", turn' = [turn EXCEPT ![t] = state],
           ClosedWell(state, att[t], gen[att[t].gen], world[t]),
           UNCHANGED <<bound, att, gen, alive, world, sent>>, session'.n = session.n
    PROVE  DurableInv' /\ NoneOpen'
<1>0. turn \in [Turns -> TurnStates]
  BY Typed
<1>1. Processes'
  BY <1>0 DEF DurableInv, Processes
<1>2. Effects'
  BY DEF DurableInv, Effects
<1>3. Closings'
  BY <1>0 DEF DurableInv, Closings, Closed, ClosedWell
<1>4. OneOpen' /\ NoneOpen'
  BY <1>0 DEF DurableInv, OneOpen, NoneOpen
<1>5. QED  BY <1>1, <1>2, <1>3, <1>4 DEF DurableInv

(* An attempt is written while its turn is open.                           *)
LEMMA AttemptWritten ==
    ASSUME IInv, DurableInv, NEW t \in Turns, NEW row \in Attempt,
           att' = [att EXCEPT ![t] = row],
           Closed(t) => row = att[t],
           row.gen \in Turns, row.gen = att[t].gen \/ sent[t] = 0,
           row.state = "none" => sent[t] = 0,
           row.state = "succeeded" => world[t] = "ok",
           row.state = "failed_definitive" => world[t] \in {"failed", "cut"},
           row.state \in {"canceled", "not_submitted"} => sent[t] = 0,
           UNCHANGED <<turn, bound, gen, alive, world, sent>>, session'.n = session.n
    PROVE  DurableInv'
<1>0. att \in [Turns -> Attempt]
  BY Typed
<1>1. Processes'
  BY DEF DurableInv, Processes
<1>2. Effects'
  BY <1>0 DEF DurableInv, Effects
<1>3. Closings'
  BY <1>0 DEF DurableInv, Closings, Closed, ClosedWell
<1>4. OneOpen'
  BY DEF DurableInv, OneOpen
<1>5. QED  BY <1>1, <1>2, <1>3, <1>4 DEF DurableInv

(* A row changes without becoming absent or coming back from the dead, and *)
(* no other process is there than before.                                  *)
LEMMA RowChanged ==
    ASSUME IInv, DurableInv, NEW g \in Turns, NEW state \in GenStates \ {"absent"},
           turn[g] # "absent", gen[g] = "dead" => state = "dead",
           gen' = [gen EXCEPT ![g] = state],
           alive' = alive \/ alive' = alive \cup {g} \/ alive' = alive \ {g},
           g \in alive' => state \in {"ready", "lost"},
           world' = world \/ world' = Cut(g),
           g \in alive \ alive' => world' = Cut(g),
           UNCHANGED <<turn, bound, att, session, sent>>
    PROVE  DurableInv'
<1>0. gen \in [Turns -> GenStates] /\ world \in [Turns -> WorldStates] /\ alive \subseteq Turns
  BY Typed
<1>1. Processes'
  BY <1>0 DEF DurableInv, Processes
<1>2. Effects'
  BY <1>0 DEF DurableInv, Effects, Cut, WorldStates
<1>3. Closings'
  <2>1. \A t \in Turns : world'[t] = "running" => world[t] = "running"
    BY <1>0 DEF Cut
  <2>2. \A t \in Turns : gen[att[t].gen] = "dead" => gen'[att[t].gen] = "dead"
    BY <1>0 DEF DurableInv, Effects
  <2>3. QED  BY <2>1, <2>2 DEF DurableInv, Closings, Closed, ClosedWell
<1>4. OneOpen'
  BY DEF DurableInv, OneOpen
<1>5. QED  BY <1>1, <1>2, <1>3, <1>4 DEF DurableInv

(* A termination, proved or not, is such a change.                         *)
LEMMA RetireDurable ==
    ASSUME IInv, DurableInv, NEW g \in Turns, NEW proved \in BOOLEAN, Retire(g, proved),
           gen[g] # "absent", UNCHANGED <<turn, bound, att, session, sent>>
    PROVE  DurableInv'
<1>1. turn[g] # "absent"
  BY DEF DurableInv, Processes
<1>2. CASE proved
  BY <1>1, <1>2, RowChanged, Typed DEF Retire, GenStates
<1>3. CASE ~proved
  <2>1. alive' = alive /\ world' = world /\ gen' = [gen EXCEPT ![g] = "lost"] /\ gen[g] # "dead"
    BY <1>3 DEF Retire
  <2>2. QED  BY <1>1, <2>1, RowChanged DEF GenStates
<1>4. QED  BY <1>2, <1>3

(* An input is handed to its process under the authorization.              *)
LEMMA SendDurable ==
    ASSUME IInv, OutcomeInv, op.pc = "start", Send,
           UNCHANGED <<turn, bound, att, session, gen, alive>>
    PROVE  DurableInv'
<1>0. /\ op.t \in Turns /\ sent \in [Turns -> Nat] /\ world \in [Turns -> WorldStates]
      /\ sent' = [sent EXCEPT ![op.t] = sent[op.t] + 1]
      /\ world' = [world EXCEPT ![op.t] = "running"]
  BY Typed DEF Send
<1>1. /\ turn[op.t] = "active" /\ att[op.t].state = "dispatch_authorized"
      /\ att[op.t].gen = op.proc /\ op.proc \in alive
  BY DEF OutcomeInv, OpKnows, OpenAttempt, IInv, DriverKnowledge, Send, Usable
<1>2. Processes'
  BY DEF OutcomeInv, DurableInv, Processes
<1>3. Effects'
  <2> SUFFICES ASSUME NEW t \in Turns
               PROVE  /\ att[t].gen \in Turns
                      /\ sent'[t] = 0 => world'[t] = "unsent"
                      /\ att[t].state = "none" => sent'[t] = 0
                      /\ world'[t] = "running" => att[t].gen \in alive
                      /\ att[t].state = "succeeded" => world'[t] = "ok"
                      /\ att[t].state = "failed_definitive" => world'[t] \in {"failed", "cut"}
                      /\ att[t].state \in {"canceled", "not_submitted"} => sent'[t] = 0
    BY DEF Effects
  <2>1. CASE t = op.t
    <3>1. sent'[t] # 0 /\ world'[t] = "running"
      BY <1>0, <2>1
    <3>2. QED  BY <1>1, <2>1, <3>1 DEF OutcomeInv, DurableInv, Effects
  <2>2. CASE t # op.t
    BY <1>0, <2>2 DEF OutcomeInv, DurableInv, Effects
  <2>3. QED  BY <2>1, <2>2
<1>4. Closings'
  BY <1>0, <1>1 DEF OutcomeInv, DurableInv, Closings, Closed, ClosedWell
<1>5. OneOpen'
  BY DEF OutcomeInv, DurableInv, OneOpen
<1>6. QED  BY <1>2, <1>3, <1>4, <1>5 DEF DurableInv

(* A turn is reserved.                                                     *)
LEMMA ReserveDurable ==
    ASSUME IInv, OutcomeInv, NEW reply \in Replies, Reserve(reply)
    PROVE  DurableInv'
<1>0. /\ op.t \in Turns /\ turn \in [Turns -> TurnStates] /\ bound \in [Turns -> Nat]
      /\ turn[op.t] = "absent" /\ NoneOpen
  BY Typed DEF Reserve, At, IInv, DriverKnowledge, OutcomeInv, OpKnows
<1>1. /\ turn' = turn \/ turn' = [turn EXCEPT ![op.t] = "active"]
      /\ bound' = [bound EXCEPT ![op.t] = session.n]
      /\ UNCHANGED <<att, session, gen, alive, world, sent>>
  BY DEF Reserve, procVars
<1>2. Processes'
  BY <1>0, <1>1 DEF OutcomeInv, DurableInv, Processes
<1>3. Effects'
  BY <1>1 DEF OutcomeInv, DurableInv, Effects
<1>4. Closings'
  BY <1>0, <1>1 DEF OutcomeInv, DurableInv, Closings, Closed, ClosedWell
<1>5. OneOpen'
  BY <1>0, <1>1 DEF OneOpen, NoneOpen
<1>6. QED  BY <1>2, <1>3, <1>4, <1>5 DEF DurableInv

(* The conversation goes on in a new session, which takes the turn over.   *)
LEMMA SwitchDurable ==
    ASSUME IInv, OutcomeInv, op.pc = "plan", SwitchSession,
           UNCHANGED <<turn, att, gen, alive, world, sent>>
    PROVE  DurableInv'
<1>0. op.t \in Turns /\ bound \in [Turns -> Nat] /\ turn[op.t] = "active" /\ session.n \in Nat
  BY Typed DEF OutcomeInv, OpKnows, NoAttemptYet, BeforeAttempt
<1>1. session'.n = session.n + 1 /\ bound' = [bound EXCEPT ![op.t] = session.n + 1]
  BY DEF SwitchSession
<1>2. Processes' /\ Effects' /\ Closings'
  BY DEF OutcomeInv, DurableInv, Processes, Effects, Closings, Closed, ClosedWell
<1>3. OneOpen'
  BY <1>0, <1>1 DEF OutcomeInv, DurableInv, OneOpen
<1>4. QED  BY <1>2, <1>3 DEF DurableInv

(* A refused input: evidence and turn in one transaction.                  *)
LEMMA NotSubmittedDurable ==
    ASSUME IInv, OutcomeInv, NEW reply \in Replies, NotSubmitted(reply)
    PROVE  DurableInv'
<1>0. /\ op.t \in Turns /\ turn \in [Turns -> TurnStates] /\ att \in [Turns -> Attempt]
      /\ turn[op.t] = "active" /\ sent[op.t] = 0 /\ att[op.t].state = "dispatch_authorized"
  BY Typed DEF NotSubmitted, At, OutcomeInv, OpKnows, OpenAttempt
<1>1. UNCHANGED <<bound, session, gen, alive, world, sent>>
  BY DEF NotSubmitted, procVars
<1>2. CASE turn' = turn /\ att' = att
  BY <1>1, <1>2, DurableKept DEF OutcomeInv
<1>3. CASE /\ turn' = [turn EXCEPT ![op.t] = "failed"]
           /\ att' = [att EXCEPT ![op.t] = RecordEvidence(att[op.t], "not_submitted").row]
  <2> DEFINE row == RecordEvidence(att[op.t], "not_submitted").row
  <2>1. row.state = "not_submitted" /\ row.gen = att[op.t].gen
    BY <1>0 DEF RecordEvidence, TerminalAttempt, AttemptResult, Advance
  <2>2. att'[op.t] = row
    BY <1>0, <1>3
  <2> HIDE DEF row
  <2>3. world[op.t] = "unsent"
    BY <1>0 DEF OutcomeInv, DurableInv, Effects
  <2>4. \A t \in Turns : t # op.t => att'[t] = att[t] /\ turn'[t] = turn[t]
    BY <1>0, <1>3
  <2>5. turn'[op.t] = "failed"
    BY <1>0, <1>3
  <2>6. Processes'
    BY <1>0, <1>1, <2>4, <2>5 DEF OutcomeInv, DurableInv, Processes
  <2>7. Effects'
    BY <1>0, <1>1, <2>1, <2>2, <2>3, <2>4 DEF OutcomeInv, DurableInv, Effects
  <2>8. Closings'
    BY <1>0, <1>1, <2>1, <2>2, <2>3, <2>4, <2>5 DEF OutcomeInv, DurableInv, Closings, Closed, ClosedWell
  <2>9. OneOpen'
    BY <1>1, <2>4, <2>5 DEF OutcomeInv, DurableInv, OneOpen
  <2>10. QED  BY <2>6, <2>7, <2>8, <2>9 DEF DurableInv
<1>4. QED  BY <1>2, <1>3 DEF NotSubmitted, StoreAttempt, FailTurn

(* The provider ends an input it was working on.                           *)
LEMMA ProviderDurable ==
    ASSUME IInv, DurableInv, NEW t \in Turns, ProviderFinishes(t)
    PROVE  DurableInv'
<1>1. PICK end \in {"ok", "failed"} : world' = [world EXCEPT ![t] = end]
  BY DEF ProviderFinishes
<1>2. /\ UNCHANGED <<turn, bound, att, session, gen, alive, sent>>
      /\ world[t] = "running" /\ world \in [Turns -> WorldStates]
  BY Typed DEF ProviderFinishes, turnVars
<1>3. Processes' /\ OneOpen'
  BY <1>2 DEF DurableInv, Processes, OneOpen
<1>4. Effects'
  BY <1>1, <1>2 DEF DurableInv, Effects
<1>5. Closings'
  BY <1>1, <1>2 DEF DurableInv, Closings, Closed, ClosedWell
<1>6. QED  BY <1>3, <1>4, <1>5 DEF DurableInv

(* A process ends by itself.                                               *)
LEMMA ExitDurable ==
    ASSUME IInv, DurableInv, NEW g \in Turns, ProcessExits(g)
    PROVE  DurableInv'
<1>1. /\ UNCHANGED <<turn, bound, att, session, gen, sent>>
      /\ g \in alive /\ alive' = alive \ {g} /\ world' = Cut(g)
  BY DEF ProcessExits, turnVars
<1>2. gen[g] \in {"ready", "lost"} /\ turn[g] # "absent" /\ gen' = [gen EXCEPT ![g] = gen[g]]
  BY <1>1, Typed DEF DurableInv, Processes
<1>3. QED  BY <1>1, <1>2, RowChanged DEF GenStates

(* The service starts again and projects what it finds.                    *)
LEMMA RestartDurable ==
    ASSUME IInv, DurableInv, Restart
    PROVE  DurableInv'
<1>0. /\ att' = [t \in Turns |-> ProjectAttempt(att[t])]
      /\ gen' = [g \in Turns |-> IF gen[g] = "ready" THEN "lost" ELSE gen[g]]
      /\ UNCHANGED <<turn, bound, session, alive, world, sent>>
      /\ 0 \in Turns
  BY Typed DEF Restart, turnVars
<1>1. \A t \in Turns :
         /\ att'[t].gen = att[t].gen
         /\ att'[t] = att[t] \/ /\ att[t].state \in {"prepared", "dispatch_authorized"}
                                /\ att'[t].state = "unknown"
  BY <1>0 DEF ProjectAttempt, Advance
<1>2. Processes'
  BY <1>0 DEF DurableInv, Processes
<1>3. Effects'
  BY <1>0, <1>1 DEF DurableInv, Effects
<1>4. Closings'
  <2>1. \A t \in Turns : Closed(t) => att'[t] = att[t]
    BY <1>1 DEF DurableInv, Closings, ClosedWell
  <2>2. \A t \in Turns : gen[att[t].gen] = "dead" => gen'[att[t].gen] = "dead"
    BY <1>0 DEF DurableInv, Effects
  <2>3. QED  BY <1>0, <2>1, <2>2 DEF DurableInv, Closings, Closed, ClosedWell
<1>5. OneOpen'
  BY <1>0 DEF DurableInv, OneOpen
<1>6. QED  BY <1>2, <1>3, <1>4, <1>5 DEF DurableInv

(* A turn given up, if the store call commits.                             *)
LEMMA FailDurable ==
    ASSUME IInv, DurableInv, NEW t \in Turns, NEW reply, FailTurn(t, reply),
           turn[t] = "active", ClosedWell("failed", att[t], gen[att[t].gen], world[t]),
           UNCHANGED <<bound, att, session, gen, alive, world, sent>>
    PROVE  DurableInv' /\ (Commits(reply) => NoneOpen')
<1>1. CASE Commits(reply)
  BY <1>1, ClosingStep DEF FailTurn
<1>2. CASE ~Commits(reply)
  BY <1>2, DurableKept DEF FailTurn
<1>3. QED  BY <1>1, <1>2

(* An input that reached no process closes well with a settled attempt.    *)
LEMMA UnsentClosesWell ==
    ASSUME DurableInv, NEW t \in Turns, att[t].state \in {"none", "canceled", "not_submitted"}
    PROVE  ClosedWell("failed", att[t], gen[att[t].gen], world[t])
  BY DEF DurableInv, Effects, ClosedWell

(* A turn terminalized by the evidence of its attempt.                     *)
LEMMA TerminalizeDurable ==
    ASSUME IInv, DurableInv, NEW t \in Turns, NEW rev, NEW reply,
           NEW outcome \in {"none", "succeeded", "failed_definitive"},
           TerminalizeTurn(t, rev, outcome, reply),
           UNCHANGED <<att, gen, alive, world, sent>>
    PROVE  DurableInv'
<1>1. CASE Commits(reply) /\ TerminalizationMatches(t, rev, outcome)
  <2>1. /\ turn' = [turn EXCEPT ![t] = IF outcome = "succeeded" THEN "completed" ELSE "failed"]
        /\ session'.n = session.n /\ bound' = bound
        /\ att[t].state = outcome /\ turn[t] = "active"
    BY <1>1 DEF TerminalizeTurn, TerminalizationMatches, IInv, TypeOK
  <2>2. ClosedWell(IF outcome = "succeeded" THEN "completed" ELSE "failed",
                   att[t], gen[att[t].gen], world[t])
    BY <2>1 DEF DurableInv, Effects, ClosedWell
  <2>3. QED  BY <2>1, <2>2, ClosingStep
<1>2. CASE ~(Commits(reply) /\ TerminalizationMatches(t, rev, outcome))
  BY <1>2, DurableKept DEF TerminalizeTurn
<1>3. QED  BY <1>1, <1>2

(* A stored result of a transaction, whose row keeps its generation.       *)
LEMMA StoredDurable ==
    ASSUME IInv, DurableInv, NEW t \in Turns, NEW result, NEW reply,
           StoreAttempt(t, result, reply), AttemptStep(att[t], result.row),
           result.row = att[t] \/
             /\ ~Closed(t)
             /\ result.row.state # "none"
             /\ result.row.state = "succeeded" => world[t] = "ok"
             /\ result.row.state = "failed_definitive" => world[t] \in {"failed", "cut"}
             /\ result.row.state \in {"canceled", "not_submitted"} => sent[t] = 0,
           UNCHANGED <<turn, bound, session, gen, alive, world, sent>>
    PROVE  DurableInv'
<1>0. att \in [Turns -> Attempt]
  BY Typed
<1>1. CASE att' = att \/ result.row = att[t]
  BY <1>0, <1>1, DurableKept DEF StoreAttempt
<1>2. CASE att' # att /\ result.row # att[t]
  <2>1. PICK row : row = result.row
    OBVIOUS
  <2>2. att' = [att EXCEPT ![t] = row]
    BY <1>2, <2>1 DEF StoreAttempt
  <2>3. row \in Attempt /\ row.gen = att[t].gen /\ row.gen \in Turns
    BY <1>2, <2>1 DEF AttemptStep, DurableInv, Effects
  <2>4. QED  BY <1>2, <2>1, <2>2, <2>3, AttemptWritten
<1>3. QED  BY <1>1, <1>2

(* The actions that write an attempt keep the durable part: the evidence   *)
(* is that of the provider, and a mark or a cancelation meets no closed    *)
(* turn.                                                                   *)
LEMMA AttemptDurable ==
    ASSUME IInv, OutcomeInv, AttemptAction
    PROVE  DurableInv'
<1>0. /\ op.t \in Turns /\ op.proc \in Turns /\ op.rev \in Nat /\ session.n \in Nat
      /\ att \in [Turns -> Attempt] /\ DurableInv
  BY Typed DEF OutcomeInv
<1>1. ASSUME NEW reply \in Replies, PrepareAttempt(reply) PROVE DurableInv'
  <2>1. /\ UNCHANGED <<turn, bound, session, gen, alive, world, sent>>
        /\ att' = att \/ att' = [att EXCEPT ![op.t] = PreparedAttempt(op.proc, session.n)]
    BY <1>1 DEF PrepareAttempt, turnVars, procVars
  <2>2. turn[op.t] = "active" /\ sent[op.t] = 0
    BY <1>1 DEF PrepareAttempt, At, OutcomeInv, OpKnows, NoAttemptYet, BeforeAttempt, IInv, DriverKnowledge
  <2>3. CASE att' = att
    BY <1>0, <2>1, <2>3, DurableKept
  <2>4. CASE att' = [att EXCEPT ![op.t] = PreparedAttempt(op.proc, session.n)]
    <3>1. PICK row : row = PreparedAttempt(op.proc, session.n)
      OBVIOUS
    <3>2. row \in Attempt /\ row.state = "prepared" /\ row.gen = op.proc
      BY <1>0, <3>1 DEF PreparedAttempt, Attempt, AttemptStates, Turns
    <3>3. ~Closed(op.t)
      BY <2>2 DEF Closed
    <3>4. QED  BY <1>0, <2>1, <2>2, <2>4, <3>1, <3>2, <3>3, AttemptWritten
  <2>5. QED  BY <2>1, <2>3, <2>4
<1>2. ASSUME NEW reply \in Replies, Authorize(reply) PROVE DurableInv'
  <2>1. PICK result : result = AuthorizeDispatch(att[op.t], op.rev, gen[op.proc] = "ready")
    OBVIOUS
  <2>2. /\ StoreAttempt(op.t, result, reply)
        /\ UNCHANGED <<turn, bound, session, gen, alive, world, sent>>
    BY <1>2, <2>1 DEF Authorize, turnVars, procVars
  <2>3. AttemptStep(att[op.t], result.row)
    BY <1>0, <2>1, TransactionShape
  <2>4. ~Closed(op.t)
    BY <1>2 DEF Authorize, At, OutcomeInv, OpKnows, OpenAttempt, Closed
  <2>5. result.row = att[op.t] \/ result.row.state = "dispatch_authorized"
    BY <2>1 DEF AuthorizeDispatch, AttemptResult, Advance
  <2>6. QED  BY <1>0, <2>2, <2>3, <2>4, <2>5, StoredDurable
<1>3. ASSUME NEW reply \in Replies, Cancel(reply) PROVE DurableInv'
  <2>1. PICK result : result = CancelAttempt(att[op.t], op.rev)
    OBVIOUS
  <2>2. /\ StoreAttempt(op.t, result, reply)
        /\ UNCHANGED <<turn, bound, session, gen, alive, world, sent>>
    BY <1>3, <2>1 DEF Cancel, turnVars, procVars
  <2>3. AttemptStep(att[op.t], result.row)
    BY <1>0, <2>1, TransactionShape
  <2>4. ~Closed(op.t) /\ sent[op.t] = 0
    BY <1>3 DEF Cancel, At, OutcomeInv, OpKnows, OpenAttempt, Closed
  <2>5. result.row = att[op.t] \/ result.row.state = "canceled"
    BY <2>1 DEF CancelAttempt, TransitionAttempt, AttemptResult, Advance
  <2>6. QED  BY <1>0, <2>2, <2>3, <2>4, <2>5, StoredDurable
<1>4. ASSUME NEW reply \in Replies, NotSubmitted(reply) PROVE DurableInv'
  BY <1>4, NotSubmittedDurable
<1>5. ASSUME NEW reply \in Replies, RecordTurnEvidence(reply) PROVE DurableInv'
  <2>1. PICK result : result = RecordEvidence(att[op.t], op.outcome)
    OBVIOUS
  <2>2. /\ StoreAttempt(op.t, result, reply)
        /\ UNCHANGED <<turn, bound, session, gen, alive, world, sent>>
    BY <1>5, <2>1 DEF RecordTurnEvidence, turnVars, procVars
  <2>3. /\ ~Closed(op.t)
        /\ \/ op.outcome = "succeeded" /\ world[op.t] = "ok"
           \/ op.outcome = "failed_definitive" /\ world[op.t] = "failed"
    BY <1>5 DEF RecordTurnEvidence, At, OutcomeInv, OpKnows, Closed
  <2>4. AttemptStep(att[op.t], result.row)
    BY <1>0, <2>1, <2>3, TransactionShape
  <2>5. result.row = att[op.t] \/ result.row.state = op.outcome
    BY <2>1 DEF RecordEvidence, AttemptResult, Advance
  <2>6. QED  BY <1>0, <2>2, <2>3, <2>4, <2>5, StoredDurable
<1>6. ASSUME NEW reply \in Replies, Mark(reply) PROVE DurableInv'
  <2>1. PICK result : result = MarkUnknown(att[op.t], op.rev)
    OBVIOUS
  <2>2. /\ StoreAttempt(op.t, result, reply)
        /\ UNCHANGED <<turn, bound, session, gen, alive, world, sent>>
    BY <1>6, <2>1 DEF Mark, turnVars, procVars
  <2>3. AttemptStep(att[op.t], result.row)
    BY <1>0, <2>1, TransactionShape
  <2>4. \/ result.row = att[op.t]
        \/ result.row.state = "unknown" /\ att[op.t].state = "dispatch_authorized"
    BY <2>1 DEF MarkUnknown, TransitionAttempt, AttemptResult, Advance
  <2>5. att[op.t].state = "dispatch_authorized" => ~Closed(op.t)
    BY <1>0 DEF DurableInv, Closings, ClosedWell
  <2>6. QED  BY <1>0, <2>2, <2>3, <2>4, <2>5, StoredDurable
<1>7. ASSUME NEW t \in Turns, NEW reply \in Replies, ControlObserve(t, reply) PROVE DurableInv'
  <2>1. PICK outcome \in Observations(t) \ {"none"} :
           StoreAttempt(t, RecordEvidence(att[t], outcome), reply)
    BY <1>7 DEF ControlObserve, Observed
  <2>2. PICK result : result = RecordEvidence(att[t], outcome)
    OBVIOUS
  <2>3. /\ \/ outcome = "succeeded" /\ world[t] = "ok"
           \/ outcome = "failed_definitive" /\ world[t] \in {"failed", "cut"}
        /\ ~Closed(t)
        /\ UNCHANGED <<turn, bound, session, gen, alive, world, sent>>
    BY <1>7, <2>1 DEF ControlObserve, Observed, UnknownTurn, Observations, Closed, turnVars, procVars
  <2>4. AttemptStep(att[t], result.row)
    BY <1>0, <2>2, <2>3, TransactionShape
  <2>5. result.row = att[t] \/ result.row.state = outcome
    BY <2>2 DEF RecordEvidence, AttemptResult, Advance
  <2>6. QED  BY <1>0, <2>1, <2>2, <2>3, <2>4, <2>5, StoredDurable
<1>8. CASE Restart
  BY <1>0, <1>8, RestartDurable
<1>9. QED
  BY <1>1, <1>2, <1>3, <1>4, <1>5, <1>6, <1>7, <1>8 DEF AttemptAction

(* So do the actions that write no attempt and hand over no input.         *)
LEMMA QuietDurable ==
    ASSUME IInv, OutcomeInv, QuietAction
    PROVE  DurableInv'
<1>0. op.t \in Turns /\ op.proc \in Turns /\ local.proc \in Turns /\ DurableInv
  BY Typed DEF OutcomeInv
<1>1. ASSUME UNCHANGED <<turn, bound, att, gen, alive, world, sent>>, session'.n = session.n
      PROVE  DurableInv'
  BY <1>0, <1>1, DurableKept
<1>2. ASSUME NEW t \in Turns,
             Submit(t) \/ ProcessExits(t) \/ DeathRecorded(t) \/ ProviderFinishes(t)
      PROVE  DurableInv'
  <2>1. CASE Submit(t)
    BY <1>1, <2>1 DEF Submit, turnVars, procVars
  <2>2. CASE ProcessExits(t)
    BY <1>0, <2>2, ExitDurable
  <2>3. CASE DeathRecorded(t)
    <3>1. /\ gen' = [gen EXCEPT ![t] = "dead"] /\ alive' = alive /\ world' = world
          /\ t \notin alive /\ gen[t] # "absent"
          /\ UNCHANGED <<turn, bound, att, session, sent>>
      BY <2>3 DEF DeathRecorded, turnVars
    <3>2. turn[t] # "absent"
      BY <1>0, <3>1 DEF DurableInv, Processes
    <3>3. QED  BY <1>0, <3>1, <3>2, RowChanged DEF GenStates
  <2>4. CASE ProviderFinishes(t)
    BY <1>0, <2>4, ProviderDurable
  <2>5. QED  BY <1>2, <2>1, <2>2, <2>3, <2>4
<1>3. ASSUME NEW reply \in Replies,
             \/ AdmissionFails(reply) \/ Reconcile(reply) \/ FenceThread(reply)
             \/ BindThread(reply) \/ ControlArchive(reply)
      PROVE  DurableInv'
  <2>1. UNCHANGED <<turn, bound, att, gen, alive, world, sent>>
    BY <1>3 DEF AdmissionFails, Reconcile, FenceThread, BindThread, ControlArchive, turnVars, procVars
  <2>2. session'.n = session.n
    BY <1>3 DEF AdmissionFails, Reconcile, FenceThread, BindThread, ControlArchive, IInv, TypeOK
  <2>3. QED  BY <1>1, <2>1, <2>2
<1>4. ASSUME NEW reply \in Replies, Reserve(reply) PROVE DurableInv'
  BY <1>4, ReserveDurable
<1>5. ASSUME NEW reply \in Replies, PlanFails(reply) PROVE DurableInv'
  <2>1. /\ UNCHANGED <<turn, att, gen, alive, world, sent>> /\ op.pc = "plan"
        /\ SwitchSession \/ UNCHANGED <<session, bound>>
    BY <1>5 DEF PlanFails, At, procVars
  <2>2. QED  BY <1>1, <2>1, SwitchDurable
<1>6. CASE PlanFallback
  BY <1>6, SwitchDurable DEF PlanFallback, At, procVars
<1>7. ASSUME NEW reply \in Replies, Terminalize(reply) \/ Settle(reply) PROVE DurableInv'
  <2>1. /\ TerminalizeTurn(op.t, op.rev, op.outcome, reply)
        /\ UNCHANGED <<att, gen, alive, world, sent>>
    BY <1>7 DEF Terminalize, Settle, procVars
  <2>2. QED  BY <1>0, <2>1, Typed, TerminalizeDurable
<1>8. ASSUME NEW t \in Turns, NEW reply \in Replies, ControlPending(t, reply) PROVE DurableInv'
  <2>1. /\ TerminalizeTurn(t, att[t].rev, att[t].state, reply)
        /\ att[t].state \in {"succeeded", "failed_definitive"}
        /\ UNCHANGED <<att, gen, alive, world, sent>>
    BY <1>8 DEF ControlPending, PendingTurn, procVars
  <2>2. QED  BY <1>0, <2>1, TerminalizeDurable
<1>9. ASSUME NEW reply \in Replies, Refuse(reply) \/ RefuseBound(reply) \/ RecoverBound(reply)
      PROVE  DurableInv'
  <2>1. /\ FailTurn(op.t, reply)
        /\ UNCHANGED <<bound, att, session, gen, alive, world, sent>>
    BY <1>9 DEF Refuse, RefuseBound, RecoverBound, procVars
  <2>2. turn[op.t] = "active" /\ att[op.t].state \in {"none", "canceled"}
    BY <1>9 DEF Refuse, RefuseBound, RecoverBound, At, OutcomeInv, OpKnows, NoAttemptYet, OpenAttempt
  <2>3. QED  BY <1>0, <2>1, <2>2, UnsentClosesWell, FailDurable
<1>10. ASSUME NEW t \in Turns, NEW reply \in Replies, ControlStranded(t, reply) PROVE DurableInv'
  <2>1. /\ FailTurn(t, reply) /\ turn[t] = "active"
        /\ UNCHANGED <<bound, att, session, gen, alive, world, sent>>
    BY <1>10 DEF ControlStranded, StrandedTurn, procVars
  <2>2. att[t].state \in {"none", "canceled", "not_submitted"}
    BY <1>10, Typed DEF ControlStranded, StrandedTurn, UnresolvedAttempt, Attempt, AttemptStates
  <2>3. QED  BY <1>0, <2>1, <2>2, UnsentClosesWell, FailDurable
<1>11. ASSUME NEW t \in Turns, NEW reply \in Replies, ControlClose(t, reply) PROVE DurableInv'
  <2>1. /\ FailTurn(t, reply) /\ turn[t] = "active"
        /\ UNCHANGED <<bound, att, session, gen, alive, world, sent>>
        /\ att[t].state = "unknown" /\ gen[att[t].gen] = "dead"
    BY <1>11 DEF ControlClose, Unobservable, UnknownTurn, procVars
  <2>2. world[t] # "running"
    BY <1>0, <2>1 DEF DurableInv, Effects, Processes
  <2>3. ClosedWell("failed", att[t], gen[att[t].gen], world[t])
    BY <2>1, <2>2 DEF ClosedWell
  <2>4. QED  BY <1>0, <2>1, <2>3, FailDurable
<1>12. CASE Launch \/ LaunchFails
  <2>1. /\ op.pc = "launch" /\ UNCHANGED <<turn, bound, att, session, world, sent>>
        /\ \/ UNCHANGED <<gen, alive>>
           \/ \E state \in {"ready", "lost", "dead"} :
                /\ gen' = [gen EXCEPT ![op.t] = state]
                /\ alive' = alive \/ alive' = alive \cup {op.t}
                /\ state = "dead" => alive' = alive
    <3>1. CASE Launch
      BY <3>1 DEF Launch, At, turnVars
    <3>2. CASE LaunchFails
      <4>1. CASE UNCHANGED <<gen, alive>>
        BY <3>2, <4>1 DEF LaunchFails, At, turnVars
      <4>2. CASE ~UNCHANGED <<gen, alive>>
        <5>1. PICK state \in {"dead", "lost"} : gen' = [gen EXCEPT ![op.t] = state]
          BY <3>2, <4>2 DEF LaunchFails
        <5>2. gen'[op.t] = state
          BY <1>0, <5>1, Typed
        <5>3. QED  BY <3>2, <4>2, <5>1, <5>2 DEF LaunchFails, At, turnVars
      <4>3. QED  BY <4>1, <4>2
    <3>3. QED  BY <1>12, <3>1, <3>2
  <2>2. turn[op.t] = "active" /\ gen[op.t] = "absent" /\ op.t \notin alive
    BY <1>0, <2>1 DEF OutcomeInv, OpKnows, NoAttemptYet, BeforeAttempt, DurableInv, Processes
  <2>3. CASE UNCHANGED <<gen, alive>>
    BY <1>1, <2>1, <2>3
  <2>4. ASSUME NEW state \in {"ready", "lost", "dead"},
               gen' = [gen EXCEPT ![op.t] = state],
               alive' = alive \/ alive' = alive \cup {op.t},
               state = "dead" => alive' = alive
        PROVE  DurableInv'
    BY <1>0, <2>1, <2>2, <2>4, RowChanged DEF GenStates
  <2>5. QED  BY <2>1, <2>3, <2>4
<1>13. ASSUME NEW proved \in BOOLEAN, RetireTurn(proved) \/ Stop(proved) PROVE DurableInv'
  <2>1. Retire(op.proc, proved) /\ UNCHANGED <<turn, bound, att, session, sent>>
    BY <1>13 DEF RetireTurn, Stop, turnVars
  <2>2. QED  BY <1>0, <2>1, RetireDurable DEF OutcomeInv, OpKnows
<1>14. ASSUME NEW proved \in BOOLEAN, CloseRuntime(proved) PROVE DurableInv'
  <2>1. /\ UNCHANGED <<turn, bound, att, session, sent>>
        /\ Retire(local.proc, proved) \/ UNCHANGED <<gen, alive, world>>
    BY <1>14 DEF CloseRuntime, turnVars, procVars
  <2>2. QED  BY <1>0, <1>1, <2>1, RetireDurable DEF OutcomeInv, LocalKnows
<1>15. CASE \/ PlanSameThread \/ PlanRefused \/ Resume \/ ResumeFails \/ ThreadStartFails
            \/ PrepareRefused \/ AuthorizeWhenStopping \/ StartRefused \/ TurnCompleted
            \/ WorkerFails \/ Shutdown
  BY <1>1, <1>15 DEF PlanSameThread, PlanRefused, Resume, ResumeFails, ThreadStartFails,
     PrepareRefused, AuthorizeWhenStopping, StartRefused, TurnCompleted, WorkerFails, Shutdown,
     turnVars, procVars
<1>16. QED
  BY <1>2, <1>3, <1>4, <1>5, <1>6, <1>7, <1>8, <1>9, <1>10, <1>11, <1>12, <1>13, <1>14, <1>15
     DEF QuietAction

(* Every step keeps the durable part.                                      *)
LEMMA DurableStep ==
    ASSUME IInv, OutcomeInv, [Next]_vars
    PROVE  DurableInv'
<1>1. CASE UNCHANGED vars
  BY <1>1, DurableKept DEF OutcomeInv, vars, turnVars, procVars
<1>2. CASE QuietAction
  BY <1>2, QuietDurable
<1>3. CASE SendAction
  <2>1. /\ op.pc = "start" /\ UNCHANGED <<turn, bound, att, session, gen, alive>>
        /\ Send \/ UNCHANGED <<sent, world>>
    BY <1>3 DEF SendAction, StartTurn, StartFails, At, turnVars
  <2>2. QED  BY <2>1, SendDurable, DurableKept DEF OutcomeInv
<1>4. CASE AttemptAction
  BY <1>4, AttemptDurable
<1>5. QED  BY <1>1, <1>2, <1>3, <1>4, StepKinds

----------------------------------------------------------------------------
(* What each step leaves the driver and the local task to know.            *)

Knows == OpKnows /\ LocalKnows

(* Rows only ever go on.                                                   *)
RowsStay == \A g \in Turns : gen'[g] = "absent" <=> gen[g] = "absent"

(* A termination makes and unmakes no row, and undoes no end.              *)
LEMMA RetireStays ==
    ASSUME IInv, NEW g \in Turns, NEW proved, Retire(g, proved), gen[g] # "absent"
    PROVE  /\ RowsStay
           /\ \A t \in Turns : world[t] \in {"ok", "failed"} => world'[t] = world[t]
<1>1. gen \in [Turns -> GenStates] /\ world \in [Turns -> WorldStates]
  BY Typed
<1>2. RowsStay
  BY <1>1 DEF Retire, RowsStay
<1>3. world' = world \/ world' = Cut(g)
  BY DEF Retire
<1>4. QED  BY <1>1, <1>2, <1>3 DEF Cut

(* The driver stays where it is while the processes, the provider or the   *)
(* host move.                                                              *)
LEMMA DriverWaits ==
    ASSUME IInv, Knows, UNCHANGED <<turn, att, sent, op>>, RowsStay,
           \A t \in Turns : world[t] \in {"ok", "failed"} => world'[t] = world[t],
           local' = local \/ local' = NoLocal,
           gen[0] # "absent"
    PROVE  Knows'
<1>1. op.t \in Turns /\ op.proc \in Turns /\ local.proc \in Turns /\ 0 \in Turns
  BY Typed
<1>2. OpKnows'
  BY <1>1 DEF Knows, OpKnows, NoneOpen, RowsStay
<1>3. LocalKnows'
  BY <1>1 DEF Knows, LocalKnows, NoneOpen, RowsStay, NoLocal, Local
<1>4. QED  BY <1>2, <1>3 DEF Knows

(* A command is over, and the conversation not offered as Ready.           *)
LEMMA CommandEnds ==
    ASSUME IInv, Knows, op' = Idle, gen[0] # "absent", RowsStay,
           local' \in {local, NoLocal, Local("missing", 0), Local("manual", 0)},
           local' = local => local.state # "ready" \/ NoneOpen'
    PROVE  Knows'
<1>1. op.t \in Turns /\ op.proc \in Turns /\ local.proc \in Turns /\ 0 \in Turns
  BY Typed
<1>2. OpKnows'
  BY <1>1 DEF Idle, OpKnows, RowsStay, NoAttemptYet, BeforeAttempt, OpenAttempt
<1>3. LocalKnows'
  BY <1>1 DEF Knows, LocalKnows, RowsStay, NoLocal, Local
<1>4. QED  BY <1>2, <1>3 DEF Knows

(* The driver goes on within its command, whose turn and attempt stay as   *)
(* they are.                                                               *)
LEMMA DriverGoesOn ==
    ASSUME IInv, OutcomeInv, op # Idle, NEW pc, op'.pc = pc, op'.t = op.t,
           op'.proc = op.proc,
           UNCHANGED <<turn, att, sent>>, RowsStay,
           pc \in NoAttemptYet => op.pc \in NoAttemptYet,
           pc \in {"plan", "prior", "launch"} => op.pc \in {"plan", "prior", "launch"},
           pc \in OpenAttempt \ {"refuse_bound"} => op.pc \in OpenAttempt \ {"refuse_bound"},
           pc = "not_submitted" => op.pc = "start",
           pc = "refuse_bound" => op.pc \in NoAttemptYet,
           pc \notin {"reserve", "drive", "evidence"},
           local' \in {local, Local("preparing", op.proc)}
    PROVE  Knows'
<1>1. op.t \in Turns /\ op.proc \in Turns /\ local.proc \in Turns /\ 0 \in Turns
  BY Typed
<1>3. OpKnows'
  <2>1. /\ gen'[op.proc] # "absent"
        /\ pc \in NoAttemptYet => turn[op.t] = "active" /\ att[op.t].state = "none"
        /\ pc \in {"plan", "prior", "launch"} => gen'[op.t] = "absent"
    BY <1>1 DEF OutcomeInv, OpKnows, RowsStay
  <2>2. pc \in NoAttemptYet => sent[op.t] = 0
    BY <1>1, <2>1 DEF OutcomeInv, DurableInv, Effects
  <2>3. /\ pc \in OpenAttempt => turn[op.t] = "active" /\ sent[op.t] = 0
        /\ pc = "refuse_bound" => att[op.t].state \in {"none", "canceled"}
    BY <1>1 DEF OutcomeInv, OpKnows, DurableInv, Effects
  <2>4. pc = "not_submitted" => att[op.t].state = "dispatch_authorized"
    BY DEF OutcomeInv, OpKnows, IInv, DriverKnowledge, OpenAttempt
  <2>5. QED  BY <2>1, <2>3, <2>4 DEF OpKnows
<1>4. LocalKnows'
  <2>1. local.state # "ready" /\ gen[local.proc] # "absent"
    BY DEF OutcomeInv, LocalKnows
  <2>2. gen[op.proc] # "absent"
    BY DEF OutcomeInv, OpKnows
  <2>3. local'.state # "ready" /\ local'.proc \in {local.proc, op.proc}
    BY <2>1 DEF Local
  <2>4. QED  BY <1>1, <2>1, <2>2, <2>3 DEF LocalKnows, RowsStay
<1>5. QED  BY <1>3, <1>4 DEF Knows

(* Where the driver needs to know nothing of its turn any more.            *)
Unaware == {"terminalize", "retire", "mark", "mark_last", "stop_missing", "stop_manual",
            "stop_marking", "settle"}

LEMMA DriverForgets ==
    ASSUME IInv, OutcomeInv, op'.pc \in Unaware, op'.proc \in {0, op.proc}, RowsStay,
           local.state # "ready",
           local' \in {local, NoLocal, Local("missing", 0), Local("manual", 0)}
    PROVE  Knows'
<1>1. op.t \in Turns /\ op.proc \in Turns /\ local.proc \in Turns /\ 0 \in Turns
  BY Typed
<1>2. gen[0] # "absent" /\ gen[op.proc] # "absent" /\ gen[local.proc] # "absent"
  BY DEF OutcomeInv, DurableInv, Processes, OpKnows, LocalKnows
<1>3. OpKnows'
  BY <1>1, <1>2 DEF Unaware, OpKnows, RowsStay, NoAttemptYet, BeforeAttempt, OpenAttempt
<1>4. LocalKnows'
  BY <1>1, <1>2 DEF LocalKnows, RowsStay, NoLocal, Local
<1>5. QED  BY <1>3, <1>4 DEF Knows

(* What an ambiguous end, and a change of place, do to the command.        *)
LEMMA AmbiguousEnd ==
    ASSUME IInv, OutcomeInv, op # Idle, Ambiguous, RowsStay
    PROVE  Knows'
<1>1. op' = Idle /\ local' \in {local, Local("missing", 0)} /\ local.state # "ready"
  BY DEF Ambiguous, SetRecovery, OutcomeInv, LocalKnows
<1>2. QED  BY <1>1, CommandEnds DEF OutcomeInv, Knows, DurableInv, Processes

(* A change of place keeps the turn and the process of the command.        *)
LEMMA GotoShape ==
    ASSUME IInv, NEW pc, Goto(pc)
    PROVE  op'.pc = pc /\ op'.t = op.t /\ op'.proc = op.proc
  BY DEF Goto, IInv, TypeOK, Op

(* From the submission to the plan.                                        *)
LEMMA SubmissionKnows ==
    ASSUME IInv, OutcomeInv
    PROVE  /\ \A t \in Turns : Submit(t) => Knows'
           /\ \A reply \in Replies : Reserve(reply) \/ PlanFails(reply) => Knows'
           /\ PlanSameThread \/ PlanFallback \/ PlanRefused => Knows'
<1>0. /\ op.t \in Turns /\ op.proc \in Turns /\ local.proc \in Turns /\ 0 \in Turns
      /\ turn \in [Turns -> TurnStates] /\ gen[0] # "absent"
  BY Typed DEF OutcomeInv, DurableInv, Processes
<1>1. ASSUME NEW t \in Turns, Submit(t) PROVE Knows'
  <2>1. UNCHANGED <<turn, bound, att, session, gen, alive, world, sent>>
    BY <1>1 DEF Submit, turnVars, procVars
  <2>2. NoneOpen
    <3>1. CASE local.state = "ready"
      BY <3>1 DEF OutcomeInv, LocalKnows
    <3>2. CASE local.state # "ready"
      BY <1>1, <3>2 DEF Submit, ActiveTurns, OutcomeInv, DurableInv, OneOpen, NoneOpen
    <3>3. QED  BY <3>1, <3>2
  <2>3. op'.pc = "reserve" /\ op'.proc \in {0, local.proc}
    <3>1. CASE op' = [Idle EXCEPT !.pc = "reserve", !.t = t]
      BY <3>1 DEF Idle
    <3>2. CASE op' = [Idle EXCEPT !.pc = "reserve", !.t = t, !.proc = local.proc,
                                  !.prior = local.proc]
      BY <3>2 DEF Idle
    <3>3. QED  BY <1>1, <3>1, <3>2 DEF Submit
  <2>4. /\ local' \in {local, Local("preparing", local.proc)}
        /\ local' = local => local.state # "ready"
    BY <1>1 DEF Submit, Local
  <2>5. OpKnows'
    BY <1>0, <2>1, <2>2, <2>3 DEF OutcomeInv, OpKnows, LocalKnows, NoneOpen, NoAttemptYet,
       BeforeAttempt, OpenAttempt
  <2>6. LocalKnows'
    BY <1>0, <2>1, <2>4 DEF OutcomeInv, LocalKnows, Local
  <2>7. QED  BY <2>5, <2>6 DEF Knows
<1>2. ASSUME NEW reply \in Replies, Reserve(reply) PROVE Knows'
  <2>1. /\ op.pc = "reserve" /\ op # Idle /\ turn[op.t] = "absent" /\ RowsStay
        /\ gen' = gen /\ att' = att
    BY <1>2 DEF Reserve, At, Idle, IInv, DriverKnowledge, procVars, RowsStay
  <2>2. local.state # "ready"
    BY <2>1 DEF OutcomeInv, LocalKnows
  <2>3. CASE reply = "ok"
    <3>1. turn' = [turn EXCEPT ![op.t] = "active"] /\ local' = local
      BY <1>2, <2>3 DEF Reserve, Commits
    <3>2. op'.pc \in {"plan", "stop_refuse"} /\ op'.t = op.t /\ op'.proc = op.proc
      BY <1>2, <2>3, GotoShape DEF Reserve
    <3>3. turn'[op.t] = "active" /\ att[op.t].state = "none"
      BY <1>0, <2>1, <3>1 DEF IInv, AbsentIsUntouched, NoAttempt
    <3>4. gen[op.t] = "absent" /\ gen[op.proc] # "absent"
      BY <1>0, <2>1 DEF OutcomeInv, DurableInv, Processes, OpKnows
    <3>5. OpKnows'
      BY <2>1, <3>2, <3>3, <3>4 DEF OpKnows, OpenAttempt
    <3>6. LocalKnows'
      BY <2>1, <2>2, <3>1 DEF OutcomeInv, LocalKnows
    <3>7. QED  BY <3>5, <3>6 DEF Knows
  <2>4. CASE reply # "ok" /\ op.prior = 0
    BY <1>2, <2>1, <2>4, AmbiguousEnd DEF Reserve
  <2>5. CASE reply # "ok" /\ op.prior # 0
    BY <1>2, <2>1, <2>2, <2>5, GotoShape, DriverForgets DEF Reserve, Unaware
  <2>6. QED  BY <2>3, <2>4, <2>5
<1>3. ASSUME NEW reply \in Replies, PlanFails(reply) PROVE Knows'
  <2>1. op # Idle /\ local.state # "ready" /\ RowsStay
    BY <1>3 DEF PlanFails, At, Idle, OutcomeInv, LocalKnows, procVars, RowsStay
  <2>2. CASE op.prior = 0
    BY <1>3, <2>1, <2>2, AmbiguousEnd DEF PlanFails
  <2>3. CASE op.prior # 0
    BY <1>3, <2>1, <2>3, GotoShape, DriverForgets DEF PlanFails, Unaware
  <2>4. QED  BY <2>2, <2>3
<1>4. ASSUME PlanSameThread \/ PlanFallback \/ PlanRefused PROVE Knows'
  <2>1. /\ op.pc = "plan" /\ op # Idle /\ UNCHANGED <<turn, att, sent, local>> /\ RowsStay
    BY <1>4 DEF PlanSameThread, PlanFallback, PlanRefused, At, Idle, turnVars, procVars, RowsStay
  <2>2. PICK pc \in {"launch", "resume", "prior", "refuse_bound", "refuse", "refuse_manual"} : Goto(pc)
    BY <1>4 DEF PlanSameThread, PlanFallback, PlanRefused
  <2>3. op'.pc = pc /\ op'.t = op.t /\ op'.proc = op.proc
    BY <2>2, GotoShape
  <2>4. QED  BY <2>1, <2>3, DriverGoesOn DEF NoAttemptYet, BeforeAttempt, OpenAttempt
<1>5. QED  BY <1>1, <1>2, <1>3, <1>4

(* The launch, and the thread of the new process.                          *)
LEMMA LaunchKnows ==
    ASSUME IInv, OutcomeInv
    PROVE  /\ \A reply \in Replies :
                AdmissionFails(reply) \/ Reconcile(reply) \/ FenceThread(reply) \/ BindThread(reply)
                  => Knows'
           /\ Launch \/ LaunchFails \/ Resume \/ ResumeFails \/ ThreadStartFails => Knows'
<1>0. /\ op.t \in Turns /\ op.proc \in Turns /\ local.proc \in Turns /\ 0 \in Turns
      /\ gen \in [Turns -> GenStates] /\ gen[0] # "absent"
  BY Typed DEF OutcomeInv, DurableInv, Processes
<1>1. ASSUME op # Idle, UNCHANGED <<turn, att, sent, gen>>, op.pc \in NoAttemptYet,
             NEW pc \in NoAttemptYet \cup Unaware \cup {"refuse_bound"},
             pc \notin {"plan", "prior", "launch"}, Goto(pc),
             local' \in {local, Local("preparing", op.proc)}
      PROVE  Knows'
  BY <1>1, GotoShape, DriverGoesOn
     DEF NoAttemptYet, BeforeAttempt, Unaware, OpenAttempt, RowsStay
<1>2. ASSUME NEW reply \in Replies, AdmissionFails(reply) \/ Reconcile(reply) PROVE Knows'
  <2>1. /\ op # Idle /\ UNCHANGED <<turn, att, sent, gen>> /\ op.pc \in {"launch", "reconcile"}
        /\ \/ Ambiguous
           \/ local' = local /\ \E pc \in {"reconcile", "refuse_manual"} : Goto(pc)
    BY <1>2 DEF AdmissionFails, Reconcile, At, Idle, turnVars, procVars
  <2>2. CASE Ambiguous
    BY <2>1, <2>2, AmbiguousEnd DEF RowsStay
  <2>3. CASE ~Ambiguous
    BY <1>1, <2>1, <2>3 DEF NoAttemptYet, BeforeAttempt
  <2>4. QED  BY <2>2, <2>3
<1>3. ASSUME NEW reply \in Replies, FenceThread(reply) PROVE Knows'
  <2>1. /\ op # Idle /\ UNCHANGED <<turn, att, sent, gen, local>> /\ op.pc = "fence"
        /\ \E pc \in {"bind", "stop_reconcile"} : Goto(pc)
    BY <1>3 DEF FenceThread, At, Idle, turnVars, procVars
  <2>2. QED  BY <1>1, <2>1 DEF NoAttemptYet, BeforeAttempt
<1>4. ASSUME NEW reply \in Replies, BindThread(reply) PROVE Knows'
  <2>1. /\ op # Idle /\ UNCHANGED <<turn, att, sent, gen>> /\ op.pc = "bind"
        /\ local' \in {local, Local("preparing", op.proc)}
        /\ \E pc \in {"prepare", "recover_bound", "stop_missing"} : Goto(pc)
    BY <1>4 DEF BindThread, At, Idle, turnVars, procVars
  <2>2. QED  BY <1>1, <2>1 DEF NoAttemptYet, BeforeAttempt, Unaware
<1>5. CASE Launch
  <2>1. /\ op.pc = "launch" /\ op # Idle /\ UNCHANGED <<turn, att, sent, local>>
        /\ gen' = [gen EXCEPT ![op.t] = "ready"]
        /\ op' = [op EXCEPT !.proc = op.t,
                            !.pc = IF session.state = "active" THEN "resume" ELSE "fence"]
    BY <1>5 DEF Launch, At, Idle, turnVars
  <2>2. op'.pc \in {"resume", "fence"} /\ op'.t = op.t /\ op'.proc = op.t
    BY <2>1 DEF IInv, TypeOK, Op
  <2>3. /\ turn[op.t] = "active" /\ att[op.t].state = "none" /\ local.state # "ready"
        /\ gen[local.proc] # "absent"
    BY <2>1 DEF OutcomeInv, OpKnows, LocalKnows, NoAttemptYet, BeforeAttempt
  <2>4. OpKnows'
    BY <1>0, <2>1, <2>2, <2>3 DEF OpKnows, OpenAttempt
  <2>5. LocalKnows'
    BY <1>0, <2>1, <2>3 DEF LocalKnows
  <2>6. QED  BY <2>4, <2>5 DEF Knows
<1>6. CASE LaunchFails
  <2>1. /\ op.pc = "launch" /\ op # Idle /\ UNCHANGED <<turn, att, sent, local>>
        /\ \/ gen' = gen
           \/ \E state \in {"dead", "lost"} : gen' = [gen EXCEPT ![op.t] = state]
    BY <1>6 DEF LaunchFails, At, Idle, turnVars
  <2>2. op'.pc = "reconcile" /\ op'.t = op.t /\ op'.proc = op.proc
    BY <1>6, GotoShape DEF LaunchFails
  <2>3. /\ turn[op.t] = "active" /\ att[op.t].state = "none" /\ local.state # "ready"
        /\ gen[local.proc] # "absent" /\ gen[op.proc] # "absent"
    BY <2>1 DEF OutcomeInv, OpKnows, LocalKnows, NoAttemptYet, BeforeAttempt
  <2>4. OpKnows'
    BY <1>0, <2>1, <2>2, <2>3 DEF OpKnows, OpenAttempt
  <2>5. LocalKnows'
    BY <1>0, <2>1, <2>3 DEF LocalKnows
  <2>6. QED  BY <2>4, <2>5 DEF Knows
<1>7. CASE Resume \/ ResumeFails \/ ThreadStartFails
  <2>1. /\ op # Idle /\ UNCHANGED <<turn, att, sent, gen>> /\ op.pc \in {"resume", "fence", "bind"}
        /\ local' \in {local, Local("preparing", op.proc)}
        /\ \E pc \in {"prepare", "stop_missing", "recover_bound", "stop_reconcile"} : Goto(pc)
    BY <1>7 DEF Resume, ResumeFails, ThreadStartFails, At, Idle, turnVars, procVars
  <2>2. QED  BY <1>1, <2>1 DEF NoAttemptYet, BeforeAttempt, Unaware
<1>8. QED  BY <1>2, <1>3, <1>4, <1>5, <1>6, <1>7

(* The attempt, up to the input.                                           *)
LEMMA AttemptKnows ==
    ASSUME IInv, OutcomeInv
    PROVE  /\ \A reply \in Replies :
                PrepareAttempt(reply) \/ Authorize(reply) \/ Cancel(reply) \/ NotSubmitted(reply)
                  => Knows'
           /\ PrepareRefused \/ AuthorizeWhenStopping \/ StartTurn \/ StartRefused \/ StartFails
                => Knows'
<1>0. /\ op.t \in Turns /\ op.proc \in Turns /\ local.proc \in Turns /\ 0 \in Turns
      /\ att \in [Turns -> Attempt] /\ gen[0] # "absent"
  BY Typed DEF OutcomeInv, DurableInv, Processes
<1>1. ASSUME NEW reply \in Replies, PrepareAttempt(reply) PROVE Knows'
  <2>1. /\ op.pc = "prepare" /\ UNCHANGED <<turn, sent, local, gen>>
        /\ op' \in {[op EXCEPT !.pc = "authorize", !.rev = 1], [op EXCEPT !.pc = "stop_missing"]}
    BY <1>1 DEF PrepareAttempt, At, turnVars, procVars
  <2>2. op'.pc \in {"authorize", "stop_missing"} /\ op'.t = op.t /\ op'.proc = op.proc
    BY <2>1 DEF IInv, TypeOK, Op
  <2>3. /\ turn[op.t] = "active" /\ sent[op.t] = 0 /\ gen[op.proc] # "absent"
        /\ local.state # "ready"
    BY <2>1 DEF OutcomeInv, OpKnows, LocalKnows, Idle, NoAttemptYet, BeforeAttempt, IInv, DriverKnowledge
  <2>4. OpKnows'
    BY <2>1, <2>2, <2>3 DEF OpKnows, NoAttemptYet, BeforeAttempt
  <2>5. LocalKnows'
    BY <2>1, <2>3 DEF OutcomeInv, LocalKnows
  <2>6. QED  BY <2>4, <2>5 DEF Knows
<1>2. ASSUME NEW reply \in Replies, Authorize(reply) PROVE Knows'
  <2>1. /\ op.pc = "authorize" /\ UNCHANGED <<turn, sent, local, gen>>
        /\ op' \in {[op EXCEPT !.pc = "start", !.rev = op.rev + 1],
                    [op EXCEPT !.pc = "stop_missing"], [op EXCEPT !.pc = "cancel"]}
    BY <1>2 DEF Authorize, At, turnVars, procVars
  <2>2. op'.pc \in {"start", "cancel", "stop_missing"} /\ op'.t = op.t /\ op'.proc = op.proc
    BY <2>1 DEF IInv, TypeOK, Op
  <2>3. /\ turn[op.t] = "active" /\ sent[op.t] = 0 /\ gen[op.proc] # "absent"
        /\ local.state # "ready"
    BY <2>1 DEF OutcomeInv, OpKnows, LocalKnows, Idle, OpenAttempt
  <2>4. OpKnows'
    BY <2>1, <2>2, <2>3 DEF OpKnows, NoAttemptYet, BeforeAttempt
  <2>5. LocalKnows'
    BY <2>1, <2>3 DEF OutcomeInv, LocalKnows
  <2>6. QED  BY <2>4, <2>5 DEF Knows
<1>3. ASSUME NEW reply \in Replies, Cancel(reply) PROVE Knows'
  <2>1. PICK result : result = CancelAttempt(att[op.t], op.rev)
    OBVIOUS
  <2>2. /\ op.pc = "cancel" /\ UNCHANGED <<turn, sent, local, gen>>
        /\ StoreAttempt(op.t, result, reply)
        /\ Goto(IF Accepted(result, reply) THEN "refuse_bound" ELSE "stop_missing")
    BY <1>3, <2>1 DEF Cancel, At, turnVars, procVars
  <2>3. /\ op'.pc = IF Accepted(result, reply) THEN "refuse_bound" ELSE "stop_missing"
        /\ op'.t = op.t /\ op'.proc = op.proc
    BY <2>2, GotoShape
  <2>4. /\ turn[op.t] = "active" /\ sent[op.t] = 0 /\ gen[op.proc] # "absent"
        /\ local.state # "ready"
    BY <2>2 DEF OutcomeInv, OpKnows, LocalKnows, Idle, OpenAttempt
  <2>5. Accepted(result, reply) => att'[op.t].state = "canceled"
    <3>1. result.outcome # "rejected" => result.row.state = "canceled"
      BY <2>1 DEF CancelAttempt, TransitionAttempt, AttemptResult, Advance
    <3>2. Accepted(result, reply) => att'[op.t] = result.row
      BY <1>0, <2>2 DEF Accepted, StoreAttempt, Commits
    <3>3. QED  BY <3>1, <3>2 DEF Accepted
  <2>6. OpKnows'
    BY <2>2, <2>3, <2>4, <2>5 DEF OpKnows, NoAttemptYet, BeforeAttempt
  <2>7. LocalKnows'
    BY <2>2, <2>4 DEF OutcomeInv, LocalKnows
  <2>8. QED  BY <2>6, <2>7 DEF Knows
<1>4. ASSUME NEW reply \in Replies, NotSubmitted(reply) PROVE Knows'
  <2>1. /\ op # Idle /\ RowsStay /\ local.state # "ready"
        /\ \/ op' = Idle /\ local' \in {local, Local("manual", 0)}
           \/ Goto("stop_marking") /\ local' = local
    BY <1>4 DEF NotSubmitted, At, Idle, procVars, RowsStay, SetRecovery, OutcomeInv, LocalKnows
  <2>2. CASE op' = Idle
    <3>1. local' \in {local, Local("manual", 0)}
      BY <2>1
    <3>2. QED  BY <1>0, <2>1, <2>2, <3>1, CommandEnds DEF OutcomeInv, Knows
  <2>3. CASE Goto("stop_marking") /\ local' = local
    BY <2>1, <2>3, GotoShape, DriverForgets DEF Unaware
  <2>4. QED  BY <2>1, <2>2, <2>3
<1>5. CASE PrepareRefused \/ AuthorizeWhenStopping \/ StartRefused
  <2>1. /\ op # Idle /\ UNCHANGED <<turn, att, sent, local>> /\ RowsStay
        /\ \E move \in {<<"prepare", "refuse_bound">>, <<"authorize", "cancel">>,
                        <<"start", "not_submitted">>} :
             op.pc = move[1] /\ Goto(move[2])
    BY <1>5 DEF PrepareRefused, AuthorizeWhenStopping, StartRefused, At, Idle, turnVars, procVars,
       RowsStay
  <2>2. PICK move \in {<<"prepare", "refuse_bound">>, <<"authorize", "cancel">>,
                       <<"start", "not_submitted">>} :
             op.pc = move[1] /\ Goto(move[2])
    BY <2>1
  <2>3. op'.pc = move[2] /\ op'.t = op.t /\ op'.proc = op.proc
    BY <2>2, GotoShape
  <2>4. QED  BY <2>1, <2>2, <2>3, DriverGoesOn DEF NoAttemptYet, BeforeAttempt, OpenAttempt
<1>6. CASE StartTurn \/ StartFails
  <2>1. /\ op # Idle /\ op.pc = "start" /\ UNCHANGED <<turn, att, gen>> /\ RowsStay
        /\ local' \in {local, Local("active", op.proc)}
        /\ \/ Goto("drive")
           \/ Goto("mark")
    BY <1>6 DEF StartTurn, StartFails, At, Idle, turnVars, RowsStay
  <2>2. op'.pc \in {"drive", "mark"} /\ op'.t = op.t /\ op'.proc = op.proc
    BY <2>1, GotoShape
  <2>3. /\ turn[op.t] = "active" /\ gen[op.proc] # "absent" /\ local.state # "ready"
        /\ gen[local.proc] # "absent"
    BY <2>1 DEF OutcomeInv, OpKnows, LocalKnows, OpenAttempt
  <2>4. OpKnows'
    BY <2>1, <2>2, <2>3 DEF OpKnows, NoAttemptYet, BeforeAttempt, OpenAttempt
  <2>5. LocalKnows'
    BY <2>1, <2>3 DEF LocalKnows, Local
  <2>6. QED  BY <2>4, <2>5 DEF Knows
<1>7. QED  BY <1>1, <1>2, <1>3, <1>4, <1>5, <1>6

(* The running turn and its evidence.                                      *)
LEMMA RunningKnows ==
    ASSUME IInv, OutcomeInv
    PROVE  /\ \A reply \in Replies :
                RecordTurnEvidence(reply) \/ Terminalize(reply) \/ Mark(reply) => Knows'
           /\ TurnCompleted \/ WorkerFails => Knows'
           /\ \A proved \in BOOLEAN : RetireTurn(proved) => Knows'
<1>0. /\ op.t \in Turns /\ op.proc \in Turns /\ local.proc \in Turns /\ 0 \in Turns
      /\ gen[0] # "absent" /\ Knows
  BY Typed DEF OutcomeInv, Knows, DurableInv, Processes
<1>1. ASSUME NEW reply \in Replies, RecordTurnEvidence(reply) \/ Terminalize(reply)
      PROVE  Knows'
  <2>1. /\ op.pc \in {"evidence", "terminalize"} /\ UNCHANGED <<local, gen>>
        /\ op' \in {[op EXCEPT !.pc = "terminalize", !.rev = op.rev + 1],
                    [op EXCEPT !.pc = "mark"], [op EXCEPT !.pc = "retire"],
                    [op EXCEPT !.pc = "mark", !.rev = op.rev - 1]}
    BY <1>1 DEF RecordTurnEvidence, Terminalize, At, procVars
  <2>2. op'.pc \in {"terminalize", "mark", "retire"} /\ op'.proc = op.proc
    BY <2>1 DEF IInv, TypeOK, Op
  <2>3. local.state # "ready"
    BY <2>1 DEF OutcomeInv, LocalKnows, Idle
  <2>4. QED  BY <2>1, <2>2, <2>3, DriverForgets DEF Unaware, RowsStay
<1>2. ASSUME NEW reply \in Replies, Mark(reply) PROVE Knows'
  <2>1. /\ op.pc \in {"mark", "mark_last"} /\ UNCHANGED <<local, gen>>
        /\ op' = Idle \/ Goto("stop_missing")
    BY <1>2 DEF Mark, At, procVars
  <2>2. local.state # "ready"
    BY <2>1 DEF OutcomeInv, LocalKnows, Idle
  <2>3. CASE op' = Idle
    BY <1>0, <2>1, <2>2, <2>3, CommandEnds DEF RowsStay
  <2>4. CASE Goto("stop_missing")
    BY <2>1, <2>2, <2>4, GotoShape, DriverForgets DEF Unaware, RowsStay
  <2>5. QED  BY <2>1, <2>3, <2>4
<1>3. CASE TurnCompleted
  <2>1. /\ op.pc = "drive" /\ UNCHANGED <<turn, gen, world, local>>
        /\ world[op.t] \in {"ok", "failed"}
        /\ op' = [op EXCEPT !.pc = "evidence",
                            !.outcome = IF world[op.t] = "ok" THEN "succeeded"
                                                              ELSE "failed_definitive"]
    BY <1>3 DEF TurnCompleted, At, turnVars, procVars
  <2>2. /\ op'.pc = "evidence" /\ op'.t = op.t /\ op'.proc = op.proc
        /\ op'.outcome = IF world[op.t] = "ok" THEN "succeeded" ELSE "failed_definitive"
    BY <2>1 DEF IInv, TypeOK, Op
  <2>3. turn[op.t] = "active" /\ gen[op.proc] # "absent" /\ local.state # "ready"
    BY <2>1 DEF OutcomeInv, OpKnows, LocalKnows, Idle
  <2>4. OpKnows'
    BY <2>1, <2>2, <2>3 DEF OpKnows, NoAttemptYet, BeforeAttempt, OpenAttempt
  <2>5. LocalKnows'
    BY <2>1, <2>3 DEF OutcomeInv, LocalKnows
  <2>6. QED  BY <2>4, <2>5 DEF Knows
<1>4. CASE WorkerFails
  <2>1. op.pc = "drive" /\ UNCHANGED <<local, gen>> /\ Goto("mark")
    BY <1>4 DEF WorkerFails, At, procVars
  <2>2. local.state # "ready"
    BY <2>1 DEF OutcomeInv, LocalKnows, Idle
  <2>3. QED  BY <2>1, <2>2, GotoShape, DriverForgets DEF Unaware, RowsStay
<1>5. ASSUME NEW proved \in BOOLEAN, RetireTurn(proved) PROVE Knows'
  <2>1. /\ Retire(op.proc, proved) /\ op' = Idle /\ op.pc = "retire"
        /\ local' \in {NoLocal, Local("manual", 0)}
    BY <1>5 DEF RetireTurn, At
  <2>2. RowsStay /\ local.state # "ready"
    BY <1>0, <2>1, RetireStays DEF OutcomeInv, OpKnows, LocalKnows, Idle
  <2>3. QED  BY <1>0, <2>1, <2>2, CommandEnds
<1>6. QED  BY <1>1, <1>2, <1>3, <1>4, <1>5

(* The ways out of a command.                                              *)
LEMMA WayOutKnows ==
    ASSUME IInv, OutcomeInv
    PROVE  /\ \A proved \in BOOLEAN : Stop(proved) => Knows'
           /\ \A reply \in Replies :
                Refuse(reply) \/ RefuseBound(reply) \/ RecoverBound(reply) \/ Settle(reply)
                  => Knows'
<1>0. /\ op.t \in Turns /\ op.proc \in Turns /\ local.proc \in Turns /\ 0 \in Turns
      /\ gen[0] # "absent" /\ Knows /\ DurableInv
  BY Typed DEF OutcomeInv, Knows, DurableInv, Processes
<1>1. ASSUME NEW proved \in BOOLEAN, Stop(proved) PROVE Knows'
  <2>1. /\ Retire(op.proc, proved) /\ AfterStop /\ UNCHANGED <<turn, att, sent>>
        /\ op.pc \in {"stop_missing", "stop_manual", "stop_marking", "stop_refuse",
                      "stop_reconcile", "prior"}
    BY <1>1 DEF Stop, turnVars
  <2>2. op # Idle /\ RowsStay /\ local.state # "ready"
    BY <1>0, <2>1, RetireStays DEF Idle, OutcomeInv, OpKnows, LocalKnows
  <2>3. CASE op.pc \in {"stop_missing", "stop_manual"}
    <3>1. op' = Idle /\ local' \in {local, Local("missing", 0), Local("manual", 0)}
      BY <2>1, <2>3 DEF AfterStop, At, SetRecovery
    <3>2. QED  BY <1>0, <2>2, <3>1, CommandEnds
  <2>4. CASE op.pc = "stop_marking"
    <3>1. Goto("mark_last") /\ local' \in {local, Local("missing", 0)}
      BY <2>1, <2>4 DEF AfterStop, At, SetRecovery
    <3>2. QED  BY <2>2, <3>1, GotoShape, DriverForgets DEF Unaware
  <2>5. CASE op.pc \in {"stop_refuse", "stop_reconcile", "prior"}
    <3>1. /\ local' = local
          /\ Goto(IF op.pc = "stop_refuse" THEN "refuse_bound"
                  ELSE IF op.pc = "prior" THEN "launch" ELSE "reconcile")
      BY <2>1, <2>5 DEF AfterStop, At
    <3>2. PICK pc : /\ pc = IF op.pc = "stop_refuse" THEN "refuse_bound"
                            ELSE IF op.pc = "prior" THEN "launch" ELSE "reconcile"
                    /\ op'.pc = pc /\ op'.t = op.t /\ op'.proc = op.proc
      BY <3>1, GotoShape
    <3>3. QED
      BY <2>1, <2>2, <2>5, <3>1, <3>2, DriverGoesOn DEF NoAttemptYet, BeforeAttempt, OpenAttempt
  <2>6. QED  BY <2>1, <2>3, <2>4, <2>5
<1>2. ASSUME NEW reply \in Replies, Refuse(reply) PROVE Knows'
  <2>1. /\ op.pc \in {"refuse", "refuse_manual"} /\ op # Idle /\ RowsStay
        /\ local.state # "ready"
    BY <1>2 DEF Refuse, Idle, OutcomeInv, LocalKnows, procVars, RowsStay
  <2>2. CASE reply # "ok"
    BY <1>2, <2>1, <2>2, AmbiguousEnd DEF Refuse
  <2>3. CASE reply = "ok"
    <3>1. op' = Idle /\ local' \in {local, Local("manual", 0)}
      BY <1>2, <2>3 DEF Refuse, SetRecovery
    <3>2. QED  BY <1>0, <2>1, <3>1, CommandEnds
  <2>4. QED  BY <2>2, <2>3
<1>3. ASSUME NEW reply \in Replies, RefuseBound(reply) \/ RecoverBound(reply) PROVE Knows'
  <2>1. /\ op.pc \in {"refuse_bound", "recover_bound"} /\ gen' = gen /\ local.state # "ready"
        /\ \/ /\ RefuseBound(reply) /\ reply = "ok"
              /\ op' = Idle /\ RestoreReady(op.proc)
           \/ /\ local' = local
              /\ \E pc \in {"stop_manual", "stop_missing"} : Goto(pc)
    BY <1>3 DEF RefuseBound, RecoverBound, At, Idle, OutcomeInv, LocalKnows, procVars
  <2>2. CASE RefuseBound(reply) /\ reply = "ok" /\ op' = Idle /\ RestoreReady(op.proc)
    <3>1. /\ FailTurn(op.t, reply) /\ Commits(reply) /\ op.pc = "refuse_bound"
          /\ UNCHANGED <<bound, att, session, gen, alive, world, sent>>
      BY <2>2 DEF RefuseBound, At, Commits, procVars
    <3>2. turn[op.t] = "active" /\ att[op.t].state \in {"none", "canceled"}
      BY <3>1 DEF OutcomeInv, OpKnows, OpenAttempt
    <3>3. NoneOpen'
      BY <1>0, <3>1, <3>2, UnsentClosesWell, FailDurable
    <3>4. OpKnows'
      BY <1>0, <2>2, <3>1 DEF Idle, OpKnows, NoAttemptYet, BeforeAttempt, OpenAttempt
    <3>5. LocalKnows'
      BY <1>0, <2>1, <2>2, <3>3 DEF RestoreReady, Local, OutcomeInv, OpKnows, LocalKnows
    <3>6. QED  BY <3>4, <3>5 DEF Knows
  <2>3. CASE local' = local /\ \E pc \in {"stop_manual", "stop_missing"} : Goto(pc)
    BY <2>1, <2>3, GotoShape, DriverForgets DEF Unaware, RowsStay
  <2>4. QED  BY <2>1, <2>2, <2>3
<1>4. ASSUME NEW reply \in Replies, Settle(reply) PROVE Knows'
  <2>1. op.pc = "settle" /\ op' = Idle /\ gen' = gen /\ local' \in {local, NoLocal}
    BY <1>4 DEF Settle, At, RemoveRecovery, procVars
  <2>2. local.state # "ready"
    BY <2>1 DEF Idle, OutcomeInv, LocalKnows
  <2>3. QED  BY <1>0, <2>1, <2>2, CommandEnds DEF RowsStay
<1>5. QED  BY <1>1, <1>2, <1>3, <1>4

(* The control command, the processes and the host.                        *)
LEMMA OutsideKnows ==
    ASSUME IInv, OutcomeInv, Control \/ Environment \/ \E proved \in BOOLEAN : CloseRuntime(proved)
    PROVE  Knows'
<1>0. /\ op.t \in Turns /\ op.proc \in Turns /\ local.proc \in Turns /\ 0 \in Turns
      /\ gen \in [Turns -> GenStates] /\ world \in [Turns -> WorldStates]
      /\ gen[0] # "absent" /\ Knows
  BY Typed DEF OutcomeInv, Knows, DurableInv, Processes
<1>1. ASSUME NEW t \in Turns, NEW reply \in Replies,
             ControlPending(t, reply) \/ ControlClose(t, reply) \/ ControlStranded(t, reply)
      PROVE  Knows'
  <2>1. /\ turn[t] = "active" /\ op = Idle /\ op' = Idle /\ gen' = gen
        /\ local' \in {local, NoLocal}
    BY <1>1 DEF ControlPending, PendingTurn, ControlClose, ControlStranded, StrandedTurn,
       Controllable, UnknownTurn, RemoveRecovery, procVars
  <2>2. local.state # "ready"
    BY <2>1 DEF OutcomeInv, LocalKnows, NoneOpen
  <2>3. QED  BY <1>0, <2>1, <2>2, CommandEnds DEF RowsStay
<1>2. ASSUME NEW t \in Turns, NEW reply \in Replies, ControlObserve(t, reply) PROVE Knows'
  <2>1. PICK outcome \in Observations(t) \ {"none"} :
           op' \in {op, [Idle EXCEPT !.pc = "settle", !.t = t, !.rev = att[t].rev + 1,
                                     !.outcome = outcome]}
    BY <1>2 DEF ControlObserve, Observed
  <2>2. turn[t] = "active" /\ op = Idle /\ UNCHANGED <<gen, local>>
    BY <1>2 DEF ControlObserve, Controllable, UnknownTurn, procVars
  <2>3. local.state # "ready"
    BY <2>2 DEF OutcomeInv, LocalKnows, NoneOpen
  <2>4. CASE op' = op
    BY <1>0, <2>2, <2>3, <2>4, CommandEnds DEF RowsStay
  <2>5. CASE op' # op
    <3>1. op' = [pc |-> "settle", t |-> t, proc |-> 0, prior |-> 0, rev |-> att[t].rev + 1,
                 outcome |-> outcome]
      BY <2>1, <2>5 DEF Idle
    <3>2. QED  BY <2>2, <2>3, <3>1, DriverForgets DEF Unaware, RowsStay
  <2>6. QED  BY <2>4, <2>5
<1>3. ASSUME NEW reply \in Replies, ControlArchive(reply) PROVE Knows'
  <2>1. /\ op = Idle /\ op' = Idle /\ UNCHANGED <<turn, att, sent, gen, world>>
        /\ local' \in {local, NoLocal}
    BY <1>3 DEF ControlArchive, Controllable, turnVars, procVars
  <2>2. QED  BY <1>0, <2>1, DriverWaits DEF RowsStay
<1>4. ASSUME NEW t \in Turns,
             ProcessExits(t) \/ DeathRecorded(t) \/ ProviderFinishes(t)
      PROVE  Knows'
  <2>1. UNCHANGED <<turn, att, sent, op, local>>
    BY <1>4 DEF ProcessExits, DeathRecorded, ProviderFinishes, turnVars
  <2>2. RowsStay
    BY <1>0, <1>4 DEF ProcessExits, DeathRecorded, ProviderFinishes, RowsStay
  <2>3. \A u \in Turns : world[u] \in {"ok", "failed"} => world'[u] = world[u]
    BY <1>0, <1>4 DEF ProcessExits, DeathRecorded, ProviderFinishes, Cut
  <2>4. QED  BY <1>0, <2>1, <2>2, <2>3, DriverWaits
<1>5. CASE Shutdown
  BY <1>0, <1>5, DriverWaits DEF Shutdown, RowsStay, turnVars, procVars
<1>6. CASE Restart
  <2>1. RowsStay
    BY <1>0, <1>6 DEF Restart, RowsStay
  <2>2. op' = Idle /\ local' = NoLocal /\ UNCHANGED turn
    BY <1>6 DEF Restart, turnVars
  <2>3. OpKnows' /\ LocalKnows'
    BY <1>0, <2>1, <2>2 DEF RowsStay, Idle, NoLocal, Local, OpKnows, LocalKnows, NoAttemptYet,
       BeforeAttempt, OpenAttempt
  <2>4. QED  BY <2>3 DEF Knows
<1>7. ASSUME NEW proved \in BOOLEAN, CloseRuntime(proved) PROVE Knows'
  <2>1. /\ UNCHANGED <<turn, att, sent, op>> /\ local' = NoLocal
        /\ Retire(local.proc, proved) \/ UNCHANGED <<gen, world>>
    BY <1>7 DEF CloseRuntime, turnVars, procVars
  <2>2. RowsStay /\ \A t \in Turns : world[t] \in {"ok", "failed"} => world'[t] = world[t]
    BY <1>0, <2>1, RetireStays DEF RowsStay, Knows, LocalKnows
  <2>3. QED  BY <1>0, <2>1, <2>2, DriverWaits
<1>8. QED
  BY <1>1, <1>2, <1>3, <1>4, <1>5, <1>6, <1>7 DEF Control, Environment

(* Every step leads the driver only where it knows.                        *)
LEMMA KnowsStep ==
    ASSUME IInv, OutcomeInv, [Next]_vars
    PROVE  Knows'
<1>1. CASE UNCHANGED vars
  BY <1>1 DEF vars, turnVars, procVars, OutcomeInv, Knows, OpKnows, LocalKnows, NoneOpen
<1>2. ASSUME NEW reply \in Replies, CommandStep(reply) PROVE Knows'
  BY <1>2, SubmissionKnows, LaunchKnows, AttemptKnows, RunningKnows, WayOutKnows DEF CommandStep
<1>3. CASE Driver
  BY <1>2, <1>3, SubmissionKnows, LaunchKnows, AttemptKnows, RunningKnows, WayOutKnows DEF Driver
<1>4. CASE WorkerFails
  BY <1>4, RunningKnows
<1>5. CASE \E t \in Turns : Submit(t)
  BY <1>5, SubmissionKnows
<1>6. QED  BY <1>1, <1>3, <1>4, <1>5, OutsideKnows DEF Next

----------------------------------------------------------------------------
(* The theorems.                                                           *)

(* The inductive invariant holds throughout: every step keeps what the     *)
(* durable rows say of the input, and what the driver knows at each place. *)
THEOREM OutcomeInvariance == Spec => []OutcomeInv
<1>1. IInv /\ OutcomeInv /\ [Next]_vars => OutcomeInv'
  BY DurableStep, KnowsStep DEF OutcomeInv, Knows
<1>2. QED  BY <1>1, InitOutcomeInv, TurnInvariance, PTL DEF Spec

(* Whichever command, worker or control command closed it, no process      *)
(* works on the input of a turn that is completed or failed.               *)
THEOREM ClosedTurnsHaveNoEffect == Spec => []ClosedTurnHasNoEffect
<1>1. OutcomeInv => ClosedTurnHasNoEffect
  BY DEF OutcomeInv, DurableInv, Closings, Closed, ClosedWell, ClosedTurnHasNoEffect
<1>2. QED  BY <1>1, OutcomeInvariance, PTL

(* The evidence the worker or a control command records is how the         *)
(* provider ended, and a canceled or unsubmitted input reached no process. *)
THEOREM RecordedOutcomesAreTrue == Spec => []RecordedOutcomeIsTrue
<1>1. OutcomeInv => RecordedOutcomeIsTrue
  BY DEF OutcomeInv, DurableInv, Effects, RecordedOutcomeIsTrue
<1>2. QED  BY <1>1, OutcomeInvariance, PTL

(* A closed turn is completed exactly if its attempt succeeded.            *)
THEOREM TurnsAgreeWithAttempts == Spec => []TurnAgreesWithAttempt
<1>1. OutcomeInv => TurnAgreesWithAttempt
  BY DEF OutcomeInv, DurableInv, Closings, Closed, ClosedWell, TurnAgreesWithAttempt
<1>2. QED  BY <1>1, OutcomeInvariance, PTL

(* A conversation offered as Ready has only settled turns and attempts,    *)
(* which a Ready submission relies on without a look.                      *)
THEOREM ReadyIsSettled == Spec => []ReadyMeansSettled
<1>1. IInv /\ OutcomeInv => ReadyMeansSettled
  <2> SUFFICES ASSUME IInv, OutcomeInv, local.state = "ready", NEW t \in Turns
               PROVE  /\ op = Idle /\ turn[t] # "active"
                      /\ att[t].state \in UnresolvedAttempt =>
                           turn[t] = "failed" /\ gen[att[t].gen] = "dead"
    BY DEF ReadyMeansSettled, OutcomeInv, LocalKnows
  <2>1. op = Idle /\ turn[t] # "active" /\ turn[t] \in TurnStates
    BY Typed DEF OutcomeInv, LocalKnows, NoneOpen
  <2>2. att[t].state \in UnresolvedAttempt => Closed(t)
    BY <2>1 DEF IInv, AbsentIsUntouched, NoAttempt, UnresolvedAttempt, TurnStates, Closed
  <2>3. QED
    BY <2>1, <2>2 DEF OutcomeInv, DurableInv, Closings, Closed, ClosedWell, UnresolvedAttempt
<1>2. QED  BY <1>1, OutcomeInvariance, TurnInvariance, PTL

(* One step hands an input over only when no other turn is open and no     *)
(* other input worked on.                                                  *)
LEMMA SendStepAlone ==
    ASSUME IInv, OutcomeInv, [Next]_vars, NEW t \in Turns, sent'[t] # sent[t],
           NEW u \in Turns \ {t}
    PROVE  turn[u] # "active" /\ world[u] # "running"
<1>1. sent[t] = 0 /\ att[t].state = "dispatch_authorized"
  BY SendStepAuthorized
<1>2. turn[t] = "active"
  <2>1. turn[t] # "absent" /\ turn[t] \in TurnStates
    BY <1>1, Typed DEF IInv, AbsentIsUntouched, NoAttempt
  <2>2. ~Closed(t)
    BY <1>1 DEF OutcomeInv, DurableInv, Closings, ClosedWell
  <2>3. QED  BY <2>1, <2>2 DEF TurnStates, Closed
<1>3. turn[u] # "active" /\ turn[u] \in TurnStates
  BY <1>2, Typed DEF OutcomeInv, DurableInv, OneOpen
<1>4. CASE turn[u] = "absent"
  BY <1>3, <1>4 DEF IInv, AbsentIsUntouched, OutcomeInv, DurableInv, Effects
<1>5. CASE Closed(u)
  BY <1>3, <1>5 DEF OutcomeInv, DurableInv, Closings, ClosedWell
<1>6. QED  BY <1>3, <1>4, <1>5 DEF TurnStates, Closed

(* start_authorized_dispatch never hands an input over while another turn  *)
(* is open or another input worked on, in this thread or one given up.     *)
THEOREM SendsAreAlone == Spec => SendIsAlone
<1>1. IInv /\ OutcomeInv /\ [Next]_vars =>
        [\A t \in Turns : sent'[t] # sent[t] =>
           \A u \in Turns \ {t} : turn[u] # "active" /\ world[u] # "running"]_vars
  BY SendStepAlone
<1>2. QED  BY <1>1, OutcomeInvariance, TurnInvariance, PTL DEF Spec, SendIsAlone

----------------------------------------------------------------------------
(* What a step does to the turns, their attempts and their inputs.         *)

(* Nothing, seen from outside: at most the attempt of an open turn moves.  *)
StillStep ==
    UNCHANGED <<turn, world>> /\ \A t \in Turns : Closed(t) => att'[t] = att[t]

ReserveStep ==
    op.pc = "reserve" /\ turn' = [turn EXCEPT ![op.t] = "active"] /\ UNCHANGED <<att, world>>

CloseStep(t) ==
    /\ turn[t] = "active" /\ UNCHANGED world
    /\ \E state \in {"completed", "failed"} : turn' = [turn EXCEPT ![t] = state]
    /\ \A u \in Turns \ {t} : att'[u] = att[u]

EndStep ==
    /\ UNCHANGED <<turn, att>>
    /\ \A t \in Turns : world'[t] # world[t] =>
         world[t] = "running" /\ world'[t] \in {"ok", "failed", "cut"}

(* Turns terminalized or given up, if the store call commits.              *)
LEMMA TerminalizeShapes ==
    ASSUME IInv, NEW t \in Turns, NEW rev, NEW outcome, NEW reply,
           TerminalizeTurn(t, rev, outcome, reply), UNCHANGED <<att, world>>
    PROVE  StillStep \/ CloseStep(t)
  BY DEF TerminalizeTurn, TerminalizationMatches, StillStep, CloseStep

LEMMA FailShapes ==
    ASSUME IInv, NEW t \in Turns, NEW reply, FailTurn(t, reply), turn[t] = "active",
           UNCHANGED <<att, world>>
    PROVE  StillStep \/ CloseStep(t)
  BY DEF FailTurn, StillStep, CloseStep

(* A termination ends inputs, at most.                                     *)
LEMMA RetireShapes ==
    ASSUME IInv, NEW g, NEW proved, Retire(g, proved), UNCHANGED <<turn, att>>
    PROVE  EndStep
<1>1. world' = world \/ world' = Cut(g)
  BY DEF Retire
<1>2. QED  BY <1>1 DEF Cut, EndStep

StepShape == StillStep \/ ReserveStep \/ EndStep \/ \E t \in Turns : CloseStep(t)

(* The steps that write no attempt and hand over no input.                 *)
LEMMA QuietShapes ==
    ASSUME IInv, OutcomeInv, QuietAction
    PROVE  StepShape
<1>0. op.t \in Turns /\ op.proc \in Turns /\ local.proc \in Turns /\ turn \in [Turns -> TurnStates]
  BY Typed
<1>1. ASSUME UNCHANGED <<turn, att, world>> PROVE StepShape
  BY <1>1 DEF StepShape, StillStep
<1>2. ASSUME NEW t \in Turns,
             Submit(t) \/ ProcessExits(t) \/ DeathRecorded(t) \/ ProviderFinishes(t)
      PROVE  StepShape
  <2>1. CASE Submit(t) \/ DeathRecorded(t)
    BY <1>1, <2>1 DEF Submit, DeathRecorded, turnVars, procVars
  <2>2. CASE ProcessExits(t)
    BY <2>2 DEF ProcessExits, Cut, EndStep, StepShape, turnVars
  <2>3. CASE ProviderFinishes(t)
    BY <2>3, Typed DEF ProviderFinishes, EndStep, StepShape, turnVars
  <2>4. QED  BY <1>2, <2>1, <2>2, <2>3
<1>3. ASSUME NEW reply \in Replies, Reserve(reply) PROVE StepShape
  BY <1>1, <1>3 DEF Reserve, At, StepShape, ReserveStep, procVars
<1>4. ASSUME NEW reply \in Replies,
             \/ PlanFails(reply) \/ AdmissionFails(reply) \/ Reconcile(reply)
             \/ FenceThread(reply) \/ BindThread(reply) \/ ControlArchive(reply)
      PROVE  StepShape
  BY <1>1, <1>4 DEF PlanFails, AdmissionFails, Reconcile, FenceThread, BindThread,
     ControlArchive, turnVars, procVars
<1>5. ASSUME NEW reply \in Replies, Terminalize(reply) \/ Settle(reply) PROVE StepShape
  <2>1. /\ TerminalizeTurn(op.t, op.rev, op.outcome, reply)
        /\ UNCHANGED <<att, world>>
    BY <1>5 DEF Terminalize, Settle, procVars
  <2>2. QED  BY <1>0, <2>1, TerminalizeShapes DEF StepShape
<1>6. ASSUME NEW reply \in Replies, Refuse(reply) \/ RefuseBound(reply) \/ RecoverBound(reply)
      PROVE  StepShape
  <2>1. FailTurn(op.t, reply) /\ UNCHANGED <<att, world>>
    BY <1>6 DEF Refuse, RefuseBound, RecoverBound, procVars
  <2>2. turn[op.t] = "active"
    BY <1>6 DEF Refuse, RefuseBound, RecoverBound, At, OutcomeInv, OpKnows, NoAttemptYet, OpenAttempt
  <2>3. QED  BY <1>0, <2>1, <2>2, FailShapes DEF StepShape
<1>7. ASSUME NEW t \in Turns, NEW reply \in Replies,
             ControlPending(t, reply) \/ ControlClose(t, reply) \/ ControlStranded(t, reply)
      PROVE  StepShape
  <2>1. CASE ControlPending(t, reply)
    <3>1. TerminalizeTurn(t, att[t].rev, att[t].state, reply) /\ UNCHANGED <<att, world>>
      BY <2>1 DEF ControlPending, procVars
    <3>2. QED  BY <3>1, TerminalizeShapes DEF StepShape
  <2>2. CASE ControlClose(t, reply) \/ ControlStranded(t, reply)
    <3>1. FailTurn(t, reply) /\ turn[t] = "active" /\ UNCHANGED <<att, world>>
      BY <2>2 DEF ControlClose, UnknownTurn, ControlStranded, StrandedTurn, procVars
    <3>2. QED  BY <3>1, FailShapes DEF StepShape
  <2>3. QED  BY <1>7, <2>1, <2>2
<1>8. ASSUME NEW proved \in BOOLEAN, RetireTurn(proved) \/ Stop(proved) \/ CloseRuntime(proved)
      PROVE  StepShape
  <2>1. /\ UNCHANGED <<turn, att>>
        /\ \/ \E g \in Turns : Retire(g, proved)
           \/ UNCHANGED world
    BY <1>0, <1>8 DEF RetireTurn, Stop, CloseRuntime, turnVars, procVars
  <2>2. QED  BY <1>1, <2>1, RetireShapes DEF StepShape
<1>9. CASE \/ PlanSameThread \/ PlanFallback \/ PlanRefused \/ Launch \/ LaunchFails
           \/ Resume \/ ResumeFails \/ ThreadStartFails \/ PrepareRefused
           \/ AuthorizeWhenStopping \/ StartRefused \/ TurnCompleted \/ WorkerFails \/ Shutdown
  BY <1>1, <1>9 DEF PlanSameThread, PlanFallback, PlanRefused, Launch, LaunchFails, Resume,
     ResumeFails, ThreadStartFails, PrepareRefused, AuthorizeWhenStopping, StartRefused,
     TurnCompleted, WorkerFails, Shutdown, turnVars, procVars
<1>10. QED
  BY <1>2, <1>3, <1>4, <1>5, <1>6, <1>7, <1>8, <1>9 DEF QuietAction

(* An attempt is stored while its turn is open, or stays as it is.         *)
LEMMA StoreShapes ==
    ASSUME IInv, NEW t \in Turns, NEW result, NEW reply, StoreAttempt(t, result, reply),
           result.row = att[t] \/ ~Closed(t), UNCHANGED <<turn, world>>
    PROVE  StepShape
<1>1. att \in [Turns -> Attempt]
  BY Typed
<1>2. QED  BY <1>1 DEF StoreAttempt, StepShape, StillStep

(* The steps that write an attempt.                                        *)
LEMMA AttemptShapes ==
    ASSUME IInv, OutcomeInv, AttemptAction
    PROVE  StepShape
<1>0. op.t \in Turns /\ att \in [Turns -> Attempt] /\ turn \in [Turns -> TurnStates]
  BY Typed
<1>1. ASSUME NEW reply \in Replies, PrepareAttempt(reply) PROVE StepShape
  <2>1. /\ UNCHANGED <<turn, world>>
        /\ att' = att \/ att' = [att EXCEPT ![op.t] = PreparedAttempt(op.proc, session.n)]
    BY <1>1 DEF PrepareAttempt, turnVars, procVars
  <2>2. ~Closed(op.t)
    BY <1>1 DEF PrepareAttempt, At, OutcomeInv, OpKnows, NoAttemptYet, BeforeAttempt, Closed
  <2>3. QED  BY <1>0, <2>1, <2>2 DEF StepShape, StillStep
<1>2. ASSUME NEW reply \in Replies, Authorize(reply) \/ Cancel(reply) \/ RecordTurnEvidence(reply)
      PROVE  StepShape
  <2>1. \E result : StoreAttempt(op.t, result, reply)
    BY <1>2 DEF Authorize, Cancel, RecordTurnEvidence
  <2>2. UNCHANGED <<turn, world>>
    BY <1>2 DEF Authorize, Cancel, RecordTurnEvidence, turnVars, procVars
  <2>3. ~Closed(op.t)
    BY <1>2 DEF Authorize, Cancel, RecordTurnEvidence, At, OutcomeInv, OpKnows, OpenAttempt, Closed
  <2>4. QED  BY <1>0, <2>1, <2>2, <2>3, StoreShapes
<1>3. ASSUME NEW reply \in Replies, NotSubmitted(reply) PROVE StepShape
  <2>1. /\ att' = att \/ \E row : att' = [att EXCEPT ![op.t] = row]
        /\ turn' = turn \/ turn' = [turn EXCEPT ![op.t] = "failed"]
        /\ UNCHANGED world /\ turn[op.t] = "active"
    BY <1>3 DEF NotSubmitted, StoreAttempt, FailTurn, procVars, At, OutcomeInv, OpKnows, OpenAttempt
  <2>2. \A u \in Turns \ {op.t} : att'[u] = att[u]
    BY <1>0, <2>1
  <2>3. CASE turn' = turn
    BY <2>1, <2>2, <2>3 DEF StepShape, StillStep, Closed
  <2>4. CASE turn' = [turn EXCEPT ![op.t] = "failed"]
    BY <1>0, <2>1, <2>2, <2>4 DEF StepShape, CloseStep
  <2>5. QED  BY <2>1, <2>3, <2>4
<1>4. ASSUME NEW reply \in Replies, Mark(reply) PROVE StepShape
  <2>1. PICK result : result = MarkUnknown(att[op.t], op.rev)
    OBVIOUS
  <2>2. StoreAttempt(op.t, result, reply) /\ UNCHANGED <<turn, world>>
    BY <1>4, <2>1 DEF Mark, turnVars, procVars
  <2>3. result.row = att[op.t] \/ att[op.t].state = "dispatch_authorized"
    BY <2>1 DEF MarkUnknown, TransitionAttempt, AttemptResult
  <2>4. att[op.t].state = "dispatch_authorized" => ~Closed(op.t)
    BY <1>0 DEF OutcomeInv, DurableInv, Closings, ClosedWell
  <2>5. QED  BY <1>0, <2>2, <2>3, <2>4, StoreShapes
<1>5. ASSUME NEW t \in Turns, NEW reply \in Replies, ControlObserve(t, reply) PROVE StepShape
  <2>1. \E result : StoreAttempt(t, result, reply)
    BY <1>5 DEF ControlObserve
  <2>2. UNCHANGED <<turn, world>> /\ ~Closed(t)
    BY <1>5 DEF ControlObserve, UnknownTurn, Closed, turnVars, procVars
  <2>3. QED  BY <2>1, <2>2, StoreShapes
<1>6. CASE Restart
  <2>1. /\ UNCHANGED <<turn, world>>
        /\ \A t \in Turns : att[t].state \notin {"prepared", "dispatch_authorized"} => att'[t] = att[t]
    BY <1>6 DEF Restart, ProjectAttempt, turnVars
  <2>2. QED
    BY <2>1 DEF OutcomeInv, DurableInv, Closings, ClosedWell, StepShape, StillStep
<1>7. QED
  BY <1>1, <1>2, <1>3, <1>4, <1>5, <1>6 DEF AttemptAction

(* An input is handed over, or the step shows nothing.                     *)
LEMMA SendShapes ==
    ASSUME IInv, OutcomeInv, SendAction
    PROVE  StepShape \/ (op.pc = "start" /\ Send /\ UNCHANGED <<turn, att>>)
  BY DEF SendAction, StartTurn, StartFails, At, StepShape, StillStep, turnVars

LEMMA StepShapes ==
    ASSUME IInv, OutcomeInv, [Next]_vars
    PROVE  StepShape \/ (op.pc = "start" /\ Send /\ UNCHANGED <<turn, att>>)
<1>1. CASE UNCHANGED vars
  BY <1>1 DEF vars, turnVars, procVars, StepShape, StillStep
<1>2. QED  BY <1>1, QuietShapes, AttemptShapes, SendShapes, StepKinds

(* A closed turn and its attempt never change again.                       *)
LEMMA ClosedStays ==
    ASSUME IInv, OutcomeInv, [Next]_vars, NEW t \in Turns, Closed(t)
    PROVE  turn'[t] = turn[t] /\ att'[t] = att[t]
<1>0. op.t \in Turns /\ turn \in [Turns -> TurnStates]
  BY Typed
<1>1. CASE StillStep \/ EndStep \/ UNCHANGED <<turn, att>>
  BY <1>1 DEF StillStep, EndStep
<1>2. CASE ReserveStep
  BY <1>0, <1>2 DEF ReserveStep, IInv, DriverKnowledge, Closed
<1>3. ASSUME NEW u \in Turns, CloseStep(u) PROVE turn'[t] = turn[t] /\ att'[t] = att[t]
  BY <1>0, <1>3 DEF CloseStep, Closed
<1>4. QED  BY <1>1, <1>2, <1>3, StepShapes DEF StepShape

(* A turn that was made stays made.                                        *)
LEMMA MadeStays ==
    ASSUME IInv, OutcomeInv, [Next]_vars, NEW t \in Turns, turn[t] # "absent"
    PROVE  turn'[t] # "absent"
<1>0. op.t \in Turns /\ turn \in [Turns -> TurnStates]
  BY Typed
<1>1. CASE StillStep \/ EndStep \/ UNCHANGED <<turn, att>>
  BY <1>1 DEF StillStep, EndStep
<1>2. CASE ReserveStep
  BY <1>0, <1>2 DEF ReserveStep
<1>3. ASSUME NEW u \in Turns, CloseStep(u) PROVE turn'[t] # "absent"
  BY <1>0, <1>3 DEF CloseStep
<1>4. QED  BY <1>1, <1>2, <1>3, StepShapes DEF StepShape

----------------------------------------------------------------------------
(* Where a command may be, with which process, session and local task.     *)

(* Places only reached in a bound session, and only with a process.        *)
InThread == {"reserve", "plan", "resume", "prepare", "authorize", "cancel", "stop_refuse",
             "refuse_bound"}
WithProcess == {"resume", "fence", "bind", "prepare", "authorize", "cancel", "start",
                "not_submitted", "stop_refuse", "refuse_bound"}

(* Places where no task of the conversation is under way.                  *)
AtRest ==
    \/ op.pc \in {"idle", "settle", "mark_last", "refuse"}
    \/ op.pc \in {"reserve", "plan"} /\ op.prior = 0

Resting(state) == state \notin {"active", "preparing"}

PathKnows ==
    /\ op.pc = "idle" => op = Idle
    /\ session.state = "ended" => op = Idle /\ NoneOpen
    /\ op.pc \in InThread => session.state = "active"
    /\ op.pc \in WithProcess => op.proc # 0
    /\ op.prior # 0 => op.proc # 0
    /\ op.pc = "reserve" => \A u \in Turns : u < op.t => turn[u] # "absent"
    /\ local.state = "ready" => session.state \in {"active", "ended"} /\ local.proc # 0
    /\ AtRest => Resting(local.state)

(* While a command is under way, its conversation is not archived and not  *)
(* Ready.                                                                  *)
LEMMA PathBusy ==
    ASSUME IInv, OutcomeInv, PathKnows, op.pc # "idle"
    PROVE  op # Idle /\ session.state # "ended" /\ local.state # "ready"
  BY DEF Idle, PathKnows, OutcomeInv, LocalKnows

(* A command goes on.                                                      *)
LEMMA PathMoves ==
    ASSUME IInv, OutcomeInv, PathKnows, op.pc # "idle", NEW pc,
           op'.pc = pc, op'.proc = op.proc, op'.prior = op.prior,
           session'.state # "ended", local'.state # "ready",
           pc \notin {"idle", "reserve"},
           pc \in InThread => session'.state = "active",
           pc \in WithProcess => op.pc \in WithProcess \/ op.prior # 0,
           pc \in {"settle", "mark_last", "refuse"} => Resting(local'.state),
           pc = "plan" /\ op.prior = 0 => Resting(local'.state)
    PROVE  PathKnows'
  BY DEF PathKnows, AtRest, Resting, Idle

(* A change of place that leaves the session and the local task alone.     *)
LEMMA PathGoto ==
    ASSUME IInv, OutcomeInv, PathKnows, op.pc # "idle", NEW pc, Goto(pc),
           UNCHANGED <<session, local>>, pc \notin {"idle", "reserve"},
           pc \in InThread => op.pc \in InThread,
           pc \in WithProcess => op.pc \in WithProcess \/ op.prior # 0,
           pc \in {"settle", "mark_last", "refuse"} => AtRest,
           pc = "plan" => op.pc = "reserve"
    PROVE  PathKnows'
<1>1. op'.pc = pc /\ op'.proc = op.proc /\ op'.prior = op.prior
  BY DEF Goto, IInv, TypeOK, Op
<1>2. session.state # "ended" /\ local.state # "ready"
  BY PathBusy
<1>3. pc \in InThread => session.state = "active"
  BY DEF PathKnows
<1>4. AtRest => Resting(local.state)
  BY DEF PathKnows
<1>5. op.pc = "reserve" /\ op.prior = 0 => AtRest
  BY DEF AtRest
<1>6. QED  BY <1>1, <1>2, <1>3, <1>4, <1>5, PathMoves

(* A command is over.                                                      *)
LEMMA PathEnds ==
    ASSUME IInv, op' = Idle, session'.state # "ended", Resting(local'.state),
           local'.state # "ready"
    PROVE  PathKnows'
  BY DEF PathKnows, AtRest, Resting, Idle, InThread, WithProcess

(* So it is when it ends in an ambiguity or another recovery.              *)
LEMMA PathRecovers ==
    ASSUME IInv, OutcomeInv, PathKnows, op.pc # "idle", op' = Idle, session'.state # "ended",
           NEW kind \in {"missing", "manual"}, SetRecovery(kind)
    PROVE  PathKnows'
  BY PathEnds DEF SetRecovery, Local, Resting

----------------------------------------------------------------------------
(* The steps keep to the paths.                                            *)

(* From the submission to the plan.                                        *)
LEMMA SubmissionPath ==
    ASSUME IInv, OutcomeInv, PathKnows
    PROVE  /\ \A t \in Turns : Submit(t) => PathKnows'
           /\ \A reply \in Replies : Reserve(reply) \/ PlanFails(reply) => PathKnows'
           /\ PlanSameThread \/ PlanFallback \/ PlanRefused => PathKnows'
<1>1. ASSUME NEW t \in Turns, Submit(t) PROVE PathKnows'
  <2>1. /\ UNCHANGED <<turn, session>> /\ session.state # "ended"
        /\ \A u \in Turns : u < t => turn[u] # "absent"
    BY <1>1 DEF Submit, NextTurn, turnVars, Turns
  <2>2. CASE /\ local.state \in {"none", "missing"} /\ session.state = "active"
             /\ op' = [Idle EXCEPT !.pc = "reserve", !.t = t] /\ local' = local
    <3>1. op'.pc = "reserve" /\ op'.t = t /\ op'.prior = 0
      BY <2>2 DEF Idle
    <3>2. QED  BY <2>1, <2>2, <3>1 DEF PathKnows, AtRest, Resting, WithProcess
  <2>3. CASE /\ local.state = "ready" /\ local' = Local("preparing", local.proc)
             /\ op' = [Idle EXCEPT !.pc = "reserve", !.t = t, !.proc = local.proc,
                                   !.prior = local.proc]
    <3>1. op'.pc = "reserve" /\ op'.t = t /\ op'.prior = local.proc /\ op'.proc = local.proc
      BY <2>3 DEF Idle
    <3>2. local.proc # 0 /\ session.state = "active"
      BY <2>1, <2>3 DEF PathKnows
    <3>3. QED  BY <2>1, <2>3, <3>1, <3>2 DEF PathKnows, AtRest, WithProcess, Local
  <2>4. QED  BY <1>1, <2>2, <2>3 DEF Submit
<1>2. ASSUME NEW reply \in Replies, Reserve(reply) PROVE PathKnows'
  <2>1. op.pc = "reserve" /\ op.pc # "idle" /\ session' = session /\ session.state # "ended"
    BY <1>2, PathBusy DEF Reserve, At
  <2>2. CASE reply # "ok" /\ op.prior = 0
    BY <1>2, <2>1, <2>2, PathRecovers DEF Reserve, Ambiguous
  <2>3. CASE reply # "ok" /\ op.prior # 0
    BY <1>2, <2>1, <2>3, PathGoto DEF Reserve, InThread, WithProcess
  <2>4. CASE reply = "ok"
    <3>1. /\ Goto("plan") \/ (Goto("stop_refuse") /\ op.prior # 0)
          /\ local' = local
      BY <1>2, <2>4 DEF Reserve
    <3>2. QED  BY <2>1, <3>1, PathGoto DEF InThread, WithProcess
  <2>5. QED  BY <2>2, <2>3, <2>4
<1>3. ASSUME NEW reply \in Replies, PlanFails(reply) PROVE PathKnows'
  <2>1. /\ op.pc = "plan" /\ op.pc # "idle" /\ session'.state # "ended"
        /\ local.state # "ready"
    BY <1>3, PathBusy DEF PlanFails, At, SwitchSession
  <2>2. CASE op.prior = 0
    BY <1>3, <2>1, <2>2, PathRecovers DEF PlanFails, Ambiguous
  <2>3. CASE op.prior # 0
    <3>1. Goto("stop_missing") /\ local' = local
      BY <1>3, <2>3 DEF PlanFails
    <3>2. op'.pc = "stop_missing" /\ op'.proc = op.proc /\ op'.prior = op.prior
      BY <3>1 DEF Goto, IInv, TypeOK, Op
    <3>3. QED  BY <2>1, <3>1, <3>2, PathMoves DEF InThread, WithProcess
  <2>4. QED  BY <2>2, <2>3
<1>4. CASE PlanSameThread \/ PlanRefused
  <2>1. /\ op.pc = "plan" /\ op.pc # "idle" /\ UNCHANGED <<session, local>>
        /\ \/ \E pc \in {"resume", "refuse_bound"} : Goto(pc) /\ op.prior # 0
           \/ \E pc \in {"launch", "refuse", "refuse_manual"} : Goto(pc) /\ op.prior = 0
    BY <1>4 DEF PlanSameThread, PlanRefused, At
  <2>2. op.prior = 0 => AtRest
    BY <2>1 DEF AtRest
  <2>3. QED  BY <2>1, <2>2, PathGoto DEF InThread, WithProcess
<1>5. CASE PlanFallback
  <2>1. /\ op.pc = "plan" /\ op.pc # "idle" /\ session'.state = "starting" /\ local' = local
        /\ \E pc \in {"launch", "prior"} : Goto(pc)
    BY <1>5 DEF PlanFallback, At, SwitchSession
  <2>2. \A pc : Goto(pc) => op'.pc = pc /\ op'.proc = op.proc /\ op'.prior = op.prior
    BY DEF Goto, IInv, TypeOK, Op
  <2>3. QED  BY <2>1, <2>2, PathBusy, PathMoves DEF InThread, WithProcess
<1>6. QED  BY <1>1, <1>2, <1>3, <1>4, <1>5

(* The launch, and the thread of the new process.                          *)
LEMMA LaunchPath ==
    ASSUME IInv, OutcomeInv, PathKnows, turn[0] = "completed"
    PROVE  /\ \A reply \in Replies :
                AdmissionFails(reply) \/ Reconcile(reply) \/ FenceThread(reply) \/ BindThread(reply)
                  => PathKnows'
           /\ Launch \/ LaunchFails \/ Resume \/ ResumeFails \/ ThreadStartFails => PathKnows'
<1>0. \A pc : Goto(pc) => op'.pc = pc /\ op'.proc = op.proc /\ op'.prior = op.prior
  BY DEF Goto, IInv, TypeOK, Op
<1>1. ASSUME NEW reply \in Replies, AdmissionFails(reply) \/ Reconcile(reply) PROVE PathKnows'
  <2>1. /\ op.pc \in {"launch", "reconcile"} /\ op.pc # "idle" /\ session' = session
        /\ \/ Ambiguous
           \/ local' = local /\ \E pc \in {"reconcile", "refuse_manual"} : Goto(pc)
    BY <1>1 DEF AdmissionFails, Reconcile, At
  <2>2. CASE Ambiguous
    BY <2>1, <2>2, PathBusy, PathRecovers DEF Ambiguous
  <2>3. CASE ~Ambiguous
    BY <2>1, <2>3, PathGoto DEF InThread, WithProcess
  <2>4. QED  BY <2>2, <2>3
<1>2. ASSUME NEW reply \in Replies, FenceThread(reply) PROVE PathKnows'
  <2>1. /\ op.pc = "fence" /\ op.pc # "idle" /\ local' = local
        /\ session' \in {session, [session EXCEPT !.state = "fenced"]}
        /\ \E pc \in {"bind", "stop_reconcile"} : Goto(pc)
    BY <1>2 DEF FenceThread, At
  <2>2. session'.state # "ended"
    BY <2>1, PathBusy DEF IInv, TypeOK
  <2>3. QED  BY <1>0, <2>1, <2>2, PathBusy, PathMoves DEF InThread, WithProcess
<1>3. ASSUME NEW reply \in Replies, BindThread(reply) PROVE PathKnows'
  <2>1. /\ op.pc = "bind" /\ op.pc # "idle"
        /\ session' \in {session, [session EXCEPT !.state = "active"]}
        /\ local' = local \/ local' = Local("preparing", op.proc)
        /\ \/ Goto("stop_missing")
           \/ /\ session' = [session EXCEPT !.state = "active"]
              /\ \E pc \in {"prepare", "recover_bound"} : Goto(pc)
    BY <1>3 DEF BindThread, At
  <2>2. session'.state # "ended" /\ local'.state # "ready"
    BY <2>1, PathBusy DEF IInv, TypeOK, Local
  <2>3. [session EXCEPT !.state = "active"].state = "active"
    BY DEF IInv, TypeOK
  <2>4. CASE Goto("stop_missing")
    BY <1>0, <2>1, <2>2, <2>4, PathMoves DEF InThread, WithProcess
  <2>5. ASSUME NEW pc \in {"prepare", "recover_bound"}, Goto(pc),
               session' = [session EXCEPT !.state = "active"]
        PROVE  PathKnows'
    <3>1. session'.state = "active"
      BY <2>3, <2>5
    <3>2. QED  BY <1>0, <2>1, <2>2, <2>5, <3>1, PathMoves DEF WithProcess
  <2>6. QED  BY <2>1, <2>4, <2>5
<1>4. CASE Launch
  <2>1. /\ op.pc = "launch" /\ op.pc # "idle" /\ UNCHANGED <<session, local>>
        /\ op' = [op EXCEPT !.proc = op.t,
                            !.pc = IF session.state = "active" THEN "resume" ELSE "fence"]
    BY <1>4 DEF Launch, At
  <2>2. /\ op'.pc = IF session.state = "active" THEN "resume" ELSE "fence"
        /\ op'.proc = op.t /\ op'.prior = op.prior
    BY <2>1 DEF IInv, TypeOK, Op
  <2>3. op.t # 0
    BY <2>1 DEF OutcomeInv, OpKnows, NoAttemptYet, BeforeAttempt
  <2>4. session.state # "ended" /\ local.state # "ready"
    BY <2>1, PathBusy
  <2>5. QED  BY <2>1, <2>2, <2>3, <2>4 DEF PathKnows, AtRest, InThread
<1>5. CASE LaunchFails
  <2>1. /\ op.pc = "launch" /\ op.pc # "idle" /\ UNCHANGED <<session, local>>
        /\ Goto("reconcile")
    BY <1>5 DEF LaunchFails, At
  <2>2. QED  BY <2>1, PathGoto DEF InThread, WithProcess
<1>6. CASE Resume
  <2>1. /\ op.pc = "resume" /\ op.pc # "idle" /\ session' = session
        /\ local' = local \/ local' = Local("preparing", op.proc)
        /\ Goto("prepare") \/ Goto("stop_missing")
    BY <1>6 DEF Resume, At
  <2>2. local'.state # "ready" /\ session.state = "active"
    BY <2>1, PathBusy DEF Local, PathKnows, InThread
  <2>3. QED  BY <1>0, <2>1, <2>2, PathMoves DEF InThread, WithProcess
<1>7. CASE ResumeFails \/ ThreadStartFails
  <2>1. /\ op.pc \in {"resume", "fence", "bind"} /\ op.pc # "idle" /\ UNCHANGED <<session, local>>
        /\ \E pc \in {"recover_bound", "stop_missing", "stop_reconcile"} : Goto(pc)
    BY <1>7 DEF ResumeFails, ThreadStartFails, At
  <2>2. QED  BY <2>1, PathGoto DEF InThread, WithProcess
<1>8. QED  BY <1>1, <1>2, <1>3, <1>4, <1>5, <1>6, <1>7

(* The attempt, up to the start of the turn.                               *)
LEMMA AttemptPath ==
    ASSUME IInv, OutcomeInv, PathKnows
    PROVE  /\ \A reply \in Replies :
                PrepareAttempt(reply) \/ Authorize(reply) \/ Cancel(reply) \/ NotSubmitted(reply)
                  => PathKnows'
           /\ \/ PrepareRefused \/ AuthorizeWhenStopping \/ StartTurn \/ StartRefused
              \/ StartFails
              => PathKnows'
<1>0. \A pc : Goto(pc) => op'.pc = pc /\ op'.proc = op.proc /\ op'.prior = op.prior
  BY DEF Goto, IInv, TypeOK, Op
<1>1. ASSUME NEW reply \in Replies, PrepareAttempt(reply) \/ Authorize(reply) PROVE PathKnows'
  <2>1. /\ op.pc \in {"prepare", "authorize"} /\ op.pc # "idle" /\ UNCHANGED <<session, local>>
        /\ op' \in {[op EXCEPT !.pc = "authorize", !.rev = 1], [op EXCEPT !.pc = "stop_missing"],
                    [op EXCEPT !.pc = "start", !.rev = op.rev + 1], [op EXCEPT !.pc = "cancel"]}
    BY <1>1 DEF PrepareAttempt, Authorize, At
  <2>2. /\ op'.pc \in {"authorize", "stop_missing", "start", "cancel"}
        /\ op'.proc = op.proc /\ op'.prior = op.prior
    BY <2>1 DEF IInv, TypeOK, Op
  <2>3. session.state = "active" /\ op.pc \in WithProcess
    BY <2>1 DEF PathKnows, InThread, WithProcess
  <2>4. session'.state # "ended" /\ local'.state # "ready"
    BY <2>1, PathBusy
  <2>5. QED  BY <2>1, <2>2, <2>3, <2>4, PathMoves
<1>2. ASSUME NEW reply \in Replies, Cancel(reply) PROVE PathKnows'
  <2>1. /\ op.pc = "cancel" /\ op.pc # "idle" /\ UNCHANGED <<session, local>>
        /\ \E pc \in {"refuse_bound", "stop_missing"} : Goto(pc)
    BY <1>2 DEF Cancel, At
  <2>2. QED  BY <2>1, PathGoto DEF InThread, WithProcess
<1>3. ASSUME NEW reply \in Replies, NotSubmitted(reply) PROVE PathKnows'
  <2>1. /\ op.pc = "not_submitted" /\ op.pc # "idle" /\ session' = session
        /\ \/ op' = Idle /\ SetRecovery("manual")
           \/ Goto("stop_marking") /\ local' = local
    BY <1>3 DEF NotSubmitted, At
  <2>2. CASE op' = Idle /\ SetRecovery("manual")
    BY <2>1, <2>2, PathBusy, PathRecovers
  <2>3. CASE Goto("stop_marking") /\ local' = local
    BY <2>1, <2>3, PathGoto DEF InThread, WithProcess
  <2>4. QED  BY <2>1, <2>2, <2>3
<1>4. CASE \/ PrepareRefused \/ AuthorizeWhenStopping \/ StartRefused \/ StartFails
  <2>1. /\ op.pc \in {"prepare", "authorize", "start"} /\ op.pc # "idle"
        /\ UNCHANGED <<session, local>>
        /\ \/ Goto("refuse_bound") /\ op.pc = "prepare"
           \/ Goto("cancel") /\ op.pc = "authorize"
           \/ Goto("not_submitted") \/ Goto("mark")
    BY <1>4 DEF PrepareRefused, AuthorizeWhenStopping, StartRefused, StartFails, At
  <2>2. QED  BY <2>1, PathGoto DEF InThread, WithProcess
<1>5. CASE StartTurn
  <2>1. /\ op.pc = "start" /\ op.pc # "idle" /\ session' = session
        /\ local' = local \/ local' = Local("active", op.proc)
        /\ \E pc \in {"drive", "mark"} : Goto(pc)
    BY <1>5 DEF StartTurn, At
  <2>2. session'.state # "ended" /\ local'.state # "ready"
    BY <2>1, PathBusy DEF Local
  <2>3. QED  BY <1>0, <2>1, <2>2, PathMoves DEF InThread, WithProcess
<1>6. QED  BY <1>1, <1>2, <1>3, <1>4, <1>5

(* A terminalization leaves the session's number and state alone.          *)
LEMMA TerminalizeKeeps ==
    ASSUME IInv, NEW t, NEW rev, NEW outcome, NEW reply, TerminalizeTurn(t, rev, outcome, reply)
    PROVE  session'.state = session.state /\ session'.n = session.n
  BY DEF TerminalizeTurn, IInv, TypeOK

(* The running turn, up to its end.                                        *)
LEMMA RunningPath ==
    ASSUME IInv, OutcomeInv, PathKnows
    PROVE  /\ \A reply \in Replies :
                RecordTurnEvidence(reply) \/ Terminalize(reply) \/ Mark(reply) => PathKnows'
           /\ \A proved \in BOOLEAN : RetireTurn(proved) => PathKnows'
           /\ TurnCompleted \/ WorkerFails => PathKnows'
<1>0. \A pc : Goto(pc) => op'.pc = pc /\ op'.proc = op.proc /\ op'.prior = op.prior
  BY DEF Goto, IInv, TypeOK, Op
<1>1. ASSUME op.pc \in {"drive", "evidence", "terminalize"}, session'.state = session.state,
             local' = local, op'.pc \in {"evidence", "terminalize", "retire", "mark"},
             op'.proc = op.proc, op'.prior = op.prior
      PROVE  PathKnows'
  <2>1. op.pc # "idle"
    BY <1>1
  <2>2. session'.state # "ended" /\ local'.state # "ready"
    BY <1>1, <2>1, PathBusy
  <2>3. QED  BY <1>1, <2>1, <2>2, PathMoves DEF InThread, WithProcess
<1>2. ASSUME NEW reply \in Replies, RecordTurnEvidence(reply) PROVE PathKnows'
  <2>1. /\ op.pc = "evidence" /\ UNCHANGED <<session, local>>
        /\ \/ op' = [op EXCEPT !.pc = "terminalize", !.rev = op.rev + 1]
           \/ op' = [op EXCEPT !.pc = "mark"]
    BY <1>2 DEF RecordTurnEvidence, At
  <2>2. op'.pc \in {"terminalize", "mark"} /\ op'.proc = op.proc /\ op'.prior = op.prior
    BY <2>1 DEF IInv, TypeOK, Op
  <2>3. QED  BY <1>1, <2>1, <2>2
<1>3. ASSUME NEW reply \in Replies, Terminalize(reply) PROVE PathKnows'
  <2>1. /\ op.pc = "terminalize" /\ local' = local
        /\ TerminalizeTurn(op.t, op.rev, op.outcome, reply)
        /\ \/ op' = [op EXCEPT !.pc = "retire"]
           \/ op' = [op EXCEPT !.pc = "mark", !.rev = op.rev - 1]
    BY <1>3 DEF Terminalize, At
  <2>2. op'.pc \in {"retire", "mark"} /\ op'.proc = op.proc /\ op'.prior = op.prior
    BY <2>1 DEF IInv, TypeOK, Op
  <2>3. session'.state = session.state
    BY <2>1, TerminalizeKeeps
  <2>4. QED  BY <1>1, <2>1, <2>2, <2>3
<1>4. ASSUME NEW reply \in Replies, Mark(reply) PROVE PathKnows'
  <2>1. op.pc \in {"mark", "mark_last"} /\ op.pc # "idle" /\ UNCHANGED <<session, local>>
    BY <1>4 DEF Mark
  <2>2. CASE op.pc = "mark"
    BY <1>4, <2>1, <2>2, PathGoto DEF Mark, At, InThread, WithProcess
  <2>3. CASE op.pc = "mark_last"
    <3>1. op' = Idle /\ Resting(local.state)
      BY <1>4, <2>3 DEF Mark, At, PathKnows, AtRest
    <3>2. QED  BY <2>1, <3>1, PathBusy, PathEnds
  <2>4. QED  BY <2>1, <2>2, <2>3
<1>5. ASSUME NEW proved \in BOOLEAN, RetireTurn(proved) PROVE PathKnows'
  <2>1. /\ op.pc # "idle" /\ op' = Idle /\ session' = session
        /\ local' = NoLocal \/ local' = Local("manual", 0)
    BY <1>5 DEF RetireTurn, At
  <2>2. QED  BY <2>1, PathBusy, PathEnds DEF NoLocal, Local, Resting
<1>6. CASE TurnCompleted
  <2>1. /\ op.pc = "drive" /\ UNCHANGED <<session, local>>
        /\ \E outcome : op' = [op EXCEPT !.pc = "evidence", !.outcome = outcome]
    BY <1>6 DEF TurnCompleted, At
  <2>2. op'.pc = "evidence" /\ op'.proc = op.proc /\ op'.prior = op.prior
    BY <2>1 DEF IInv, TypeOK, Op
  <2>3. QED  BY <1>1, <2>1, <2>2
<1>7. CASE WorkerFails
  BY <1>0, <1>1, <1>7 DEF WorkerFails, At
<1>8. QED  BY <1>2, <1>3, <1>4, <1>5, <1>6, <1>7

(* The ways out.                                                           *)
LEMMA WayOutPath ==
    ASSUME IInv, OutcomeInv, PathKnows
    PROVE  /\ \A proved \in BOOLEAN : Stop(proved) => PathKnows'
           /\ \A reply \in Replies :
                Refuse(reply) \/ RefuseBound(reply) \/ RecoverBound(reply) \/ Settle(reply)
                  => PathKnows'
<1>0. \A pc : Goto(pc) => op'.pc = pc /\ op'.proc = op.proc /\ op'.prior = op.prior
  BY DEF Goto, IInv, TypeOK, Op
<1>1. ASSUME NEW proved \in BOOLEAN, Stop(proved) PROVE PathKnows'
  <2>1. op.pc # "idle" /\ session' = session /\ session.state # "ended"
    BY <1>1, PathBusy DEF Stop
  <2>2. CASE op.pc \in {"stop_missing", "stop_manual"}
    <3>1. /\ op' = Idle
          /\ SetRecovery("missing") \/ SetRecovery("manual")
      BY <1>1, <2>2 DEF Stop, AfterStop, At
    <3>2. QED  BY <2>1, <3>1, PathRecovers
  <2>3. CASE op.pc = "stop_marking"
    <3>1. Goto("mark_last") /\ SetRecovery("missing")
      BY <1>1, <2>3 DEF Stop, AfterStop, At
    <3>2. local'.state \in {"none", "missing"}
      BY <3>1 DEF SetRecovery, Local
    <3>3. QED  BY <1>0, <2>1, <3>1, <3>2, PathMoves DEF InThread, WithProcess, Resting
  <2>4. CASE op.pc \in {"stop_refuse", "stop_reconcile", "prior"}
    <3>1. /\ local' = local
          /\ \/ Goto("refuse_bound") /\ op.pc = "stop_refuse"
             \/ Goto("reconcile") \/ Goto("launch")
      BY <1>1, <2>4 DEF Stop, AfterStop, At
    <3>2. QED  BY <2>1, <3>1, PathGoto DEF InThread, WithProcess
  <2>5. QED  BY <1>1, <2>2, <2>3, <2>4 DEF Stop
<1>2. ASSUME NEW reply \in Replies, Refuse(reply) PROVE PathKnows'
  <2>1. /\ op.pc \in {"refuse", "refuse_manual"} /\ op.pc # "idle" /\ session' = session
        /\ session.state # "ended" /\ op' = Idle
        /\ \/ SetRecovery("missing") \/ SetRecovery("manual")
           \/ op.pc = "refuse" /\ local' = local
    BY <1>2, PathBusy DEF Refuse, Ambiguous, At
  <2>2. CASE SetRecovery("missing") \/ SetRecovery("manual")
    BY <2>1, <2>2, PathRecovers
  <2>3. CASE op.pc = "refuse" /\ local' = local
    <3>1. Resting(local.state) /\ local.state # "ready"
      BY <2>3, PathBusy DEF PathKnows, AtRest
    <3>2. QED  BY <2>1, <2>3, <3>1, PathEnds
  <2>4. QED  BY <2>1, <2>2, <2>3
<1>3. ASSUME NEW reply \in Replies, RefuseBound(reply) PROVE PathKnows'
  <2>1. /\ op.pc = "refuse_bound" /\ op.pc # "idle" /\ session' = session
        /\ \/ op' = Idle /\ RestoreReady(op.proc)
           \/ local' = local /\ \E pc \in {"stop_manual", "stop_missing"} : Goto(pc)
    BY <1>3 DEF RefuseBound, At
  <2>2. session.state = "active" /\ op.proc # 0
    BY <2>1 DEF PathKnows, InThread, WithProcess
  <2>3. CASE op' = Idle /\ RestoreReady(op.proc)
    <3>1. local'.state = "none" \/ local' = Local("ready", op.proc)
      BY <2>3 DEF RestoreReady
    <3>2. QED
      BY <2>1, <2>2, <2>3, <3>1 DEF PathKnows, Local, Idle, AtRest, Resting, InThread, WithProcess
  <2>4. CASE local' = local /\ \E pc \in {"stop_manual", "stop_missing"} : Goto(pc)
    BY <2>1, <2>4, PathGoto DEF InThread, WithProcess
  <2>5. QED  BY <2>1, <2>3, <2>4
<1>4. ASSUME NEW reply \in Replies, RecoverBound(reply) PROVE PathKnows'
  <2>1. /\ op.pc = "recover_bound" /\ op.pc # "idle" /\ UNCHANGED <<session, local>>
        /\ \E pc \in {"stop_manual", "stop_missing"} : Goto(pc)
    BY <1>4 DEF RecoverBound, At
  <2>2. QED  BY <2>1, PathGoto DEF InThread, WithProcess
<1>5. ASSUME NEW reply \in Replies, Settle(reply) PROVE PathKnows'
  <2>1. /\ op.pc = "settle" /\ op.pc # "idle" /\ op' = Idle
        /\ TerminalizeTurn(op.t, op.rev, op.outcome, reply)
        /\ RemoveRecovery \/ local' = local
    BY <1>5 DEF Settle, At
  <2>2. session'.state = session.state
    BY <2>1, TerminalizeKeeps
  <2>3. Resting(local.state) /\ local.state # "ready" /\ session.state # "ended"
    BY <2>1, PathBusy DEF PathKnows, AtRest
  <2>4. local'.state = local.state \/ local'.state = "none"
    BY <2>1 DEF RemoveRecovery, NoLocal, Local
  <2>5. QED  BY <2>1, <2>2, <2>3, <2>4, PathEnds DEF Resting
<1>6. QED  BY <1>1, <1>2, <1>3, <1>4, <1>5

(* What happens beside the command: it stays where it is, no turn is       *)
(* opened, the session keeps its state and the local task may be cleared.  *)
LEMMA PathStays ==
    ASSUME IInv, OutcomeInv, [Next]_vars, PathKnows, op' = op, session'.state = session.state,
           session.state = "ended" => turn' = turn,
           local' = local \/ local'.state = "none"
    PROVE  PathKnows'
<1>1. op.t \in Turns
  BY Typed
<1>2. \A t \in Turns : turn[t] # "absent" => turn'[t] # "absent"
  BY MadeStays
<1>3. session'.state = "ended" => op' = Idle /\ NoneOpen'
  BY DEF PathKnows, NoneOpen
<1>4. AtRest' => Resting(local'.state)
  BY DEF PathKnows, AtRest, Resting
<1>5. QED  BY <1>2, <1>3, <1>4 DEF PathKnows

(* Control commands, the processes, the provider and the host.             *)
LEMMA OutsidePath ==
    ASSUME IInv, OutcomeInv, [Next]_vars, PathKnows
    PROVE  /\ Control \/ Environment => PathKnows'
           /\ \A proved \in BOOLEAN : CloseRuntime(proved) => PathKnows'
<1>1. ASSUME NEW t \in Turns, NEW reply \in Replies,
             ControlPending(t, reply) \/ ControlClose(t, reply) \/ ControlStranded(t, reply)
      PROVE  PathKnows'
  <2>1. session'.state = session.state
    BY <1>1, TerminalizeKeeps DEF ControlPending, ControlClose, ControlStranded
  <2>2. /\ op' = op /\ session.state # "ended"
        /\ RemoveRecovery \/ local' = local
    BY <1>1 DEF ControlPending, ControlClose, ControlStranded, Controllable
  <2>3. QED  BY <2>1, <2>2, PathStays DEF RemoveRecovery, NoLocal, Local
<1>2. ASSUME NEW t \in Turns, NEW reply \in Replies, ControlObserve(t, reply) PROVE PathKnows'
  <2>1. /\ UNCHANGED <<turn, session, local>> /\ op = Idle
        /\ Resting(local.state) /\ session.state # "ended"
        /\ \/ op' = op
           \/ \E rev, outcome : op' = [Idle EXCEPT !.pc = "settle", !.t = t, !.rev = rev,
                                                   !.outcome = outcome]
    BY <1>2 DEF ControlObserve, Controllable, Resting, turnVars
  <2>2. CASE op' = op
    BY <2>1, <2>2, PathStays
  <2>3. CASE op' # op
    <3>1. op'.pc = "settle" /\ op'.prior = 0
      BY <2>1, <2>3 DEF Idle
    <3>2. local.state = "ready" => session.state = "active" /\ local.proc # 0
      BY <2>1 DEF PathKnows
    <3>3. QED  BY <2>1, <3>1, <3>2 DEF PathKnows, AtRest, InThread, WithProcess
  <2>4. QED  BY <2>2, <2>3
<1>3. ASSUME NEW reply \in Replies, ControlArchive(reply) PROVE PathKnows'
  <2>1. /\ UNCHANGED <<turn, op>> /\ op = Idle /\ NoneOpen
        /\ session' = session \/ session'.state = "ended"
        /\ local' = local \/ local'.state = "none"
    BY <1>3 DEF ControlArchive, Controllable, ActiveTurns, NoneOpen, NoLocal, Local, turnVars,
       IInv, TypeOK
  <2>2. CASE session' = session
    BY <2>1, <2>2, PathStays
  <2>3. CASE session'.state = "ended"
    <3>1. AtRest' => Resting(local'.state)
      BY <2>1 DEF PathKnows, AtRest, Resting
    <3>2. NoneOpen' /\ op'.pc = "idle" /\ op'.prior = 0
      BY <2>1 DEF NoneOpen, Idle
    <3>3. local'.state = "ready" => local'.proc # 0
      BY <2>1 DEF PathKnows
    <3>4. QED  BY <2>1, <2>3, <3>1, <3>2, <3>3 DEF PathKnows, InThread, WithProcess
  <2>4. QED  BY <2>1, <2>2, <2>3
<1>4. CASE Control
  BY <1>1, <1>2, <1>3, <1>4 DEF Control
<1>5. CASE Restart
  <2>1. UNCHANGED <<turn, session>> /\ op' = Idle /\ local' = NoLocal
    BY <1>5 DEF Restart, turnVars
  <2>2. session'.state = "ended" => op' = Idle /\ NoneOpen'
    BY <2>1 DEF PathKnows, NoneOpen
  <2>3. op'.pc = "idle" /\ op'.prior = 0 /\ local'.state = "none"
    BY <2>1 DEF Idle, NoLocal, Local
  <2>4. QED  BY <2>1, <2>2, <2>3 DEF PathKnows, Resting, InThread, WithProcess
<1>6. CASE \/ \E g \in Turns : ProcessExits(g) \/ DeathRecorded(g) \/ ProviderFinishes(g)
           \/ Shutdown
  BY <1>6, PathStays DEF ProcessExits, DeathRecorded, ProviderFinishes, Shutdown, turnVars
<1>7. ASSUME NEW proved \in BOOLEAN, CloseRuntime(proved) PROVE PathKnows'
  BY <1>7, PathStays DEF CloseRuntime, turnVars, NoLocal, Local
<1>8. QED  BY <1>4, <1>5, <1>6, <1>7 DEF Environment

(* Every step.                                                             *)
LEMMA PathStep ==
    ASSUME IInv, OutcomeInv, [Next]_vars, PathKnows, turn[0] = "completed"
    PROVE  PathKnows'
<1>1. CASE UNCHANGED vars
  BY <1>1, PathStays DEF vars, turnVars
<1>2. CASE Driver
  BY <1>2, SubmissionPath, LaunchPath, AttemptPath, RunningPath, WayOutPath
     DEF Driver, CommandStep
<1>3. QED
  BY <1>1, <1>2, SubmissionPath, RunningPath, OutsidePath DEF Next

----------------------------------------------------------------------------
(* What else the way out of an open turn rests on.                         *)

(* A step keeps an attempt, moves it on, or prepares the driver's.         *)
LEMMA AttemptMoves ==
    ASSUME IInv, [Next]_vars, NEW t \in Turns
    PROVE  \/ att'[t] = att[t]
           \/ att[t].state # "none" /\ att'[t].gen = att[t].gen
           \/ op.pc = "prepare" /\ t = op.t /\ att'[t].gen = op.proc /\ UNCHANGED session
<1>1. CASE att' = att
  BY <1>1
<1>2. CASE AttemptsStep
  BY <1>2 DEF AttemptsStep, AttemptStep
<1>3. CASE \E reply \in Replies : PrepareAttempt(reply)
  <2>1. /\ op.pc = "prepare" /\ UNCHANGED session
        /\ att' = att \/ att' = [att EXCEPT ![op.t] = PreparedAttempt(op.proc, session.n)]
    BY <1>3 DEF PrepareAttempt, At
  <2>2. QED  BY <2>1, Typed DEF PreparedAttempt
<1>4. QED  BY <1>1, <1>2, <1>3, AttemptWriters, AttemptActionStep

(* The row of a process generation never goes away.                        *)
LEMMA GenerationsStay ==
    ASSUME IInv, [Next]_vars, NEW g \in Turns, gen[g] # "absent"
    PROVE  gen'[g] # "absent"
<1>0. gen \in [Turns -> GenStates] /\ op.proc \in Turns /\ op.t \in Turns /\ local.proc \in Turns
  BY Typed
<1>1. CASE UNCHANGED gen
  BY <1>1
<1>2. ASSUME NEW h, NEW proved, Retire(h, proved) PROVE gen'[g] # "absent"
  BY <1>0, <1>2 DEF Retire
<1>3. ASSUME NEW proved \in BOOLEAN, RetireTurn(proved) \/ Stop(proved) \/ CloseRuntime(proved)
      PROVE  gen'[g] # "absent"
  <2>1. (\E h : Retire(h, proved)) \/ UNCHANGED gen
    BY <1>3 DEF RetireTurn, Stop, CloseRuntime, procVars
  <2>2. QED  BY <1>1, <1>2, <2>1
<1>4. CASE Launch \/ LaunchFails
  BY <1>0, <1>4 DEF Launch, LaunchFails
<1>5. CASE Restart \/ \E h \in Turns : DeathRecorded(h)
  BY <1>0, <1>5 DEF Restart, DeathRecorded
<1>6. CASE SendAction
  BY <1>6 DEF SendAction, StartTurn, StartFails
<1>7. CASE AttemptAction /\ ~Restart
  BY <1>7 DEF AttemptAction, PrepareAttempt, Authorize, Cancel, NotSubmitted, RecordTurnEvidence,
     Mark, ControlObserve, procVars
<1>8. CASE /\ QuietAction /\ ~Launch /\ ~LaunchFails
           /\ \A h \in Turns : ~DeathRecorded(h)
           /\ \A proved \in BOOLEAN : ~RetireTurn(proved) /\ ~Stop(proved) /\ ~CloseRuntime(proved)
  <2>1. gen' = gen
    BY <1>8 DEF QuietAction, Submit, Reserve, PlanSameThread, PlanFallback, PlanRefused,
       PlanFails, AdmissionFails, Reconcile, Resume, ResumeFails, FenceThread, ThreadStartFails,
       BindThread, PrepareRefused, AuthorizeWhenStopping, StartRefused, TurnCompleted,
       WorkerFails, Terminalize, Refuse, RefuseBound, RecoverBound, ControlPending, Settle,
       ControlClose, ControlStranded, ControlArchive, ProcessExits, ProviderFinishes, Shutdown,
       procVars
  <2>2. QED  BY <2>1
<1>9. CASE UNCHANGED vars
  BY <1>9 DEF vars, procVars
<1>10. CASE QuietAction
  BY <1>3, <1>4, <1>5, <1>8, <1>10
<1>11. CASE AttemptAction
  BY <1>5, <1>7, <1>11
<1>12. QED  BY <1>6, <1>9, <1>10, <1>11, StepKinds

(* The session's state changes only while a turn without an attempt is on  *)
(* its way to a thread, or when no turn is open.                           *)
LEMMA SessionMoves ==
    ASSUME IInv, [Next]_vars
    PROVE  \/ session'.state = session.state
           \/ op.pc \in {"plan", "fence", "bind"} /\ UNCHANGED <<turn, att>>
           \/ NoneOpen /\ UNCHANGED <<turn, att>>
<1> DEFINE Moves == \/ session'.state = session.state
                    \/ op.pc \in {"plan", "fence", "bind"} /\ UNCHANGED <<turn, att>>
                    \/ NoneOpen /\ UNCHANGED <<turn, att>>
<1>1. CASE PlanFallback \/ \E reply \in Replies : PlanFails(reply) \/ FenceThread(reply) \/ BindThread(reply)
  BY <1>1 DEF PlanFallback, PlanFails, FenceThread, BindThread, At, turnVars
<1>2. CASE \E reply \in Replies : ControlArchive(reply)
  BY <1>2 DEF ControlArchive, ActiveTurns, NoneOpen, turnVars
<1>3. CASE \/ \E reply \in Replies : Terminalize(reply) \/ Settle(reply)
           \/ \E t \in Turns, reply \in Replies : ControlPending(t, reply)
  BY <1>3, TerminalizeKeeps DEF Terminalize, Settle, ControlPending
<1>4. CASE SendAction \/ AttemptAction
  BY <1>4 DEF SendAction, StartTurn, StartFails, AttemptAction, PrepareAttempt, Authorize, Cancel,
     NotSubmitted, RecordTurnEvidence, Mark, ControlObserve, Restart
<1>5. CASE /\ QuietAction /\ ~PlanFallback
           /\ \A reply \in Replies :
                /\ ~PlanFails(reply) /\ ~FenceThread(reply) /\ ~BindThread(reply)
                /\ ~ControlArchive(reply) /\ ~Terminalize(reply) /\ ~Settle(reply)
                /\ \A t \in Turns : ~ControlPending(t, reply)
  <2>1. session' = session
    BY <1>5 DEF QuietAction, Submit, Reserve, PlanSameThread, PlanRefused, AdmissionFails, Launch,
       LaunchFails, Reconcile, Resume, ResumeFails, ThreadStartFails, PrepareRefused,
       AuthorizeWhenStopping, StartRefused, TurnCompleted, WorkerFails, RetireTurn, Stop, Refuse,
       RefuseBound, RecoverBound, ControlClose, ControlStranded, ProcessExits, DeathRecorded,
       ProviderFinishes, Shutdown, CloseRuntime
  <2>2. QED  BY <2>1
<1>6. CASE UNCHANGED vars
  BY <1>6 DEF vars
<1>7. QED  BY <1>1, <1>2, <1>3, <1>4, <1>5, <1>6, StepKinds

(* The generation an attempt was prepared for has a row.                   *)
HasRow == \A t \in Turns : gen[att[t].gen] # "absent"

(* An open turn that was tried is in a bound session.                      *)
TriedInThread ==
    \A t \in Turns : turn[t] = "active" /\ att[t].state # "none" => session.state = "active"

(* Turns are made in their order.                                          *)
InOrder == \A t, u \in Turns : u < t /\ turn[t] # "absent" => turn[u] # "absent"

WayOutInv ==
    PathKnows /\ turn[0] = "completed" /\ HasRow /\ TriedInThread /\ InOrder

LEMMA InitWayOut == Init => WayOutInv
<1> SUFFICES ASSUME Init PROVE WayOutInv
  OBVIOUS
<1>0. 0 \in Turns
  BY TurnsAssumption DEF Turns
<1>1. PathKnows
  BY DEF Init, PathKnows, Idle, NoLocal, Local, AtRest, Resting, InThread, WithProcess, NoneOpen
<1>2. turn[0] = "completed" /\ HasRow /\ TriedInThread
  BY <1>0 DEF Init, HasRow, TriedInThread, NoAttempt
<1>3. InOrder
  BY <1>0 DEF Init, InOrder, Turns
<1>4. QED  BY <1>1, <1>2, <1>3 DEF WayOutInv

(* Each part is kept.                                                      *)
LEMMA HasRowStep ==
    ASSUME IInv, OutcomeInv, [Next]_vars, HasRow
    PROVE  HasRow'
<1> SUFFICES ASSUME NEW t \in Turns PROVE gen'[att'[t].gen] # "absent"
  BY DEF HasRow
<1>1. att[t].gen \in Turns /\ gen[att[t].gen] # "absent"
  BY DEF HasRow, OutcomeInv, DurableInv, Effects
<1>2. op.proc \in Turns /\ gen[op.proc] # "absent"
  BY Typed DEF OutcomeInv, OpKnows
<1>3. att'[t].gen = att[t].gen \/ att'[t].gen = op.proc
  BY AttemptMoves
<1>4. QED  BY <1>1, <1>2, <1>3, GenerationsStay

LEMMA TriedInThreadStep ==
    ASSUME IInv, OutcomeInv, [Next]_vars, PathKnows, TriedInThread
    PROVE  TriedInThread'
<1> SUFFICES ASSUME NEW t \in Turns, turn'[t] = "active", att'[t].state # "none"
             PROVE  session'.state = "active"
  BY DEF TriedInThread
<1>0. op.t \in Turns /\ turn \in [Turns -> TurnStates]
  BY Typed
<1>1. CASE turn[t] = "active" /\ att[t].state # "none"
  <2>1. session.state = "active"
    BY <1>1 DEF TriedInThread
  <2>2. ~NoneOpen
    BY <1>1 DEF NoneOpen
  <2>3. op.pc \notin {"plan", "fence", "bind"}
    BY <1>0, <1>1 DEF OutcomeInv, DurableInv, OneOpen, OpKnows, NoAttemptYet, BeforeAttempt
  <2>4. QED  BY <2>1, <2>2, <2>3, SessionMoves
<1>2. CASE turn[t] = "active" /\ att[t].state = "none"
  <2>1. op.pc = "prepare" /\ session' = session
    BY <1>2, AttemptMoves
  <2>2. QED  BY <2>1 DEF PathKnows, InThread
<1>3. CASE turn[t] # "active"
  <2>1. ~Closed(t)
    BY <1>3, ClosedStays
  <2>2. turn[t] = "absent"
    BY <1>0, <1>3, <2>1 DEF TurnStates, Closed
  <2>3. op.pc # "prepare" \/ op.t # t
    BY <1>0, <2>2 DEF IInv, AbsentIsUntouched, DriverKnowledge, BeforeAttempt
  <2>4. att[t].state = "none"
    BY <2>2 DEF IInv, AbsentIsUntouched, NoAttempt
  <2>5. QED  BY <2>3, <2>4, AttemptMoves
<1>4. QED  BY <1>1, <1>2, <1>3

LEMMA InOrderStep ==
    ASSUME IInv, OutcomeInv, [Next]_vars, PathKnows, InOrder
    PROVE  InOrder'
<1> SUFFICES ASSUME NEW t \in Turns, NEW u \in Turns, u < t, turn'[t] # "absent"
             PROVE  turn'[u] # "absent"
  BY DEF InOrder
<1>0. op.t \in Turns /\ turn \in [Turns -> TurnStates]
  BY Typed
<1>1. CASE turn[t] # "absent"
  BY <1>1, MadeStays DEF InOrder
<1>2. CASE turn[t] = "absent"
  <2>1. ~(StillStep \/ EndStep \/ UNCHANGED <<turn, att>> \/ \E v \in Turns : CloseStep(v))
    BY <1>0, <1>2 DEF StillStep, EndStep, CloseStep
  <2>2. op.pc = "reserve" /\ turn' = [turn EXCEPT ![op.t] = "active"]
    BY <2>1, StepShapes DEF StepShape, ReserveStep
  <2>3. t = op.t
    BY <1>0, <1>2, <2>2
  <2>4. turn[u] # "absent"
    BY <2>2, <2>3 DEF PathKnows
  <2>5. QED  BY <2>4, MadeStays
<1>3. QED  BY <1>1, <1>2

(* The invariant behind the way out holds throughout.                      *)
THEOREM WayOutInvariance == Spec => []WayOutInv
<1>1. IInv /\ OutcomeInv /\ WayOutInv /\ [Next]_vars => WayOutInv'
  <2> SUFFICES ASSUME IInv, OutcomeInv, WayOutInv, [Next]_vars PROVE WayOutInv'
    OBVIOUS
  <2>1. turn'[0] = "completed"
    BY ClosedStays, Typed DEF WayOutInv, Closed
  <2>2. PathKnows'
    BY PathStep DEF WayOutInv
  <2>3. HasRow' /\ TriedInThread' /\ InOrder'
    BY HasRowStep, TriedInThreadStep, InOrderStep DEF WayOutInv
  <2>4. QED  BY <2>1, <2>2, <2>3 DEF WayOutInv
<1>2. QED  BY <1>1, InitWayOut, TurnInvariance, OutcomeInvariance, PTL DEF Spec

(* An ambiguity, a crash or a shutdown leaves no turn open for good: once  *)
(* its processes are dead, control_thread finishes it, asks the thread     *)
(* about it, gives it up or fails it.                                      *)
THEOREM OpenTurnsHaveAWayOut == Spec => []OpenTurnHasAWayOut
<1>1. IInv /\ OutcomeInv /\ WayOutInv => OpenTurnHasAWayOut
  <2> SUFFICES ASSUME IInv, OutcomeInv, WayOutInv, NEW t \in Turns, turn[t] = "active",
                      op = Idle, phase = "up", AccountFree,
                      att[t].state \notin {"prepared", "dispatch_authorized"}
               PROVE  TakenByControl(t)
    BY DEF OpenTurnHasAWayOut, ActiveTurns
  <2>1. bound[t] = session.n /\ SessionQuiet
    BY DEF OutcomeInv, DurableInv, OneOpen, AccountFree, SessionQuiet
  <2>2. Controllable
    <3>1. local.state \notin {"active", "preparing"}
      BY DEF WayOutInv, PathKnows, AtRest, Resting, Idle
    <3>2. session.state # "ended"
      BY DEF WayOutInv, PathKnows, NoneOpen
    <3>3. ASSUME NEW u \in Turns PROVE att[u].state \notin {"prepared", "dispatch_authorized"}
      <4>1. CASE turn[u] = "active"
        BY <4>1 DEF OutcomeInv, DurableInv, OneOpen
      <4>2. CASE turn[u] = "absent"
        BY <4>2 DEF IInv, AbsentIsUntouched, NoAttempt
      <4>3. CASE Closed(u)
        BY <4>3 DEF OutcomeInv, DurableInv, Closings, ClosedWell
      <4>4. QED  BY <4>1, <4>2, <4>3, Typed DEF TurnStates, Closed
    <3>4. QED  BY <3>1, <3>2, <3>3 DEF Controllable
  <2>3. CASE att[t].state \in {"succeeded", "failed_definitive"}
    <3>1. session.state = "active"
      BY <2>3 DEF WayOutInv, TriedInThread
    <3>2. QED  BY <2>1, <2>2, <2>3, <3>1 DEF TakenByControl, PendingTurn
  <2>4. CASE att[t].state = "unknown"
    <3>1. session.state = "active"
      BY <2>4 DEF WayOutInv, TriedInThread
    <3>2. gen[att[t].gen] = "dead"
      BY DEF WayOutInv, HasRow, AccountFree, OutcomeInv, DurableInv, Effects
    <3>3. "none" \in Observations(t)
      BY DEF Observations
    <3>4. QED  BY <2>1, <2>2, <2>4, <3>1, <3>2, <3>3 DEF TakenByControl, UnknownTurn, Unobservable
  <2>5. CASE att[t].state \notin {"succeeded", "failed_definitive", "unknown"}
    BY <2>1, <2>2, <2>5 DEF TakenByControl, StrandedTurn, UnresolvedAttempt
  <2>6. QED  BY <2>3, <2>4, <2>5
<1>2. QED  BY <1>1, TurnInvariance, OutcomeInvariance, WayOutInvariance, PTL

----------------------------------------------------------------------------
(* The conversation keeps its promise (ConversationPromise).               *)

PromiseStep == [Promise!PromiseNext]_(Promise!promiseVars)

(* The verdicts if a step gives one, and if it gives none.                 *)
LEMMA VerdictGiven ==
    ASSUME NEW t \in Turns, NEW v, Verdict(t)' = v,
           \A u \in Turns \ {t} : Verdict(u)' = Verdict(u)
    PROVE  [u \in Turns |-> Verdict(u)]' = [[u \in Turns |-> Verdict(u)] EXCEPT ![t] = v]
  OBVIOUS

LEMMA VerdictsKept ==
    ASSUME turn' = turn, \A t \in Turns : Closed(t) => att'[t] = att[t]
    PROVE  [u \in Turns |-> Verdict(u)]' = [u \in Turns |-> Verdict(u)]
<1>1. \A t \in Turns : Verdict(t)' = Verdict(t)
  BY DEF Verdict, Closed
<1>2. QED  BY <1>1

(* The input of a running process is that of the open turn.                *)
LEMMA RunningIsOpen ==
    ASSUME IInv, OutcomeInv, NEW t \in Turns, world[t] = "running"
    PROVE  turn[t] = "active"
<1>1. ~Closed(t)
  BY DEF OutcomeInv, DurableInv, Closings, ClosedWell
<1>2. turn[t] # "absent"
  BY DEF OutcomeInv, DurableInv, Effects, IInv, AbsentIsUntouched
<1>3. QED  BY <1>1, <1>2, Typed DEF TurnStates, Closed

(* What the user is told of a turn.                                        *)
LEMMA VerdictMeans ==
    ASSUME IInv, NEW t \in Turns
    PROVE  /\ Verdict(t) = "new" <=> turn[t] = "absent"
           /\ Verdict(t) = "open" <=> turn[t] = "active"
           /\ Verdict(t) \in Promise!Verdicts <=> Closed(t)
<1>1. turn[t] \in TurnStates
  BY Typed
<1>2. QED  BY <1>1 DEF Verdict, TurnStates, Closed, Promise!Verdicts

(* A reservation opens a turn, in its order.                               *)
LEMMA ReserveKeepsPromise ==
    ASSUME IInv, OutcomeInv, WayOutInv, ReserveStep
    PROVE  \E t \in Turns : Promise!Open(t)
<1> PICK t \in Turns : t = op.t
  BY Typed
<1>0. turn \in [Turns -> TurnStates]
  BY Typed
<1>1. Verdict(t) = "new"
  BY <1>0 DEF ReserveStep, IInv, DriverKnowledge, Verdict
<1>2. ASSUME NEW u \in Turns
      PROVE  IF u < t THEN Verdict(u) \in Promise!Verdicts ELSE Verdict(u) = "new"
  <2>1. CASE u < t
    <3>1. turn[u] # "absent" /\ turn[u] # "active"
      BY <2>1 DEF ReserveStep, WayOutInv, PathKnows, OutcomeInv, OpKnows, NoneOpen
    <3>2. Closed(u)
      BY <1>0, <3>1 DEF TurnStates, Closed
    <3>3. QED  BY <2>1, <3>2, VerdictMeans
  <2>2. CASE u = t
    BY <1>1, <2>2, <1>0 DEF Turns
  <2>3. CASE t < u
    <3>1. turn[u] = "absent"
      BY <1>0, <2>3 DEF ReserveStep, IInv, DriverKnowledge, WayOutInv, InOrder
    <3>2. QED  BY <1>0, <2>3, <3>1, VerdictMeans DEF Turns
  <2>4. QED  BY <1>0, <2>1, <2>2, <2>3 DEF Turns
<1>3. Verdict(t)' = "open"
  BY <1>0 DEF ReserveStep, Verdict
<1>4. \A u \in Turns \ {t} : Verdict(u)' = Verdict(u)
  BY <1>0 DEF ReserveStep, Verdict
<1>5. world' = world
  BY DEF ReserveStep
<1>6. QED  BY <1>0, <1>1, <1>2, <1>3, <1>4, <1>5, VerdictGiven DEF Promise!Open

(* An input is begun alone.                                                *)
LEMMA SendKeepsPromise ==
    ASSUME IInv, OutcomeInv, op.pc = "start", Send, UNCHANGED <<turn, att>>
    PROVE  Promise!Begin(op.t)
<1>0. op.t \in Turns
  BY Typed
<1>1. turn[op.t] = "active" /\ world[op.t] = "unsent"
  BY <1>0 DEF OutcomeInv, OpKnows, OpenAttempt, DurableInv, Effects
<1>2. \A u \in Turns : world[u] # "running"
  BY <1>0, <1>1, RunningIsOpen DEF OutcomeInv, DurableInv, OneOpen
<1>3. Verdict(op.t) = "open"
  BY <1>0, <1>1, VerdictMeans
<1>4. world' = [world EXCEPT ![op.t] = "running"]
  BY DEF Send
<1>5. QED  BY <1>0, <1>1, <1>2, <1>3, <1>4, VerdictsKept DEF Promise!Begin

(* An input ends, at most one.                                             *)
LEMMA EndKeepsPromise ==
    ASSUME IInv, OutcomeInv, IInv', EndStep
    PROVE  PromiseStep
<1>0. world \in [Turns -> WorldStates] /\ world' \in [Turns -> WorldStates]
  BY DEF IInv, TypeOK
<1>1. [u \in Turns |-> Verdict(u)]' = [u \in Turns |-> Verdict(u)]
  BY VerdictsKept DEF EndStep
<1>2. CASE world' = world
  BY <1>1, <1>2 DEF PromiseStep, Promise!promiseVars
<1>3. CASE world' # world
  <2>1. PICK t \in Turns : world'[t] # world[t]
    BY <1>0, <1>3
  <2>2. world[t] = "running" /\ world'[t] \in Promise!Ends
    BY <2>1 DEF EndStep, Promise!Ends
  <2>3. \A u \in Turns \ {t} : world[u] # "running"
    BY <2>2, RunningIsOpen DEF OutcomeInv, DurableInv, OneOpen
  <2>4. world' = [world EXCEPT ![t] = world'[t]]
    BY <1>0, <2>3 DEF EndStep
  <2>5. Promise!End(t, world'[t])
    BY <1>1, <2>2, <2>4 DEF Promise!End
  <2>6. QED  BY <2>2, <2>5 DEF PromiseStep, Promise!PromiseNext
<1>4. QED  BY <1>2, <1>3

(* A turn is closed with a true verdict.                                   *)
LEMMA CloseKeepsPromise ==
    ASSUME IInv, IInv', OutcomeInv', NEW t \in Turns, CloseStep(t)
    PROVE  PromiseStep
<1>0. turn \in [Turns -> TurnStates]
  BY Typed
<1>1. turn'[t] \in {"completed", "failed"} /\ \A u \in Turns \ {t} : turn'[u] = turn[u]
  BY <1>0 DEF CloseStep
<1>2. /\ world' = world /\ turn[t] = "active"
      /\ \A u \in Turns \ {t} : att'[u] = att[u]
  BY DEF CloseStep
<1>3. /\ turn'[t] = "completed" <=> att'[t].state = "succeeded"
      /\ att'[t].state \notin {"prepared", "dispatch_authorized"}
      /\ world'[t] # "running"
  BY <1>1 DEF OutcomeInv, DurableInv, Closings, Closed, ClosedWell
<1>4. /\ att'[t].state = "succeeded" => world'[t] = "ok"
      /\ att'[t].state = "failed_definitive" => world'[t] \in {"failed", "cut"}
      /\ att'[t].state \in {"none", "canceled", "not_submitted"} => world'[t] = "unsent"
  BY DEF OutcomeInv, DurableInv, Effects
<1>5. att'[t].state \in AttemptStates
  BY DEF IInv, TypeOK, Attempt
<1>6. Verdict(t)' \in Promise!Verdicts
  BY <1>1 DEF Verdict, Promise!Verdicts
<1>7. Promise!Justified(Verdict(t)', world[t])
  BY <1>1, <1>2, <1>3, <1>4, <1>5 DEF Verdict, Promise!Justified, AttemptStates
<1>8. Verdict(t) = "open"
  BY <1>2, VerdictMeans
<1>9. \A u \in Turns \ {t} : Verdict(u)' = Verdict(u)
  BY <1>1, <1>2 DEF Verdict
<1>10. PICK v \in Promise!Verdicts : v = Verdict(t)'
  BY <1>6
<1>11. [u \in Turns |-> Verdict(u)]' = [[u \in Turns |-> Verdict(u)] EXCEPT ![t] = v]
  BY <1>9, <1>10, VerdictGiven
<1>12. Promise!Close(t, v)
  BY <1>2, <1>7, <1>8, <1>10, <1>11 DEF Promise!Close
<1>13. QED  BY <1>12 DEF PromiseStep, Promise!PromiseNext

(* At first only the first turn is over.                                   *)
LEMMA InitPromise == Init => Promise!PromiseInit
<1> SUFFICES ASSUME Init PROVE Promise!PromiseInit
  OBVIOUS
<1>1. {0} \in SUBSET Turns
  BY TurnsAssumption DEF Turns
<1>2. [t \in Turns |-> Verdict(t)] = [t \in Turns |-> IF t \in {0} THEN "completed" ELSE "new"]
  BY DEF Init, Verdict
<1>3. world = [t \in Turns |-> IF t \in {0} THEN "ok" ELSE "unsent"]
  BY DEF Init
<1>4. QED  BY <1>1, <1>2, <1>3 DEF Promise!PromiseInit

(* The conversation implements its promise: every step of the store, the   *)
(* driver, a control command, a worker, a crash or a restart opens the     *)
(* next turn, begins or ends one input, gives a turn one true and final    *)
(* verdict, or shows the user nothing.                                     *)
THEOREM PromiseIsKept == Spec => ImplementsConversationPromise
<1>1. IInv /\ OutcomeInv /\ WayOutInv /\ IInv' /\ OutcomeInv' /\ [Next]_vars
        => [Promise!PromiseNext]_(Promise!promiseVars)
  <2> SUFFICES ASSUME IInv, OutcomeInv, WayOutInv, IInv', OutcomeInv', [Next]_vars
               PROVE  PromiseStep
    BY DEF PromiseStep
  <2>0. op.t \in Turns
    BY Typed
  <2>1. CASE StillStep
    BY <2>1, VerdictsKept DEF StillStep, PromiseStep, Promise!promiseVars
  <2>2. CASE ReserveStep
    BY <2>2, ReserveKeepsPromise DEF PromiseStep, Promise!PromiseNext
  <2>3. CASE op.pc = "start" /\ Send /\ UNCHANGED <<turn, att>>
    BY <2>0, <2>3, SendKeepsPromise DEF PromiseStep, Promise!PromiseNext
  <2>4. CASE EndStep
    BY <2>4, EndKeepsPromise
  <2>5. CASE \E t \in Turns : CloseStep(t)
    BY <2>5, CloseKeepsPromise
  <2>6. QED  BY <2>1, <2>2, <2>3, <2>4, <2>5, StepShapes DEF StepShape
<1>2. QED
  BY <1>1, InitPromise, TurnInvariance, OutcomeInvariance, WayOutInvariance, PTL
     DEF Spec, ImplementsConversationPromise, Promise!PromiseSpec
=============================================================================
