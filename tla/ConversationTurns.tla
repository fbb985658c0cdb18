-------------------------- MODULE ConversationTurns --------------------------
(***************************************************************************)
(* The later user turns of one ordinary conversation: from the reservation *)
(* of a turn through the launch of a Codex process, the provider attempt   *)
(* and its evidence to the settled turn (crates/decodex-runtime/src/       *)
(* conversation.rs over database/src/conversations.rs, continuations.rs,   *)
(* provider_attempts.rs), with the control command that settles what an    *)
(* ambiguity, a crash or a shutdown left open.                             *)
(*                                                                         *)
(* Commands on a conversation are serialised and bounce off a running      *)
(* turn, so one driver, op, takes a submitted turn all the way; around it  *)
(* processes die, the provider finishes, store calls fail or commit and    *)
(* lose their answer, and the service crashes or shuts down, which clears  *)
(* the local state under a command that still runs.                        *)
(*                                                                         *)
(* The supervisor enters as ProcessSupervisor promises: one process per    *)
(* account, and a row is dead only if nothing of the process runs.  A      *)
(* turn's process generation is named after the turn that launched it.     *)
(***************************************************************************)
EXTENDS ProviderAttemptStore, FiniteSets

CONSTANTS
    MaxTurns,       \* bound: user turns submitted after the first one
    MaxCrashes,     \* bound: crashes and shutdowns of the service
    MaxFaults       \* bound: store calls that fail or lose their answer

ASSUME TurnsAssumption == MaxTurns \in Nat /\ MaxCrashes \in Nat /\ MaxFaults \in Nat

Turns == 0 .. MaxTurns      \* turn 0 completed before the model starts

VARIABLES
    turn,       \* the durable turns
    bound,      \* the RuntimeSession each turn is bound to
    att,        \* the durable provider attempts, one per turn
    session,    \* the conversation's current RuntimeSession
    gen,        \* durable state of each turn's process generation
    alive,      \* generations whose process runs
    world,      \* what the Codex process did with the turn's input
    sent,       \* how often the input was handed to a process
    local,      \* the runtime's LocalTask of the conversation
    op,         \* the command (or its worker) in progress
    phase,      \* "up", "draining" (shutting_down), "closed" (local state cleared)
    crashes, faults

turnVars  == <<turn, bound>>
procVars  == <<gen, alive, world>>
hostVars  == <<phase, crashes>>
vars == <<turnVars, att, session, procVars, sent, local, op, hostVars, faults>>

----------------------------------------------------------------------------
(* Types.                                                                  *)

(* "fenced": a starting session whose thread may have been started.  A     *)
(* generation is "lost" while the row is neither ready nor dead.           *)
TurnStates == {"absent", "active", "completed", "failed"}
SessionStates == {"starting", "fenced", "active", "ended"}
GenStates == {"absent", "ready", "lost", "dead"}
WorldStates == {"unsent", "running", "ok", "failed", "cut"}

(* "missing" is Recovery(MissingLocalProcess), "manual" any other one.     *)
LocalStates == {"none", "preparing", "ready", "active", "missing", "manual"}
Local(state, proc) == [state |-> state, proc |-> proc]
NoLocal == Local("none", 0)

Steps == {"idle", "reserve", "plan", "prior", "launch", "reconcile", "resume", "fence",
          "bind", "prepare", "authorize", "cancel", "start", "not_submitted", "drive",
          "evidence", "terminalize", "retire", "mark", "mark_last", "stop_missing",
          "stop_manual", "stop_marking", "stop_refuse", "stop_reconcile", "refuse",
          "refuse_manual", "refuse_bound", "recover_bound", "settle"}

(* proc is the process in use; prior the one the conversation was Ready    *)
(* with when the turn was submitted, 0 if there was none.                  *)
Op == [pc : Steps, t : Turns, proc : Turns, prior : Turns, rev : Nat,
       outcome : {"none", "succeeded", "failed_definitive"}]
Idle == [pc |-> "idle", t |-> 0, proc |-> 0, prior |-> 0, rev |-> 0, outcome |-> "none"]

TypeOK ==
    /\ turn \in [Turns -> TurnStates]
    /\ bound \in [Turns -> Nat]
    /\ att \in [Turns -> Attempt]
    /\ session \in [n : Nat, state : SessionStates, acked : BOOLEAN]
    /\ gen \in [Turns -> GenStates]
    /\ alive \subseteq Turns
    /\ world \in [Turns -> WorldStates]
    /\ sent \in [Turns -> Nat]
    /\ local \in [state : LocalStates, proc : Turns]
    /\ op \in Op
    /\ phase \in {"up", "draining", "closed"} /\ crashes \in Nat /\ faults \in Nat

(* The first turn ended well: its process is retired, its thread is bound. *)
Init ==
    /\ turn = [t \in Turns |-> IF t = 0 THEN "completed" ELSE "absent"]
    /\ bound = [t \in Turns |-> 1]
    /\ att = [t \in Turns |-> IF t = 0 THEN [state |-> "succeeded", rev |-> 3, gen |-> 0,
                                             session |-> 1]
                                       ELSE NoAttempt]
    /\ session = [n |-> 1, state |-> "active", acked |-> TRUE]
    /\ gen = [t \in Turns |-> IF t = 0 THEN "dead" ELSE "absent"]
    /\ alive = {}
    /\ world = [t \in Turns |-> IF t = 0 THEN "ok" ELSE "unsent"]
    /\ sent = [t \in Turns |-> IF t = 0 THEN 1 ELSE 0]
    /\ local = NoLocal
    /\ op = Idle
    /\ phase = "up"
    /\ crashes = 0
    /\ faults = 0

----------------------------------------------------------------------------
(* The store, the processes and the local task as the driver sees them.    *)

(* A store call is answered, fails, or commits and loses its answer.       *)
Replies == {"ok"} \cup (IF faults < MaxFaults THEN {"failed", "lost"} ELSE {})
Charge(reply) == faults' = IF reply = "ok" THEN faults ELSE faults + 1
Commits(reply) == reply # "failed"

At(pc) == op.pc = pc
Goto(pc) == op' = [op EXCEPT !.pc = pc]

(* Mutant: the entry of a running turn is left as it is.                   *)
SetRecoveryUnlessActive(kind) ==
    local' = IF local.state \in {"none", "active"} THEN local ELSE Local(kind, 0)

(* set_recovery updates an existing entry and never makes one.             *)
SetRecovery(kind) ==
    local' = IF local.state = "none" THEN local ELSE Local(kind, 0)

(* ambiguous: the command is over, its turn stays as it is.                *)
Ambiguous == op' = Idle /\ SetRecovery("missing")

(* remove_recovery_projection                                              *)
RemoveRecovery == local' = IF local.state \in {"missing", "manual"} THEN NoLocal ELSE local

Cut(g) == [t \in Turns |-> IF world[t] = "running" /\ att[t].gen = g THEN "cut" ELSE world[t]]

(* Mutant: a process that was asked to end counts as dead.                 *)
RetireAssumed(g, proved) ==
    /\ gen' = [gen EXCEPT ![g] = "dead"]
    /\ alive' = IF proved THEN alive \ {g} ELSE alive
    /\ world' = IF proved THEN Cut(g) ELSE world

(* retire_process: death is proved, or the row stays non-dead and the      *)
(* process may run on.                                                     *)
Retire(g, proved) ==
    /\ gen[g] = "dead" => proved
    /\ gen' = [gen EXCEPT ![g] = IF proved THEN "dead" ELSE "lost"]
    /\ alive' = IF proved THEN alive \ {g} ELSE alive
    /\ world' = IF proved THEN Cut(g) ELSE world

ActiveTurns == {t \in Turns : turn[t] = "active"}

(* has_unresolved_process_generation: of the session, not of the account.  *)
SessionQuiet == \A g \in Turns : bound[g] = session.n => gen[g] \in {"absent", "dead"}

(* Process-generation quarantine of the account (ProcessSupervisor).       *)
AccountFree == \A g \in Turns : gen[g] \in {"absent", "dead"}

SessionAttempts == {t \in Turns : att[t].state # "none" /\ att[t].session = session.n}
Latest == CHOOSE t \in SessionAttempts : \A u \in SessionAttempts : u <= t

(* has_same_thread_evidence                                                *)
SameThreadEvidence ==
    SessionAttempts # {} /\ att[Latest].state \in {"succeeded", "failed_definitive"}

(* can_plan_context_fallback: the conversation may go on in a new thread   *)
(* once the last input surely did not run, or its turn was given up and    *)
(* its process is dead.                                                    *)
ContextFallback ==
    /\ session.acked /\ SessionAttempts # {}
    /\ \/ att[Latest].state \in {"not_submitted", "canceled"}
       \/ /\ att[Latest].state = "unknown" /\ turn[Latest] = "failed"
          /\ gen[att[Latest].gen] = "dead"

(* finalize_reserved_turn                                                  *)
FailTurn(t, reply) ==
    turn' = IF Commits(reply) THEN [turn EXCEPT ![t] = "failed"] ELSE turn

StoreAttempt(t, result, reply) ==
    /\ Charge(reply)
    /\ att' = IF Commits(reply) THEN [att EXCEPT ![t] = result.row] ELSE att

Accepted(result, reply) == reply = "ok" /\ result.outcome # "rejected"

----------------------------------------------------------------------------
(* Submission: submit_turn, admit_later_turn and admit_rehydrated_turn.    *)

NextTurn == {t \in Turns : turn[t] = "absent" /\ \A u \in 0 .. t - 1 : turn[u] # "absent"}

(* Without a process the durable session decides; a Ready conversation     *)
(* goes on with its process.  Every other local state refuses, and so does *)
(* an archived conversation.                                               *)
Submit(t) ==
    /\ op = Idle /\ phase = "up" /\ t \in NextTurn
    /\ session.state # "ended"
    /\ \/ /\ local.state \in {"none", "missing"}
          /\ session.state = "active"
          /\ \A u \in ActiveTurns : bound[u] # session.n
          /\ op' = [Idle EXCEPT !.pc = "reserve", !.t = t]
          /\ UNCHANGED local
       \/ /\ local.state = "ready"
          /\ op' = [Idle EXCEPT !.pc = "reserve", !.t = t, !.proc = local.proc,
                                !.prior = local.proc]
          /\ local' = Local("preparing", local.proc)
    /\ UNCHANGED <<turnVars, att, session, procVars, sent, hostVars, faults>>

(* reserve_user_turn.  set_preparing fails if shutdown cleared the entry.  *)
Reserve(reply) ==
    /\ At("reserve")
    /\ Charge(reply)
    /\ turn' = IF Commits(reply) THEN [turn EXCEPT ![op.t] = "active"] ELSE turn
    /\ bound' = [bound EXCEPT ![op.t] = session.n]
    /\ IF reply = "ok"
       THEN /\ Goto(IF op.prior = 0 \/ local.state = "preparing" THEN "plan"
                                                                 ELSE "stop_refuse")
            /\ UNCHANGED local
       ELSE IF op.prior = 0 THEN Ambiguous ELSE Goto("stop_missing") /\ UNCHANGED local
    /\ UNCHANGED <<att, session, procVars, sent, hostVars>>

(* plan_existing_session and plan_continuation: stay in the thread, or end *)
(* the session and go on in a fresh one that takes the turn over.          *)
PlanSameThread ==
    /\ At("plan") /\ SameThreadEvidence
    /\ Goto(IF op.prior = 0 THEN "launch" ELSE "resume")
    /\ UNCHANGED <<turnVars, att, session, procVars, sent, local, hostVars, faults>>

SwitchSession ==
    /\ session' = [n |-> session.n + 1, state |-> "starting", acked |-> FALSE]
    /\ bound' = [bound EXCEPT ![op.t] = session.n + 1]

PlanFallback ==
    /\ At("plan") /\ ~SameThreadEvidence /\ ContextFallback
    /\ SwitchSession
    /\ Goto(IF op.prior = 0 THEN "launch" ELSE "prior")
    /\ UNCHANGED <<turn, att, procVars, sent, local, hostVars, faults>>

(* No plan, no route (a conflict), or an account that is not usable.       *)
PlanRefused ==
    /\ At("plan")
    /\ IF op.prior # 0 THEN Goto("refuse_bound") ELSE Goto("refuse") \/ Goto("refuse_manual")
    /\ UNCHANGED <<turnVars, att, session, procVars, sent, local, hostVars, faults>>

PlanFails(reply) ==
    /\ At("plan") /\ reply # "ok"
    /\ Charge(reply)
    /\ IF reply = "lost" /\ ~SameThreadEvidence /\ ContextFallback
       THEN SwitchSession ELSE UNCHANGED <<session, bound>>
    /\ IF op.prior = 0 THEN Ambiguous ELSE Goto("stop_missing") /\ UNCHANGED local
    /\ UNCHANGED <<turn, att, procVars, sent, hostVars>>

----------------------------------------------------------------------------
(* The process: launch, resume the thread, or start a thread in the new    *)
(* session (fence, start, bind).                                           *)

(* The admission receipt is stored first.  If it was not stored, the       *)
(* reconciliation that follows cannot exclude a start.                     *)
AdmissionFails(reply) ==
    /\ At("launch") /\ reply # "ok"
    /\ Charge(reply)
    /\ IF reply = "failed" THEN Ambiguous ELSE Goto("reconcile") /\ UNCHANGED local
    /\ UNCHANGED <<turnVars, att, session, procVars, sent, hostVars>>

Launch ==
    /\ At("launch") /\ AccountFree
    /\ gen' = [gen EXCEPT ![op.t] = "ready"]
    /\ alive' = alive \cup {op.t}
    /\ op' = [op EXCEPT !.proc = op.t,
                        !.pc = IF session.state = "active" THEN "resume" ELSE "fence"]
    /\ UNCHANGED <<turnVars, att, session, world, sent, local, hostVars, faults>>

(* Refused before a row exists, or failed with the process dead or lost.   *)
LaunchFails ==
    /\ At("launch")
    /\ \/ UNCHANGED <<gen, alive>>
       \/ /\ AccountFree
          /\ \E state \in {"dead", "lost"} : gen' = [gen EXCEPT ![op.t] = state]
          /\ alive' \in IF gen'[op.t] = "lost" THEN {alive, alive \cup {op.t}} ELSE {alive}
    /\ Goto("reconcile")
    /\ UNCHANGED <<turnVars, att, session, world, sent, local, hostVars, faults>>

(* reconcile_pre_effect: a turn is refused only if its session's thread    *)
(* was surely not started.                                                 *)
Reconcile(reply) ==
    /\ At("reconcile")
    /\ Charge(reply)
    /\ IF reply = "ok" /\ session.state = "starting" /\ gen[op.t] \in {"absent", "dead"}
       THEN Goto("refuse_manual") /\ UNCHANGED local
       ELSE Ambiguous
    /\ UNCHANGED <<turnVars, att, session, procVars, sent, hostVars>>

Usable(g) == gen[g] = "ready" /\ g \in alive

(* resume_same_thread, then install_rehydrated_preparing for a new process.*)
Resume ==
    /\ At("resume") /\ Usable(op.proc)
    /\ IF op.prior # 0 THEN Goto("prepare") /\ UNCHANGED local
       ELSE IF local.state = "none"
            THEN Goto("prepare") /\ local' = Local("preparing", op.proc)
            ELSE Goto("stop_missing") /\ UNCHANGED local
    /\ UNCHANGED <<turnVars, att, session, procVars, sent, hostVars, faults>>

ResumeFails ==
    /\ At("resume")
    /\ Goto("recover_bound") \/ Goto("stop_missing")
    /\ UNCHANGED <<turnVars, att, session, procVars, sent, local, hostVars, faults>>

(* fence_fallback_thread                                                   *)
FenceThread(reply) ==
    /\ At("fence")
    /\ Charge(reply)
    /\ LET fenced == Commits(reply) /\ gen[op.proc] = "ready"
       IN /\ session' = IF fenced THEN [session EXCEPT !.state = "fenced"] ELSE session
          /\ Goto(IF fenced /\ reply = "ok" THEN "bind" ELSE "stop_reconcile")
    /\ UNCHANGED <<turnVars, att, procVars, sent, local, hostVars>>

(* The request could not be prepared, or the thread not started.           *)
ThreadStartFails ==
    /\ op.pc \in {"fence", "bind"}
    /\ Goto("stop_reconcile")
    /\ UNCHANGED <<turnVars, att, session, procVars, sent, local, hostVars, faults>>

(* start_fallback_thread and install_fallback_thread.  A lost binding is   *)
(* read back.                                                              *)
BindThread(reply) ==
    /\ At("bind") /\ Usable(op.proc)
    /\ Charge(reply)
    /\ session' = IF Commits(reply) THEN [session EXCEPT !.state = "active"] ELSE session
    /\ IF /\ Commits(reply)
          /\ local = IF op.prior = 0 THEN NoLocal ELSE Local("preparing", op.prior)
       THEN /\ local' = Local("preparing", op.proc)
            /\ Goto("prepare") \/ Goto("recover_bound")
       ELSE Goto("stop_missing") /\ UNCHANGED local
    /\ UNCHANGED <<turnVars, att, procVars, sent, hostVars>>

----------------------------------------------------------------------------
(* The provider attempt: dispatch_turn to start_authorized_dispatch.       *)

PrepareAttempt(reply) ==
    /\ At("prepare") /\ gen[op.proc] = "ready"
    /\ Charge(reply)
    /\ att' = IF Commits(reply)
              THEN [att EXCEPT ![op.t] = PreparedAttempt(op.proc, session.n)] ELSE att
    /\ op' = IF reply = "ok" THEN [op EXCEPT !.pc = "authorize", !.rev = 1]
                             ELSE [op EXCEPT !.pc = "stop_missing"]
    /\ UNCHANGED <<turnVars, session, procVars, sent, local, hostVars>>

(* The process or the store refuses, and there is no attempt.              *)
PrepareRefused ==
    /\ At("prepare")
    /\ Goto("refuse_bound")
    /\ UNCHANGED <<turnVars, att, session, procVars, sent, local, hostVars, faults>>

(* Mutant: an authorization without an answer counts as given.             *)
AuthorizeOptimistic(reply) ==
    /\ At("authorize") /\ phase = "up"
    /\ LET result == AuthorizeDispatch(att[op.t], op.rev, gen[op.proc] = "ready")
       IN /\ StoreAttempt(op.t, result, reply)
          /\ op' = [op EXCEPT !.pc = "start", !.rev = op.rev + 1]
    /\ UNCHANGED <<turnVars, session, procVars, sent, local, hostVars>>

Authorize(reply) ==
    /\ At("authorize") /\ phase = "up"
    /\ LET result == AuthorizeDispatch(att[op.t], op.rev, gen[op.proc] = "ready")
       IN /\ StoreAttempt(op.t, result, reply)
          /\ op' = IF reply # "ok" THEN [op EXCEPT !.pc = "stop_missing"]
                   ELSE IF result.outcome = "applied"
                        THEN [op EXCEPT !.pc = "start", !.rev = op.rev + 1]
                        ELSE [op EXCEPT !.pc = "cancel"]
    /\ UNCHANGED <<turnVars, session, procVars, sent, local, hostVars>>

AuthorizeWhenStopping ==
    /\ At("authorize") /\ phase # "up"
    /\ Goto("cancel")
    /\ UNCHANGED <<turnVars, att, session, procVars, sent, local, hostVars, faults>>

(* cancel_prepared_exact                                                   *)
Cancel(reply) ==
    /\ At("cancel")
    /\ LET result == CancelAttempt(att[op.t], op.rev)
       IN /\ StoreAttempt(op.t, result, reply)
          /\ Goto(IF Accepted(result, reply) THEN "refuse_bound" ELSE "stop_missing")
    /\ UNCHANGED <<turnVars, session, procVars, sent, local, hostVars>>

Send ==
    /\ Usable(op.proc)
    /\ sent' = [sent EXCEPT ![op.t] = @ + 1]
    /\ world' = [world EXCEPT ![op.t] = "running"]

(* start_turn and activate_dispatched_turn                                 *)
StartTurn ==
    /\ At("start") /\ Send
    /\ IF phase = "up" /\ local = Local("preparing", op.proc)
       THEN Goto("drive") /\ local' = Local("active", op.proc)
       ELSE Goto("mark") /\ UNCHANGED local
    /\ UNCHANGED <<turnVars, att, session, gen, alive, hostVars, faults>>

(* ServerDraining, ManagedProviderChanged: the input was not taken.        *)
StartRefused ==
    /\ At("start") /\ Usable(op.proc)
    /\ Goto("not_submitted")
    /\ UNCHANGED <<turnVars, att, session, procVars, sent, local, hostVars, faults>>

(* Mutant: any error of turn/start is read as a refusal of the input.      *)
StartFailsUnsubmitted ==
    /\ At("start")
    /\ Send \/ UNCHANGED <<sent, world>>
    /\ Goto("not_submitted")
    /\ UNCHANGED <<turnVars, att, session, gen, alive, local, hostVars, faults>>

(* Any other error: the input may have been taken.                         *)
StartFails ==
    /\ At("start")
    /\ Send \/ UNCHANGED <<sent, world>>
    /\ Goto("mark")
    /\ UNCHANGED <<turnVars, att, session, gen, alive, local, hostVars, faults>>

(* finish_native_non_submission: the evidence and the failed turn are one  *)
(* transaction; the process is kept.                                       *)
NotSubmitted(reply) ==
    /\ At("not_submitted")
    /\ LET result == RecordEvidence(att[op.t], "not_submitted")
       IN StoreAttempt(op.t, result, reply)
    /\ FailTurn(op.t, reply)
    /\ IF reply = "ok" THEN op' = Idle /\ SetRecovery("manual")
                       ELSE Goto("stop_marking") /\ UNCHANGED local
    /\ UNCHANGED <<bound, session, procVars, sent, hostVars>>

----------------------------------------------------------------------------
(* The running turn: drive_turn and finish_positive_turn.                  *)

TurnCompleted ==
    /\ At("drive") /\ world[op.t] \in {"ok", "failed"}
    /\ op' = [op EXCEPT !.pc = "evidence",
                        !.outcome = IF world[op.t] = "ok" THEN "succeeded"
                                                          ELSE "failed_definitive"]
    /\ UNCHANGED <<turnVars, att, session, procVars, sent, local, hostVars, faults>>

(* The connection fails; the worker is told to stop.                       *)
WorkerFails ==
    /\ At("drive")
    /\ Goto("mark")
    /\ UNCHANGED <<turnVars, att, session, procVars, sent, local, hostVars, faults>>

WorkerStops == phase = "draining" /\ WorkerFails

RecordTurnEvidence(reply) ==
    /\ At("evidence")
    /\ LET result == RecordEvidence(att[op.t], op.outcome)
       IN /\ StoreAttempt(op.t, result, reply)
          /\ op' = IF Accepted(result, reply)
                   THEN [op EXCEPT !.pc = "terminalize", !.rev = op.rev + 1]
                   ELSE [op EXCEPT !.pc = "mark"]
    /\ UNCHANGED <<turnVars, session, procVars, sent, local, hostVars>>

(* terminalization_authority_matches                                       *)
TerminalizationMatches(t, rev, outcome) ==
    /\ att[t].rev = rev /\ att[t].state = outcome
    /\ turn[t] = "active" /\ session.state = "active" /\ bound[t] = session.n

(* terminalize_conversation_turn: turn and session follow the attempt.     *)
TerminalizeTurn(t, rev, outcome, reply) ==
    /\ Charge(reply)
    /\ IF Commits(reply) /\ TerminalizationMatches(t, rev, outcome)
       THEN /\ turn' = [turn EXCEPT ![t] = IF outcome = "succeeded" THEN "completed"
                                                                    ELSE "failed"]
            /\ session' = [session EXCEPT !.acked = TRUE]
       ELSE UNCHANGED <<turn, session>>
    /\ UNCHANGED bound

Terminalize(reply) ==
    /\ At("terminalize")
    /\ TerminalizeTurn(op.t, op.rev, op.outcome, reply)
    /\ op' = IF reply = "ok" /\ TerminalizationMatches(op.t, op.rev, op.outcome)
             THEN [op EXCEPT !.pc = "retire"]
             ELSE [op EXCEPT !.pc = "mark", !.rev = op.rev - 1]
    /\ UNCHANGED <<att, procVars, sent, local, hostVars>>

RetireTurn(proved) ==
    /\ At("retire")
    /\ Retire(op.proc, proved)
    /\ local' = IF proved THEN NoLocal ELSE Local("manual", 0)
    /\ op' = Idle
    /\ UNCHANGED <<turnVars, att, session, sent, hostVars, faults>>

----------------------------------------------------------------------------
(* Ways out of a command that did not go well.                             *)

(* mark_unknown at the revision this worker knows; its answer is ignored.  *)
Mark(reply) ==
    /\ op.pc \in {"mark", "mark_last"}
    /\ StoreAttempt(op.t, MarkUnknown(att[op.t], op.rev), reply)
    /\ IF At("mark") THEN Goto("stop_missing") ELSE op' = Idle
    /\ UNCHANGED <<turnVars, session, procVars, sent, local, hostVars>>

(* terminate_process, and what each caller does next.                      *)
AfterStop ==
    CASE At("stop_missing")   -> op' = Idle /\ SetRecovery("missing")
      [] At("stop_manual")    -> op' = Idle /\ SetRecovery("manual")
      [] At("stop_marking")   -> Goto("mark_last") /\ SetRecovery("missing")
      [] At("stop_refuse")    -> Goto("refuse_bound") /\ UNCHANGED local
      [] At("stop_reconcile") -> Goto("reconcile") /\ UNCHANGED local
      [] At("prior")          -> Goto("launch") /\ UNCHANGED local

Stop(proved) ==
    /\ op.pc \in {"stop_missing", "stop_manual", "stop_marking", "stop_refuse",
                  "stop_reconcile", "prior"}
    /\ Retire(op.proc, proved)
    /\ AfterStop
    /\ UNCHANGED <<turnVars, att, session, sent, hostVars, faults>>

(* finalize_initial_refusal                                                *)
Refuse(reply) ==
    /\ op.pc \in {"refuse", "refuse_manual"}
    /\ Charge(reply)
    /\ FailTurn(op.t, reply)
    /\ IF reply # "ok" THEN Ambiguous
       ELSE /\ op' = Idle
            /\ IF At("refuse_manual") THEN SetRecovery("manual") ELSE UNCHANGED local
    /\ UNCHANGED <<bound, att, session, procVars, sent, hostVars>>

(* restore_ready, like set_recovery, needs an entry.                       *)
RestoreReady(g) == local' = IF local.state = "none" THEN local ELSE Local("ready", g)

(* Mutant: the conversation is Ready again whatever the store answered.    *)
RefuseBoundUnchecked(reply) ==
    /\ At("refuse_bound") /\ session.acked
    /\ Charge(reply)
    /\ FailTurn(op.t, reply)
    /\ op' = Idle
    /\ RestoreReady(op.proc)
    /\ UNCHANGED <<bound, att, session, procVars, sent, hostVars>>

(* finalize_bound_refusal: the process serves the next turn.               *)
RefuseBound(reply) ==
    /\ At("refuse_bound")
    /\ Charge(reply)
    /\ FailTurn(op.t, reply)
    /\ IF reply = "ok" /\ session.acked
       THEN op' = Idle /\ RestoreReady(op.proc)
       ELSE Goto(IF reply = "ok" THEN "stop_manual" ELSE "stop_missing") /\ UNCHANGED local
    /\ UNCHANGED <<bound, att, session, procVars, sent, hostVars>>

(* finalize_bound_recovery, finalize_rejected_resume                       *)
RecoverBound(reply) ==
    /\ At("recover_bound")
    /\ Charge(reply)
    /\ FailTurn(op.t, reply)
    /\ Goto(IF reply = "ok" THEN "stop_manual" ELSE "stop_missing")
    /\ UNCHANGED <<bound, att, session, procVars, sent, local, hostVars>>

----------------------------------------------------------------------------
(* control_thread.  Each control command reads, decides and writes while   *)
(* no other command runs, so it is one step up to its first write.  An     *)
(* archiving command goes on after it settled the turn: that is            *)
(* ControlArchive, from the state the settlement left.                     *)

Controllable ==
    /\ op = Idle /\ phase = "up" /\ local.state \notin {"active", "preparing"}
    /\ session.state # "ended"
    /\ \A t \in Turns : att[t].state \notin {"prepared", "dispatch_authorized"}

(* finish_pending_terminalization: the evidence is there, the turn open.   *)
PendingTurn(t) ==
    /\ session.state = "active" /\ bound[t] = session.n /\ turn[t] = "active"
    /\ att[t].state \in {"succeeded", "failed_definitive"}

ControlPending(t, reply) ==
    /\ Controllable /\ PendingTurn(t)
    /\ TerminalizeTurn(t, att[t].rev, att[t].state, reply)
    /\ IF reply = "ok" THEN RemoveRecovery ELSE UNCHANGED local
    /\ UNCHANGED <<att, procVars, sent, op, hostVars>>

(* Mutant: the thread is asked about a turn that was given up, too.        *)
UnknownAttempt(t) ==
    /\ session.state = "active" /\ SessionQuiet /\ bound[t] = session.n
    /\ att[t].state = "unknown"

UnknownTurn(t) ==
    /\ session.state = "active" /\ SessionQuiet /\ bound[t] = session.n
    /\ turn[t] = "active" /\ att[t].state = "unknown"

(* What the saved thread tells of an input: read_exact_ordinary_submitted_ *)
(* turn.  A turn cut off by its process reads as interrupted or as open.   *)
Observations(t) ==
    CASE world[t] = "ok"     -> {"succeeded", "none"}
      [] world[t] = "failed" -> {"failed_definitive", "none"}
      [] world[t] = "cut"    -> {"failed_definitive", "none"}
      [] OTHER               -> {"none"}

(* reconcile_exact_unknown_turn: the thread tells how the turn ended.      *)
Observed(t) == Observations(t) \ {"none"}

ControlObserve(t, reply) ==
    /\ Controllable /\ UnknownTurn(t)
    /\ \E outcome \in Observed(t) :
         LET result == RecordEvidence(att[t], outcome)
         IN /\ StoreAttempt(t, result, reply)
            /\ op' = IF Accepted(result, reply)
                     THEN [Idle EXCEPT !.pc = "settle", !.t = t, !.rev = att[t].rev + 1,
                                       !.outcome = outcome]
                     ELSE op
    /\ UNCHANGED <<turnVars, session, procVars, sent, local, hostVars>>

Settle(reply) ==
    /\ At("settle")
    /\ TerminalizeTurn(op.t, op.rev, op.outcome, reply)
    /\ op' = Idle
    /\ IF reply = "ok" THEN RemoveRecovery ELSE UNCHANGED local
    /\ UNCHANGED <<att, procVars, sent, hostVars>>

(* close_unknown_control_turn: the thread tells nothing and the process is *)
(* dead.  The turn is given up, the attempt stays unknown.                 *)
Unobservable(t) == "none" \in Observations(t) /\ gen[att[t].gen] = "dead"

ControlClose(t, reply) ==
    /\ Controllable /\ UnknownTurn(t) /\ Unobservable(t)
    /\ Charge(reply)
    /\ FailTurn(t, reply)
    /\ IF reply = "ok" THEN RemoveRecovery ELSE UNCHANGED local
    /\ UNCHANGED <<bound, att, session, procVars, sent, op, hostVars>>

(* Mutants: the stranded turn's attempt is only known not to be open; only *)
(* a bound session's turns are reconciled.                                 *)
StrandedAnyTerminal(t) ==
    /\ turn[t] = "active" /\ bound[t] = session.n /\ SessionQuiet
    /\ att[t].state \notin UnresolvedAttempt
StrandedBoundOnly(t) ==
    /\ session.state = "active"
    /\ turn[t] = "active" /\ bound[t] = session.n /\ SessionQuiet
    /\ att[t].state \notin UnresolvedAttempt \cup {"succeeded", "failed_definitive"}

(* reconcile_control_turn: a turn without an open attempt, in a session    *)
(* without a process, failed.  Evidence of an end was settled before.      *)
StrandedTurn(t) ==
    /\ turn[t] = "active" /\ bound[t] = session.n /\ SessionQuiet
    /\ att[t].state \notin UnresolvedAttempt \cup {"succeeded", "failed_definitive"}

ControlStranded(t, reply) ==
    /\ Controllable /\ StrandedTurn(t)
    /\ Charge(reply)
    /\ FailTurn(t, reply)
    /\ IF reply = "ok" THEN RemoveRecovery ELSE UNCHANGED local
    /\ UNCHANGED <<bound, att, session, procVars, sent, op, hostVars>>

(* finish_control_archive                                                  *)
ControlArchive(reply) ==
    /\ Controllable
    /\ session.state = "active" /\ SessionQuiet /\ ActiveTurns = {}
    /\ Charge(reply)
    /\ session' = IF Commits(reply) THEN [session EXCEPT !.state = "ended"] ELSE session
    /\ local' = IF reply = "ok" THEN NoLocal ELSE local
    /\ UNCHANGED <<turnVars, att, procVars, sent, op, hostVars>>

----------------------------------------------------------------------------
(* Processes, the provider and the host.                                   *)

ProcessExits(g) ==
    /\ g \in alive
    /\ alive' = alive \ {g}
    /\ world' = Cut(g)
    /\ UNCHANGED <<turnVars, att, session, gen, sent, local, op, hostVars, faults>>

(* The supervisor's reconciliation (ProcessSupervisor).                    *)
DeathRecorded(g) ==
    /\ gen[g] \in {"ready", "lost"} /\ g \notin alive
    /\ gen' = [gen EXCEPT ![g] = "dead"]
    /\ UNCHANGED <<turnVars, att, session, alive, world, sent, local, op, hostVars, faults>>

ProviderFinishes(t) ==
    /\ world[t] = "running"
    /\ \E end \in {"ok", "failed"} : world' = [world EXCEPT ![t] = end]
    /\ UNCHANGED <<turnVars, att, session, gen, alive, sent, local, op, hostVars, faults>>

(* begin_shutdown                                                          *)
Shutdown ==
    /\ phase = "up" /\ crashes < MaxCrashes
    /\ phase' = "draining" /\ crashes' = crashes + 1
    /\ UNCHANGED <<turnVars, att, session, procVars, sent, local, op, faults>>

(* wait_for_shutdown joins the workers (a local task is active while its   *)
(* worker runs) but not a command in progress.                             *)
CloseRuntime(proved) ==
    /\ phase = "draining" /\ local.state # "active"
    /\ phase' = "closed"
    /\ local' = NoLocal
    /\ IF local.state \in {"preparing", "ready"} THEN Retire(local.proc, proved)
       ELSE proved /\ UNCHANGED procVars
    /\ UNCHANGED <<turnVars, att, session, sent, op, crashes, faults>>

(* The service ends, at any point, and starts again: the supervisor and    *)
(* ProviderAttemptControl::start project what it left.                     *)
Restart ==
    /\ phase = "up" => crashes < MaxCrashes
    /\ crashes' = IF phase = "up" THEN crashes + 1 ELSE crashes
    /\ phase' = "up"
    /\ op' = Idle /\ local' = NoLocal
    /\ gen' = [g \in Turns |-> IF gen[g] = "ready" THEN "lost" ELSE gen[g]]
    /\ att' = [t \in Turns |-> ProjectAttempt(att[t])]
    /\ UNCHANGED <<turnVars, session, alive, world, sent, faults>>

----------------------------------------------------------------------------
(* Specification.                                                          *)

CommandStep(reply) ==
    \/ Reserve(reply) \/ PlanFails(reply) \/ AdmissionFails(reply) \/ Reconcile(reply)
    \/ FenceThread(reply) \/ BindThread(reply) \/ PrepareAttempt(reply)
    \/ Authorize(reply) \/ Cancel(reply) \/ NotSubmitted(reply)
    \/ RecordTurnEvidence(reply) \/ Terminalize(reply) \/ Mark(reply)
    \/ Refuse(reply) \/ RefuseBound(reply) \/ RecoverBound(reply) \/ Settle(reply)

(* Every step of the command in progress or of its worker, but a failure   *)
(* of the connection.                                                      *)
Driver ==
    \/ PlanSameThread \/ PlanFallback \/ PlanRefused
    \/ Launch \/ LaunchFails \/ Resume \/ ResumeFails \/ ThreadStartFails
    \/ PrepareRefused \/ AuthorizeWhenStopping
    \/ StartTurn \/ StartRefused \/ StartFails
    \/ TurnCompleted
    \/ \E reply \in Replies : CommandStep(reply)
    \/ \E proved \in BOOLEAN : RetireTurn(proved) \/ Stop(proved)

Control ==
    \/ \E t \in Turns, reply \in Replies :
         ControlPending(t, reply) \/ ControlObserve(t, reply)
         \/ ControlClose(t, reply) \/ ControlStranded(t, reply)
    \/ \E reply \in Replies : ControlArchive(reply)

Environment ==
    \/ \E g \in Turns : ProcessExits(g) \/ DeathRecorded(g) \/ ProviderFinishes(g)
    \/ Shutdown \/ Restart

Next ==
    \/ \E t \in Turns : Submit(t)
    \/ Driver \/ WorkerFails \/ Control \/ Environment
    \/ \E proved \in BOOLEAN : CloseRuntime(proved)

Spec == Init /\ [][Next]_vars

(* A command and its worker run on while the service shuts down, a worker  *)
(* stops when it is told to, and wait_for_shutdown runs to its end.        *)
FairSpec ==
    /\ Spec
    /\ WF_vars(Driver \/ WorkerStops)
    /\ WF_vars(\E proved \in BOOLEAN : CloseRuntime(proved))

----------------------------------------------------------------------------
(* Properties.                                                             *)

(* What a finished turn says nothing more can happen of: no process works  *)
(* on the input of a turn that is completed or failed, whichever of the    *)
(* commands, the worker or a control command closed it.                    *)
ClosedTurnHasNoEffect ==
    \A t \in Turns : turn[t] \in {"completed", "failed"} => world[t] # "running"

(* Evidence is true: a recorded success or failure is how the provider     *)
(* ended, and an attempt recorded as canceled or not submitted never       *)
(* reached a process.                                                      *)
RecordedOutcomeIsTrue ==
    \A t \in Turns :
        /\ att[t].state = "succeeded" => world[t] = "ok"
        /\ att[t].state = "failed_definitive" => world[t] \in {"failed", "cut"}
        /\ att[t].state \in {"canceled", "not_submitted"} => sent[t] = 0

(* A closed turn and its attempt tell the same story: completed exactly if *)
(* the attempt succeeded, however the turn was closed.                     *)
TurnAgreesWithAttempt ==
    \A t \in Turns : turn[t] \in {"completed", "failed"} =>
        (turn[t] = "completed" <=> att[t].state = "succeeded")

(* Input is handed to a process at most once per turn, and only while the  *)
(* attempt is durably authorized for that process.                         *)
SendIsAuthorized ==
    [][\A t \in Turns : sent'[t] # sent[t] =>
         /\ sent[t] = 0 /\ sent'[t] = 1
         /\ att[t].state = "dispatch_authorized" /\ att[t].gen = op.proc]_vars

(* Input is handed over only when every earlier turn is closed and no      *)
(* other input is being worked on, in this thread or an abandoned one.     *)
SendIsAlone ==
    [][\A t \in Turns : sent'[t] # sent[t] =>
         \A u \in Turns \ {t} : turn[u] # "active" /\ world[u] # "running"]_vars

(* The two writers of an attempt, the worker with the revision it was      *)
(* given and a restart or control command, never overwrite each other: an  *)
(* attempt changes by one revision and a terminal one not at all.          *)
AttemptIsFenced ==
    [][\A t \in Turns : att'[t] # att[t] =>
         /\ att[t].state \notin TerminalAttempt
         /\ att'[t].rev = att[t].rev + 1]_vars

(* A conversation is offered as Ready only if the durable turns and        *)
(* attempts are settled: a Ready submission looks at neither.              *)
ReadyMeansSettled ==
    local.state = "ready" =>
        /\ op = Idle
        /\ \A t \in Turns : turn[t] # "active" /\ (att[t].state \in UnresolvedAttempt =>
                                                     turn[t] = "failed" /\ gen[att[t].gen] = "dead")

(* Some control command takes the turn: it finishes what the evidence      *)
(* says, asks the thread, gives the turn up or fails it.                   *)
TakenByControl(t) ==
    /\ Controllable
    /\ \/ PendingTurn(t) \/ StrandedTurn(t)
       \/ UnknownTurn(t) /\ (Observed(t) # {} \/ Unobservable(t))

(* A turn left open by an ambiguity or a restart can be settled: once the  *)
(* service is up, no command runs and every process is dead, a control     *)
(* command takes it.  (An attempt left prepared or authorized first needs  *)
(* a restart, which projects it.)                                          *)
OpenTurnHasAWayOut ==
    \A t \in ActiveTurns :
        (/\ op = Idle /\ phase = "up" /\ AccountFree
         /\ att[t].state \notin {"prepared", "dispatch_authorized"}) => TakenByControl(t)

(* A shutdown ends: the worker stops, the local tasks are cleared and the  *)
(* command in progress returns, unless the service is started again.       *)
ShutdownDrains ==
    phase = "draining" ~> (phase = "up" \/ (phase = "closed" /\ op = Idle))

(* A process kept after a refused submission is kept "until the user's     *)
(* explicit recovery action": the user has a command that is not refused.  *)
KeptProcessHasARecoveryAction ==
    \A t \in Turns :
        (/\ op = Idle /\ phase = "up" /\ local.state = "manual" /\ session.state = "active"
         /\ att[t].state = "not_submitted" /\ Usable(att[t].gen)) =>
            ENABLED (Control \/ \E u \in Turns : Submit(u))

----------------------------------------------------------------------------
(* The abstract specification.                                             *)

(* A failed turn whose attempt stays unknown was given up.                 *)
Verdict(t) ==
    IF turn[t] = "absent" THEN "new"
    ELSE IF turn[t] = "active" THEN "open"
    ELSE IF turn[t] = "failed" /\ att[t].state = "unknown" THEN "given_up"
    ELSE turn[t]

Promise == INSTANCE ConversationPromise WITH
    Inputs <- Turns, verdict <- [t \in Turns |-> Verdict(t)], effect <- world

(* The store, the driver, the control commands and the restarts together   *)
(* keep the promise: turns in order, one input at work at a time, and      *)
(* every verdict true and final.                                           *)
ImplementsConversationPromise == Promise!PromiseSpec
=============================================================================
