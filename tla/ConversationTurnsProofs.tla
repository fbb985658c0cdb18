---------------------- MODULE ConversationTurnsProofs ----------------------
(***************************************************************************)
(* Proofs about ConversationTurns for any number of turns, crashes and     *)
(* store faults.                                                           *)
(***************************************************************************)
EXTENDS ConversationTurns, TLAPS

----------------------------------------------------------------------------
(* What the transactions do to an attempt.                                 *)

(* A row is left alone, or moves from a state that is not terminal to the  *)
(* next revision; a transaction never makes a row.                         *)
AttemptStep(old, new) ==
    /\ new \in Attempt
    /\ old.state = "none" => new = old
    /\ new # old => /\ old.state \notin TerminalAttempt
                    /\ new.rev = old.rev + 1
                    /\ new.gen = old.gen

(* The move to a following state is such a step.                           *)
LEMMA AdvanceShape ==
    ASSUME NEW row \in Attempt, NEW state \in AttemptStates,
           row.state \in UnresolvedAttempt
    PROVE  AttemptStep(row, Advance(row, state))
  BY DEF AttemptStep, Advance, Attempt, AttemptStates, UnresolvedAttempt, TerminalAttempt

(* Doing nothing is one, too.                                              *)
LEMMA KeepShape ==
    ASSUME NEW row \in Attempt
    PROVE  AttemptStep(row, row)
  BY DEF AttemptStep

(* Every transaction of provider_attempts.rs but the preparation.          *)
LEMMA TransactionShape ==
    ASSUME NEW row \in Attempt, NEW expected \in Nat, NEW ready,
           NEW outcome \in {"succeeded", "failed_definitive", "not_submitted"}
    PROVE  /\ AttemptStep(row, CancelAttempt(row, expected).row)
           /\ AttemptStep(row, MarkUnknown(row, expected).row)
           /\ AttemptStep(row, AuthorizeDispatch(row, expected, ready).row)
           /\ AttemptStep(row, RecordEvidence(row, outcome).row)
           /\ AttemptStep(row, ProjectAttempt(row))
<1>1. AttemptStep(row, row)
  BY KeepShape
<1>2. row.state \in UnresolvedAttempt =>
         \A s \in AttemptStates : AttemptStep(row, Advance(row, s))
  BY AdvanceShape
<1>3. AttemptStep(row, CancelAttempt(row, expected).row)
  BY <1>1, <1>2 DEF CancelAttempt, TransitionAttempt, AttemptResult, UnresolvedAttempt, AttemptStates
<1>4. AttemptStep(row, MarkUnknown(row, expected).row)
  BY <1>1, <1>2 DEF MarkUnknown, TransitionAttempt, AttemptResult, UnresolvedAttempt, AttemptStates
<1>5. AttemptStep(row, AuthorizeDispatch(row, expected, ready).row)
  BY <1>1, <1>2 DEF AuthorizeDispatch, AttemptResult, UnresolvedAttempt, AttemptStates
<1>6. AttemptStep(row, RecordEvidence(row, outcome).row)
  BY <1>1, <1>2 DEF RecordEvidence, AttemptResult, UnresolvedAttempt, AttemptStates
<1>7. AttemptStep(row, ProjectAttempt(row))
  BY <1>1, <1>2 DEF ProjectAttempt, UnresolvedAttempt, AttemptStates
<1>8. QED
  BY <1>3, <1>4, <1>5, <1>6, <1>7

(* An authorization that is applied leaves the row authorized, for the     *)
(* generation it was prepared for.                                         *)
LEMMA AppliedAuthorization ==
    ASSUME NEW row, NEW expected, NEW ready,
           AuthorizeDispatch(row, expected, ready).outcome = "applied"
    PROVE  /\ AuthorizeDispatch(row, expected, ready).row.state = "dispatch_authorized"
           /\ AuthorizeDispatch(row, expected, ready).row.gen = row.gen
  BY DEF AuthorizeDispatch, AttemptResult, Advance

----------------------------------------------------------------------------
(* The inductive invariant.                                                *)

(* A turn that was never reserved has no attempt and no input anywhere.    *)
AbsentIsUntouched ==
    \A t \in Turns : turn[t] = "absent" => att[t] = NoAttempt /\ sent[t] = 0

(* The driver before its attempt, and between the attempt and the input.   *)
BeforeAttempt == {"plan", "prior", "launch", "resume", "fence", "bind", "prepare"}

DriverKnowledge ==
    /\ op.pc \in BeforeAttempt =>
         turn[op.t] # "absent" /\ att[op.t] = NoAttempt /\ sent[op.t] = 0
    /\ op.pc = "reserve" => turn[op.t] = "absent"
    /\ op.pc \in {"authorize", "start"} => att[op.t].gen = op.proc /\ sent[op.t] = 0
    /\ op.pc = "authorize" => att[op.t].state = "prepared"
    /\ op.pc = "start" => att[op.t].state = "dispatch_authorized"
    /\ op.pc = "terminalize" => op.rev >= 1

IInv == TypeOK /\ AbsentIsUntouched /\ DriverKnowledge

(* The three invariants hold at the start.                                 *)
LEMMA InitIInv == Init => IInv
  BY TurnsAssumption DEF Init, IInv, TypeOK, AbsentIsUntouched, DriverKnowledge, Turns, Idle, Op,
     Steps, NoLocal, Local, LocalStates, NoAttempt, Attempt, AttemptStates, TurnStates,
     SessionStates, GenStates, WorldStates, BeforeAttempt

(* The processes after a termination are well typed.                       *)
LEMMA RetireShape ==
    ASSUME TypeOK, NEW g \in Turns, NEW proved, Retire(g, proved)
    PROVE  gen' \in [Turns -> GenStates] /\ alive' \subseteq Turns
             /\ world' \in [Turns -> WorldStates]
  BY DEF TypeOK, Retire, Cut, GenStates, WorldStates

(* So are the turns and the session after a terminalization, which makes   *)
(* and unmakes no turn.                                                    *)
LEMMA TerminalizeShape ==
    ASSUME TypeOK, NEW t \in Turns, NEW rev, NEW outcome, NEW reply,
           TerminalizeTurn(t, rev, outcome, reply)
    PROVE  /\ turn' \in [Turns -> TurnStates]
           /\ session' \in [n : Nat, state : SessionStates, acked : BOOLEAN]
           /\ bound' = bound /\ faults' \in Nat
           /\ \A u \in Turns : turn'[u] = "absent" => turn[u] = "absent"
<1>1. bound' = bound /\ faults' \in Nat
  BY DEF TerminalizeTurn, Charge, TypeOK
<1>2. CASE Commits(reply) /\ TerminalizationMatches(t, rev, outcome)
  <2>1. /\ turn' = [turn EXCEPT ![t] = IF outcome = "succeeded" THEN "completed" ELSE "failed"]
        /\ session' = [session EXCEPT !.acked = TRUE]
    BY <1>2 DEF TerminalizeTurn
  <2>2. session' \in [n : Nat, state : SessionStates, acked : BOOLEAN]
    BY <2>1 DEF TypeOK
  <2>3. /\ turn' \in [Turns -> TurnStates]
        /\ \A u \in Turns : turn'[u] = "absent" => turn[u] = "absent"
    BY <2>1 DEF TypeOK, TurnStates
  <2>4. QED  BY <1>1, <2>2, <2>3
<1>3. CASE ~(Commits(reply) /\ TerminalizationMatches(t, rev, outcome))
  BY <1>1, <1>3 DEF TerminalizeTurn, TypeOK
<1>4. QED  BY <1>2, <1>3
(* The steps that leave the attempts and the inputs alone.                 *)
QuietAction ==
    \/ \E t \in Turns :
         Submit(t) \/ ProcessExits(t) \/ DeathRecorded(t) \/ ProviderFinishes(t)
    \/ \E reply \in Replies :
         Reserve(reply) \/ PlanFails(reply) \/ AdmissionFails(reply) \/ Reconcile(reply)
         \/ FenceThread(reply) \/ BindThread(reply) \/ Terminalize(reply) \/
         Refuse(reply) \/ RefuseBound(reply) \/ RecoverBound(reply) \/ Settle(reply) \/
         ControlArchive(reply)
    \/ PlanSameThread \/ PlanFallback \/ PlanRefused \/ Launch \/ LaunchFails \/ Resume
       \/ ResumeFails \/ ThreadStartFails \/ PrepareRefused \/ AuthorizeWhenStopping \/
       StartRefused \/ TurnCompleted \/ WorkerFails \/ Shutdown
    \/ \E proved \in BOOLEAN :
         RetireTurn(proved) \/ Stop(proved) \/ CloseRuntime(proved)
    \/ \E t \in Turns, reply \in Replies :
         ControlPending(t, reply) \/ ControlClose(t, reply) \/ ControlStranded(t, reply)

(* They keep the types.                                                    *)
LEMMA QuietTypes ==
    ASSUME TypeOK, DriverKnowledge, QuietAction
    PROVE  TypeOK'
<1>0. 0 \in Turns
  BY TurnsAssumption DEF Turns
<1>1. ASSUME NEW t \in Turns, Submit(t) PROVE TypeOK'
  <2>1. op' \in Op /\ local' \in [state : LocalStates, proc : Turns]
    <3>1. CASE local' = local /\ op' = [Idle EXCEPT !.pc = "reserve", !.t = t]
      BY <1>0, <3>1 DEF TypeOK, Idle, Op, Steps
    <3>2. CASE /\ local' = Local("preparing", local.proc)
               /\ op' = [Idle EXCEPT !.pc = "reserve", !.t = t, !.proc = local.proc,
                                     !.prior = local.proc]
      BY <1>0, <3>2 DEF TypeOK, Idle, Op, Steps, Local, LocalStates
    <3>3. QED  BY <1>1, <3>1, <3>2 DEF Submit
  <2>2. QED  BY <1>1, <2>1 DEF Submit, TypeOK, turnVars, procVars, hostVars
<1>2. ASSUME NEW reply \in Replies, Reserve(reply) PROVE TypeOK'
  BY <1>2, <1>0 DEF Reserve, TypeOK, turnVars, procVars, hostVars, At, Goto, Charge, Commits,
     Ambiguous, SetRecovery, TurnStates, Idle, Local, NoLocal, LocalStates, Op, Steps
<1>3. ASSUME PlanSameThread PROVE TypeOK'
  BY <1>3 DEF PlanSameThread, TypeOK, turnVars, procVars, hostVars, At, Goto, Op, Steps
<1>4. ASSUME PlanFallback PROVE TypeOK'
  BY <1>4 DEF PlanFallback, TypeOK, turnVars, procVars, hostVars, At, Goto, SwitchSession,
     SessionStates, Op, Steps
<1>5. ASSUME PlanRefused PROVE TypeOK'
  BY <1>5 DEF PlanRefused, TypeOK, turnVars, procVars, hostVars, At, Goto, Op, Steps
<1>6. ASSUME NEW reply \in Replies, PlanFails(reply) PROVE TypeOK'
  <2>1. session' \in [n : Nat, state : SessionStates, acked : BOOLEAN] /\ bound' \in [Turns -> Nat]
    <3>1. CASE SwitchSession
      BY <3>1 DEF SwitchSession, TypeOK, Op, SessionStates
    <3>2. CASE UNCHANGED <<session, bound>>
      BY <3>2 DEF TypeOK
    <3>3. QED  BY <1>6, <3>1, <3>2 DEF PlanFails
  <2>2. op' \in Op /\ local' \in [state : LocalStates, proc : Turns]
    BY <1>6, <1>0 DEF PlanFails, TypeOK, Goto, Ambiguous, SetRecovery, Local, LocalStates, Idle, Op, Steps
  <2>3. QED  BY <1>6, <2>1, <2>2 DEF PlanFails, TypeOK, Charge, procVars, hostVars
<1>7. ASSUME NEW reply \in Replies, AdmissionFails(reply) PROVE TypeOK'
  BY <1>7, <1>0 DEF AdmissionFails, TypeOK, turnVars, procVars, hostVars, At, Goto, Charge,
     Ambiguous, SetRecovery, Idle, Local, NoLocal, LocalStates, Op, Steps
<1>8. ASSUME Launch PROVE TypeOK'
  BY <1>8 DEF Launch, TypeOK, turnVars, procVars, hostVars, At, Goto, GenStates, Op, Steps
<1>9. ASSUME LaunchFails PROVE TypeOK'
  BY <1>9 DEF LaunchFails, TypeOK, turnVars, procVars, hostVars, At, Goto, GenStates, Op, Steps
<1>10. ASSUME NEW reply \in Replies, Reconcile(reply) PROVE TypeOK'
  BY <1>10, <1>0 DEF Reconcile, TypeOK, turnVars, procVars, hostVars, At, Goto, Charge, Ambiguous,
     SetRecovery, Idle, Local, NoLocal, LocalStates, Op, Steps
<1>11. ASSUME Resume PROVE TypeOK'
  BY <1>11, <1>0 DEF Resume, TypeOK, turnVars, procVars, hostVars, At, Goto, Usable, Local,
     NoLocal, LocalStates, Op, Steps
<1>12. ASSUME ResumeFails PROVE TypeOK'
  BY <1>12 DEF ResumeFails, TypeOK, turnVars, procVars, hostVars, At, Goto, Op, Steps
<1>13. ASSUME NEW reply \in Replies, FenceThread(reply) PROVE TypeOK'
  BY <1>13 DEF FenceThread, TypeOK, turnVars, procVars, hostVars, At, Goto, Charge, Commits,
     SessionStates, Op, Steps
<1>14. ASSUME ThreadStartFails PROVE TypeOK'
  BY <1>14 DEF ThreadStartFails, TypeOK, turnVars, procVars, hostVars, At, Goto, Op, Steps
<1>15. ASSUME NEW reply \in Replies, BindThread(reply) PROVE TypeOK'
  BY <1>15, <1>0 DEF BindThread, TypeOK, turnVars, procVars, hostVars, At, Goto, Charge, Commits,
     SessionStates, Local, NoLocal, LocalStates, Op, Steps
<1>16. ASSUME PrepareRefused PROVE TypeOK'
  BY <1>16 DEF PrepareRefused, TypeOK, turnVars, procVars, hostVars, At, Goto, Op, Steps
<1>17. ASSUME AuthorizeWhenStopping PROVE TypeOK'
  BY <1>17 DEF AuthorizeWhenStopping, TypeOK, turnVars, procVars, hostVars, At, Goto, Op, Steps
<1>18. ASSUME StartRefused PROVE TypeOK'
  BY <1>18 DEF StartRefused, TypeOK, turnVars, procVars, hostVars, At, Goto, Op, Steps
<1>19. ASSUME TurnCompleted PROVE TypeOK'
  BY <1>19 DEF TurnCompleted, TypeOK, turnVars, procVars, hostVars, At, Goto, Op, Steps
<1>20. ASSUME WorkerFails PROVE TypeOK'
  BY <1>20 DEF WorkerFails, TypeOK, turnVars, procVars, hostVars, At, Goto, Op, Steps
<1>21. ASSUME NEW reply \in Replies, Terminalize(reply) PROVE TypeOK'
  <2>1. /\ turn' \in [Turns -> TurnStates] /\ bound' = bound /\ faults' \in Nat
        /\ session' \in [n : Nat, state : SessionStates, acked : BOOLEAN]
    BY <1>21, TerminalizeShape DEF Terminalize, TypeOK, Op
  <2>2. op' \in Op
    <3>1. op.rev - 1 \in Nat
      BY <1>21 DEF Terminalize, At, TypeOK, Op, DriverKnowledge
    <3>2. op' = [op EXCEPT !.pc = "retire"] \/ op' = [op EXCEPT !.pc = "mark", !.rev = op.rev - 1]
      BY <1>21 DEF Terminalize
    <3>3. QED  BY <3>1, <3>2 DEF TypeOK, Op, Steps
  <2>3. QED  BY <1>21, <2>1, <2>2 DEF Terminalize, TypeOK, procVars, hostVars
<1>22. ASSUME NEW proved \in BOOLEAN, RetireTurn(proved) PROVE TypeOK'
  BY <1>22, <1>0 DEF RetireTurn, TypeOK, turnVars, procVars, hostVars, At, Goto, Retire, Cut,
     GenStates, WorldStates, Idle, Local, NoLocal, LocalStates, Op, Steps
<1>23. ASSUME NEW proved \in BOOLEAN, Stop(proved) PROVE TypeOK'
  <2>1. gen' \in [Turns -> GenStates] /\ alive' \subseteq Turns /\ world' \in [Turns -> WorldStates]
    BY <1>23, RetireShape DEF Stop, TypeOK, Op
  <2>2. op' \in Op /\ local' \in [state : LocalStates, proc : Turns]
    <3>1. op' = Idle \/ op' \in {[op EXCEPT !.pc = s] : s \in {"mark_last", "refuse_bound",
                                                             "reconcile", "launch"}}
      BY <1>23 DEF Stop, AfterStop, At, Goto
    <3>2. local' = local \/ local' \in {Local("missing", 0), Local("manual", 0)}
      BY <1>23 DEF Stop, AfterStop, At, SetRecovery
    <3>3. QED  BY <1>0, <3>1, <3>2 DEF TypeOK, Local, LocalStates, Idle, Op, Steps
  <2>3. QED  BY <1>23, <2>1, <2>2 DEF Stop, TypeOK, turnVars, hostVars
<1>24. ASSUME NEW reply \in Replies, Refuse(reply) PROVE TypeOK'
  BY <1>24, <1>0 DEF Refuse, TypeOK, turnVars, procVars, hostVars, At, Goto, Charge, Commits,
     FailTurn, TurnStates, Ambiguous, SetRecovery, Idle, Local, NoLocal, LocalStates, Op, Steps
<1>25. ASSUME NEW reply \in Replies, RefuseBound(reply) PROVE TypeOK'
  BY <1>25, <1>0 DEF RefuseBound, TypeOK, turnVars, procVars, hostVars, At, Goto, Charge, Commits,
     FailTurn, TurnStates, RestoreReady, Idle, Local, NoLocal, LocalStates, Op, Steps
<1>26. ASSUME NEW reply \in Replies, RecoverBound(reply) PROVE TypeOK'
  BY <1>26 DEF RecoverBound, TypeOK, turnVars, procVars, hostVars, At, Goto, Charge, Commits,
     FailTurn, TurnStates, Op, Steps
<1>27. ASSUME NEW t \in Turns, NEW reply \in Replies, ControlPending(t, reply) PROVE TypeOK'
  <2>1. /\ turn' \in [Turns -> TurnStates] /\ bound' = bound /\ faults' \in Nat
        /\ session' \in [n : Nat, state : SessionStates, acked : BOOLEAN]
    BY <1>27, TerminalizeShape DEF ControlPending
  <2>2. local' \in [state : LocalStates, proc : Turns]
    BY <1>27, <1>0 DEF ControlPending, RemoveRecovery, TypeOK, Local, NoLocal, LocalStates
  <2>3. QED  BY <1>27, <2>1, <2>2 DEF ControlPending, TypeOK, procVars, hostVars
<1>28. ASSUME NEW reply \in Replies, Settle(reply) PROVE TypeOK'
  <2>1. /\ turn' \in [Turns -> TurnStates] /\ bound' = bound /\ faults' \in Nat
        /\ session' \in [n : Nat, state : SessionStates, acked : BOOLEAN]
    BY <1>28, TerminalizeShape DEF Settle, TypeOK, Op
  <2>2. op' \in Op /\ local' \in [state : LocalStates, proc : Turns]
    BY <1>28, <1>0 DEF Settle, RemoveRecovery, TypeOK, Local, NoLocal, LocalStates, Idle, Op, Steps
  <2>3. QED  BY <1>28, <2>1, <2>2 DEF Settle, TypeOK, procVars, hostVars
<1>29. ASSUME NEW t \in Turns, NEW reply \in Replies, ControlClose(t, reply) PROVE TypeOK'
  BY <1>29, <1>0 DEF ControlClose, TypeOK, turnVars, procVars, hostVars, Charge, Commits,
     FailTurn, TurnStates, RemoveRecovery, Local, NoLocal, LocalStates
<1>30. ASSUME NEW t \in Turns, NEW reply \in Replies, ControlStranded(t, reply) PROVE TypeOK'
  BY <1>30, <1>0 DEF ControlStranded, TypeOK, turnVars, procVars, hostVars, Charge, Commits,
     FailTurn, TurnStates, RemoveRecovery, Local, NoLocal, LocalStates
<1>31. ASSUME NEW reply \in Replies, ControlArchive(reply) PROVE TypeOK'
  BY <1>31, <1>0 DEF ControlArchive, TypeOK, turnVars, procVars, hostVars, Charge, Commits,
     SessionStates, Local, NoLocal, LocalStates
<1>32. ASSUME NEW t \in Turns, ProcessExits(t) PROVE TypeOK'
  BY <1>32 DEF ProcessExits, TypeOK, turnVars, procVars, hostVars, Cut, WorldStates
<1>33. ASSUME NEW t \in Turns, DeathRecorded(t) PROVE TypeOK'
  BY <1>33 DEF DeathRecorded, TypeOK, turnVars, procVars, hostVars, GenStates
<1>34. ASSUME NEW t \in Turns, ProviderFinishes(t) PROVE TypeOK'
  BY <1>34 DEF ProviderFinishes, TypeOK, turnVars, procVars, hostVars, WorldStates
<1>35. ASSUME Shutdown PROVE TypeOK'
  BY <1>35 DEF Shutdown, TypeOK, turnVars, procVars, hostVars
<1>36. ASSUME NEW proved \in BOOLEAN, CloseRuntime(proved) PROVE TypeOK'
  BY <1>36, <1>0 DEF CloseRuntime, TypeOK, turnVars, procVars, hostVars, Retire, Cut, GenStates,
     WorldStates, Local, NoLocal, LocalStates
<1>37. QED
  BY <1>1, <1>2, <1>3, <1>4, <1>5, <1>6, <1>7, <1>8, <1>9, <1>10, <1>11, <1>12,
     <1>13, <1>14, <1>15, <1>16, <1>17, <1>18, <1>19, <1>20, <1>21, <1>22, <1>23, <1>24, <1>25,
     <1>26, <1>27, <1>28, <1>29, <1>30, <1>31, <1>32, <1>33, <1>34, <1>35, <1>36
     DEF QuietAction

(* They leave every turn as untouched as it was, and lead the driver only  *)
(* where its knowledge holds.                                              *)
LEMMA QuietKnowledge ==
    ASSUME IInv, QuietAction
    PROVE  DriverKnowledge' /\ AbsentIsUntouched'
<1> USE DEF IInv
<1>1. ASSUME NEW t \in Turns, Submit(t)
      PROVE  DriverKnowledge' /\ AbsentIsUntouched'
  <2>1. op'.pc = "reserve" /\ op'.t = t
    <3>1. CASE op' = [Idle EXCEPT !.pc = "reserve", !.t = t]
      BY <3>1 DEF Idle
    <3>2. CASE op' = [Idle EXCEPT !.pc = "reserve", !.t = t, !.proc = local.proc,
                                  !.prior = local.proc]
      BY <3>2 DEF Idle
    <3>3. QED  BY <1>1, <3>1, <3>2 DEF Submit
  <2>2. turn[t] = "absent" /\ UNCHANGED <<turn, att, sent>>
    BY <1>1 DEF Submit, NextTurn, turnVars
  <2>3. QED  BY <2>1, <2>2 DEF DriverKnowledge, AbsentIsUntouched, BeforeAttempt
<1>2. ASSUME NEW reply \in Replies, Reserve(reply)
      PROVE  DriverKnowledge' /\ AbsentIsUntouched'
  BY <1>2 DEF Reserve, DriverKnowledge, AbsentIsUntouched, BeforeAttempt, TypeOK, Op, turnVars,
     procVars, hostVars, At, Goto, Commits, Ambiguous, Idle, TurnStates
<1>3. ASSUME PlanSameThread
      PROVE  DriverKnowledge' /\ AbsentIsUntouched'
  BY <1>3 DEF PlanSameThread, DriverKnowledge, AbsentIsUntouched, BeforeAttempt, TypeOK, Op,
     turnVars, procVars, hostVars, At, Goto
<1>4. ASSUME PlanFallback
      PROVE  DriverKnowledge' /\ AbsentIsUntouched'
  BY <1>4 DEF PlanFallback, DriverKnowledge, AbsentIsUntouched, BeforeAttempt, TypeOK, Op,
     turnVars, procVars, hostVars, At, Goto
<1>5. ASSUME PlanRefused
      PROVE  DriverKnowledge' /\ AbsentIsUntouched'
  BY <1>5 DEF PlanRefused, DriverKnowledge, AbsentIsUntouched, BeforeAttempt, TypeOK, Op,
     turnVars, procVars, hostVars, At, Goto
<1>6. ASSUME NEW reply \in Replies, PlanFails(reply)
      PROVE  DriverKnowledge' /\ AbsentIsUntouched'
  BY <1>6 DEF PlanFails, DriverKnowledge, AbsentIsUntouched, BeforeAttempt, TypeOK, Op, turnVars,
     procVars, hostVars, At, Goto, Ambiguous, Idle
<1>7. ASSUME NEW reply \in Replies, AdmissionFails(reply)
      PROVE  DriverKnowledge' /\ AbsentIsUntouched'
  BY <1>7 DEF AdmissionFails, DriverKnowledge, AbsentIsUntouched, BeforeAttempt, TypeOK, Op,
     turnVars, procVars, hostVars, At, Goto, Ambiguous, Idle
<1>8. ASSUME Launch
      PROVE  DriverKnowledge' /\ AbsentIsUntouched'
  BY <1>8 DEF Launch, DriverKnowledge, AbsentIsUntouched, BeforeAttempt, TypeOK, Op, turnVars,
     procVars, hostVars, At, Goto
<1>9. ASSUME LaunchFails
      PROVE  DriverKnowledge' /\ AbsentIsUntouched'
  BY <1>9 DEF LaunchFails, DriverKnowledge, AbsentIsUntouched, BeforeAttempt, TypeOK, Op,
     turnVars, procVars, hostVars, At, Goto
<1>10. ASSUME NEW reply \in Replies, Reconcile(reply)
      PROVE  DriverKnowledge' /\ AbsentIsUntouched'
  BY <1>10 DEF Reconcile, DriverKnowledge, AbsentIsUntouched, BeforeAttempt, TypeOK, Op, turnVars,
     procVars, hostVars, At, Goto, Ambiguous, Idle
<1>11. ASSUME Resume
      PROVE  DriverKnowledge' /\ AbsentIsUntouched'
  BY <1>11 DEF Resume, DriverKnowledge, AbsentIsUntouched, BeforeAttempt, TypeOK, Op, turnVars,
     procVars, hostVars, At, Goto
<1>12. ASSUME ResumeFails
      PROVE  DriverKnowledge' /\ AbsentIsUntouched'
  BY <1>12 DEF ResumeFails, DriverKnowledge, AbsentIsUntouched, BeforeAttempt, TypeOK, Op,
     turnVars, procVars, hostVars, At, Goto
<1>13. ASSUME NEW reply \in Replies, FenceThread(reply)
      PROVE  DriverKnowledge' /\ AbsentIsUntouched'
  BY <1>13 DEF FenceThread, DriverKnowledge, AbsentIsUntouched, BeforeAttempt, TypeOK, Op,
     turnVars, procVars, hostVars, At, Goto
<1>14. ASSUME ThreadStartFails
      PROVE  DriverKnowledge' /\ AbsentIsUntouched'
  BY <1>14 DEF ThreadStartFails, DriverKnowledge, AbsentIsUntouched, BeforeAttempt, TypeOK, Op,
     turnVars, procVars, hostVars, At, Goto
<1>15. ASSUME NEW reply \in Replies, BindThread(reply)
      PROVE  DriverKnowledge' /\ AbsentIsUntouched'
  BY <1>15 DEF BindThread, DriverKnowledge, AbsentIsUntouched, BeforeAttempt, TypeOK, Op,
     turnVars, procVars, hostVars, At, Goto
<1>16. ASSUME PrepareRefused
      PROVE  DriverKnowledge' /\ AbsentIsUntouched'
  BY <1>16 DEF PrepareRefused, DriverKnowledge, AbsentIsUntouched, BeforeAttempt, TypeOK, Op,
     turnVars, procVars, hostVars, At, Goto
<1>17. ASSUME AuthorizeWhenStopping
      PROVE  DriverKnowledge' /\ AbsentIsUntouched'
  BY <1>17 DEF AuthorizeWhenStopping, DriverKnowledge, AbsentIsUntouched, BeforeAttempt, TypeOK,
     Op, turnVars, procVars, hostVars, At, Goto
<1>18. ASSUME StartRefused
      PROVE  DriverKnowledge' /\ AbsentIsUntouched'
  BY <1>18 DEF StartRefused, DriverKnowledge, AbsentIsUntouched, BeforeAttempt, TypeOK, Op,
     turnVars, procVars, hostVars, At, Goto
<1>19. ASSUME TurnCompleted
      PROVE  DriverKnowledge' /\ AbsentIsUntouched'
  BY <1>19 DEF TurnCompleted, DriverKnowledge, AbsentIsUntouched, BeforeAttempt, TypeOK, Op,
     turnVars, procVars, hostVars, At, Goto
<1>20. ASSUME WorkerFails
      PROVE  DriverKnowledge' /\ AbsentIsUntouched'
  BY <1>20 DEF WorkerFails, DriverKnowledge, AbsentIsUntouched, BeforeAttempt, TypeOK, Op,
     turnVars, procVars, hostVars, At, Goto
<1>21. ASSUME NEW reply \in Replies, Terminalize(reply)
      PROVE  DriverKnowledge' /\ AbsentIsUntouched'
  BY <1>21, TerminalizeShape DEF Terminalize, DriverKnowledge, AbsentIsUntouched, BeforeAttempt,
     TypeOK, Op, turnVars, procVars, hostVars, At, Goto, TerminalizeTurn, TurnStates
<1>22. ASSUME NEW proved \in BOOLEAN, RetireTurn(proved)
      PROVE  DriverKnowledge' /\ AbsentIsUntouched'
  BY <1>22 DEF RetireTurn, DriverKnowledge, AbsentIsUntouched, BeforeAttempt, TypeOK, Op,
     turnVars, procVars, hostVars, At, Goto, Idle
<1>23. ASSUME NEW proved \in BOOLEAN, Stop(proved)
      PROVE  DriverKnowledge' /\ AbsentIsUntouched'
  <2>1. \/ op' = Idle
        \/ op.pc = "prior" /\ op' = [op EXCEPT !.pc = "launch"]
        \/ op' \in {[op EXCEPT !.pc = s] : s \in {"mark_last", "refuse_bound", "reconcile"}}
    BY <1>23 DEF Stop, AfterStop, At, Goto
  <2>2. UNCHANGED <<turn, att, sent>>
    BY <1>23 DEF Stop, turnVars
  <2>3. QED  BY <2>1, <2>2 DEF DriverKnowledge, AbsentIsUntouched, BeforeAttempt, TypeOK, Op, Idle
<1>24. ASSUME NEW reply \in Replies, Refuse(reply)
      PROVE  DriverKnowledge' /\ AbsentIsUntouched'
  BY <1>24 DEF Refuse, DriverKnowledge, AbsentIsUntouched, BeforeAttempt, TypeOK, Op, turnVars,
     procVars, hostVars, At, Goto, FailTurn, Ambiguous, Idle
<1>25. ASSUME NEW reply \in Replies, RefuseBound(reply)
      PROVE  DriverKnowledge' /\ AbsentIsUntouched'
  BY <1>25 DEF RefuseBound, DriverKnowledge, AbsentIsUntouched, BeforeAttempt, TypeOK, Op,
     turnVars, procVars, hostVars, At, Goto, FailTurn, Idle
<1>26. ASSUME NEW reply \in Replies, RecoverBound(reply)
      PROVE  DriverKnowledge' /\ AbsentIsUntouched'
  BY <1>26 DEF RecoverBound, DriverKnowledge, AbsentIsUntouched, BeforeAttempt, TypeOK, Op,
     turnVars, procVars, hostVars, At, Goto, FailTurn
<1>27. ASSUME NEW t \in Turns, NEW reply \in Replies, ControlPending(t, reply)
      PROVE  DriverKnowledge' /\ AbsentIsUntouched'
  BY <1>27, TerminalizeShape DEF ControlPending, DriverKnowledge, AbsentIsUntouched,
     BeforeAttempt, TypeOK, Op, turnVars, procVars, hostVars, Controllable, Idle
<1>28. ASSUME NEW reply \in Replies, Settle(reply)
      PROVE  DriverKnowledge' /\ AbsentIsUntouched'
  BY <1>28, TerminalizeShape DEF Settle, DriverKnowledge, AbsentIsUntouched, BeforeAttempt,
     TypeOK, Op, turnVars, procVars, hostVars, At, Goto, Idle
<1>29. ASSUME NEW t \in Turns, NEW reply \in Replies, ControlClose(t, reply)
      PROVE  DriverKnowledge' /\ AbsentIsUntouched'
  BY <1>29 DEF ControlClose, DriverKnowledge, AbsentIsUntouched, BeforeAttempt, TypeOK, Op,
     turnVars, procVars, hostVars, Controllable, Idle, FailTurn
<1>30. ASSUME NEW t \in Turns, NEW reply \in Replies, ControlStranded(t, reply)
      PROVE  DriverKnowledge' /\ AbsentIsUntouched'
  BY <1>30 DEF ControlStranded, DriverKnowledge, AbsentIsUntouched, BeforeAttempt, TypeOK, Op,
     turnVars, procVars, hostVars, Controllable, Idle, FailTurn
<1>31. ASSUME NEW reply \in Replies, ControlArchive(reply)
      PROVE  DriverKnowledge' /\ AbsentIsUntouched'
  BY <1>31 DEF ControlArchive, DriverKnowledge, AbsentIsUntouched, BeforeAttempt, TypeOK, Op,
     turnVars, procVars, hostVars, Controllable, Idle
<1>32. ASSUME NEW t \in Turns, ProcessExits(t)
      PROVE  DriverKnowledge' /\ AbsentIsUntouched'
  BY <1>32 DEF ProcessExits, DriverKnowledge, AbsentIsUntouched, BeforeAttempt, TypeOK, Op,
     turnVars, procVars, hostVars
<1>33. ASSUME NEW t \in Turns, DeathRecorded(t)
      PROVE  DriverKnowledge' /\ AbsentIsUntouched'
  BY <1>33 DEF DeathRecorded, DriverKnowledge, AbsentIsUntouched, BeforeAttempt, TypeOK, Op,
     turnVars, procVars, hostVars
<1>34. ASSUME NEW t \in Turns, ProviderFinishes(t)
      PROVE  DriverKnowledge' /\ AbsentIsUntouched'
  BY <1>34 DEF ProviderFinishes, DriverKnowledge, AbsentIsUntouched, BeforeAttempt, TypeOK, Op,
     turnVars, procVars, hostVars
<1>35. ASSUME Shutdown
      PROVE  DriverKnowledge' /\ AbsentIsUntouched'
  BY <1>35 DEF Shutdown, DriverKnowledge, AbsentIsUntouched, BeforeAttempt, TypeOK, Op, turnVars,
     procVars, hostVars
<1>36. ASSUME NEW proved \in BOOLEAN, CloseRuntime(proved)
      PROVE  DriverKnowledge' /\ AbsentIsUntouched'
  BY <1>36 DEF CloseRuntime, DriverKnowledge, AbsentIsUntouched, BeforeAttempt, TypeOK, Op,
     turnVars, procVars, hostVars
<1>37. QED
  BY <1>1, <1>2, <1>3, <1>4, <1>5, <1>6, <1>7, <1>8, <1>9, <1>10, <1>11, <1>12, <1>13, <1>14,
     <1>15, <1>16, <1>17, <1>18, <1>19, <1>20, <1>21, <1>22, <1>23, <1>24, <1>25, <1>26, <1>27,
     <1>28, <1>29, <1>30, <1>31, <1>32, <1>33, <1>34, <1>35, <1>36
     DEF QuietAction

----------------------------------------------------------------------------
(* The steps that hand an input over, and those that write an attempt.     *)

SendAction == StartTurn \/ StartFails

AttemptAction ==
    \/ \E reply \in Replies :
         \/ PrepareAttempt(reply) \/ Authorize(reply) \/ Cancel(reply)
         \/ NotSubmitted(reply) \/ RecordTurnEvidence(reply) \/ Mark(reply)
    \/ \E t \in Turns, reply \in Replies : ControlObserve(t, reply)
    \/ Restart

(* Every step of the specification is of one of the three kinds.           *)
LEMMA StepKinds ==
    ASSUME Next
    PROVE  QuietAction \/ SendAction \/ AttemptAction
<1>1. CASE \E t \in Turns : Submit(t)
  BY <1>1 DEF QuietAction
<1>2. CASE Driver
  <2>1. CASE \E reply \in Replies : CommandStep(reply)
    <3>1. PICK reply \in Replies : CommandStep(reply)
      BY <2>1
    <3>2. QED  BY <3>1 DEF CommandStep, QuietAction, AttemptAction
  <2>2. CASE \E proved \in BOOLEAN : RetireTurn(proved) \/ Stop(proved)
    BY <2>2 DEF QuietAction
  <2>3. QED  BY <1>2, <2>1, <2>2 DEF Driver, QuietAction, SendAction
<1>3. CASE WorkerFails
  BY <1>3 DEF QuietAction
<1>4. CASE Control
  BY <1>4 DEF Control, QuietAction, AttemptAction
<1>5. CASE Environment
  BY <1>5 DEF Environment, QuietAction, AttemptAction
<1>6. CASE \E proved \in BOOLEAN : CloseRuntime(proved)
  BY <1>6 DEF QuietAction
<1>7. QED  BY <1>1, <1>2, <1>3, <1>4, <1>5, <1>6 DEF Next

(* Handing over the input keeps the invariant: its turn is not absent,     *)
(* since it has an attempt.                                                *)
LEMMA SendStep ==
    ASSUME IInv, SendAction
    PROVE  IInv'
<1>1. op.pc = "start" /\ op.t \in Turns
  BY DEF SendAction, StartTurn, StartFails, At, IInv, TypeOK, Op
<1>2. turn[op.t] # "absent"
  BY <1>1 DEF IInv, AbsentIsUntouched, DriverKnowledge, NoAttempt
<1>3. UNCHANGED <<turn, att>>
  BY DEF SendAction, StartTurn, StartFails, turnVars
<1>4. op' \in {[op EXCEPT !.pc = "drive"], [op EXCEPT !.pc = "mark"]}
  BY DEF SendAction, StartTurn, StartFails, Goto
<1>5. \A u \in Turns : u # op.t => sent'[u] = sent[u]
  BY <1>1 DEF SendAction, StartTurn, StartFails, Send, IInv, TypeOK
<1>6. TypeOK'
  <2>1. CASE StartTurn
    BY <2>1 DEF StartTurn, IInv, TypeOK, turnVars, hostVars, At, Goto, Send, WorldStates, Local,
       LocalStates, Op, Steps
  <2>2. CASE StartFails
    BY <2>2 DEF StartFails, IInv, TypeOK, turnVars, hostVars, At, Goto, Send, WorldStates, Op, Steps
  <2>3. QED  BY <2>1, <2>2 DEF SendAction
<1>7. AbsentIsUntouched'
  BY <1>2, <1>3, <1>5 DEF IInv, AbsentIsUntouched
<1>8. DriverKnowledge'
  BY <1>4 DEF IInv, TypeOK, Op, DriverKnowledge, BeforeAttempt
<1>9. QED  BY <1>6, <1>7, <1>8 DEF IInv

(* The steps of an attempt that exists are steps of the row.               *)
AttemptsStep == \A t \in Turns : AttemptStep(att[t], att'[t])

(* A stored result is such a step of its attempt, and of no other.         *)
LEMMA StoreShape ==
    ASSUME TypeOK, NEW t \in Turns, NEW result, NEW reply, StoreAttempt(t, result, reply),
           AttemptStep(att[t], result.row)
    PROVE  /\ AttemptsStep /\ att' \in [Turns -> Attempt] /\ faults' \in Nat
           /\ att' = att \/ att' = [att EXCEPT ![t] = result.row]
<1>1. att' = att \/ att' = [att EXCEPT ![t] = result.row]
  BY DEF StoreAttempt
<1>2. \A u \in Turns : AttemptStep(att[u], att[u])
  BY KeepShape DEF TypeOK
<1>3. faults' \in Nat
  BY DEF StoreAttempt, Charge, TypeOK
<1>4. AttemptsStep
  BY <1>1, <1>2 DEF AttemptsStep, TypeOK
<1>5. att' \in [Turns -> Attempt]
  BY <1>1 DEF TypeOK, AttemptStep
<1>6. QED  BY <1>1, <1>3, <1>4, <1>5

(* What has no attempt stays without one.                                  *)
LEMMA AbsentKept ==
    ASSUME IInv, AttemptsStep, sent' = sent,
           \A u \in Turns : turn'[u] = "absent" => turn[u] = "absent"
    PROVE  AbsentIsUntouched'
  BY DEF IInv, AbsentIsUntouched, AttemptsStep, AttemptStep, NoAttempt

(* Writing an attempt keeps the invariant; all but the preparation are     *)
(* steps of existing rows.                                                 *)
LEMMA AttemptActionStep ==
    ASSUME IInv, AttemptAction
    PROVE  IInv' /\ (AttemptsStep \/ \E reply \in Replies : PrepareAttempt(reply))
<1>0. /\ op.t \in Turns /\ op.proc \in Turns /\ op.rev \in Nat /\ 0 \in Turns
      /\ att \in [Turns -> Attempt]
  BY TurnsAssumption DEF IInv, TypeOK, Op, Turns
<1>1. ASSUME NEW reply \in Replies, PrepareAttempt(reply) PROVE IInv'
  <2>1. op.pc = "prepare" /\ turn[op.t] # "absent" /\ sent[op.t] = 0
    BY <1>1 DEF PrepareAttempt, At, IInv, DriverKnowledge, BeforeAttempt
  <2>2. PreparedAttempt(op.proc, session.n) \in Attempt
    BY <1>0 DEF PreparedAttempt, Attempt, AttemptStates, IInv, TypeOK, Turns
  <2>3. att' = att \/ att' = [att EXCEPT ![op.t] = PreparedAttempt(op.proc, session.n)]
    BY <1>1 DEF PrepareAttempt
  <2>4. UNCHANGED <<turn, sent>>
    BY <1>1 DEF PrepareAttempt, turnVars
  <2>5. AbsentIsUntouched'
    BY <1>0, <2>1, <2>3, <2>4 DEF IInv, AbsentIsUntouched
  <2>6. DriverKnowledge'
    <3>1. CASE reply = "ok"
      <4>1. att'[op.t] = PreparedAttempt(op.proc, session.n)
        BY <1>0, <1>1, <3>1 DEF PrepareAttempt, Commits
      <4>2. op' = [op EXCEPT !.pc = "authorize", !.rev = 1]
        BY <1>1, <3>1 DEF PrepareAttempt
      <4>3. QED
        BY <2>1, <2>4, <4>1, <4>2 DEF DriverKnowledge, BeforeAttempt, PreparedAttempt, IInv, TypeOK, Op
    <3>2. CASE reply # "ok"
      BY <1>1, <3>2 DEF PrepareAttempt, DriverKnowledge, BeforeAttempt, IInv, TypeOK, Op
    <3>3. QED  BY <3>1, <3>2
  <2>7. op' \in Op
    BY <1>1 DEF PrepareAttempt, IInv, TypeOK, Op, Steps
  <2>8. TypeOK'
    <3>1. att' \in [Turns -> Attempt]
      BY <1>0, <2>2, <2>3
    <3>2. QED
      BY <1>1, <2>7, <3>1 DEF PrepareAttempt, IInv, TypeOK, Charge, turnVars, procVars, hostVars
  <2>9. QED  BY <2>5, <2>6, <2>8 DEF IInv
<1>2. ASSUME NEW reply \in Replies, Authorize(reply) PROVE IInv' /\ AttemptsStep
  <2> DEFINE result == AuthorizeDispatch(att[op.t], op.rev, gen[op.proc] = "ready")
  <2>1. /\ StoreAttempt(op.t, result, reply)
        /\ UNCHANGED <<turnVars, session, procVars, sent, local, hostVars>>
        /\ op.pc = "authorize"
    BY <1>2 DEF Authorize, At
  <2>2. AttemptStep(att[op.t], result.row)
    BY <1>0, TransactionShape
  <2>3. /\ AttemptsStep /\ att' \in [Turns -> Attempt] /\ faults' \in Nat
    BY <1>0, <2>1, <2>2, StoreShape DEF IInv
  <2>4. AbsentIsUntouched'
    BY <2>1, <2>3, AbsentKept DEF turnVars
  <2>5. \/ op'.pc \in {"stop_missing", "cancel"}
        \/ /\ reply = "ok" /\ result.outcome = "applied"
           /\ op' = [op EXCEPT !.pc = "start", !.rev = op.rev + 1]
    BY <1>2 DEF Authorize, IInv, TypeOK, Op
  <2>6. ASSUME op'.pc \in {"stop_missing", "cancel"} PROVE DriverKnowledge'
    BY <2>6 DEF DriverKnowledge, BeforeAttempt
  <2>7. ASSUME reply = "ok", result.outcome = "applied",
               op' = [op EXCEPT !.pc = "start", !.rev = op.rev + 1]
        PROVE  DriverKnowledge'
    <3>1. att'[op.t] = result.row
      BY <1>0, <2>1, <2>7 DEF StoreAttempt, Commits
    <3>2. result.row.state = "dispatch_authorized" /\ result.row.gen = att[op.t].gen
      BY <2>7, AppliedAuthorization
    <3>3. att[op.t].gen = op.proc /\ sent[op.t] = 0
      BY <2>1 DEF IInv, DriverKnowledge
    <3>4. op'.pc = "start" /\ op'.t = op.t /\ op'.proc = op.proc
      BY <2>7 DEF IInv, TypeOK, Op
    <3>5. QED  BY <2>1, <3>1, <3>2, <3>3, <3>4 DEF DriverKnowledge, BeforeAttempt
  <2>8. op' \in Op
    <3>1. op' \in {[op EXCEPT !.pc = "stop_missing"], [op EXCEPT !.pc = "cancel"],
                   [op EXCEPT !.pc = "start", !.rev = op.rev + 1]}
      BY <1>2 DEF Authorize
    <3>2. op.rev + 1 \in Nat
      BY <1>0
    <3>3. CASE op' = [op EXCEPT !.pc = "start", !.rev = op.rev + 1]
      BY <3>2, <3>3 DEF IInv, TypeOK, Op, Steps
    <3>4. CASE op' \in {[op EXCEPT !.pc = "stop_missing"], [op EXCEPT !.pc = "cancel"]}
      BY <3>4 DEF IInv, TypeOK, Op, Steps
    <3>5. QED  BY <3>1, <3>3, <3>4
  <2>9. TypeOK'
    BY <2>1, <2>3, <2>8 DEF IInv, TypeOK, turnVars, procVars, hostVars
  <2>10. QED  BY <2>3, <2>4, <2>5, <2>6, <2>7, <2>9 DEF IInv
<1>3. ASSUME NEW reply \in Replies, Cancel(reply) PROVE IInv' /\ AttemptsStep
  <2>1. /\ StoreAttempt(op.t, CancelAttempt(att[op.t], op.rev), reply)
        /\ UNCHANGED <<turnVars, session, procVars, sent, local, hostVars>>
        /\ op' \in {[op EXCEPT !.pc = s] : s \in {"refuse_bound", "stop_missing"}}
    BY <1>3 DEF Cancel, Goto
  <2>2. AttemptStep(att[op.t], CancelAttempt(att[op.t], op.rev).row)
    BY <1>0, TransactionShape
  <2>3. /\ AttemptsStep /\ att' \in [Turns -> Attempt] /\ faults' \in Nat
    BY <1>0, <2>1, <2>2, StoreShape DEF IInv
  <2>4. AbsentIsUntouched'
    BY <2>1, <2>3, AbsentKept DEF turnVars
  <2>5. DriverKnowledge' /\ op' \in Op
    BY <2>1 DEF IInv, TypeOK, Op, Steps, DriverKnowledge, BeforeAttempt
  <2>6. TypeOK'
    BY <2>1, <2>3, <2>5 DEF IInv, TypeOK, turnVars, procVars, hostVars
  <2>7. QED  BY <2>3, <2>4, <2>5, <2>6 DEF IInv
<1>4. ASSUME NEW reply \in Replies, NotSubmitted(reply) PROVE IInv' /\ AttemptsStep
  <2>1. /\ StoreAttempt(op.t, RecordEvidence(att[op.t], "not_submitted"), reply)
        /\ FailTurn(op.t, reply)
        /\ UNCHANGED <<bound, session, procVars, sent, hostVars>>
        /\ op' = Idle \/ op' = [op EXCEPT !.pc = "stop_marking"]
        /\ local' = local \/ local' = Local("manual", 0)
    BY <1>4 DEF NotSubmitted, Goto, SetRecovery
  <2>2. AttemptStep(att[op.t], RecordEvidence(att[op.t], "not_submitted").row)
    BY <1>0, TransactionShape
  <2>3. /\ AttemptsStep /\ att' \in [Turns -> Attempt] /\ faults' \in Nat
    BY <1>0, <2>1, <2>2, StoreShape DEF IInv
  <2>4. /\ turn' \in [Turns -> TurnStates]
        /\ \A u \in Turns : turn'[u] = "absent" => turn[u] = "absent"
    BY <1>0, <2>1 DEF FailTurn, IInv, TypeOK, TurnStates
  <2>5. AbsentIsUntouched'
    BY <2>1, <2>3, <2>4, AbsentKept
  <2>6. DriverKnowledge' /\ op' \in Op /\ local' \in [state : LocalStates, proc : Turns]
    BY <1>0, <2>1 DEF IInv, TypeOK, Op, Steps, Idle, Local, LocalStates, DriverKnowledge, BeforeAttempt
  <2>7. TypeOK'
    BY <2>1, <2>3, <2>4, <2>6 DEF IInv, TypeOK, procVars, hostVars
  <2>8. QED  BY <2>3, <2>5, <2>6, <2>7 DEF IInv
<1>5. ASSUME NEW reply \in Replies, RecordTurnEvidence(reply) PROVE IInv' /\ AttemptsStep
  <2>1. /\ StoreAttempt(op.t, RecordEvidence(att[op.t], op.outcome), reply)
        /\ UNCHANGED <<turnVars, session, procVars, sent, local, hostVars>>
        /\ \/ op' = [op EXCEPT !.pc = "terminalize", !.rev = op.rev + 1]
           \/ op' = [op EXCEPT !.pc = "mark"]
    BY <1>5 DEF RecordTurnEvidence
  <2>2. AttemptStep(att[op.t], RecordEvidence(att[op.t], op.outcome).row)
    <3>1. CASE op.outcome = "none"
      <4>1. "none" \in AttemptStates
        BY DEF AttemptStates
      <4>2. att[op.t] \in Attempt
        BY <1>0
      <4>3. att[op.t].state \in UnresolvedAttempt => AttemptStep(att[op.t], Advance(att[op.t], "none"))
        BY <4>1, <4>2, AdvanceShape
      <4>4. QED  BY <3>1, <4>2, <4>3, KeepShape DEF RecordEvidence, AttemptResult, UnresolvedAttempt
    <3>2. CASE op.outcome # "none"
      BY <1>0, <3>2, TransactionShape DEF IInv, TypeOK, Op
    <3>3. QED  BY <3>1, <3>2
  <2>3. /\ AttemptsStep /\ att' \in [Turns -> Attempt] /\ faults' \in Nat
    BY <1>0, <2>1, <2>2, StoreShape DEF IInv
  <2>4. AbsentIsUntouched'
    BY <2>1, <2>3, AbsentKept DEF turnVars
  <2>5. DriverKnowledge' /\ op' \in Op
    <3>1. CASE op' = [op EXCEPT !.pc = "terminalize", !.rev = op.rev + 1]
      <4>1. op.rev + 1 \in Nat /\ op.rev + 1 >= 1
        BY <1>0
      <4>2. op' \in Op /\ op'.pc = "terminalize" /\ op'.rev = op.rev + 1
        BY <3>1, <4>1 DEF IInv, TypeOK, Op, Steps
      <4>3. QED  BY <4>1, <4>2 DEF DriverKnowledge, BeforeAttempt
    <3>2. CASE op' = [op EXCEPT !.pc = "mark"]
      BY <3>2 DEF IInv, TypeOK, Op, Steps, DriverKnowledge, BeforeAttempt
    <3>3. QED  BY <2>1, <3>1, <3>2
  <2>6. TypeOK'
    BY <2>1, <2>3, <2>5 DEF IInv, TypeOK, turnVars, procVars, hostVars
  <2>7. QED  BY <2>3, <2>4, <2>5, <2>6 DEF IInv
<1>6. ASSUME NEW reply \in Replies, Mark(reply) PROVE IInv' /\ AttemptsStep
  <2>1. /\ StoreAttempt(op.t, MarkUnknown(att[op.t], op.rev), reply)
        /\ UNCHANGED <<turnVars, session, procVars, sent, local, hostVars>>
        /\ op' = Idle \/ op' = [op EXCEPT !.pc = "stop_missing"]
    BY <1>6 DEF Mark, Goto
  <2>2. AttemptStep(att[op.t], MarkUnknown(att[op.t], op.rev).row)
    BY <1>0, TransactionShape
  <2>3. /\ AttemptsStep /\ att' \in [Turns -> Attempt] /\ faults' \in Nat
    BY <1>0, <2>1, <2>2, StoreShape DEF IInv
  <2>4. AbsentIsUntouched'
    BY <2>1, <2>3, AbsentKept DEF turnVars
  <2>5. DriverKnowledge' /\ op' \in Op
    BY <1>0, <2>1 DEF IInv, TypeOK, Op, Steps, Idle, DriverKnowledge, BeforeAttempt
  <2>6. TypeOK'
    BY <2>1, <2>3, <2>5 DEF IInv, TypeOK, turnVars, procVars, hostVars
  <2>7. QED  BY <2>3, <2>4, <2>5, <2>6 DEF IInv
<1>7. ASSUME NEW t \in Turns, NEW reply \in Replies, ControlObserve(t, reply)
      PROVE  IInv' /\ AttemptsStep
  <2>1. PICK outcome \in Observations(t) \ {"none"} :
           /\ StoreAttempt(t, RecordEvidence(att[t], outcome), reply)
           /\ op' \in {op, [Idle EXCEPT !.pc = "settle", !.t = t, !.rev = att[t].rev + 1,
                                        !.outcome = outcome]}
    BY <1>7 DEF ControlObserve, Observed
  <2>2. /\ UNCHANGED <<turnVars, session, procVars, sent, local, hostVars>>
        /\ op = Idle
    BY <1>7 DEF ControlObserve, Controllable
  <2>3. outcome \in {"succeeded", "failed_definitive"}
    BY DEF Observations
  <2>4. AttemptStep(att[t], RecordEvidence(att[t], outcome).row)
    BY <1>0, <2>3, TransactionShape
  <2>5. /\ AttemptsStep /\ att' \in [Turns -> Attempt] /\ faults' \in Nat
    BY <2>1, <2>4, StoreShape DEF IInv
  <2>6. AbsentIsUntouched'
    BY <2>2, <2>5, AbsentKept DEF turnVars
  <2>7. att[t].rev + 1 \in Nat
    BY <1>0 DEF Attempt
  <2>8. DriverKnowledge' /\ op' \in Op
    <3>1. CASE op' = op
      BY <1>0, <2>2, <3>1 DEF Op, Steps, Idle, DriverKnowledge, BeforeAttempt
    <3>2. CASE op' = [Idle EXCEPT !.pc = "settle", !.t = t, !.rev = att[t].rev + 1,
                                  !.outcome = outcome]
      <4>1. op' = [pc |-> "settle", t |-> t, proc |-> 0, prior |-> 0, rev |-> att[t].rev + 1,
                   outcome |-> outcome]
        BY <3>2 DEF Idle
      <4>2. QED  BY <1>0, <2>3, <2>7, <4>1 DEF Op, Steps, DriverKnowledge, BeforeAttempt
    <3>3. QED  BY <2>1, <3>1, <3>2
  <2>9. TypeOK'
    BY <2>2, <2>5, <2>8 DEF IInv, TypeOK, turnVars, procVars, hostVars
  <2>10. QED  BY <2>5, <2>6, <2>8, <2>9 DEF IInv
<1>8. ASSUME Restart PROVE IInv' /\ AttemptsStep
  <2>1. \A t \in Turns : AttemptStep(att[t], ProjectAttempt(att[t]))
    BY <1>0, TransactionShape
  <2>2. att' = [t \in Turns |-> ProjectAttempt(att[t])] /\ UNCHANGED <<turn, sent>>
    BY <1>8 DEF Restart, turnVars
  <2>3. AttemptsStep /\ att' \in [Turns -> Attempt]
    BY <2>1, <2>2 DEF AttemptsStep, AttemptStep
  <2>4. AbsentIsUntouched'
    BY <2>2, <2>3, AbsentKept
  <2>5. DriverKnowledge' /\ op' \in Op /\ local' \in [state : LocalStates, proc : Turns]
    BY <1>0, <1>8 DEF Restart, Op, Steps, Idle, NoLocal, Local, LocalStates, DriverKnowledge, BeforeAttempt
  <2>6. TypeOK'
    BY <1>8, <2>3, <2>5 DEF Restart, IInv, TypeOK, GenStates, turnVars
  <2>7. QED  BY <2>3, <2>4, <2>5, <2>6 DEF IInv
<1>9. QED
  BY <1>1, <1>2, <1>3, <1>4, <1>5, <1>6, <1>7, <1>8 DEF AttemptAction

----------------------------------------------------------------------------
(* The theorems.                                                           *)

(* The invariant is inductive.                                             *)
LEMMA StepIInv ==
    ASSUME IInv, [Next]_vars
    PROVE  IInv'
<1>1. CASE UNCHANGED vars
  BY <1>1 DEF vars, turnVars, procVars, hostVars, IInv, TypeOK, AbsentIsUntouched, DriverKnowledge
<1>2. CASE QuietAction
  BY <1>2, QuietTypes, QuietKnowledge DEF IInv
<1>3. CASE SendAction
  BY <1>3, SendStep
<1>4. CASE AttemptAction
  BY <1>4, AttemptActionStep
<1>5. QED  BY <1>1, <1>2, <1>3, <1>4, StepKinds

(* The inductive invariant holds throughout: what an absent turn and each  *)
(* stage of dispatch_turn can rely on.                                     *)
THEOREM TurnInvariance == Spec => []IInv
<1>1. QED  BY InitIInv, StepIInv, PTL DEF Spec

(* Every reachable state is well typed, for any number of turns, crashes   *)
(* and store faults.                                                       *)
THEOREM TurnTypeCorrect == Spec => []TypeOK
<1>1. IInv => TypeOK
  BY DEF IInv
<1>2. QED  BY <1>1, TurnInvariance, PTL

(* One step of the specification hands over an input only once, and under  *)
(* the durable authorization of its attempt for the process it goes to.    *)
LEMMA SendStepAuthorized ==
    ASSUME IInv, [Next]_vars, NEW t \in Turns, sent'[t] # sent[t]
    PROVE  /\ sent[t] = 0 /\ sent'[t] = 1
           /\ att[t].state = "dispatch_authorized" /\ att[t].gen = op.proc
<1>1. SendAction
  <2>1. CASE UNCHANGED vars
    BY <2>1 DEF vars
  <2>2. CASE QuietAction
    <3>1. sent' = sent
      BY <2>2 DEF QuietAction, Submit, Reserve, PlanSameThread, PlanFallback, PlanRefused,
         PlanFails, AdmissionFails, Launch, LaunchFails, Reconcile, Resume, ResumeFails,
         FenceThread, ThreadStartFails, BindThread, PrepareRefused, AuthorizeWhenStopping,
         StartRefused, TurnCompleted, WorkerFails, Terminalize, RetireTurn, Stop, Refuse,
         RefuseBound, RecoverBound, ControlPending, Settle, ControlClose, ControlStranded,
         ControlArchive, ProcessExits, DeathRecorded, ProviderFinishes, Shutdown, CloseRuntime
    <3>2. QED  BY <3>1
  <2>3. CASE AttemptAction
    BY <2>3 DEF AttemptAction, PrepareAttempt, Authorize, Cancel, NotSubmitted, RecordTurnEvidence,
       Mark, ControlObserve, Observed, Restart
  <2>4. QED  BY <2>1, <2>2, <2>3, StepKinds
<1>2. op.pc = "start" /\ op.t \in Turns /\ sent \in [Turns -> Nat]
  BY <1>1 DEF SendAction, StartTurn, StartFails, At, IInv, TypeOK, Op
<1>3. sent' = sent \/ sent' = [sent EXCEPT ![op.t] = sent[op.t] + 1]
  BY <1>1 DEF SendAction, StartTurn, StartFails, Send
<1>4. t = op.t
  BY <1>2, <1>3
<1>5. QED  BY <1>2, <1>3, <1>4 DEF IInv, DriverKnowledge

(* start_authorized_dispatch hands the input of a turn to a process at     *)
(* most once, and only while the attempt is durably authorized for that    *)
(* process, whatever answers were lost and wherever the service restarted. *)
THEOREM SendsAreAuthorized == Spec => SendIsAuthorized
<1>1. IInv /\ [Next]_vars =>
        [\A t \in Turns : sent'[t] # sent[t] =>
           /\ sent[t] = 0 /\ sent'[t] = 1
           /\ att[t].state = "dispatch_authorized" /\ att[t].gen = op.proc]_vars
  BY SendStepAuthorized
<1>2. QED  BY <1>1, TurnInvariance, PTL DEF Spec, SendIsAuthorized

(* Only a step of those that write an attempt changes one.                 *)
LEMMA AttemptWriters ==
    ASSUME [Next]_vars, att' # att
    PROVE  AttemptAction
<1>1. CASE UNCHANGED vars
  BY <1>1 DEF vars
<1>2. CASE QuietAction
  <2>1. att' = att
    BY <1>2 DEF QuietAction, Submit, Reserve, PlanSameThread, PlanFallback, PlanRefused,
       PlanFails, AdmissionFails, Launch, LaunchFails, Reconcile, Resume, ResumeFails,
       FenceThread, ThreadStartFails, BindThread, PrepareRefused, AuthorizeWhenStopping,
       StartRefused, TurnCompleted, WorkerFails, Terminalize, RetireTurn, Stop, Refuse,
       RefuseBound, RecoverBound, ControlPending, Settle, ControlClose, ControlStranded,
       ControlArchive, ProcessExits, DeathRecorded, ProviderFinishes, Shutdown, CloseRuntime
  <2>2. QED  BY <2>1
<1>3. CASE SendAction
  BY <1>3 DEF SendAction, StartTurn, StartFails
<1>4. QED  BY <1>1, <1>2, <1>3, StepKinds

(* One step changes an attempt by one revision, and a terminal one not.    *)
LEMMA AttemptStepFenced ==
    ASSUME IInv, [Next]_vars, NEW t \in Turns, att'[t] # att[t]
    PROVE  att[t].state \notin TerminalAttempt /\ att'[t].rev = att[t].rev + 1
<1>1. AttemptAction
  BY AttemptWriters
<1>2. CASE AttemptsStep
  BY <1>2 DEF AttemptsStep, AttemptStep
<1>3. CASE \E reply \in Replies : PrepareAttempt(reply)
  <2>1. /\ op.t \in Turns /\ att \in [Turns -> Attempt] /\ att[op.t] = NoAttempt
        /\ att' = att \/ att' = [att EXCEPT ![op.t] = PreparedAttempt(op.proc, session.n)]
    BY <1>3 DEF PrepareAttempt, At, IInv, TypeOK, Op, DriverKnowledge, BeforeAttempt
  <2>2. t = op.t /\ att'[t] = PreparedAttempt(op.proc, session.n)
    BY <2>1
  <2>3. QED  BY <2>1, <2>2 DEF NoAttempt, PreparedAttempt, TerminalAttempt
<1>4. QED  BY <1>1, <1>2, <1>3, AttemptActionStep

(* The worker, the control command and the restart projection of           *)
(* provider_attempts.rs never overwrite each other: every change is at the *)
(* next revision of a row that was not terminal.                           *)
THEOREM AttemptsAreFenced == Spec => AttemptIsFenced
<1>1. IInv /\ [Next]_vars =>
        [\A t \in Turns : att'[t] # att[t] =>
           /\ att[t].state \notin TerminalAttempt
           /\ att'[t].rev = att[t].rev + 1]_vars
  BY AttemptStepFenced
<1>2. QED  BY <1>1, TurnInvariance, PTL DEF Spec, AttemptIsFenced
=============================================================================
