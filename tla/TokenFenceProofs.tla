------------------------- MODULE TokenFenceProofs --------------------------
(***************************************************************************)
(* Proofs that AccountService fences refresh tokens: a token the provider  *)
(* has spent holds the account, and is never presented again; that an      *)
(* error a client is told of is true; and that every step is one of        *)
(* AccountPromise; for any number of operations, handlers, tokens, crashes *)
(* and failing calls.                                                      *)
(***************************************************************************)
EXTENDS AccountServiceProofs

----------------------------------------------------------------------------
(* The invariant.                                                          *)

(* A refresh that may have spent the token of the credential it expects.   *)
Guilty(op) ==
    /\ op.kind = "refresh" /\ op.recovers = NoOperation /\ op.by = NoOperation
    /\ op.phase \in {"pending", "recovery"} /\ op.code # "rejected"

Spent(d) == d.cred # NoCredential /\ d.cred.t \notin valid

(* A spent credential has its culprit, and what an unsettled operation is  *)
(* to install is good.                                                     *)
Fenced(d) == Spent(d) => \E o \in Operations : Guilty(d.ops[o])
TargetsValid(d) ==
    \A o \in Operations :
        IsUnsettled(d.ops[o]) /\ d.ops[o].target # NoCredential => d.ops[o].target.t \in valid

(* The token of a login is good, and nowhere in the database, until the    *)
(* operation that installs it is prepared.                                 *)
Unseen(d, t) == t # d.cred.t /\ \A x \in Operations : t # d.ops[x].target.t
LoginsFresh(d) ==
    \A o \in Operations :
        d.ops[o].phase = "none" /\ receipt[o].token # 0 =>
            receipt[o].token \in valid /\ Unseen(d, receipt[o].token)
Below(d) == d.cred.t <= issued /\ \A o \in Operations : d.ops[o].target.t <= issued

(* An account without a row has committed nothing.                         *)
RowFirst(d) == d.acct.row = "none" => \A o \in Operations : d.ops[o].phase # "committed"

Safe(d) == Fenced(d) /\ TargetsValid(d) /\ LoginsFresh(d) /\ Below(d) /\ RowFirst(d)

(* Tokens are issued once, and a reserved receipt has no answer; a handler *)
(* that works on a receipt works on its command.                           *)
ReceiptTokens ==
    \A o \in Operations :
        /\ receipt[o].token <= issued
        /\ receipt[o].cmd \in {"enroll", "reauth"} => receipt[o].token # 0
        /\ receipt[o].state = "reserved" => receipt[o].answer = "none"
        /\ \A x \in Operations :
              o # x /\ receipt[o].token # 0 => receipt[o].token # receipt[x].token
HandlerTokens ==
    \A h \in Handlers :
        /\ handler[h].token <= issued
        /\ \A o \in Operations : handler[h].token # 0 => receipt[o].token # handler[h].token
        /\ handler[h].pc # "idle" /\ handler[h].cmd \in Commands =>
              /\ receipt[handler[h].o].cmd = handler[h].cmd
              /\ receipt[handler[h].o].state # "none"

(* What the step pc of the handler w presumes of its operation and of the  *)
(* credential.                                                             *)
Presumes(pc, w, d) ==
    LET op == d.ops[w.o]
    IN /\ pc = "pend" => /\ op.kind = "refresh" /\ op.phase = "prepared"
                         /\ op.target = NoCredential /\ d.cred # NoCredential
       /\ pc \in {"provider", "resolve"} =>
             Guilty(op) /\ op.target = NoCredential /\ d.cred # NoCredential
       /\ pc = "provider" => d.cred.t \in valid
       /\ pc = "resolve" =>
             /\ w.result = "rotated" => w.token \in valid /\ w.token # 0
             /\ w.result \in {"current", "refused", "rejected"} => d.cred.t \in valid
       /\ pc = "rotate" => IsUnsettled(op)
       /\ pc \in {"create", "reject"} => op.phase = "prepared"
       /\ pc = "delete" => op.phase # "committed"
       /\ pc = "apply" => d.cred = NoCredential \/ d.cred = op.target

TInv ==
    /\ Safe(db) /\ ReceiptTokens /\ HandlerTokens
    /\ \A h \in Handlers :
          handler[h].pc \notin {"idle", "wait"} => Presumes(handler[h].pc, handler[h], db)

----------------------------------------------------------------------------
(* The transactions.                                                       *)

LEMMA CredentialFields ==
    ASSUME NEW d \in Database
    PROVE  /\ d.cred \in Credential /\ d.cred.t \in Nat
           /\ \A o \in Operations : d.ops[o] \in Operation /\ d.ops[o].target.t \in Nat
  BY DEF Database, Operation, Credential

(* What advance_operation_sync may leave: it changes no credential and no  *)
(* target, and it commits only what is installed.                          *)
Advanced(d, o, from, to, code, e) ==
    /\ e.cred = d.cred
    /\ \A x \in Operations :
          /\ e.ops[x].target = d.ops[x].target
          /\ e.ops[x].phase = "none" => d.ops[x].phase = "none"
          /\ IsUnsettled(e.ops[x]) => IsUnsettled(d.ops[x])
    /\ RowFirst(d) => RowFirst(e)
    /\ \/ e = d
       \/ /\ IsUnsettled(d.ops[o]) /\ d.ops[o].phase = from /\ from # to
          /\ to = "committed" => d.cred \in {NoCredential, d.ops[o].target}
          /\ to # "committed" =>
                /\ \A x \in Operations : x # o => e.ops[x] = d.ops[x]
                /\ e.ops[o].kind = d.ops[o].kind /\ e.ops[o].recovers = d.ops[o].recovers
                /\ e.ops[o].by = d.ops[o].by
                /\ e.ops[o].phase = to /\ e.ops[o].code = code

LEMMA AdvanceShape ==
    ASSUME NEW d \in Database, NEW o \in Operations, NEW from \in Phases, NEW to \in Phases,
           NEW code \in Codes
    PROVE  Advanced(d, o, from, to, code, Advance(d, o, from, to, code, inUse).db)
<1> DEFINE r == Advance(d, o, from, to, code, inUse)
           applies == /\ d.ops[o].phase # to /\ d.ops[o].by = NoOperation
                      /\ d.ops[o].phase = from /\ <<from, to>> \in Allowed
                      /\ to = "committed" => CommitRejection(d, o, inUse) = "none"
                      /\ r.db # d
<1>0. d.ops \in Rows
  BY DEF Database, Rows
<1>1. CASE ~applies
  <2>1. r.db = d
    BY <1>1 DEF Advance, Result
  <2>2. QED
    BY <2>1 DEF Advanced
<1>2. CASE applies
  <2>1. IsUnsettled(d.ops[o]) /\ to # "none" /\ from # to
    BY <1>2 DEF IsUnsettled, UnsettledPhases, Allowed
  <2>2. CASE to # "committed"
    <3> DEFINE new == Moved(d.ops, o, to, code)
    <3>1. r.db = [d EXCEPT !.ops = new]
      BY <1>2, <2>2 DEF Advance, Result
    <3>2. r.db.cred = d.cred /\ r.db.ops = new /\ r.db.acct = d.acct
      BY <3>1 DEF Database
    <3>3. /\ \A x \in Operations : x # o => new[x] = d.ops[x]
          /\ new[o].phase = to /\ new[o].code = code /\ new[o].kind = d.ops[o].kind
          /\ new[o].target = d.ops[o].target
          /\ new[o].recovers = d.ops[o].recovers /\ new[o].by = d.ops[o].by
      BY <1>0 DEF Moved, Rows, Operation
    <3> HIDE DEF r, new
    <3>4. \A x \in Operations : IsUnsettled(new[x]) => IsUnsettled(d.ops[x])
      BY <2>1, <3>3
    <3>5. RowFirst(d) => RowFirst(r.db)
      BY <2>2, <3>2, <3>3 DEF RowFirst
    <3>6. QED
      BY <1>2, <2>1, <2>2, <3>2, <3>3, <3>4, <3>5 DEF Advanced, r
  <2>3. CASE to = "committed"
    <3> DEFINE new == Moved(Superseded(d, o), o, to, code)
    <3>1. r.db.cred = d.cred /\ r.db.ops = new /\ r.db.acct = CommittedAccount(d, o)
      BY <1>2, <2>3 DEF Advance, Result
    <3>2. Superseded(d, o) \in Rows
      BY <1>0 DEF Superseded, Rows, Operation, Reference
    <3>3. \A x \in Operations :
             Superseded(d, o)[x] = IF x = d.ops[o].recovers THEN [d.ops[x] EXCEPT !.by = o]
                                   ELSE d.ops[x]
      BY DEF Superseded
    <3>4. \A x \in Operations :
             /\ Superseded(d, o)[x].target = d.ops[x].target
             /\ Superseded(d, o)[x].phase = d.ops[x].phase
             /\ Superseded(d, o)[x].by \in {d.ops[x].by, o}
             /\ Superseded(d, o)[x].by = o \/ Superseded(d, o)[x] = d.ops[x]
      BY <1>0, <3>3 DEF Rows, Operation
    <3>5. /\ \A x \in Operations : x # o => new[x] = Superseded(d, o)[x]
          /\ new[o].phase = to /\ new[o].target = Superseded(d, o)[o].target
      BY <3>2 DEF Moved, Rows, Operation
    <3> HIDE DEF r, new
    <3>6. \A x \in Operations : IsUnsettled(new[x]) => IsUnsettled(d.ops[x])
      <4> SUFFICES ASSUME NEW x \in Operations, IsUnsettled(new[x]) PROVE IsUnsettled(d.ops[x])
        OBVIOUS
      <4>1. x # o
        BY <2>3, <3>5 DEF IsUnsettled, UnsettledPhases
      <4>2. new[x].by # o
        BY StoreAssumption DEF IsUnsettled
      <4>3. QED
        BY <3>4, <3>5, <4>1, <4>2
    <3>7. d.cred \in {NoCredential, d.ops[o].target}
      BY <1>2, <2>3 DEF CommitRejection, EnrollCommitRejection, RefreshCommitRejection,
                        LogoutCommitRejection
    <3>8. RowFirst(d) => RowFirst(r.db)
      <4>1. CommittedAccount(d, o).row # "none"
        <5>1. d.ops[o].kind = "refresh" => d.acct.row # "none"
          BY <1>2, <2>3 DEF CommitRejection, RefreshCommitRejection
        <5>2. d.acct \in Account
          BY DEF Database
        <5>3. QED
          BY <5>1, <5>2 DEF CommittedAccount, Account
      <4>2. QED
        BY <3>1, <4>1 DEF RowFirst
    <3>9. QED
      BY <1>2, <2>1, <2>3, <3>1, <3>4, <3>5, <3>6, <3>7, <3>8 DEF Advanced, r
  <2>4. QED
    BY <2>2, <2>3
<1>3. QED
  BY <1>1, <1>2

(* A transition that does not release the culprit of a spent credential.   *)
Harmless(d, o, from, to, code) ==
    \/ from \in {"prepared", "applied"} \/ from = to \/ to = "committed"
    \/ to = "recovery" /\ code # "rejected"
    \/ ~Spent(d) \/ d.cred = d.ops[o].target
    \/ ~Guilty(d.ops[o])

LEMMA AdvanceSafe ==
    ASSUME NEW d \in Database, Safe(d), NEW o \in Operations, NEW from \in Phases,
           NEW to \in Phases, NEW code \in Codes, Harmless(d, o, from, to, code)
    PROVE  Safe(Advance(d, o, from, to, code, inUse).db)
<1> DEFINE e == Advance(d, o, from, to, code, inUse).db
<1>1. Advanced(d, o, from, to, code, e)
  BY AdvanceShape
<1> SUFFICES Safe(e)
  OBVIOUS
<1> HIDE DEF e
<1>2. CASE e = d
  BY <1>2
<1>3. CASE e # d
  <2>1. TargetsValid(e) /\ LoginsFresh(e) /\ Below(e) /\ RowFirst(e)
    BY <1>1 DEF Advanced, Safe, TargetsValid, LoginsFresh, Unseen, Below
  <2>2. Fenced(e)
    <3> SUFFICES ASSUME Spent(e) PROVE \E x \in Operations : Guilty(e.ops[x])
      BY DEF Fenced
    <3>1. Spent(d) /\ IsUnsettled(d.ops[o]) /\ d.ops[o].phase = from /\ from # to
      BY <1>1, <1>3 DEF Advanced, Spent
    <3>2. d.cred # NoCredential /\ d.cred # d.ops[o].target
      BY <3>1 DEF Spent, Safe, TargetsValid
    <3>3. /\ to # "committed" /\ \A x \in Operations : x # o => e.ops[x] = d.ops[x]
          /\ e.ops[o].kind = d.ops[o].kind /\ e.ops[o].recovers = d.ops[o].recovers
          /\ e.ops[o].by = d.ops[o].by /\ e.ops[o].phase = to /\ e.ops[o].code = code
      BY <1>1, <1>3, <3>2 DEF Advanced
    <3>4. PICK x \in Operations : Guilty(d.ops[x])
      BY <3>1 DEF Safe, Fenced
    <3>5. CASE x # o
      BY <3>3, <3>4, <3>5
    <3>6. CASE x = o
      <4>1. from \notin {"prepared", "applied"}
        BY <3>1, <3>4, <3>6 DEF Guilty
      <4>2. to = "recovery" /\ code # "rejected"
        BY <3>1, <3>2, <3>3, <3>4, <3>6, <4>1 DEF Harmless
      <4>3. Guilty(e.ops[o])
        BY <3>3, <3>4, <3>6, <4>2 DEF Guilty
      <4>4. QED
        BY <4>3
    <3>7. QED
      BY <3>5, <3>6
  <2>3. QED
    BY <2>1, <2>2 DEF Safe
<1>4. QED
  BY <1>2, <1>3

(* prepare_operation_sync: what is to be installed is the token of the     *)
(* operation's own login, if anything.                                     *)
LEMMA PrepareSafe ==
    ASSUME IInv, Safe(db), ReceiptTokens, NEW o \in Operations, NEW op \in Operation,
           op.phase = "prepared",
           op.target = NoCredential \/ (op.target.t = receipt[o].token /\ receipt[o].token # 0)
    PROVE  Safe(Prepare(db, o, op).db) /\ Prepare(db, o, op).db.cred = db.cred
<1> DEFINE e == [db EXCEPT !.ops[o] = op]
           r == Prepare(db, o, op)
<1>0. db \in Database
  BY DEF IInv, Sound, TypeOK
<1>1. r.db = db \/ (r.db = e /\ db.ops[o].phase = "none")
  BY DEF Prepare, Result
<1>2. CASE r.db = e /\ db.ops[o].phase = "none"
  <2>1. /\ e.cred = db.cred /\ e.ops[o] = op
        /\ \A x \in Operations : x # o => e.ops[x] = db.ops[x]
    BY <1>0 DEF Database
  <2> HIDE DEF e
  <2>2. Fenced(e)
    <3>1. \A x \in Operations : Guilty(db.ops[x]) => Guilty(e.ops[x])
      BY <1>2, <2>1 DEF Guilty
    <3>2. Spent(e) => Spent(db)
      BY <2>1 DEF Spent
    <3>3. QED
      BY <3>1, <3>2 DEF Fenced, Safe
  <2>3. TargetsValid(e)
    <3>1. op.target # NoCredential => op.target.t \in valid
      BY <1>2 DEF Safe, LoginsFresh
    <3>2. QED
      BY <2>1, <3>1 DEF TargetsValid, Safe
  <2>4. LoginsFresh(e)
    <3> SUFFICES ASSUME NEW x \in Operations, e.ops[x].phase = "none", receipt[x].token # 0
                 PROVE  receipt[x].token \in valid /\ Unseen(e, receipt[x].token)
      BY DEF LoginsFresh
    <3>1. x # o /\ db.ops[x].phase = "none"
      BY <2>1
    <3>2. receipt[x].token \in valid /\ Unseen(db, receipt[x].token)
      BY <3>1 DEF Safe, LoginsFresh
    <3>3. receipt[x].token # op.target.t
      BY <3>1 DEF ReceiptTokens, NoCredential
    <3>4. QED
      BY <2>1, <3>2, <3>3 DEF Unseen
  <2>5. Below(e)
    <3>1. op.target.t <= issued
      BY <1>0 DEF ReceiptTokens, NoCredential, IInv, Sound, TypeOK
    <3>2. QED
      BY <2>1, <3>1 DEF Below, Safe
  <2>6. RowFirst(e)
    <3>1. e.acct = db.acct
      BY <1>0 DEF Database, e
    <3>2. QED
      BY <2>1, <3>1 DEF RowFirst, Safe
  <2>7. QED
    BY <1>2, <2>1, <2>2, <2>3, <2>4, <2>5, <2>6 DEF Safe
<1>3. QED
  BY <1>1, <1>2

(* set_operation_target_sync, with the token the provider has just issued. *)
LEMMA TargetSafe ==
    ASSUME IInv, Safe(db), NEW o \in Operations, NEW target \in Credential,
           target.t \in valid, target.t <= issued, Guilty(db.ops[o]),
           \A x \in Operations : receipt[x].token # 0 => receipt[x].token # target.t
    PROVE  /\ Safe(SetTarget(db, o, target).db)
           /\ IsUnsettled(SetTarget(db, o, target).db.ops[o])
<1> DEFINE e == [db EXCEPT !.ops[o].target = target]
           r == SetTarget(db, o, target)
<1>0. db \in Database /\ db.ops[o] \in Operation
  BY DEF IInv, Sound, TypeOK, Database
<1>1. r.db = db \/ r.db = e
  BY DEF SetTarget, Result
<1>2. IsUnsettled(db.ops[o])
  BY DEF Guilty, IsUnsettled, UnsettledPhases
<1>3. CASE r.db = e
  <2>1. /\ e.cred = db.cred /\ e.acct = db.acct
        /\ e.ops[o] = [db.ops[o] EXCEPT !.target = target]
        /\ \A x \in Operations : x # o => e.ops[x] = db.ops[x]
    BY <1>0 DEF Database
  <2>2. /\ e.ops[o].target = target /\ e.ops[o].kind = db.ops[o].kind
        /\ e.ops[o].phase = db.ops[o].phase /\ e.ops[o].code = db.ops[o].code
        /\ e.ops[o].recovers = db.ops[o].recovers /\ e.ops[o].by = db.ops[o].by
    BY <1>0, <2>1 DEF Operation
  <2> HIDE DEF e
  <2>3. IsUnsettled(e.ops[o]) /\ Guilty(e.ops[o])
    BY <1>2, <2>2 DEF IsUnsettled, Guilty
  <2>4. Fenced(e)
    BY <2>3 DEF Fenced
  <2>5. TargetsValid(e)
    BY <2>1, <2>2 DEF TargetsValid, Safe
  <2>6. LoginsFresh(e)
    <3> SUFFICES ASSUME NEW x \in Operations, e.ops[x].phase = "none", receipt[x].token # 0
                 PROVE  receipt[x].token \in valid /\ Unseen(e, receipt[x].token)
      BY DEF LoginsFresh
    <3>1. receipt[x].token \in valid /\ Unseen(db, receipt[x].token)
      BY <2>1, <2>2 DEF Safe, LoginsFresh
    <3>2. QED
      BY <2>1, <2>2, <3>1 DEF Unseen
  <2>7. Below(e)
    BY <2>1, <2>2 DEF Below, Safe
  <2>8. RowFirst(e)
    BY <2>1, <2>2 DEF RowFirst, Safe
  <2>9. QED
    BY <1>3, <2>3, <2>4, <2>5, <2>6, <2>7, <2>8 DEF Safe
<1>4. QED
  BY <1>1, <1>2, <1>3

(* The credential is removed, or becomes what an unsettled operation is to *)
(* install.                                                                *)
LEMMA CredentialSafe ==
    ASSUME IInv, Safe(db), NEW d, SameRows(d), NEW o \in Operations,
           \/ d.cred = db.cred \/ d.cred = NoCredential
           \/ IsUnsettled(db.ops[o]) /\ d.cred = db.ops[o].target
    PROVE  Safe(d)
<1>0. d.ops = db.ops /\ db \in Database
  BY DEF SameRows, IInv, Sound, TypeOK
<1>1. Fenced(d)
  <2> SUFFICES ASSUME Spent(d) PROVE \E x \in Operations : Guilty(d.ops[x])
    BY DEF Fenced
  <2>1. d.cred = db.cred
    BY DEF Spent, Safe, TargetsValid
  <2>2. QED
    BY <1>0, <2>1 DEF Spent, Fenced, Safe
<1>2. TargetsValid(d)
  BY <1>0 DEF TargetsValid, Safe
<1>3. LoginsFresh(d)
  BY <1>0 DEF LoginsFresh, Safe, Unseen, NoCredential
<1>4. Below(d)
  <2>1. 0 <= issued
    BY DEF IInv, Sound, TypeOK
  <2>2. QED
    BY <1>0, <2>1 DEF Below, Safe, NoCredential
<1>5. RowFirst(d)
  BY <1>0 DEF RowFirst, Safe, SameRows
<1>6. QED
  BY <1>1, <1>2, <1>3, <1>4, <1>5 DEF Safe

(* An operation between its preparation and its effect that takes nothing  *)
(* over is alone, so that the credential it expects is not spent.          *)
LEMMA PreparedAlone ==
    ASSUME NEW ops \in Rows, Journal(ops), NEW o \in Operations, IsUnsettled(ops[o]),
           ops[o].recovers = NoOperation, ops[o].phase # "recovery"
    PROVE  \A x \in Operations : IsUnsettled(ops[x]) => x = o
<1> SUFFICES ASSUME NEW x \in Operations, IsUnsettled(ops[x]), x # o PROVE FALSE
  OBVIOUS
<1>1. ops[x].recovers = o
  BY StoreAssumption DEF Journal
<1>2. QED
  BY <1>1, HeldIsRecovery DEF Held

LEMMA PreparedHasCredential ==
    ASSUME NEW d \in Database, Journal(d.ops), Fenced(d), NEW o \in Operations,
           d.ops[o].phase = "prepared", d.ops[o].recovers = NoOperation
    PROVE  ~Spent(d)
<1>1. d.ops \in Rows
  BY DEF Database, Rows
<1>2. IsUnsettled(d.ops[o])
  BY DEF Journal, IsUnsettled, UnsettledPhases
<1>3. \A x \in Operations : Guilty(d.ops[x]) => x = o
  BY <1>1, <1>2, PreparedAlone DEF Guilty, IsUnsettled, UnsettledPhases
<1>4. QED
  BY <1>3 DEF Fenced, Guilty

----------------------------------------------------------------------------
(* The steps of a handler.                                                 *)

(* Neither the provider nor a login issues a token.                        *)
SameTokens ==
    /\ UNCHANGED <<valid, issued>>
    /\ \A o \in Operations :
          /\ receipt'[o].token = receipt[o].token /\ receipt'[o].cmd = receipt[o].cmd
          /\ receipt[o].state # "none" => receipt'[o].state # "none"
          /\ receipt'[o].state = "reserved" =>
                receipt[o].state = "reserved" /\ receipt'[o].answer = receipt[o].answer

LEMMA AnswerKeepsTokens ==
    ASSUME IInv, NoProvider, NEW h \in Handlers, NEW answer,
           receipt' \in {receipt, Released(h), Answered(h, answer)}
    PROVE  SameTokens
<1> DEFINE o == handler[h].o
           told == [receipt[o] EXCEPT !.state = "done", !.claim = Free, !.answer = answer]
           free == [receipt[o] EXCEPT !.claim = Free]
<1>1. receipt \in [Operations -> Receipt]
  BY DEF IInv, Sound, TypeOK
<1>2. \/ receipt' = receipt \/ receipt' = [receipt EXCEPT ![o] = told]
      \/ receipt' = [receipt EXCEPT ![o] = free]
  BY DEF Answered, Released
<1>3. o \in Operations => /\ told.token = receipt[o].token /\ told.cmd = receipt[o].cmd
                          /\ told.state = "done"
                          /\ free.token = receipt[o].token /\ free.cmd = receipt[o].cmd
                          /\ free.state = receipt[o].state /\ free.answer = receipt[o].answer
  BY <1>1 DEF Receipt
<1> HIDE DEF told, free
<1>4. QED
  BY <1>1, <1>2, <1>3 DEF SameTokens, NoProvider

LEMMA SafeLater ==
    ASSUME SameTokens, Safe(db')
    PROVE  Safe(db)'
<1>1. Fenced(db)'
  BY DEF SameTokens, Safe, Fenced, Spent
<1>2. TargetsValid(db)'
  BY DEF SameTokens, Safe, TargetsValid
<1>3. LoginsFresh(db)'
  BY DEF SameTokens, Safe, LoginsFresh, Unseen
<1>4. Below(db)'
  BY DEF SameTokens, Safe, Below
<1>5. RowFirst(db)'
  BY DEF Safe, RowFirst
<1>6. QED
  BY <1>1, <1>2, <1>3, <1>4, <1>5 DEF Safe

(* A handler moves on; only it may be past its wait.                       *)
LEMMA HandlerMoves ==
    ASSUME IInv, TInv, NEW h \in Handlers, Running(h), SameTokens, Safe(db'),
           handler' \in [Handlers -> Handler],
           \A g \in Handlers : g # h => handler'[g] = handler[g],
           handler'[h].pc = "idle" \/ (/\ handler'[h].o = handler[h].o
                                       /\ handler'[h].cmd = handler[h].cmd
                                       /\ handler[h].pc # "idle"),
           handler'[h].token \in {0, handler[h].token},
           handler'[h].pc \notin {"idle", "wait"} =>
              Presumes(handler'[h].pc, handler'[h], db')
    PROVE  TInv'
<1>1. Safe(db)'
  BY SafeLater
<1>2. ReceiptTokens'
  BY DEF TInv, ReceiptTokens, SameTokens
<1>3. HandlerTokens'
  <2> SUFFICES ASSUME NEW g \in Handlers
               PROVE  /\ handler'[g].token <= issued'
                      /\ \A o \in Operations :
                            handler'[g].token # 0 => receipt'[o].token # handler'[g].token
                      /\ handler'[g].pc # "idle" /\ handler'[g].cmd \in Commands =>
                            /\ receipt'[handler'[g].o].cmd = handler'[g].cmd
                            /\ receipt'[handler'[g].o].state # "none"
    BY DEF HandlerTokens
  <2>1. 0 <= issued
    BY DEF IInv, Sound, TypeOK
  <2>2. handler'[g].token \in {0, handler[g].token}
    OBVIOUS
  <2>3. handler[g].pc # "idle" => handler[g].o \in Operations
    BY DEF IInv, Busy
  <2>4. handler'[g].pc # "idle" => /\ handler'[g].o = handler[g].o
                                   /\ handler'[g].cmd = handler[g].cmd /\ handler[g].pc # "idle"
    OBVIOUS
  <2>5. /\ handler'[g].token <= issued'
        /\ \A o \in Operations :
              handler'[g].token # 0 => receipt'[o].token # handler'[g].token
    BY <2>1, <2>2 DEF TInv, HandlerTokens, SameTokens
  <2>6. QED
    BY <2>3, <2>4, <2>5 DEF TInv, HandlerTokens, SameTokens
<1>4. ASSUME NEW g \in Handlers, handler'[g].pc \notin {"idle", "wait"}
      PROVE  Presumes(handler[g].pc, handler[g], db)'
  <2>1. g = h
    BY <1>4 DEF Running
  <2>2. Presumes(handler'[h].pc, handler'[h], db')
    BY <1>4, <2>1
  <2>3. valid' = valid
    BY DEF SameTokens
  <2>4. QED
    BY <2>1, <2>2, <2>3 DEF Presumes
<1>5. QED
  BY <1>1, <1>2, <1>3, <1>4 DEF TInv

LEMMA FinishFenced ==
    ASSUME IInv, TInv, NEW h \in Handlers, Running(h), SameTokens, Safe(db'), Finish(h)
    PROVE  TInv'
<1>1. handler \in [Handlers -> Handler]
  BY DEF IInv, Sound, TypeOK
<1>2. IdleHandler \in Handler /\ IdleHandler.pc = "idle" /\ IdleHandler.token = 0
  BY DEF IdleHandler, Handler, Steps, Results, Reference
<1>3. /\ handler' \in [Handlers -> Handler] /\ handler'[h] = IdleHandler
      /\ \A g \in Handlers : g # h => handler'[g] = handler[g]
  BY <1>1, <1>2 DEF Finish
<1>4. QED
  BY <1>2, <1>3, HandlerMoves

LEMMA EndsFenced ==
    ASSUME IInv, TInv, NEW h \in Handlers, Running(h), NoProvider
    PROVE  (Refuse(h) => TInv') /\ (Abandon(h) => TInv')
<1>1. Safe(db)
  BY DEF TInv
<1>2. CASE Refuse(h)
  <2>1. SameTokens /\ Safe(db') /\ Finish(h)
    BY <1>1, <1>2, AnswerKeepsTokens DEF Refuse
  <2>2. QED
    BY <2>1, FinishFenced
<1>3. CASE Abandon(h)
  <2>1. SameTokens /\ Safe(db') /\ Finish(h)
    BY <1>1, <1>3, AnswerKeepsTokens DEF Abandon
  <2>2. QED
    BY <2>1, FinishFenced
<1>4. QED
  BY <1>2, <1>3

(* complete_account_operation_command                                      *)
LEMMA CompleteFenced ==
    ASSUME IInv, TInv, NEW h \in Handlers, Running(h), NoProvider, NEW d \in Database, Safe(d),
           NEW from \in Phases, NEW to \in Phases, NEW code \in Codes, NEW answer,
           Harmless(d, handler[h].o, from, to, code), Complete(h, d, from, to, code, answer)
    PROVE  TInv'
<1> DEFINE r == Advance(d, handler[h].o, from, to, code, inUse)
<1>1. Safe(r.db)
  BY AdvanceSafe DEF Running
<1>2. db' = r.db \/ db' = d
  BY DEF Complete
<1>3. /\ Finish(h)
      /\ receipt' = Released(h)
         \/ receipt' = Answered(h, IF Accepted(r) THEN answer ELSE "error")
  BY DEF Complete
<1>4. SameTokens
  BY <1>3, AnswerKeepsTokens
<1>5. QED
  BY <1>1, <1>2, <1>3, <1>4, FinishFenced

LEMMA StepFenced ==
    ASSUME IInv, TInv, NEW h \in Handlers, Running(h), NoProvider, handler[h].pc # "idle",
           NEW r, NEW pc \in Steps, Step(h, r, pc),
           Accepted(r) => Safe(r.db) /\ Presumes(pc, handler[h], r.db)
    PROVE  TInv'
<1>1. CASE ~Accepted(r)
  BY <1>1, EndsFenced DEF Step
<1>2. CASE Accepted(r)
  <2>1. db' = r.db /\ handler' = [handler EXCEPT ![h].pc = pc] /\ receipt' = receipt
    BY <1>2 DEF Step, Goto
  <2>2. /\ handler' \in [Handlers -> Handler]
        /\ \A g \in Handlers : g # h => handler'[g] = handler[g]
        /\ handler'[h].pc = pc /\ handler'[h].o = handler[h].o
        /\ handler'[h].cmd = handler[h].cmd /\ handler'[h].token = handler[h].token
        /\ handler'[h].result = handler[h].result
    BY <2>1 DEF IInv, Sound, TypeOK, Handler
  <2>3. SameTokens
    BY <2>1 DEF SameTokens, NoProvider
  <2>4. Safe(db')
    BY <1>2, <2>1
  <2>5. Presumes(pc, handler[h], db')
    BY <1>2, <2>1
  <2>6. Presumes(handler'[h].pc, handler'[h], db')
    BY <2>2, <2>5 DEF Presumes
  <2>7. QED
    BY <2>2, <2>3, <2>4, <2>6, HandlerMoves
<1>3. QED
  BY <1>1, <1>2

----------------------------------------------------------------------------
(* Ways a handler's action may go.                                         *)

LEMMA HereSafe == IInv /\ TInv => db \in Database /\ Safe(db)
  BY DEF IInv, Sound, TypeOK, TInv

LEMMA CompletesFenced ==
    ASSUME IInv, TInv, NEW h \in Handlers, Running(h), NoProvider, NEW d \in Database, Safe(d),
           NEW answer
    PROVE  /\ \A p \in Phases : Complete(h, d, p, p, "none", answer) => TInv'
           /\ \A p \in Phases, code \in Codes \ {"rejected"} :
                 Complete(h, d, p, "recovery", code, answer) => TInv'
           /\ \A p \in {"prepared", "applied"}, to \in Phases, code \in Codes :
                 Complete(h, d, p, to, code, answer) => TInv'
<1> DEFINE o == handler[h].o
<1>1. "recovery" \in Phases /\ "prepared" \in Phases /\ "applied" \in Phases /\ "none" \in Codes
  BY DEF Phases, Codes
<1>2. ASSUME NEW p \in Phases, Complete(h, d, p, p, "none", answer)
      PROVE  TInv'
  <2>1. Harmless(d, o, p, p, "none")
    BY DEF Harmless
  <2>2. QED
    BY <1>1, <1>2, <2>1, CompleteFenced
<1>3. ASSUME NEW p \in Phases, NEW code \in Codes \ {"rejected"},
             Complete(h, d, p, "recovery", code, answer)
      PROVE  TInv'
  <2>1. Harmless(d, o, p, "recovery", code)
    BY DEF Harmless
  <2>2. QED
    BY <1>1, <1>3, <2>1, CompleteFenced
<1>4. ASSUME NEW p \in {"prepared", "applied"}, NEW to \in Phases, NEW code \in Codes,
             Complete(h, d, p, to, code, answer)
      PROVE  TInv'
  <2>1. Harmless(d, o, p, to, code) /\ p \in Phases
    BY <1>1 DEF Harmless
  <2>2. QED
    BY <1>4, <2>1, CompleteFenced
<1>5. QED
  BY <1>2, <1>3, <1>4

LEMMA ResumesFenced ==
    ASSUME IInv, TInv, NEW h \in Handlers, Running(h), NoProvider, handler[h].pc # "idle",
           NEW pc \in Steps, Presumes(pc, handler[h], db), Resume(h, pc)
    PROVE  TInv'
<1>1. Result("replayed", db).db = db
  BY DEF Result
<1>2. QED
  BY <1>1, HereSafe, StepFenced DEF Resume

(* To the steps that presume nothing.                                      *)
LEMMA AdvancesFenced ==
    ASSUME IInv, TInv, NEW h \in Handlers, Running(h), NoProvider, handler[h].pc # "idle",
           NEW from \in Phases, NEW to \in Phases, Harmless(db, handler[h].o, from, to, "none"),
           NEW pc \in {"commit", "complete"}, AdvanceStep(h, from, to, pc)
    PROVE  TInv'
<1> DEFINE r == Advance(db, handler[h].o, from, to, "none", inUse)
<1>1. Safe(r.db)
  BY HereSafe, AdvanceSafe DEF Running, Codes
<1>2. Presumes(pc, handler[h], r.db) /\ pc \in Steps
  BY DEF Presumes, Steps
<1>3. Step(h, r, pc)
  BY DEF AdvanceStep
<1> HIDE DEF r
<1>4. QED
  BY <1>1, <1>2, <1>3, StepFenced

LEMMA PreparesFenced ==
    ASSUME IInv, TInv, NEW h \in Handlers, Running(h), NoProvider, handler[h].pc # "idle",
           NEW op \in Operation, op.phase = "prepared", op.by = NoOperation,
           \/ op.target = NoCredential
           \/ op.target.t = receipt[handler[h].o].token /\ receipt[handler[h].o].token # 0,
           NEW pc \in {"create", "pend", "rotate", "delete", "reject"},
           pc = "pend" => /\ op.kind = "refresh" /\ op.target = NoCredential
                          /\ db.cred # NoCredential,
           PrepareStep(h, op, pc)
    PROVE  TInv'
<1> DEFINE o == handler[h].o
           r == Prepare(db, o, op)
           new == r.db.ops[o]
<1>1. Good(r.db) /\ (Accepted(r) => SameDescriptor(new, op)) /\ o \in Operations
  BY PrepareGood DEF Running, IInv
<1>2. Safe(r.db) /\ r.db.cred = db.cred
  BY <1>1, HereSafe, PrepareSafe DEF TInv
<1>3. CASE Accepted(r) /\ new.phase = "prepared"
  <2>1. new.by = NoOperation
    BY <1>1, <1>3 DEF Good, Journal
  <2>2. IsUnsettled(new)
    BY <1>3, <2>1 DEF IsUnsettled, UnsettledPhases
  <2>3. new.kind = op.kind /\ new.target = op.target
    BY <1>1, <1>3 DEF SameDescriptor
  <2>4. Step(h, r, pc)
    BY <1>3 DEF PrepareStep
  <2> HIDE DEF r
  <2>5. Presumes(pc, handler[h], r.db) /\ pc \in Steps
    BY <1>2, <1>3, <2>2, <2>3 DEF Presumes, Steps
  <2>6. QED
    BY <1>2, <2>4, <2>5, StepFenced
<1>4. CASE ~(Accepted(r) /\ new.phase = "prepared")
  BY <1>4, EndsFenced DEF PrepareStep
<1>5. QED
  BY <1>3, <1>4

LEMMA PresumesNothing ==
    ASSUME NEW pc \in {"commit", "complete"}, NEW w, NEW d
    PROVE  Presumes(pc, w, d) /\ pc \in Steps
  BY DEF Presumes, Steps

LEMMA WaiterRuns ==
    ASSUME IInv, NEW h \in Handlers, NEW cmd, Acquire(h, cmd)
    PROVE  /\ Running(h) /\ handler[h].o \in Operations /\ handler[h].pc # "idle"
           /\ handler[h].cmd = cmd
<1>1. Running(h)
  BY AcquireRuns
<1>2. QED
  BY <1>1 DEF Running, Acquire, At

(* What a handler past its wait may count on.                              *)
LEMMA WorkerRuns ==
    ASSUME IInv, TInv, NEW h \in Handlers, handler[h].pc \notin {"idle", "wait"}
    PROVE  /\ Running(h) /\ handler[h].o \in Operations /\ handler[h].pc # "idle"
           /\ Presumes(handler[h].pc, handler[h], db)
<1>1. Running(h)
  BY HolderRuns
<1>2. QED
  BY <1>1 DEF Running, TInv

----------------------------------------------------------------------------
(* The actions of a handler.                                               *)

(* The token of a command that installs one.                               *)
LEMMA LoginToken ==
    ASSUME IInv, TInv, NEW h \in Handlers, NEW cmd \in {"enroll", "reauth"}, Acquire(h, cmd)
    PROVE  receipt[handler[h].o].token # 0
<1>1. handler[h].pc # "idle" /\ handler[h].cmd = cmd /\ handler[h].o \in Operations
  BY WaiterRuns
<1>2. receipt[handler[h].o].cmd = cmd
  BY <1>1 DEF TInv, HandlerTokens, Commands
<1>3. QED
  BY <1>1, <1>2 DEF TInv, ReceiptTokens

(* The operation an enrollment is prepared with.                           *)
LEMMA EnrollmentRow ==
    ASSUME IInv, NEW h \in Handlers, handler[h].o \in Operations
    PROVE  /\ EnrollmentOf(h) \in Operation /\ EnrollmentOf(h).phase = "prepared"
           /\ EnrollmentOf(h).by = NoOperation
           /\ EnrollmentOf(h).target.t = receipt[handler[h].o].token
<1> DEFINE rev == IF db.acct.row = "tombstone" THEN db.acct.rev ELSE 0
           v == IF db.acct.row = "tombstone" THEN Predecessor(db).v + 1 ELSE 1
           target == Binding(v, handler[h].o, receipt[handler[h].o].token)
<1>1. rev \in Nat /\ v \in Nat /\ receipt[handler[h].o].token \in Nat /\ "enroll" \in Kinds
  BY OpType, PredecessorType, ReceiptFields DEF Kinds
<1>2. EnrollmentOf(h) = NewOperation("enroll", rev, NoCredential, target, NoOperation)
  BY DEF EnrollmentOf
<1>3. target \in Credential /\ target.t = receipt[handler[h].o].token
  BY <1>1, BindingType DEF Binding
<1> HIDE DEF rev, v, target
<1>4. QED
  BY <1>1, <1>2, <1>3, BindingType, NewOperationType DEF NewOperation

LEMMA BeginEnrollFenced ==
    ASSUME IInv, TInv, NEW h \in Handlers, BeginEnroll(h)
    PROVE  TInv'
<1>1. Running(h) /\ handler[h].o \in Operations /\ handler[h].pc # "idle" /\ NoProvider
  BY WaiterRuns DEF BeginEnroll, Quiet
<1>2. Op(h).phase \in Phases
  BY <1>1, OpType DEF Op
<1>3. receipt[handler[h].o].token # 0
  BY LoginToken DEF BeginEnroll
<1>4. /\ EnrollmentOf(h) \in Operation /\ EnrollmentOf(h).phase = "prepared"
      /\ EnrollmentOf(h).by = NoOperation
      /\ EnrollmentOf(h).target.t = receipt[handler[h].o].token
  BY <1>1, EnrollmentRow
<1>5. PrepareStep(h, EnrollmentOf(h), "create") => TInv'
  BY <1>1, <1>3, <1>4, PreparesFenced
<1>6. Resume(h, "complete") => TInv'
  BY <1>1, PresumesNothing, ResumesFenced
<1>7. Complete(h, db, Op(h).phase, Op(h).phase, "none", "error") => TInv'
  BY <1>1, <1>2, HereSafe, CompletesFenced
<1>8. (Refuse(h) => TInv') /\ (Abandon(h) => TInv')
  BY <1>1, EndsFenced
<1>9. QED
  BY <1>5, <1>6, <1>7, <1>8 DEF BeginEnroll

LEMMA CreateFenced ==
    ASSUME IInv, TInv, NEW h \in Handlers, Create(h)
    PROVE  TInv'
<1> DEFINE o == handler[h].o
           r == CreateCredential(db, Op(h).target)
<1>1. PICK call \in Calls :
         /\ Charge(call)
         /\ IF Accepted(r)
            THEN IF call = "ok" THEN Step(h, r, "apply")
                 ELSE \E d \in {db, r.db} : Complete(h, d, "prepared", "recovery", "other", "error")
            ELSE IF Seen(call, Op(h).target) = "exact" THEN Resume(h, "apply")
            ELSE \E to \in {"cancelled"} \cup (IF call = "ok" THEN {} ELSE {"recovery"}) :
                    Complete(h, db, "prepared", to,
                             IF to = "recovery" THEN "other" ELSE "none", "error")
  BY DEF Create
<1>2. /\ Running(h) /\ o \in Operations /\ handler[h].pc # "idle" /\ NoProvider
      /\ Presumes("create", handler[h], db)
  BY WorkerRuns DEF Create, At, Quiet
<1>3. db.ops[o].phase = "prepared" /\ IsUnsettled(db.ops[o])
  <2>1. db.ops[o].phase = "prepared"
    BY <1>2 DEF Presumes
  <2>2. QED
    BY <1>2, <2>1 DEF IInv, Sound, Journal, IsUnsettled, UnsettledPhases
<1>4. SameRows(db) /\ SameRows(r.db) /\ r.db.cred \in {db.cred, Op(h).target}
      /\ (Accepted(r) => r.db.cred = Op(h).target)
  <2>1. SameRows(db) /\ SameRows(r.db)
    BY <1>2, Here, OpType, CredentialSameRows DEF IInv, Op
  <2>2. r.db.cred \in {db.cred, Op(h).target} /\ (Accepted(r) => r.db.cred = Op(h).target)
    BY <2>1 DEF CreateCredential, Result, Accepted, SameRows, Database
  <2>3. QED
    BY <2>1, <2>2
<1> HIDE DEF r
<1>5. Safe(db) /\ Safe(r.db) /\ db \in Database /\ r.db \in Database
  BY <1>2, <1>3, <1>4, HereSafe, CredentialSafe DEF Op, SameRows
<1>6. Step(h, r, "apply") => TInv'
  <2>1. Accepted(r) => Presumes("apply", handler[h], r.db)
    BY <1>4 DEF Presumes, SameRows, Op
  <2>2. QED
    BY <1>2, <1>5, <2>1, StepFenced DEF Steps
<1>7. Seen(call, Op(h).target) = "exact" /\ Resume(h, "apply") => TInv'
  <2>1. Seen(call, Op(h).target) = "exact" => db.cred = Op(h).target
    BY DEF Seen, ReadExact, Calls
  <2>2. Seen(call, Op(h).target) = "exact" => Presumes("apply", handler[h], db)
    BY <2>1 DEF Presumes, Op
  <2>3. QED
    BY <1>2, <2>2, ResumesFenced DEF Steps
<1>8. \A d \in {db, r.db} : /\ Complete(h, d, "prepared", "recovery", "other", "error") => TInv'
                            /\ Complete(h, d, "prepared", "cancelled", "none", "error") => TInv'
  BY <1>2, <1>5, CompletesFenced DEF Phases, Codes
<1>9. QED
  BY <1>1, <1>6, <1>7, <1>8

LEMMA RefreshOperationFenced ==
    ASSUME IInv, TInv, NEW h \in Handlers, Running(h), NoProvider, handler[h].pc # "idle",
           db.cred # NoCredential, NEW pc \in {"pend", "reject"},
           PrepareStep(h, NewOperation("refresh", db.acct.rev, db.cred, NoCredential,
                                       NoOperation), pc)
    PROVE  TInv'
<1> DEFINE op == NewOperation("refresh", db.acct.rev, db.cred, NoCredential, NoOperation)
<1>1. "refresh" \in Kinds /\ db.acct.rev \in Nat /\ db.cred \in Credential
  BY OpType DEF Kinds, Running
<1>2. op \in Operation /\ op.phase = "prepared" /\ op.by = NoOperation
  BY <1>1, BindingType, NewOperationType
<1>3. op.kind = "refresh" /\ op.target = NoCredential
  BY DEF NewOperation
<1> HIDE DEF op
<1>4. QED
  BY <1>2, <1>3, PreparesFenced DEF op

(* A pending refresh that is found installed has done its work.            *)
LEMMA ExactIsHarmless ==
    ASSUME NEW call \in Calls, NEW o, NEW from,
           Seen(call, db.ops[o].target) = "exact"
    PROVE  Harmless(db, o, from, "applied", "none")
<1>1. db.cred = db.ops[o].target
  BY DEF Seen, ReadExact, Calls
<1>2. QED
  BY <1>1 DEF Harmless

LEMMA ReplayRefreshFenced ==
    ASSUME IInv, TInv, NEW h \in Handlers, Running(h), NoProvider, handler[h].pc # "idle",
           NEW call \in Calls, ReplayRefresh(h, call)
    PROVE  TInv'
<1>1. Op(h).phase \in Phases /\ handler[h].o \in Operations
  BY OpType DEF Op, Running
<1>2. \A pc \in {"commit", "complete"} : Resume(h, pc) => TInv'
  BY PresumesNothing, ResumesFenced
<1>3. "pending" \in Phases /\ "applied" \in Phases /\ "cancelled" \in Phases
      /\ "other" \in Codes /\ "none" \in Codes
  BY DEF Phases, Codes
<1>4. ASSUME Seen(call, Op(h).target) = "exact", AdvanceStep(h, "pending", "applied", "commit")
      PROVE  TInv'
  <2>1. Harmless(db, handler[h].o, "pending", "applied", "none")
    BY <1>4, ExactIsHarmless DEF Op
  <2>2. QED
    BY <1>3, <1>4, <2>1, AdvancesFenced
<1>5. /\ Complete(h, db, "prepared", "cancelled", "none", "error") => TInv'
      /\ Complete(h, db, "pending", "recovery", "other", "error") => TInv'
      /\ Complete(h, db, Op(h).phase, Op(h).phase, "none", "error") => TInv'
  BY <1>1, <1>3, HereSafe, CompletesFenced
<1>6. Abandon(h) => TInv'
  BY EndsFenced
<1>7. QED
  BY <1>2, <1>4, <1>5, <1>6 DEF ReplayRefresh

LEMMA BeginRefreshFenced ==
    ASSUME IInv, TInv, NEW h \in Handlers, BeginRefresh(h) \/ BeginBackground(h)
    PROVE  TInv'
<1> DEFINE Prepared == PrepareStep(h, NewOperation("refresh", db.acct.rev, db.cred, NoCredential,
                                                   NoOperation), "pend")
<1>1. /\ Running(h) /\ handler[h].o \in Operations /\ handler[h].pc # "idle" /\ NoProvider
  BY WaiterRuns DEF BeginRefresh, BeginBackground, Quiet
<1>2. PICK call \in Calls :
         \/ Refuse(h) \/ Abandon(h) \/ ReplayRefresh(h, call)
         \/ db.cred # NoCredential /\ Prepared
  BY DEF BeginRefresh, BeginBackground
<1>3. db.cred # NoCredential /\ Prepared => TInv'
  BY <1>1, RefreshOperationFenced
<1>4. QED
  BY <1>1, <1>2, <1>3, EndsFenced, ReplayRefreshFenced

LEMMA PendFenced ==
    ASSUME IInv, TInv, NEW h \in Handlers, Pend(h)
    PROVE  TInv'
<1> DEFINE o == handler[h].o
           r == Advance(db, o, "prepared", "pending", "none", inUse)
<1>1. /\ Running(h) /\ o \in Operations /\ handler[h].pc # "idle" /\ NoProvider
      /\ Presumes("pend", handler[h], db)
  BY WorkerRuns DEF Pend, At, Quiet
<1>2. /\ db.ops[o].kind = "refresh" /\ db.ops[o].phase = "prepared"
      /\ db.ops[o].target = NoCredential /\ db.cred # NoCredential
  BY <1>1 DEF Presumes
<1>3. db.ops[o].recovers = NoOperation
  BY HolderRuns DEF Pend, At, AtPhase
<1>4. db \in Database /\ Safe(db) /\ Journal(db.ops)
  BY HereSafe DEF IInv, Sound
<1>5. "prepared" \in Phases /\ "pending" \in Phases /\ "none" \in Codes
  BY DEF Phases, Codes
<1>6. Safe(r.db) /\ Advanced(db, o, "prepared", "pending", "none", r.db)
  <2>1. Harmless(db, o, "prepared", "pending", "none")
    BY DEF Harmless
  <2>2. QED
    BY <1>1, <1>4, <1>5, <2>1, AdvanceSafe, AdvanceShape
<1>7. db.cred.t \in valid
  BY <1>1, <1>2, <1>3, <1>4, PreparedHasCredential DEF Spent, Safe
<1>8. db.ops[o].by = NoOperation
  BY <1>1, <1>2, <1>4 DEF Journal
<1>9. Accepted(r) => r.db # db
  <2>1. db.ops[o].phase # "pending" /\ ("pending" = "recovery") = ("none" # "none")
    BY <1>2
  <2>2. r = Result("applied", [db EXCEPT !.ops = Moved(@, o, "pending", "none")])
        \/ r = Result("stale_operation", db)
    BY <2>1 DEF Advance
  <2>3. CASE r = Result("applied", [db EXCEPT !.ops = Moved(@, o, "pending", "none")])
    <3>1. r.db.ops[o].phase = "pending"
      BY <1>1, <1>4, <2>3 DEF Result, Moved, Database, Operation
    <3>2. QED
      BY <1>2, <3>1
  <2>4. CASE r = Result("stale_operation", db)
    BY <2>4 DEF Result, Accepted
  <2>5. QED
    BY <2>2, <2>3, <2>4
<1>10. Step(h, r, "provider")
  BY DEF Pend, AdvanceStep
<1> HIDE DEF r
<1>11. Accepted(r) => Presumes("provider", handler[h], r.db)
  <2> SUFFICES ASSUME Accepted(r) PROVE Presumes("provider", handler[h], r.db)
    OBVIOUS
  <2>1. /\ r.db.cred = db.cred /\ r.db.ops[o].target = db.ops[o].target
        /\ r.db.ops[o].kind = db.ops[o].kind /\ r.db.ops[o].recovers = db.ops[o].recovers
        /\ r.db.ops[o].by = db.ops[o].by
        /\ r.db.ops[o].phase = "pending" /\ r.db.ops[o].code = "none"
    BY <1>1, <1>6, <1>9 DEF Advanced
  <2>2. Guilty(r.db.ops[o])
    BY <1>2, <1>3, <1>8, <2>1 DEF Guilty
  <2>3. QED
    BY <1>2, <1>7, <2>1, <2>2 DEF Presumes
<1>12. QED
  BY <1>1, <1>6, <1>10, <1>11, StepFenced DEF Steps

(* The provider spends the token of a credential whose refresh is pending: *)
(* that refresh is the culprit, and it is alone.                           *)
LEMMA ProviderFenced ==
    ASSUME IInv, TInv, NEW h \in Handlers, NEW result \in Results, Provider(h, result)
    PROVE  TInv'
<1> DEFINE o == handler[h].o
           t == db.cred.t
           w == handler'[h]
<1>1. /\ Running(h) /\ o \in Operations /\ handler[h].pc # "idle"
      /\ Presumes("provider", handler[h], db)
  BY WorkerRuns DEF Provider, At
<1>2. /\ Guilty(db.ops[o]) /\ db.ops[o].target = NoCredential
      /\ db.cred # NoCredential /\ t \in valid
  BY <1>1 DEF Presumes
<1>3. /\ handler \in [Handlers -> Handler] /\ issued \in Nat /\ db \in Database
      /\ db.ops \in Rows /\ Journal(db.ops) /\ Safe(db)
  BY HereSafe DEF IInv, Sound, TypeOK, Database, Rows
<1>4. db.ops[o].phase = "pending" /\ db.ops[o].recovers = NoOperation /\ IsUnsettled(db.ops[o])
  <2>1. db.ops[o].phase = "pending" /\ db.ops[o].recovers = NoOperation
    BY HolderRuns DEF Provider, At, AtPhase
  <2>2. QED
    BY <1>2, <2>1 DEF Guilty, IsUnsettled, UnsettledPhases
<1>5. UNCHANGED <<db, receipt>>
  BY DEF Provider
<1>6. \/ valid' = valid /\ issued' = issued /\ result # "rotated"
      \/ /\ valid' = (valid \ {t}) \cup {issued + 1} /\ issued' = issued + 1
         /\ result \notin {"current", "refused", "rejected"}
  BY DEF Provider
<1>7. /\ w.pc = "resolve" /\ w.o = o /\ w.cmd = handler[h].cmd /\ w.result = result
      /\ w.token = IF result = "rotated" THEN issued + 1 ELSE 0
      /\ \A g \in Handlers : g # h => handler'[g] = handler[g]
  <2>1. handler' = [handler EXCEPT ![h].pc = "resolve", ![h].result = result,
                                   ![h].token = IF result = "rotated" THEN issued + 1 ELSE 0]
    BY DEF Provider
  <2>2. QED
    BY ZenonT(60), <1>3, <2>1 DEF Handler
<1>8. Safe(db)'
  <2>1. Fenced(db)'
    BY <1>1, <1>2, <1>5 DEF Fenced
  <2>2. TargetsValid(db)'
    <3>1. \A x \in Operations : IsUnsettled(db.ops[x]) => x = o
      BY <1>1, <1>3, <1>4, PreparedAlone
    <3>2. QED
      BY <1>2, <1>5, <3>1 DEF TargetsValid
  <2>3. LoginsFresh(db)'
    <3> SUFFICES ASSUME NEW x \in Operations, db.ops[x].phase = "none", receipt[x].token # 0
                 PROVE  receipt[x].token \in valid' /\ Unseen(db, receipt[x].token)
      BY <1>5 DEF LoginsFresh, Unseen
    <3>1. receipt[x].token \in valid /\ Unseen(db, receipt[x].token)
      BY <1>3 DEF Safe, LoginsFresh
    <3>2. receipt[x].token # t
      BY <3>1 DEF Unseen
    <3>3. QED
      BY <1>6, <3>1, <3>2
  <2>4. Below(db)'
    <3>1. issued <= issued' /\ issued' \in Nat
      BY <1>3, <1>6
    <3>2. /\ db.cred.t \in Nat /\ db.cred.t <= issued
          /\ \A x \in Operations : db.ops[x].target.t \in Nat /\ db.ops[x].target.t <= issued
      BY <1>3, CredentialFields DEF Safe, Below
    <3>3. db.cred.t <= issued' /\ \A x \in Operations : db.ops[x].target.t <= issued'
      BY <1>3, <3>1, <3>2
    <3>4. QED
      BY <1>5, <3>3 DEF Below
  <2>5. RowFirst(db)'
    BY <1>3, <1>5 DEF Safe, RowFirst
  <2>6. QED
    BY <2>1, <2>2, <2>3, <2>4, <2>5 DEF Safe
<1>9. ReceiptTokens'
  <2>1. issued' \in Nat /\ issued <= issued' /\ \A x \in Operations : receipt[x].token \in Nat
    BY <1>3, <1>6, ReceiptFields
  <2>2. \A x \in Operations : receipt[x].token <= issued'
    BY <1>3, <2>1 DEF TInv, ReceiptTokens
  <2>3. QED
    BY <1>5, <2>2 DEF TInv, ReceiptTokens
<1>10. HandlerTokens'
  <2>1. issued' \in Nat /\ issued <= issued' /\ \A x \in Operations : receipt[x].token \in Nat
    BY <1>3, <1>6, ReceiptFields
  <2>2. /\ w.token <= issued'
        /\ \A x \in Operations : w.token # 0 => receipt[x].token # w.token
    <3>1. \A x \in Operations : receipt[x].token <= issued
      BY DEF TInv, ReceiptTokens
    <3>2. QED
      BY <1>3, <1>6, <1>7, <2>1, <3>1
  <2>3. \A g \in Handlers : handler[g].token \in Nat /\ handler[g].token <= issued'
    BY <1>3, <2>1 DEF TInv, HandlerTokens, Handler
  <2>4. ASSUME NEW g \in Handlers
        PROVE  /\ handler'[g].token <= issued'
               /\ \A x \in Operations :
                     handler'[g].token # 0 => receipt[x].token # handler'[g].token
    BY <1>7, <2>2, <2>3 DEF TInv, HandlerTokens
  <2>5. ASSUME NEW g \in Handlers, handler'[g].pc # "idle", handler'[g].cmd \in Commands
        PROVE  /\ receipt[handler'[g].o].cmd = handler'[g].cmd
               /\ receipt[handler'[g].o].state # "none"
    BY <1>1, <1>7, <2>5 DEF TInv, HandlerTokens
  <2>6. QED
    BY <1>5, <2>4, <2>5 DEF HandlerTokens
<1>11. ASSUME NEW g \in Handlers, handler'[g].pc \notin {"idle", "wait"}
       PROVE  Presumes(handler[g].pc, handler[g], db)'
  <2>1. g = h
    BY <1>1, <1>7, <1>11 DEF Running
  <2>2. w.result = "rotated" => w.token \in valid' /\ w.token # 0
    BY <1>3, <1>6, <1>7
  <2>3. w.result \in {"current", "refused", "rejected"} => db.cred.t \in valid'
    BY <1>2, <1>6, <1>7
  <2> HIDE DEF w
  <2>4. QED
    BY <1>2, <1>5, <1>7, <2>1, <2>2, <2>3 DEF Presumes, w
<1>12. QED
  BY <1>8, <1>9, <1>10, <1>11 DEF TInv

LEMMA ResolveFenced ==
    ASSUME IInv, TInv, NEW h \in Handlers, Resolve(h)
    PROVE  TInv'
<1> DEFINE o == handler[h].o
           target == Binding(db.cred.v + 1, o, handler[h].token)
           r == SetTarget(db, o, target)
<1>1. /\ Running(h) /\ o \in Operations /\ handler[h].pc # "idle" /\ NoProvider
      /\ Presumes("resolve", handler[h], db)
  BY WorkerRuns DEF Resolve, At, Quiet
<1>2. /\ Guilty(db.ops[o])
      /\ handler[h].result = "rotated" => handler[h].token \in valid /\ handler[h].token # 0
      /\ handler[h].result \in {"current", "refused", "rejected"} => db.cred.t \in valid
  BY <1>1 DEF Presumes
<1>3. db \in Database /\ Safe(db)
  BY HereSafe
<1>4. handler[h].result = "rotated" /\ Step(h, r, "rotate") => TInv'
  <2> SUFFICES ASSUME handler[h].result = "rotated", Step(h, r, "rotate") PROVE TInv'
    OBVIOUS
  <2>1. target \in Credential /\ target.t = handler[h].token
    <3>1. handler[h].token \in Nat /\ db.cred.v + 1 \in Nat
      BY DEF IInv, Sound, TypeOK, Handler, Database, Credential
    <3>2. QED
      BY <1>1, <3>1, BindingType DEF Binding
  <2>2. /\ handler[h].token \in valid /\ handler[h].token <= issued
        /\ \A x \in Operations : receipt[x].token # 0 => receipt[x].token # handler[h].token
    BY <1>2 DEF TInv, HandlerTokens
  <2> HIDE DEF target
  <2>3. Safe(r.db) /\ IsUnsettled(r.db.ops[o])
    BY <1>1, <1>2, <1>3, <2>1, <2>2, TargetSafe
  <2> HIDE DEF r
  <2>4. Presumes("rotate", handler[h], r.db)
    BY <2>3 DEF Presumes
  <2>5. QED
    BY <1>1, <2>3, <2>4, StepFenced DEF Steps
<1>5. "pending" \in Phases /\ "recovery" \in Phases /\ "cancelled" \in Phases
      /\ "rejected" \in Codes /\ "other" \in Codes /\ "none" \in Codes
  BY DEF Phases, Codes
<1>6. ASSUME handler[h].result \in {"current", "refused", "rejected"}, NEW to \in Phases,
             NEW code \in Codes, NEW answer, Complete(h, db, "pending", to, code, answer)
      PROVE  TInv'
  <2>1. Harmless(db, o, "pending", to, code)
    BY <1>2, <1>6 DEF Harmless, Spent
  <2>2. QED
    BY <1>1, <1>3, <1>5, <1>6, <2>1, CompleteFenced
<1>7. Complete(h, db, "pending", "recovery", "other", "error") => TInv'
  BY <1>1, <1>3, <1>5, CompletesFenced
<1> HIDE DEF r, target
<1>8. QED
  BY <1>4, <1>5, <1>6, <1>7 DEF Resolve, r, target

(* A step to the end of an operation whose effect is in place.             *)
LEMMA AppliesFenced ==
    ASSUME IInv, TInv, NEW h \in Handlers, Running(h), NoProvider, handler[h].pc # "idle",
           NEW d, SameRows(d), Safe(d), d.cred \in {NoCredential, Op(h).target},
           NEW r, r.db = d, Step(h, r, "apply")
    PROVE  TInv'
<1>1. Presumes("apply", handler[h], d)
  BY DEF Presumes, SameRows, Op
<1>2. QED
  BY <1>1, StepFenced DEF Steps

LEMMA RotateFenced ==
    ASSUME IInv, TInv, NEW h \in Handlers, Rotate(h)
    PROVE  TInv'
<1> DEFINE o == handler[h].o
           r == RotateCredential(db, Op(h).expected, Op(h).target)
           Outcome(d) ==
              \/ Complete(h, d, "pending", "recovery", "other", "error")
              \/ d.cred = Op(h).target /\ Step(h, Result("applied", d), "apply")
              \/ Complete(h, d, "prepared", "cancelled", "none", "error")
              \/ Complete(h, d, "prepared", "recovery", "other", "error")
<1>1. (Accepted(r) /\ Step(h, r, "apply")) \/ \E d \in {db, r.db} : Outcome(d)
  BY DEF Rotate
<1>2. /\ Running(h) /\ o \in Operations /\ handler[h].pc # "idle" /\ NoProvider
      /\ Presumes("rotate", handler[h], db)
  BY WorkerRuns DEF Rotate, At, Quiet
<1>3. IsUnsettled(db.ops[o])
  BY <1>2 DEF Presumes
<1>4. SameRows(db) /\ SameRows(r.db)
  BY <1>2, Here, OpType, CredentialSameRows DEF IInv, Op
<1>5. r.db.cred \in {db.cred, Op(h).target} /\ (Accepted(r) => r.db.cred = Op(h).target)
  BY <1>4 DEF RotateCredential, Result, Accepted, SameRows, Database
<1> HIDE DEF r
<1>6. /\ Safe(db) /\ Safe(r.db) /\ db \in Database /\ r.db \in Database
  BY <1>2, <1>3, <1>4, <1>5, HereSafe, CredentialSafe DEF Op, SameRows
<1>7. Accepted(r) /\ Step(h, r, "apply") => TInv'
  BY <1>2, <1>4, <1>5, <1>6, AppliesFenced
<1>8. ASSUME NEW d \in {db, r.db}, Outcome(d)
      PROVE  TInv'
  <2>1. Result("applied", d).db = d /\ SameRows(d) /\ Safe(d) /\ d \in Database
    BY <1>4, <1>6 DEF Result
  <2>2. d.cred = Op(h).target /\ Step(h, Result("applied", d), "apply") => TInv'
    BY <1>2, <2>1, AppliesFenced
  <2>3. /\ Complete(h, d, "pending", "recovery", "other", "error") => TInv'
        /\ Complete(h, d, "prepared", "cancelled", "none", "error") => TInv'
        /\ Complete(h, d, "prepared", "recovery", "other", "error") => TInv'
    BY <1>2, <2>1, CompletesFenced DEF Phases, Codes
  <2>4. QED
    BY <1>8, <2>2, <2>3
<1>9. QED
  BY <1>1, <1>7, <1>8

LEMMA ReplayReauthFenced ==
    ASSUME IInv, TInv, NEW h \in Handlers, Running(h), NoProvider, handler[h].pc # "idle",
           NEW call \in Calls, ReplayReauth(h, call)
    PROVE  TInv'
<1>1. Op(h).phase \in Phases /\ handler[h].o \in Operations
  BY OpType DEF Op, Running
<1>2. Resume(h, "complete") => TInv'
  BY PresumesNothing, ResumesFenced
<1>3. "cancelled" \in Phases /\ "applied" \in Phases /\ "other" \in Codes /\ "none" \in Codes
  BY DEF Phases, Codes
<1>4. /\ Complete(h, db, "cancelled", "cancelled", "none", "error") => TInv'
      /\ Complete(h, db, "prepared", "cancelled", "none", "error") => TInv'
      /\ Complete(h, db, Op(h).phase, "recovery", "other", "error") => TInv'
  BY <1>1, <1>3, HereSafe, CompletesFenced
<1>5. ASSUME Seen(call, Op(h).target) = "exact", AdvanceStep(h, Op(h).phase, "applied", "complete")
      PROVE  TInv'
  <2>1. Harmless(db, handler[h].o, Op(h).phase, "applied", "none")
    BY <1>5, ExactIsHarmless DEF Op
  <2>2. QED
    BY <1>1, <1>3, <1>5, <2>1, AdvancesFenced
<1>6. QED
  BY <1>2, <1>4, <1>5 DEF ReplayReauth

LEMMA BeginReauthFenced ==
    ASSUME IInv, TInv, NEW h \in Handlers, BeginReauth(h)
    PROVE  TInv'
<1> DEFINE o == handler[h].o
           target == Binding(db.cred.v + 1, o, receipt[o].token)
           op == NewOperation("refresh", receipt[o].rev, db.cred, target, receipt[o].recovers)
<1>1. PICK call \in Calls :
         Refuse(h) \/ ReplayReauth(h, call) \/ PrepareStep(h, op, "rotate")
  BY DEF BeginReauth
<1>2. /\ Running(h) /\ o \in Operations /\ handler[h].pc # "idle" /\ NoProvider
  BY WaiterRuns DEF BeginReauth, Quiet
<1>3. receipt[o].token # 0
  BY LoginToken DEF BeginReauth
<1>4. /\ receipt[o].token \in Nat /\ receipt[o].rev \in Nat /\ receipt[o].recovers \in Reference
      /\ db.cred \in Credential /\ "refresh" \in Kinds
  BY <1>2, ReceiptFields, OpType DEF Kinds
<1>5. target \in Credential /\ target.t = receipt[o].token
  <2>1. db.cred.v + 1 \in Nat
    BY <1>4 DEF Credential
  <2>2. QED
    BY <1>2, <1>4, <2>1, BindingType DEF Binding
<1> HIDE DEF target
<1>6. op \in Operation /\ op.phase = "prepared" /\ op.by = NoOperation
  BY <1>4, <1>5, NewOperationType
<1>7. op.target = target
  BY DEF NewOperation
<1> HIDE DEF op
<1>8. PrepareStep(h, op, "rotate") => TInv'
  BY <1>2, <1>3, <1>5, <1>6, <1>7, PreparesFenced
<1>9. QED
  BY <1>1, <1>2, <1>8, EndsFenced, ReplayReauthFenced

LEMMA BeginLogoutFenced ==
    ASSUME IInv, TInv, NEW h \in Handlers, BeginLogout(h)
    PROVE  TInv'
<1> DEFINE o == handler[h].o
           op == NewOperation("logout", receipt[o].rev, db.cred, NoCredential, RejectedRecovery)
<1>1. /\ Running(h) /\ o \in Operations /\ handler[h].pc # "idle" /\ NoProvider
  BY WaiterRuns DEF BeginLogout, Quiet
<1>2. op \in Operation /\ op.phase = "prepared" /\ op.by = NoOperation
  <2>1. receipt[o].rev \in Nat /\ db.cred \in Credential /\ "logout" \in Kinds
    BY <1>1, ReceiptFields, OpType DEF Kinds
  <2>2. QED
    BY <2>1, BindingType, RecoveryTypes, NewOperationType
<1>3. op.target = NoCredential
  BY DEF NewOperation
<1> HIDE DEF op
<1>4. PrepareStep(h, op, "delete") => TInv'
  BY <1>1, <1>2, <1>3, PreparesFenced
<1>5. /\ Resume(h, "complete") => TInv'
      /\ Op(h).phase = "prepared" /\ Resume(h, "delete") => TInv'
  <2>1. Op(h).phase = "prepared" => Presumes("delete", handler[h], db)
    BY DEF Presumes, Op
  <2>2. QED
    BY <1>1, <2>1, PresumesNothing, ResumesFenced DEF Steps
<1>6. Op(h).phase \in Phases
  BY <1>1, OpType DEF Op
<1>7. Complete(h, db, Op(h).phase, Op(h).phase, "none", "error") => TInv'
  BY <1>1, <1>6, HereSafe, CompletesFenced
<1>8. Refuse(h) => TInv'
  BY <1>1, EndsFenced
<1>9. QED
  BY <1>4, <1>5, <1>7, <1>8 DEF BeginLogout, op

LEMMA DeletesSafe ==
    ASSUME IInv, TInv, NEW o \in Operations, NEW expected
    PROVE  LET r == DeleteCredential(db, expected)
           IN /\ SameRows(r.db) /\ Safe(r.db)
              /\ r.outcome # "mismatch" => r.db.cred = NoCredential
<1> DEFINE r == DeleteCredential(db, expected)
<1>1. SameRows(r.db)
  BY BindingType, CredentialSameRows DEF IInv
<1>2. /\ r.db.cred \in {db.cred, NoCredential}
      /\ r.outcome # "mismatch" => r.db.cred = NoCredential
  BY HereSafe DEF DeleteCredential, ReadExact, Result, Database
<1> HIDE DEF r
<1>3. Safe(r.db)
  BY <1>1, <1>2, HereSafe, CredentialSafe
<1>4. QED
  BY <1>1, <1>2, <1>3 DEF r

LEMMA DeleteFenced ==
    ASSUME IInv, TInv, NEW h \in Handlers, Delete(h)
    PROVE  TInv'
<1> DEFINE r == DeleteCredential(db, Op(h).expected)
           code == IF Op(h).phase = "recovery" THEN "none" ELSE "other"
<1>1. \/ \E d \in {db, r.db} : Complete(h, d, Op(h).phase, "recovery", code, "error")
      \/ r.outcome # "mismatch" /\ Step(h, Result("applied", r.db), "apply")
  BY DEF Delete
<1>2. /\ Running(h) /\ handler[h].o \in Operations /\ handler[h].pc # "idle" /\ NoProvider
  BY WorkerRuns DEF Delete, At, Quiet
<1>3. /\ SameRows(r.db) /\ Safe(r.db) /\ r.db \in Database /\ Safe(db) /\ db \in Database
      /\ r.outcome # "mismatch" => r.db.cred = NoCredential
  BY <1>2, DeletesSafe, HereSafe DEF SameRows
<1>4. Op(h).phase \in Phases /\ code \in Codes \ {"rejected"}
  BY <1>2, OpType DEF Op, Codes
<1> HIDE DEF r
<1>5. \A d \in {db, r.db} : Complete(h, d, Op(h).phase, "recovery", code, "error") => TInv'
  BY <1>2, <1>3, <1>4, CompletesFenced
<1>6. r.outcome # "mismatch" /\ Step(h, Result("applied", r.db), "apply") => TInv'
  <2>1. Result("applied", r.db).db = r.db
    BY DEF Result
  <2>2. QED
    BY <1>2, <1>3, <2>1, AppliesFenced
<1>7. QED
  BY <1>1, <1>5, <1>6

LEMMA ObserveFenced ==
    ASSUME IInv, TInv, NEW h \in Handlers, BeginObserve(h) \/ Reject(h)
    PROVE  TInv'
<1>1. CASE BeginObserve(h)
  <2>1. Running(h) /\ handler[h].pc # "idle" /\ NoProvider
    BY <1>1, WaiterRuns DEF BeginObserve, Quiet
  <2>2. QED
    BY <1>1, <2>1, EndsFenced, RefreshOperationFenced DEF BeginObserve
<1>2. CASE Reject(h)
  <2>1. Running(h) /\ NoProvider
    BY <1>2, WorkerRuns DEF Reject, At, Quiet
  <2>2. Complete(h, db, "prepared", "recovery", "rejected", "error")
    BY <1>2 DEF Reject
  <2>3. QED
    BY <2>1, <2>2, HereSafe, CompletesFenced DEF Phases, Codes
<1>3. QED
  BY <1>1, <1>2

LEMMA ApplyFenced ==
    ASSUME IInv, TInv, NEW h \in Handlers, Apply(h)
    PROVE  TInv'
<1>1. /\ Running(h) /\ handler[h].o \in Operations /\ handler[h].pc # "idle" /\ NoProvider
      /\ Presumes("apply", handler[h], db)
  BY WorkerRuns DEF Apply, At, Quiet
<1>2. Op(h).phase \in Phases /\ "applied" \in Phases
  BY <1>1, OpType DEF Op, Phases
<1>3. Harmless(db, handler[h].o, Op(h).phase, "applied", "none")
  BY <1>1 DEF Presumes, Harmless, Spent
<1>4. QED
  BY <1>1, <1>2, <1>3, AdvancesFenced DEF Apply

LEMMA CommitFenced ==
    ASSUME IInv, TInv, NEW h \in Handlers, Commit(h) \/ CompleteSuccess(h)
    PROVE  TInv'
<1> DEFINE r == Advance(db, handler[h].o, "applied", "committed", "none", inUse)
<1>1. /\ Running(h) /\ handler[h].o \in Operations /\ handler[h].pc # "idle" /\ NoProvider
  BY WorkerRuns DEF Commit, CompleteSuccess, At, Quiet
<1>2. "applied" \in Phases /\ "committed" \in Phases /\ "none" \in Codes
  BY DEF Phases, Codes
<1>3. Safe(r.db)
  BY <1>1, <1>2, HereSafe, AdvanceSafe DEF Harmless
<1>4. CASE Commit(h) /\ Step(h, r, "complete")
  <2> HIDE DEF r
  <2>1. Presumes("complete", handler[h], r.db) /\ "complete" \in Steps
    BY PresumesNothing
  <2>2. QED
    BY <1>1, <1>3, <1>4, <2>1, StepFenced
<1>5. CASE Commit(h) /\ db' = r.db /\ Finish(h) /\ UNCHANGED <<receipt, unanswered>>
  <2>1. SameTokens
    BY <1>1, <1>5 DEF SameTokens, NoProvider
  <2>2. QED
    BY <1>1, <1>3, <1>5, <2>1, FinishFenced
<1>6. CASE CompleteSuccess(h)
  <2>1. Complete(h, db, "applied", "committed", "none", "ok")
    BY <1>6 DEF CompleteSuccess
  <2>2. QED
    BY <1>1, <1>2, <2>1, HereSafe, CompletesFenced
<1>7. QED
  BY <1>4, <1>5, <1>6 DEF Commit

LEMMA ReconcileExactFenced ==
    ASSUME IInv, TInv, NEW h \in Handlers, Running(h), NoProvider, handler[h].pc # "idle",
           NEW call \in Calls, Op(h).phase # "committed", ReconcileExact(h, call)
    PROVE  TInv'
<1> DEFINE op == Op(h)
           code == IF op.phase = "recovery" THEN "none" ELSE "other"
<1>1. op.phase \in Phases /\ code \in Codes \ {"rejected"} /\ handler[h].o \in Operations
  BY OpType DEF Op, Running, Codes
<1>2. "committed" \in Phases /\ "cancelled" \in Phases /\ "applied" \in Phases /\ "none" \in Codes
  BY DEF Phases, Codes
<1>3. /\ Complete(h, db, "applied", "committed", "none", "ok") => TInv'
      /\ Complete(h, db, "prepared", "cancelled", "none", "ok") => TInv'
      /\ Complete(h, db, op.phase, "recovery", code, "error") => TInv'
  BY <1>1, <1>2, HereSafe, CompletesFenced
<1>4. Resume(h, "delete") => TInv'
  <2>1. Presumes("delete", handler[h], db)
    BY DEF Presumes, Op
  <2>2. QED
    BY <2>1, ResumesFenced DEF Steps
<1>5. ASSUME ProvedApplied(op, call), AdvanceStep(h, op.phase, "applied", "complete")
      PROVE  TInv'
  <2>1. db.cred = NoCredential \/ Seen(call, op.target) = "exact"
    BY <1>5 DEF ProvedApplied, Seen, ReadExact, Calls
  <2>2. Harmless(db, handler[h].o, op.phase, "applied", "none")
    BY <2>1, ExactIsHarmless DEF Op, Harmless, Spent
  <2>3. QED
    BY <1>1, <1>2, <1>5, <2>2, AdvancesFenced
<1>6. QED
  BY <1>3, <1>4, <1>5 DEF ReconcileExact

(* A manual recovery cancels no culprit.                                   *)
LEMMA RecoverFenced ==
    ASSUME IInv, TInv, NEW h \in Handlers, NEW cmd \in Recoveries, Recover(h, cmd)
    PROVE  TInv'
<1> DEFINE op == Op(h)
<1>1. PICK call \in Calls :
         \/ Refuse(h) \/ Abandon(h)
         \/ op.phase # "committed" /\ ReconcileExact(h, call)
         \/ Complete(h, db, op.phase, op.phase, "none", "ok")
         \/ ProvedAbsent(op, call) /\ Complete(h, db, op.phase, "cancelled", "none", "ok")
         \/ Complete(h, db, op.phase, op.phase, "none", "error")
  BY DEF Recover
<1>2. Running(h) /\ handler[h].o \in Operations /\ handler[h].pc # "idle" /\ NoProvider
  BY WaiterRuns DEF Recover, Quiet
<1>3. op.phase \in Phases /\ "cancelled" \in Phases /\ "none" \in Codes
  BY <1>2, OpType DEF Op, Phases, Codes
<1>4. /\ Complete(h, db, op.phase, op.phase, "none", "error") => TInv'
      /\ Complete(h, db, op.phase, op.phase, "none", "ok") => TInv'
  BY <1>2, <1>3, HereSafe, CompletesFenced
<1>5. ASSUME ProvedAbsent(op, call), Complete(h, db, op.phase, "cancelled", "none", "ok")
      PROVE  TInv'
  <2>1. op.phase = "prepared" \/ op.kind # "refresh" \/ op.recovers # NoOperation
    BY <1>5 DEF ProvedAbsent
  <2>2. Harmless(db, handler[h].o, op.phase, "cancelled", "none")
    BY <2>1 DEF Harmless, Guilty, Op
  <2>3. QED
    BY <1>2, <1>3, <1>5, <2>2, HereSafe, CompleteFenced
<1>6. QED
  BY <1>1, <1>2, <1>4, <1>5, EndsFenced, ReconcileExactFenced

LEMMA JournalFailsFenced ==
    ASSUME IInv, TInv, NEW h \in Handlers, JournalFails(h)
    PROVE  TInv'
<1>1. Running(h) /\ NoProvider
  BY HolderRuns DEF JournalFails, IInv, Busy, Quiet
<1>2. QED
  BY <1>1, EndsFenced DEF JournalFails

LEMMA HandlerStepFenced ==
    ASSUME IInv, TInv, NEW h \in Handlers, HandlerStep(h)
    PROVE  TInv'
  BY BeginEnrollFenced, BeginRefreshFenced, BeginReauthFenced, BeginLogoutFenced,
     ObserveFenced, RecoverFenced, CreateFenced, PendFenced, ProviderFenced, ResolveFenced,
     RotateFenced, DeleteFenced, ApplyFenced, CommitFenced DEF HandlerStep

----------------------------------------------------------------------------
(* Startup and the rest of the world.                                      *)

(* A handler that is at work goes on or is gone, one begins to wait.       *)
LEMMA WorldFenced ==
    ASSUME IInv, TInv, SameTokens, Safe(db'),
           \A g \in Handlers :
              \/ handler'[g] = handler[g]
              \/ /\ handler'[g].token = 0 /\ handler'[g].pc \in {"idle", "wait"}
                 /\ handler'[g].pc # "idle" /\ handler'[g].cmd \in Commands =>
                       /\ handler'[g].o \in Operations
                       /\ receipt[handler'[g].o].cmd = handler'[g].cmd
                       /\ receipt[handler'[g].o].state # "none",
           db' = db \/ \A g \in Handlers : handler'[g].pc \in {"idle", "wait"}
    PROVE  TInv'
<1>1. Safe(db)'
  BY SafeLater
<1>2. ReceiptTokens'
  BY DEF TInv, ReceiptTokens, SameTokens
<1>3. HandlerTokens'
  <2> SUFFICES ASSUME NEW g \in Handlers
               PROVE  /\ handler'[g].token <= issued'
                      /\ \A o \in Operations :
                            handler'[g].token # 0 => receipt'[o].token # handler'[g].token
                      /\ handler'[g].pc # "idle" /\ handler'[g].cmd \in Commands =>
                            /\ receipt'[handler'[g].o].cmd = handler'[g].cmd
                            /\ receipt'[handler'[g].o].state # "none"
    BY DEF HandlerTokens
  <2>1. 0 <= issued
    BY DEF IInv, Sound, TypeOK
  <2>2. handler[g].pc # "idle" => handler[g].o \in Operations
    BY DEF IInv, Busy
  <2>3. CASE handler'[g] = handler[g]
    BY <2>2, <2>3 DEF TInv, HandlerTokens, SameTokens
  <2>4. CASE handler'[g] # handler[g]
    BY <2>1, <2>4 DEF SameTokens
  <2>5. QED
    BY <2>3, <2>4
<1>4. ASSUME NEW g \in Handlers, handler'[g].pc \notin {"idle", "wait"}
      PROVE  Presumes(handler[g].pc, handler[g], db)'
  <2>1. db' = db /\ handler'[g] = handler[g] /\ valid' = valid
    BY <1>4 DEF SameTokens
  <2>2. Presumes(handler[g].pc, handler[g], db)
    BY <1>4, <2>1 DEF TInv
  <2>3. QED
    BY <2>1, <2>2 DEF Presumes
<1>5. QED
  BY <1>1, <1>2, <1>3, <1>4 DEF TInv

LEMMA SettleFenced ==
    ASSUME IInv, TInv, Startup, StartupKeeps, NEW r, Safe(r.db), Settle(r)
    PROVE  TInv'
<1>1. \A h \in Handlers : handler[h].pc \in {"idle", "wait"}
  BY NobodyRuns DEF Startup
<1>2. UNCHANGED <<receipt, handler, valid, issued>>
  BY DEF Startup, StartupKeeps, NoProvider
<1>3. Safe(db')
  BY HereSafe DEF Settle
<1>4. SameTokens
  BY <1>2 DEF SameTokens
<1>5. QED
  BY <1>1, <1>2, <1>3, <1>4, WorldFenced

(* Startup cancels nothing that may have spent its token.                  *)
LEMMA ReconcileFenced ==
    ASSUME IInv, TInv, NEW o \in Operations, Reconcile(o)
    PROVE  TInv'
<1> DEFINE op == db.ops[o]
           To(to, code) == Settle(Advance(db, o, op.phase, to, code, inUse))
<1>1. PICK call \in Calls :
         \/ To("committed", "none")
         \/ ProvedApplied(op, call) /\ To("applied", "none")
         \/ ProvedNotApplied(op, call) /\ To("cancelled", "none")
         \/ To("recovery", "other")
  BY DEF Reconcile
<1>2. op.phase \in Phases /\ "committed" \in Phases /\ "applied" \in Phases
      /\ "cancelled" \in Phases /\ "recovery" \in Phases /\ "none" \in Codes /\ "other" \in Codes
  BY OpType DEF Phases, Codes
<1>3. ASSUME NEW to \in Phases, NEW code \in Codes, Harmless(db, o, op.phase, to, code),
             To(to, code)
      PROVE  TInv'
  <2>1. Safe(Advance(db, o, op.phase, to, code, inUse).db)
    BY <1>2, <1>3, HereSafe, AdvanceSafe
  <2>2. QED
    BY <1>3, <2>1, SettleFenced DEF Reconcile
<1>4. /\ Harmless(db, o, op.phase, "committed", "none")
      /\ Harmless(db, o, op.phase, "recovery", "other")
  BY DEF Harmless
<1>5. ProvedApplied(op, call) => Harmless(db, o, op.phase, "applied", "none")
  <2>1. ProvedApplied(op, call) => db.cred = NoCredential \/ Seen(call, op.target) = "exact"
    BY DEF ProvedApplied, Seen, ReadExact, Calls
  <2>2. QED
    BY <2>1, ExactIsHarmless DEF Harmless, Spent
<1>6. ProvedNotApplied(op, call) => Harmless(db, o, op.phase, "cancelled", "none")
  BY DEF ProvedNotApplied, Harmless
<1> HIDE DEF To
<1>7. QED
  BY <1>1, <1>2, <1>3, <1>4, <1>5, <1>6

LEMMA ReconcileLogoutFenced ==
    ASSUME IInv, TInv, NEW o \in Operations, ReconcileLogout(o)
    PROVE  TInv'
<1> DEFINE r == DeleteCredential(db, db.ops[o].expected)
           To(d, to, code) == Settle(Advance(d, o, "prepared", to, code, inUse))
<1>1. \/ \E d \in {db, r.db} : To(d, "recovery", "other")
      \/ To(db, "applied", "none") \/ Settle(r)
  BY DEF ReconcileLogout
<1>2. /\ Safe(r.db) /\ r.db \in Database /\ Safe(db) /\ db \in Database
      /\ "prepared" \in Phases
  BY DeletesSafe, HereSafe DEF SameRows, Phases
<1>3. ASSUME NEW d \in {db, r.db}, NEW to \in Phases, NEW code \in Codes, To(d, to, code)
      PROVE  TInv'
  <2>1. Harmless(d, o, "prepared", to, code)
    BY DEF Harmless
  <2>2. Safe(Advance(d, o, "prepared", to, code, inUse).db)
    BY <1>2, <2>1, AdvanceSafe
  <2>3. QED
    BY <1>3, <2>2, SettleFenced DEF ReconcileLogout
<1>4. Settle(r) => TInv'
  BY <1>2, SettleFenced DEF ReconcileLogout
<1> HIDE DEF To, r
<1>5. QED
  BY <1>1, <1>3, <1>4 DEF Phases, Codes

(* An observation cancels only a refresh the provider rejected.            *)
LEMMA AcceptRecoveryFenced ==
    ASSUME IInv, TInv, NEW o \in Operations, AcceptRecovery(o)
    PROVE  TInv'
<1>1. o = UnsettledOperation(db) /\ db.ops[o].code = "rejected"
  BY StoreAssumption DEF AcceptRecovery, RejectedRecovery
<1>2. Harmless(db, o, "recovery", "cancelled", "none")
  BY <1>1 DEF Harmless, Guilty
<1>3. Safe(Advance(db, o, "recovery", "cancelled", "none", inUse).db)
  BY <1>2, HereSafe, AdvanceSafe DEF Phases, Codes
<1>4. /\ Safe(db') /\ UNCHANGED <<receipt, handler, valid, issued>>
  BY <1>3 DEF AcceptRecovery, Quiet, NoProvider
<1>5. \A h \in Handlers : handler[h].pc \in {"idle", "wait"}
  BY NobodyRuns DEF AcceptRecovery
<1>6. SameTokens
  BY <1>4 DEF SameTokens
<1>7. QED
  BY <1>4, <1>5, <1>6, WorldFenced

LEMMA ToggleFenced ==
    ASSUME IInv, TInv, NEW enabled \in BOOLEAN, Toggle(enabled)
    PROVE  TInv'
<1>1. db'.cred = db.cred /\ db'.ops = db.ops /\ db'.acct.row = db.acct.row
  BY HereSafe DEF Toggle, SetEnabled, Result, Database, Account
<1>2. Safe(db')
  BY <1>1, HereSafe DEF Safe, Fenced, Spent, TargetsValid, LoginsFresh, Unseen, Below, RowFirst
<1>3. UNCHANGED <<receipt, handler, valid, issued>>
  BY DEF Toggle, NoProvider
<1>4. \A h \in Handlers : handler[h].pc \in {"idle", "wait"}
  BY NobodyRuns DEF Toggle
<1>5. SameTokens
  BY <1>3 DEF SameTokens
<1>6. QED
  BY <1>2, <1>3, <1>4, <1>5, WorldFenced

LEMMA OutsideFenced ==
    ASSUME IInv, TInv, Launch \/ ProcessDies \/ StartupEnds \/ \E o \in Operations : ClaimExpires(o)
    PROVE  TInv'
<1>1. UNCHANGED <<db, handler, valid, issued>>
  BY DEF Launch, ProcessDies, StartupEnds, Startup, StartupKeeps, ClaimExpires, Quiet, NoProvider
<1>2. \A x \in Operations :
         /\ receipt'[x].token = receipt[x].token /\ receipt'[x].cmd = receipt[x].cmd
         /\ receipt'[x].state = receipt[x].state /\ receipt'[x].answer = receipt[x].answer
  <2>1. CASE UNCHANGED receipt
    BY <2>1
  <2>2. ASSUME NEW o \in Operations, ClaimExpires(o)
        PROVE  \A x \in Operations :
                  /\ receipt'[x].token = receipt[x].token /\ receipt'[x].cmd = receipt[x].cmd
                  /\ receipt'[x].state = receipt[x].state /\ receipt'[x].answer = receipt[x].answer
    BY <2>2 DEF ClaimExpires, IInv, Sound, TypeOK, Receipt
  <2>3. QED
    BY <2>1, <2>2 DEF Launch, ProcessDies, StartupEnds, Startup
<1>3. SameTokens
  BY <1>1, <1>2 DEF SameTokens
<1>4. QED
  BY <1>1, <1>3, HereSafe, WorldFenced

LEMMA CrashFenced ==
    ASSUME IInv, TInv, Crash
    PROVE  TInv'
<1>1. UNCHANGED <<db, valid, issued>>
  BY DEF Crash, NoProvider
<1>2. \A g \in Handlers : handler'[g] = IdleHandler
  BY DEF Crash
<1>3. \A x \in Operations :
         /\ receipt'[x].token = receipt[x].token /\ receipt'[x].cmd = receipt[x].cmd
         /\ receipt'[x].state = receipt[x].state /\ receipt'[x].answer = receipt[x].answer
  BY DEF Crash, IInv, Sound, TypeOK, Receipt
<1>4. SameTokens
  BY <1>1, <1>3 DEF SameTokens
<1>5. IdleHandler.token = 0 /\ IdleHandler.pc = "idle"
  BY DEF IdleHandler
<1>6. QED
  BY <1>1, <1>2, <1>4, <1>5, HereSafe, WorldFenced

(* A command, a task or a retry begins to wait.                            *)
LEMMA WaitFenced ==
    ASSUME IInv, TInv, NEW h \in Handlers, NEW o \in Operations, NEW rev, NEW cmd,
           handler' = [handler EXCEPT ![h] = Waiting(cmd, o, rev)], SameTokens, db' = db,
           cmd \in Commands => receipt[o].cmd = cmd /\ receipt[o].state # "none"
    PROVE  TInv'
<1>1. /\ Waiting(cmd, o, rev).pc = "wait" /\ Waiting(cmd, o, rev).token = 0
      /\ Waiting(cmd, o, rev).o = o /\ Waiting(cmd, o, rev).cmd = cmd
  BY DEF Waiting, IdleHandler
<1>2. handler'[h] = Waiting(cmd, o, rev) /\ \A g \in Handlers : g # h => handler'[g] = handler[g]
  BY DEF IInv, Sound, TypeOK
<1>3. QED
  BY <1>1, <1>2, HereSafe, WorldFenced

LEMMA WaitersFenced ==
    ASSUME IInv, TInv, NEW h \in Handlers, NEW o \in Operations,
           \/ \E cmd \in Tasks : StartTask(h, o, cmd)
           \/ \E cmd \in Recoveries : SubmitRecovery(h, o, cmd)
           \/ Retry(h, o)
    PROVE  TInv'
<1>1. CASE Retry(h, o)
  <2>1. /\ UNCHANGED <<db, valid, issued>> /\ receipt[o].state # "none"
        /\ handler' = [handler EXCEPT ![h] = Waiting(receipt[o].cmd, o, db.acct.rev)]
    BY <1>1 DEF Retry, Quiet, NoProvider
  <2>2. \A x \in Operations :
           /\ receipt'[x].token = receipt[x].token /\ receipt'[x].cmd = receipt[x].cmd
           /\ receipt'[x].state = receipt[x].state /\ receipt'[x].answer = receipt[x].answer
    BY <1>1 DEF Retry, IInv, Sound, TypeOK, Receipt
  <2>3. SameTokens
    BY <2>1, <2>2 DEF SameTokens
  <2>4. QED
    BY <2>1, <2>3, WaitFenced
<1>2. ASSUME NEW cmd \in Tasks \cup Recoveries, StartTask(h, o, cmd) \/ SubmitRecovery(h, o, cmd)
      PROVE  TInv'
  <2>1. UNCHANGED <<db, receipt, valid, issued>> /\ cmd \notin Commands
    BY <1>2 DEF StartTask, SubmitRecovery, Quiet, NoProvider, Tasks, Recoveries, Commands
  <2>2. PICK rev : handler' = [handler EXCEPT ![h] = Waiting(cmd, o, rev)]
    BY <1>2 DEF StartTask, SubmitRecovery
  <2>3. SameTokens
    BY <2>1 DEF SameTokens
  <2>4. QED
    BY <2>1, <2>2, <2>3, WaitFenced
<1>3. QED
  BY <1>1, <1>2

(* A login issues a token nobody has seen.                                 *)
LEMMA SubmitFenced ==
    ASSUME IInv, TInv, NEW h \in Handlers, NEW o \in Operations, NEW cmd \in Commands,
           Submit(h, o, cmd)
    PROVE  TInv'
<1> DEFINE login == cmd \in {"enroll", "reauth"}
           t == IF login THEN issued + 1 ELSE 0
<1>1. /\ db' = db /\ handler' = [handler EXCEPT ![h] = Waiting(cmd, o, db.acct.rev)]
      /\ issued' = IF login THEN issued + 1 ELSE issued
      /\ valid' = IF login THEN valid \cup {issued + 1} ELSE valid
      /\ Unused(o)
  BY DEF Submit
<1>2. /\ receipt'[o].token = t /\ receipt'[o].cmd = cmd /\ receipt'[o].state = "reserved"
      /\ receipt'[o].answer = "none"
      /\ \A x \in Operations : x # o => receipt'[x] = receipt[x]
  BY DEF Submit, IInv, Sound, TypeOK
<1>3. /\ issued \in Nat /\ issued' \in Nat /\ issued <= issued' /\ t <= issued' /\ t \in Nat
      /\ valid \subseteq valid'
      /\ t # 0 => t = issued + 1 /\ t \in valid'
      /\ \A x \in Operations : receipt[x].token \in Nat /\ receipt[x].token <= issued
  <2>1. issued \in Nat /\ \A x \in Operations : receipt[x].token \in Nat
    BY ReceiptFields DEF IInv, Sound, TypeOK
  <2>2. \A x \in Operations : receipt[x].token <= issued
    BY DEF TInv, ReceiptTokens
  <2>3. QED
    BY <1>1, <2>1, <2>2
<1>4. login => t # 0
  BY <1>3
<1> HIDE DEF t
<1>5. /\ db.cred.t \in Nat /\ db.cred.t <= issued
      /\ \A x \in Operations : db.ops[x].target.t \in Nat /\ db.ops[x].target.t <= issued
  BY HereSafe, CredentialFields DEF Safe, Below
<1>6. Safe(db)'
  <2>1. Fenced(db)'
    BY <1>1, <1>3 DEF TInv, Safe, Fenced, Spent
  <2>2. TargetsValid(db)'
    BY <1>1, <1>3 DEF TInv, Safe, TargetsValid
  <2>3. LoginsFresh(db)'
    <3> SUFFICES ASSUME NEW x \in Operations, db.ops[x].phase = "none", receipt'[x].token # 0
                 PROVE  receipt'[x].token \in valid' /\ Unseen(db, receipt'[x].token)
      BY <1>1 DEF LoginsFresh, Unseen
    <3>1. CASE x = o
      BY <1>2, <1>3, <1>5, <3>1 DEF Unseen
    <3>2. CASE x # o
      <4>1. receipt[x].token \in valid /\ Unseen(db, receipt[x].token)
        BY <1>2, <3>2 DEF TInv, Safe, LoginsFresh
      <4>2. QED
        BY <1>2, <1>3, <3>2, <4>1
    <3>3. QED
      BY <3>1, <3>2
  <2>4. Below(db)'
    <3>1. db.cred.t <= issued' /\ \A x \in Operations : db.ops[x].target.t <= issued'
      BY <1>3, <1>5
    <3>2. QED
      BY <1>1, <3>1 DEF Below
  <2>5. RowFirst(db)'
    BY <1>1 DEF TInv, Safe, RowFirst
  <2>6. QED
    BY <2>1, <2>2, <2>3, <2>4, <2>5 DEF Safe
<1>7. ReceiptTokens'
  <2> SUFFICES ASSUME NEW x \in Operations
               PROVE  /\ receipt'[x].token <= issued'
                      /\ receipt'[x].cmd \in {"enroll", "reauth"} => receipt'[x].token # 0
                      /\ receipt'[x].state = "reserved" => receipt'[x].answer = "none"
                      /\ \A y \in Operations :
                            x # y /\ receipt'[x].token # 0 => receipt'[x].token # receipt'[y].token
    BY DEF ReceiptTokens
  <2>1. receipt'[x].token <= issued'
    BY <1>2, <1>3
  <2>2. receipt'[x].cmd \in {"enroll", "reauth"} => receipt'[x].token # 0
    BY <1>2, <1>4 DEF TInv, ReceiptTokens
  <2>3. ASSUME NEW y \in Operations, x # y, receipt'[x].token # 0
        PROVE  receipt'[x].token # receipt'[y].token
    <3>1. CASE x = o
      BY <1>2, <1>3, <2>3, <3>1
    <3>2. CASE y = o
      BY <1>2, <1>3, <2>3, <3>2
    <3>3. CASE x # o /\ y # o
      BY <1>2, <2>3, <3>3 DEF TInv, ReceiptTokens
    <3>4. QED
      BY <3>1, <3>2, <3>3
  <2>4. receipt'[x].state = "reserved" => receipt'[x].answer = "none"
    BY <1>2 DEF TInv, ReceiptTokens
  <2>5. QED
    BY <2>1, <2>2, <2>3, <2>4
<1>8. /\ handler'[h].token = 0 /\ handler'[h].pc = "wait" /\ handler'[h].o = o
      /\ handler'[h].cmd = cmd
      /\ \A g \in Handlers : g # h => handler'[g] = handler[g]
  BY <1>1 DEF Waiting, IdleHandler, IInv, Sound, TypeOK
<1>9. HandlerTokens'
  <2> SUFFICES ASSUME NEW g \in Handlers
               PROVE  /\ handler'[g].token <= issued'
                      /\ \A x \in Operations :
                            handler'[g].token # 0 => receipt'[x].token # handler'[g].token
                      /\ handler'[g].pc # "idle" /\ handler'[g].cmd \in Commands =>
                            /\ receipt'[handler'[g].o].cmd = handler'[g].cmd
                            /\ receipt'[handler'[g].o].state # "none"
    BY DEF HandlerTokens
  <2>1. CASE g = h
    BY <1>2, <1>3, <1>8, <2>1
  <2>2. CASE g # h
    <3>1. handler'[g] = handler[g] /\ handler[g].o # o
      BY <1>1, <1>8, <2>2 DEF Unused
    <3>2. handler[g].token \in Nat /\ handler[g].token <= issued
      BY DEF TInv, HandlerTokens, IInv, Sound, TypeOK, Handler
    <3>3. handler[g].token <= issued'
      BY <1>3, <3>2
    <3>4. \A x \in Operations : handler[g].token # 0 => receipt'[x].token # handler[g].token
      <4>1. \A x \in Operations : handler[g].token # 0 => receipt[x].token # handler[g].token
        BY DEF TInv, HandlerTokens
      <4>2. handler[g].token # 0 => t # handler[g].token
        BY <1>3, <3>2
      <4>3. QED
        BY <1>2, <4>1, <4>2
    <3>5. handler[g].pc # "idle" => handler[g].o \in Operations
      BY DEF IInv, Busy
    <3>6. QED
      BY <1>2, <3>1, <3>3, <3>4, <3>5 DEF TInv, HandlerTokens
  <2>3. QED
    BY <2>1, <2>2
<1>10. ASSUME NEW g \in Handlers, handler'[g].pc \notin {"idle", "wait"}
       PROVE  Presumes(handler[g].pc, handler[g], db)'
  <2>1. g # h /\ handler'[g] = handler[g] /\ db' = db
    BY <1>1, <1>8, <1>10
  <2>2. Presumes(handler[g].pc, handler[g], db)
    BY <1>10, <2>1 DEF TInv
  <2>3. QED
    BY <1>3, <2>1, <2>2 DEF Presumes
<1>11. QED
  BY <1>6, <1>7, <1>9, <1>10 DEF TInv

LEMMA NextFenced ==
    ASSUME IInv, TInv, Next
    PROVE  TInv'
  BY HandlerStepFenced, JournalFailsFenced, SubmitFenced, WaitersFenced, OutsideFenced,
     AcceptRecoveryFenced, ReconcileFenced, ReconcileLogoutFenced, ToggleFenced, CrashFenced
     DEF Next, StartupStep

LEMMA InitFenced == Init => TInv
<1> SUFFICES ASSUME Init PROVE TInv
  OBVIOUS
<1>1. /\ db.cred = NoCredential /\ valid = {} /\ issued = 0
      /\ \A o \in Operations : receipt[o] = NoReceipt /\ db.ops[o] = NoOp
      /\ \A h \in Handlers : handler[h] = IdleHandler
  BY DEF Init
<1>2. /\ NoReceipt.token = 0 /\ NoReceipt.cmd = "none" /\ NoReceipt.state = "none"
      /\ IdleHandler.token = 0 /\ IdleHandler.pc = "idle"
  BY DEF NoReceipt, IdleHandler
<1>3. NoOp.phase = "none" /\ NoOp.target = NoCredential /\ NoCredential.t = 0
  BY DEF NoOp, NewOperation, NoCredential
<1>4. Safe(db)
  BY <1>1, <1>2, <1>3 DEF Safe, Fenced, Spent, TargetsValid, LoginsFresh, Below, RowFirst
<1>5. ReceiptTokens /\ HandlerTokens
  BY <1>1, <1>2 DEF ReceiptTokens, HandlerTokens
<1>6. QED
  BY <1>1, <1>2, <1>4, <1>5 DEF TInv

LEMMA StutterFenced == TInv /\ UNCHANGED vars => TInv'
  BY DEF TInv, Safe, Fenced, Spent, TargetsValid, LoginsFresh, Unseen, Below, RowFirst,
         ReceiptTokens, HandlerTokens, Presumes, vars

----------------------------------------------------------------------------
(* The theorems.                                                           *)

(* Whatever the provider answers, whichever calls fail and whenever the    *)
(* service stops, a spent credential has its culprit, what is to be        *)
(* installed is good, and each handler knows what it works with (TInv).    *)
THEOREM FenceInvariance == Spec => []TInv
<1>1. Init => TInv
  BY InitFenced
<1>2. IInv /\ TInv /\ [Next]_vars => TInv'
  BY NextFenced, StutterFenced
<1>3. QED
  BY <1>1, <1>2, Invariance, PTL DEF Spec

(* A credential whose refresh token the provider has spent is held back by *)
(* an unsettled operation, so that AccountService neither launches a       *)
(* process nor begins an operation with it.                                *)
THEOREM SpentTokensFenced == Spec => []SpentTokenIsFenced
<1>1. TInv => SpentTokenIsFenced
  BY DEF TInv, Safe, Fenced, Spent, Guilty, SpentTokenIsFenced, UnsettledOf, IsUnsettled,
         UnsettledPhases
<1>2. QED
  BY <1>1, FenceInvariance, PTL

(* refresh_while_locked never presents a refresh token a second time.      *)
THEOREM PresentedTokensValid == Spec => []PresentedTokenIsValid
<1>1. TInv => PresentedTokenIsValid
  BY DEF TInv, Presumes, PresentedTokenIsValid, At
<1>2. QED
  BY <1>1, FenceInvariance, PTL

----------------------------------------------------------------------------
(* What a client is told of a logout or a reauthentication.                *)

Fallible == {"logout", "reauth"}

(* ErrorIsTrue as a step.                                                  *)
ErrorStep ==
    \A o \in Operations :
        receipt[o].state = "reserved" /\ receipt'[o].answer = "error" /\ receipt[o].cmd \in Fallible
        => db'.ops[o].phase # "committed"

(* A handler's step leaves the receipts, gives up its claim or answers.    *)
Told(h) ==
    receipt' = receipt \/ receipt' = Released(h) \/ \E answer : receipt' = Answered(h, answer)

(* An error may be told of the operation of h.                             *)
Excused(h) == handler[h].cmd \in Fallible => Op(h).phase # "committed"

LEMMA SilentErrors ==
    ASSUME TInv, \A o \in Operations : receipt'[o].answer = receipt[o].answer
    PROVE  ErrorStep
  BY DEF TInv, ReceiptTokens, ErrorStep

LEMMA AnswerMoves ==
    ASSUME IInv, NEW h \in Handlers, handler[h].o \in Operations
    PROVE  /\ \A o \in Operations : Released(h)[o].answer = receipt[o].answer
           /\ \A answer :
                 \/ Answered(h, answer) = receipt
                 \/ /\ HasReceipt(h)
                    /\ Answered(h, answer)[handler[h].o].answer = answer
                    /\ \A o \in Operations :
                          o # handler[h].o => Answered(h, answer)[o] = receipt[o]
<1>1. receipt \in [Operations -> Receipt]
  BY DEF IInv, Sound, TypeOK
<1>2. \A o \in Operations : Released(h)[o].answer = receipt[o].answer
  BY <1>1 DEF Released, Receipt
<1>3. ASSUME NEW answer, HasReceipt(h) /\ Owns(h)
      PROVE  /\ Answered(h, answer)[handler[h].o].answer = answer
             /\ \A o \in Operations : o # handler[h].o => Answered(h, answer)[o] = receipt[o]
  BY <1>1, <1>3 DEF Answered, Receipt
<1>4. \A answer : ~(HasReceipt(h) /\ Owns(h)) => Answered(h, answer) = receipt
  BY DEF Answered
<1>5. QED
  BY <1>2, <1>3, <1>4

(* An error is told only of an operation that is not committed then.       *)
LEMMA ToldStays ==
    ASSUME IInv, TInv, NEW h \in Handlers, handler[h].o \in Operations, handler[h].pc # "idle",
           \/ receipt' = receipt \/ receipt' = Released(h)
           \/ \E answer : /\ receipt' = Answered(h, answer)
                          /\ \/ answer # "error" \/ handler[h].cmd \notin Fallible
                             \/ db'.ops[handler[h].o].phase # "committed"
    PROVE  ErrorStep
<1>1. CASE receipt' = receipt \/ receipt' = Released(h)
  BY <1>1, AnswerMoves, SilentErrors
<1>2. ASSUME NEW answer, receipt' = Answered(h, answer),
             \/ answer # "error" \/ handler[h].cmd \notin Fallible
             \/ db'.ops[handler[h].o].phase # "committed"
      PROVE  ErrorStep
  <2>1. CASE Answered(h, answer) = receipt
    BY <1>2, <2>1, SilentErrors
  <2>2. CASE /\ HasReceipt(h)
             /\ Answered(h, answer)[handler[h].o].answer = answer
             /\ \A o \in Operations : o # handler[h].o => Answered(h, answer)[o] = receipt[o]
    <3>1. receipt[handler[h].o].cmd = handler[h].cmd
      BY <2>2 DEF TInv, HandlerTokens, HasReceipt
    <3>2. ASSUME NEW o \in Operations, receipt[o].state = "reserved",
                 receipt'[o].answer = "error", receipt[o].cmd \in Fallible
          PROVE  db'.ops[o].phase # "committed"
      <4>1. o = handler[h].o
        <5>1. receipt[o].answer = "none"
          BY <3>2 DEF TInv, ReceiptTokens
        <5>2. QED
          BY <1>2, <2>2, <3>2, <5>1
      <4>2. QED
        BY <1>2, <2>2, <3>1, <3>2, <4>1
    <3>3. QED
      BY <3>2 DEF ErrorStep
  <2>3. QED
    BY <2>1, <2>2, AnswerMoves
<1>3. QED
  BY <1>1, <1>2

(* Steps of the commands the property is not about.                        *)
LEMMA Tells ==
    ASSUME NEW h \in Handlers
    PROVE  /\ Refuse(h) => Told(h)
           /\ Abandon(h) => Told(h)
           /\ \A r, pc : Step(h, r, pc) => Told(h)
           /\ \A d, from, to, code, answer : Complete(h, d, from, to, code, answer) => Told(h)
           /\ \A op, pc : PrepareStep(h, op, pc) => Told(h)
<1>1. (Refuse(h) => Told(h)) /\ (Abandon(h) => Told(h))
  BY DEF Refuse, Abandon, Told
<1>2. \A r, pc : Step(h, r, pc) => Told(h)
  BY <1>1 DEF Step, Told
<1>3. ASSUME NEW d, NEW from, NEW to, NEW code, NEW answer,
             Complete(h, d, from, to, code, answer)
      PROVE  Told(h)
  BY <1>3 DEF Complete, Told
<1>4. \A op, pc : PrepareStep(h, op, pc) => Told(h)
  BY <1>1, <1>2 DEF PrepareStep
<1>5. QED
  BY <1>1, <1>2, <1>3, <1>4

LEMMA OthersTold ==
    ASSUME NEW h \in Handlers,
           \/ BeginEnroll(h) \/ BeginRefresh(h) \/ BeginBackground(h) \/ BeginObserve(h)
           \/ \E cmd \in Recoveries : Recover(h, cmd)
    PROVE  Told(h) /\ handler[h].cmd \notin Fallible
<1>1. \A pc : Resume(h, pc) => Told(h)
  BY Tells DEF Resume
<1>2. \A from, to, pc : AdvanceStep(h, from, to, pc) => Told(h)
  BY Tells DEF AdvanceStep
<1>3. CASE BeginEnroll(h)
  BY <1>1, <1>3, Tells DEF BeginEnroll, Acquire, Fallible
<1>4. CASE BeginRefresh(h)
  <2>1. \A call : ReplayRefresh(h, call) => Told(h)
    BY <1>1, <1>2, Tells DEF ReplayRefresh
  <2>2. handler[h].cmd = "refresh"
    BY <1>4 DEF BeginRefresh, Acquire
  <2>3. QED
    BY <1>4, <2>1, <2>2, Tells DEF BeginRefresh, Fallible
<1>5. CASE BeginBackground(h) \/ BeginObserve(h)
  BY <1>5, Tells DEF BeginBackground, BeginObserve, Acquire, Fallible
<1>6. ASSUME NEW cmd \in Recoveries, Recover(h, cmd)
      PROVE  Told(h) /\ handler[h].cmd \notin Fallible
  <2>1. \A call : ReconcileExact(h, call) => Told(h)
    BY <1>1, <1>2, Tells DEF ReconcileExact
  <2>2. handler[h].cmd = cmd
    BY <1>6 DEF Recover, Acquire
  <2>3. Told(h)
    BY <1>6, <2>1, Tells DEF Recover
  <2>4. QED
    BY <2>2, <2>3 DEF Recoveries, Fallible
<1>7. QED
  BY <1>3, <1>4, <1>5, <1>6

(* Steps that tell nothing, or of an operation that is not committed.      *)
LEMMA StepStays ==
    ASSUME IInv, TInv, NEW h \in Handlers, handler[h].o \in Operations, handler[h].pc # "idle"
    PROVE  /\ \A r, pc : Step(h, r, pc) => ErrorStep
           /\ Abandon(h) => ErrorStep
           /\ Excused(h) /\ Refuse(h) => ErrorStep
           /\ Excused(h) => \A op, pc : PrepareStep(h, op, pc) => ErrorStep
<1>1. Abandon(h) => ErrorStep
  BY ToldStays DEF Abandon
<1>2. ASSUME NEW r, NEW pc, Step(h, r, pc)
      PROVE  ErrorStep
  <2>1. receipt' = receipt \/ Abandon(h)
    BY <1>2 DEF Step
  <2>2. QED
    BY <1>1, <2>1, ToldStays
<1>3. ASSUME Excused(h), Refuse(h)
      PROVE  ErrorStep
  <2>1. receipt' = Answered(h, "error") /\ db' = db
    BY <1>3 DEF Refuse
  <2>2. handler[h].cmd \notin Fallible \/ db'.ops[handler[h].o].phase # "committed"
    BY <1>3, <2>1 DEF Excused, Op
  <2>3. QED
    BY <2>1, <2>2, ToldStays
<1>4. QED
  BY <1>1, <1>2, <1>3 DEF PrepareStep

(* complete_account_operation_command tells of an error only if it did not *)
(* commit.                                                                 *)
LEMMA CompleteStays ==
    ASSUME IInv, TInv, NEW h \in Handlers, handler[h].o \in Operations, handler[h].pc # "idle",
           NEW d, SameRows(d), NEW from \in Phases, NEW to \in Phases, NEW code \in Codes,
           NEW answer,
           \/ Excused(h) /\ to # "committed"
           \/ to = "committed" /\ code = "none" /\ answer # "error",
           Complete(h, d, from, to, code, answer)
    PROVE  ErrorStep
<1> DEFINE o == handler[h].o
           r == Advance(d, o, from, to, code, inUse)
           told == IF Accepted(r) THEN answer ELSE "error"
<1>1. d \in Database /\ d.ops[o] = Op(h)
  BY DEF SameRows, Op
<1>2. CASE receipt' = receipt \/ receipt' = Released(h)
  BY <1>2, ToldStays
<1>3. CASE receipt' = Answered(h, told) /\ ~Owns(h)
  BY <1>2, <1>3 DEF Answered
<1>4. CASE receipt' = Answered(h, told) /\ db' = r.db
  <2>1. CASE Excused(h) /\ to # "committed"
    <3>1. Advanced(d, o, from, to, code, r.db)
      BY <1>1, AdvanceShape
    <3> HIDE DEF r
    <3>2. r.db.ops[o].phase \in {Op(h).phase, to}
      BY <1>1, <2>1, <3>1 DEF Advanced
    <3>3. handler[h].cmd \notin Fallible \/ db'.ops[o].phase # "committed"
      BY <1>4, <2>1, <3>2 DEF Excused
    <3>4. QED
      BY <1>4, <3>3, ToldStays
  <2>2. CASE to = "committed" /\ code = "none" /\ answer # "error"
    <3>1. CASE Accepted(r)
      BY <1>4, <2>2, <3>1, ToldStays
    <3>2. CASE ~Accepted(r)
      <4>1. r.db = d /\ d.ops[o].phase # "committed"
        BY <2>2, <3>2 DEF Advance, Result, Accepted
      <4>2. db'.ops[o].phase # "committed"
        BY <1>4, <4>1
      <4>3. QED
        BY <1>4, <4>2, ToldStays
    <3>3. QED
      BY <3>1, <3>2
  <2>3. QED
    BY <2>1, <2>2
<1>5. QED
  BY <1>2, <1>3, <1>4 DEF Complete

LEMMA ErrorsStay ==
    ASSUME IInv, TInv, NEW h \in Handlers, handler[h].o \in Operations, handler[h].pc # "idle",
           Excused(h), NEW d, SameRows(d), NEW from \in Phases
    PROVE  \A to \in Phases \ {"committed"}, code \in Codes, answer \in Answers :
              Complete(h, d, from, to, code, answer) => ErrorStep
  BY CompleteStays

(* A handler past its wait that has presumed what it works on.             *)
LEMMA WorkerExcused ==
    ASSUME IInv, TInv, NEW h \in Handlers,
           handler[h].pc \in {"create", "resolve", "rotate", "delete", "reject"}
    PROVE  Excused(h) /\ handler[h].o \in Operations /\ SameRows(db) /\ Op(h).phase \in Phases
<1>1. handler[h].o \in Operations /\ Presumes(handler[h].pc, handler[h], db)
  BY WorkerRuns
<1>2. Op(h).phase # "committed"
  BY <1>1 DEF Presumes, Op, Guilty, IsUnsettled, UnsettledPhases
<1>3. QED
  BY <1>1, <1>2, Here, OpType DEF Excused, Op

LEMMA WorkersStay ==
    ASSUME IInv, TInv, NEW h \in Handlers,
           Create(h) \/ Resolve(h) \/ Rotate(h) \/ Delete(h) \/ Reject(h)
    PROVE  ErrorStep
<1>1. /\ Excused(h) /\ handler[h].o \in Operations /\ handler[h].pc # "idle" /\ SameRows(db)
      /\ Op(h).phase \in Phases
  BY WorkerExcused DEF Create, Resolve, Rotate, Delete, Reject, At
<1>2. /\ \A r, pc : Step(h, r, pc) => ErrorStep
      /\ \A pc : Resume(h, pc) => ErrorStep
  BY <1>1, StepStays DEF Resume
<1>3. /\ {"prepared", "pending", "recovery", "cancelled"} \subseteq Phases \ {"committed"}
      /\ {"none", "other", "rejected"} \subseteq Codes
      /\ {"error", "current"} \subseteq Answers
  BY DEF Phases, Codes, Answers
<1>4. Op(h).target \in Credential /\ NoCredential \in Credential
  BY <1>1, OpType, BindingType DEF Op
<1>5. \A d : SameRows(d) =>
         \A from \in Phases, to \in Phases \ {"committed"}, code \in Codes, answer \in Answers :
            Complete(h, d, from, to, code, answer) => ErrorStep
  BY <1>1, ErrorsStay
<1>6. CASE Create(h)
  <2> DEFINE r == CreateCredential(db, Op(h).target)
  <2>1. SameRows(r.db)
    BY <1>4, CredentialSameRows DEF IInv
  <2>2. \/ \E pc : Step(h, r, pc) \/ Resume(h, pc)
        \/ \E d \in {db, r.db} : Complete(h, d, "prepared", "recovery", "other", "error")
        \/ \E to \in {"cancelled", "recovery"} :
              Complete(h, db, "prepared", to,
                       IF to = "recovery" THEN "other" ELSE "none", "error")
    BY <1>6 DEF Create
  <2> HIDE DEF r
  <2>3. QED
    BY <1>1, <1>2, <1>3, <1>5, <2>1, <2>2
<1>7. CASE Resolve(h) \/ Reject(h)
  <2>1. \/ \E r, pc : Step(h, r, pc)
        \/ \E from \in {"pending", "prepared"}, to \in {"recovery", "cancelled"},
              code \in {"none", "other", "rejected"}, answer \in {"error", "current"} :
                 Complete(h, db, from, to, code, answer)
    BY <1>7 DEF Resolve, Reject
  <2>2. QED
    BY <1>1, <1>2, <1>3, <1>5, <2>1
<1>8. CASE Rotate(h)
  <2> DEFINE r == RotateCredential(db, Op(h).expected, Op(h).target)
  <2>1. SameRows(r.db)
    BY <1>4, CredentialSameRows DEF IInv
  <2>2. \/ \E q, pc : Step(h, q, pc)
        \/ \E d \in {db, r.db}, from \in {"pending", "prepared"}, to \in {"recovery", "cancelled"},
              code \in {"none", "other"} : Complete(h, d, from, to, code, "error")
    BY <1>8 DEF Rotate
  <2> HIDE DEF r
  <2>3. QED
    BY <1>1, <1>2, <1>3, <1>5, <2>1, <2>2
<1>9. CASE Delete(h)
  <2> DEFINE r == DeleteCredential(db, Op(h).expected)
  <2>1. SameRows(r.db)
    BY <1>4, CredentialSameRows DEF IInv
  <2>2. \/ \E q, pc : Step(h, q, pc)
        \/ \E d \in {db, r.db}, code \in {"none", "other"} :
              Complete(h, d, Op(h).phase, "recovery", code, "error")
    BY <1>9 DEF Delete
  <2> HIDE DEF r
  <2>3. QED
    BY <1>1, <1>2, <1>3, <1>5, <2>1, <2>2
<1>10. QED
  BY <1>6, <1>7, <1>8, <1>9

(* A logout or a reauthentication that begins.                             *)
LEMMA BeginsStay ==
    ASSUME IInv, TInv, NEW h \in Handlers, BeginReauth(h) \/ BeginLogout(h)
    PROVE  ErrorStep
<1>1. handler[h].o \in Operations /\ handler[h].pc # "idle" /\ SameRows(db)
  BY WaiterRuns, Here DEF BeginReauth, BeginLogout
<1>2. Op(h).phase \in Phases
  BY <1>1, OpType DEF Op
<1>3. /\ \A r, pc : Step(h, r, pc) => ErrorStep
      /\ \A pc : Resume(h, pc) => ErrorStep
      /\ \A from, to, pc : AdvanceStep(h, from, to, pc) => ErrorStep
  BY <1>1, StepStays DEF Resume, AdvanceStep
<1>4. CASE Op(h).phase = "committed"
  <2>1. db.acct.row # "none"
    BY <1>1, <1>4 DEF TInv, Safe, RowFirst, Op
  <2>2. Resume(h, "complete")
    <3>1. \A call : ReplayReauth(h, call) => Resume(h, "complete")
      BY <1>4 DEF ReplayReauth
    <3>2. BeginReauth(h) => Resume(h, "complete")
      BY <1>4, <2>1, <3>1 DEF BeginReauth
    <3>3. BeginLogout(h) => Resume(h, "complete")
      BY <1>4 DEF BeginLogout
    <3>4. QED
      BY <3>2, <3>3
  <2>3. QED
    BY <1>3, <2>2
<1>5. CASE Op(h).phase # "committed"
  <2>1. Excused(h)
    BY <1>5 DEF Excused
  <2>2. /\ Refuse(h) => ErrorStep
        /\ \A op, pc : PrepareStep(h, op, pc) => ErrorStep
    BY <1>1, <2>1, StepStays
  <2>3. \A from \in Phases, to \in Phases \ {"committed"}, code \in Codes :
           Complete(h, db, from, to, code, "error") => ErrorStep
    BY <1>1, <2>1, ErrorsStay DEF Answers
  <2>4. /\ {"prepared", "recovery", "cancelled"} \subseteq Phases \ {"committed"}
        /\ {"none", "other"} \subseteq Codes
    BY DEF Phases, Codes
  <2>5. CASE BeginReauth(h)
    <3>1. \A call : ReplayReauth(h, call) => ErrorStep
      BY <1>2, <1>3, <2>3, <2>4 DEF ReplayReauth
    <3>2. QED
      BY <2>2, <2>5, <3>1 DEF BeginReauth
  <2>6. CASE BeginLogout(h)
    BY <1>2, <1>3, <1>5, <2>2, <2>3, <2>4, <2>6 DEF BeginLogout
  <2>7. QED
    BY <2>5, <2>6
<1>6. QED
  BY <1>4, <1>5

LEMMA HandlerStepStays ==
    ASSUME IInv, TInv, NEW h \in Handlers, HandlerStep(h)
    PROVE  ErrorStep
<1>1. ASSUME \/ BeginEnroll(h) \/ BeginRefresh(h) \/ BeginBackground(h) \/ BeginObserve(h)
             \/ \E cmd \in Recoveries : Recover(h, cmd)
      PROVE  ErrorStep
  <2>1. handler[h].o \in Operations /\ handler[h].pc # "idle"
    BY <1>1, WaiterRuns DEF BeginEnroll, BeginRefresh, BeginBackground, BeginObserve, Recover
  <2>2. QED
    BY <1>1, <2>1, OthersTold, ToldStays DEF Told
<1>2. ASSUME \/ Pend(h) \/ Apply(h) \/ Commit(h) \/ CompleteSuccess(h)
             \/ \E result \in Results \ {"none"} : Provider(h, result)
      PROVE  ErrorStep
  <2>1. handler[h].o \in Operations /\ handler[h].pc # "idle"
    BY <1>2, WorkerRuns DEF Pend, Apply, Commit, CompleteSuccess, Provider, At
  <2>2. CASE Pend(h) \/ Apply(h)
    BY <2>1, <2>2, StepStays DEF Pend, Apply, AdvanceStep
  <2>3. CASE Commit(h)
    BY <2>1, <2>3, StepStays, ToldStays DEF Commit
  <2>4. CASE CompleteSuccess(h)
    <3>1. Complete(h, db, "applied", "committed", "none", "ok")
      BY <2>4 DEF CompleteSuccess
    <3>2. "applied" \in Phases /\ "committed" \in Phases /\ "none" \in Codes
      BY DEF Phases, Codes
    <3>3. QED
      BY <2>1, <3>1, <3>2, Here, CompleteStays
  <2>5. CASE \E result \in Results \ {"none"} : Provider(h, result)
    BY <2>1, <2>5, ToldStays DEF Provider
  <2>6. QED
    BY <1>2, <2>2, <2>3, <2>4, <2>5
<1>3. QED
  BY <1>1, <1>2, WorkersStay, BeginsStay DEF HandlerStep

LEMMA NextStays ==
    ASSUME IInv, TInv, Next
    PROVE  ErrorStep
<1>1. \A o \in Operations :
         /\ receipt[o] \in Receipt
         /\ \A c : [receipt[o] EXCEPT !.claim = c].answer = receipt[o].answer
  BY DEF IInv, Sound, TypeOK, Receipt
<1>2. ASSUME NEW h \in Handlers, JournalFails(h)
      PROVE  ErrorStep
  <2>1. handler[h].o \in Operations /\ handler[h].pc # "idle" /\ Abandon(h)
    BY <1>2 DEF JournalFails, IInv, Busy
  <2>2. QED
    BY <2>1, StepStays
<1>3. ASSUME NEW h \in Handlers, NEW o \in Operations, NEW cmd \in Commands, Submit(h, o, cmd)
      PROVE  ErrorStep
  <2>1. \A x \in Operations : x # o => receipt'[x] = receipt[x]
    BY <1>3 DEF Submit, IInv, Sound, TypeOK
  <2>2. receipt[o].state # "reserved"
    BY <1>3 DEF Submit, Unused
  <2>3. QED
    BY <2>1, <2>2 DEF ErrorStep, TInv, ReceiptTokens
<1>4. ASSUME \/ \E h \in Handlers, o \in Operations : Retry(h, o)
             \/ \E o \in Operations : ClaimExpires(o)
             \/ Crash
      PROVE  ErrorStep
  <2>1. receipt \in [Operations -> Receipt]
    BY DEF IInv, Sound, TypeOK
  <2>2. \A o \in Operations : \A c :
           \A x \in Operations : [receipt EXCEPT ![o].claim = c][x].answer = receipt[x].answer
    BY <2>1 DEF Receipt
  <2>3. \A x \in Operations : receipt'[x].answer = receipt[x].answer
    <3>1. CASE Crash
      BY <1>1, <3>1 DEF Crash
    <3>2. CASE \E o \in Operations : ClaimExpires(o) \/ \E h \in Handlers : Retry(h, o)
      <4>1. \E o \in Operations : \E c : receipt' = [receipt EXCEPT ![o].claim = c]
        BY <3>2 DEF ClaimExpires, Retry
      <4>2. QED
        BY <2>2, <4>1
    <3>3. QED
      BY <1>4, <3>1, <3>2
  <2>4. QED
    BY <2>3, SilentErrors
<1>5. ASSUME \/ \E h \in Handlers, o \in Operations :
                   \/ \E cmd \in Tasks : StartTask(h, o, cmd)
                   \/ \E cmd \in Recoveries : SubmitRecovery(h, o, cmd)
             \/ \E o \in Operations : AcceptRecovery(o)
             \/ StartupStep \/ \E enabled \in BOOLEAN : Toggle(enabled)
             \/ Launch \/ ProcessDies
      PROVE  ErrorStep
  <2>1. receipt' = receipt
    BY <1>5 DEF StartTask, SubmitRecovery, AcceptRecovery, StartupStep, StartupEnds, Reconcile,
                ReconcileLogout, Startup, Toggle, Launch, ProcessDies
  <2>2. QED
    BY <2>1, SilentErrors
<1>6. QED
  BY <1>2, <1>3, <1>4, <1>5, HandlerStepStays DEF Next

(* A client that is told a logout or a reauthentication failed is told the *)
(* truth: neither its handler nor a startup before its retry committed it. *)
THEOREM ErrorsTrue == Spec => ErrorIsTrue
<1>1. IInv /\ TInv /\ [Next]_vars =>
         [\A o \in Operations :
             /\ receipt[o].state = "reserved" /\ receipt'[o].answer = "error"
             /\ receipt[o].cmd \in {"logout", "reauth"}
             => db'.ops[o].phase # "committed"]_vars
  BY NextStays DEF ErrorStep, Fallible
<1>2. QED
  BY <1>1, Invariance, FenceInvariance, PTL DEF Spec, ErrorIsTrue

----------------------------------------------------------------------------
(* The promise: AccountPromise.  Its steps, as steps of databases.         *)

(* Rows that the promise cannot tell apart.                                *)
Alike(a, b) ==
    Stage(a) = Stage(b) /\ a.expected.by = b.expected.by /\ a.recovers = b.recovers

Stays(d, e) ==
    /\ e.acct.row = d.acct.row /\ e.cred.by = d.cred.by
    /\ \A x \in Operations : Alike(d.ops[x], e.ops[x])

Begins(d, e, o) ==
    /\ e.acct.row = d.acct.row /\ e.cred.by = d.cred.by
    /\ \A x \in Operations : x # o => Alike(d.ops[x], e.ops[x])
    /\ Stage(d.ops[o]) = "new" /\ Stage(e.ops[o]) = "open"
    /\ e.ops[o].expected.by = IF d.acct.row = "live" THEN d.cred.by ELSE NoOperation
    /\ \A x \in Operations : Stage(d.ops[x]) = "open" => x = e.ops[o].recovers
    /\ e.ops[o].recovers \in Reference
    /\ e.ops[o].recovers # NoOperation =>
          LET r == d.ops[e.ops[o].recovers]
          IN Stage(r) = "open" /\ r.recovers = NoOperation /\ r.expected.by = d.cred.by

Holding(d, o) == IsUnsettled(d.ops[o]) /\ ~Held(d.ops, o)

Changes(d, e, o) ==
    /\ Holding(d, o) /\ d.cred.by = d.ops[o].expected.by
    /\ e.cred.by \in {o, NoOperation} /\ e.acct.row = d.acct.row
    /\ \A x \in Operations : Alike(d.ops[x], e.ops[x])

Commits(d, e, o) ==
    /\ Holding(d, o) /\ d.cred.by \in {o, NoOperation} /\ e.cred.by = d.cred.by
    /\ d.cred.by = NoOperation => d.acct.row = "live" /\ ~inUse
    /\ e.acct.row = IF d.cred.by = o THEN "live" ELSE "tombstone"
    /\ \A x \in Operations :
          /\ e.ops[x].expected.by = d.ops[x].expected.by
          /\ e.ops[x].recovers = d.ops[x].recovers
          /\ Stage(e.ops[x]) = IF x = o THEN "done"
                               ELSE IF x = d.ops[o].recovers THEN "replaced" ELSE Stage(d.ops[x])

Cancels(d, e, o) ==
    /\ Holding(d, o)
    /\ d.acct.row = "live" => d.cred.by = d.ops[o].expected.by
    /\ e.acct.row = d.acct.row /\ e.cred.by = d.cred.by
    /\ \A x \in Operations :
          /\ e.ops[x].expected.by = d.ops[x].expected.by
          /\ e.ops[x].recovers = d.ops[x].recovers
          /\ Stage(e.ops[x]) = IF x = o THEN "undone" ELSE Stage(d.ops[x])

Lawful(d, e) ==
    \/ Stays(d, e)
    \/ \E o \in Operations :
          Begins(d, e, o) \/ Changes(d, e, o) \/ Commits(d, e, o) \/ Cancels(d, e, o)

LEMMA OpenIsUnsettled ==
    ASSUME NEW op \in Operation
    PROVE  (Stage(op) = "open") = IsUnsettled(op)
  BY DEF Stage, IsUnsettled, UnsettledPhases, Operation, Phases

LEMMA LawfulKept ==
    ASSUME TypeOK, TypeOK', Lawful(db, db'), inUse' = inUse
    PROVE  [Promise!PromiseNext]_Promise!accountVars
<1> DEFINE stage == [x \in Operations |-> Stage(db.ops[x])]
           found == [x \in Operations |-> db.ops[x].expected.by]
           takes == [x \in Operations |-> db.ops[x].recovers]
           stage2 == [x \in Operations |-> Stage(db'.ops[x])]
           found2 == [x \in Operations |-> db'.ops[x].expected.by]
           takes2 == [x \in Operations |-> db'.ops[x].recovers]
<1>0. /\ \A x \in Operations : (Stage(db.ops[x]) = "open") = IsUnsettled(db.ops[x])
      /\ \A x \in Operations : db.ops[x].recovers \in Reference
  BY OpenIsUnsettled DEF TypeOK, Database, Operation
<1>1. CASE Stays(db, db')
  <2>1. stage2 = stage /\ found2 = found /\ takes2 = takes
    BY <1>1 DEF Stays, Alike
  <2>2. UNCHANGED Promise!accountVars
    BY <1>1, <2>1 DEF Stays, Promise!accountVars
  <2>3. QED
    BY <2>2
<1>2. ASSUME NEW o \in Operations, Begins(db, db', o)
      PROVE  Promise!PromiseNext
  <2>0. PICK r \in Reference : r = db'.ops[o].recovers
    BY <1>2 DEF Begins
  <2>1. /\ stage2 = [stage EXCEPT ![o] = "open"] /\ takes2 = [takes EXCEPT ![o] = r]
        /\ found2 = [found EXCEPT ![o] = IF db.acct.row = "live" THEN db.cred.by ELSE NoOperation]
    BY <1>2, <2>0 DEF Begins, Alike
  <2>2. /\ stage[o] = "new" /\ \A x \in Operations : stage[x] = "open" => x = r
        /\ r # NoOperation => stage[r] = "open" /\ takes[r] = NoOperation /\ found[r] = db.cred.by
    BY <1>2, <2>0 DEF Begins, Reference
  <2>3. r \in Operations \cup {NoOperation}
    BY DEF Reference
  <2>4. db'.acct.row = db.acct.row /\ db'.cred.by = db.cred.by
    BY <1>2 DEF Begins
  <2>5. Promise!Begin(o, r)
    <3>1. stage2 = [stage EXCEPT ![o] = "open"] /\ takes2 = [takes EXCEPT ![o] = r]
      BY <2>1
    <3>2. found2 = [found EXCEPT ![o] = IF db.acct.row = "live" THEN db.cred.by ELSE NoOperation]
      BY <2>1
    <3>3. UNCHANGED <<db.acct.row, db.cred.by, inUse>>
      BY <2>4
    <3>4. /\ stage[o] = "new" /\ \A x \in Operations : stage[x] = "open" => x = r
          /\ r # NoOperation => stage[r] = "open" /\ takes[r] = NoOperation /\ found[r] = db.cred.by
      BY <2>2
    <3> HIDE <2>1, <2>2
    <3>5. QED
      BY <3>1, <3>2, <3>3, <3>4 DEF Promise!Begin
  <2>6. QED
    BY <2>3, <2>5 DEF Promise!PromiseNext
<1>3. ASSUME NEW o \in Operations, Holding(db, o)
      PROVE  Promise!Holds(o)
  BY <1>0, <1>3 DEF Promise!Holds, Holding, Held
<1>4. ASSUME NEW o \in Operations, Changes(db, db', o)
      PROVE  Promise!PromiseNext
  <2>1. stage2 = stage /\ found2 = found /\ takes2 = takes
    BY <1>4 DEF Changes, Alike
  <2>2. Promise!Change(o, db'.cred.by) /\ db'.cred.by \in {o, NoOperation}
    BY <1>3, <1>4, <2>1 DEF Changes, Promise!Change
  <2>3. QED
    BY <2>2 DEF Promise!PromiseNext
<1>5. ASSUME NEW o \in Operations, Commits(db, db', o)
      PROVE  Promise!PromiseNext
  <2>1. /\ found2 = found /\ takes2 = takes
        /\ stage2 = [x \in Operations |-> IF x = o THEN "done"
                                          ELSE IF x = takes[o] THEN "replaced" ELSE stage[x]]
    BY <1>5 DEF Commits
  <2>2. Promise!Commit(o)
    BY <1>3, <1>5, <2>1 DEF Commits, Promise!Commit
  <2>3. QED
    BY <2>2 DEF Promise!PromiseNext
<1>6. ASSUME NEW o \in Operations, Cancels(db, db', o)
      PROVE  Promise!PromiseNext
  <2>1. found2 = found /\ takes2 = takes /\ stage2 = [stage EXCEPT ![o] = "undone"]
    BY <1>6 DEF Cancels
  <2>2. Promise!Cancel(o)
    BY <1>3, <1>6, <2>1 DEF Cancels, Promise!Cancel
  <2>3. QED
    BY <2>2 DEF Promise!PromiseNext
<1>7. QED
  BY <1>1, <1>2, <1>4, <1>5, <1>6 DEF Lawful

----------------------------------------------------------------------------
(* The invariant of the promise.                                           *)

(* What the operation of a command is.                                     *)
Fits(cmd, op) ==
    /\ cmd = "refresh" => op.kind = "refresh" /\ (op.phase = "prepared" => op.target = NoCredential)
    /\ cmd = "reauth" => op.kind = "refresh"
    /\ cmd = "logout" => op.kind = "logout"

(* An operation installs its own credential.  An enrollment finds none and *)
(* is open only while the account is not signed in; a refresh that has     *)
(* nothing to install yet has changed nothing.                             *)
Rowed(d, o) ==
    LET op == d.ops[o]
    IN /\ op.phase = "none" => op.kind = "none"
       /\ op.target # NoCredential => op.target.by = o
       /\ op.kind = "enroll" => op.expected = NoCredential
       /\ op.kind = "enroll" /\ IsUnsettled(op) => d.acct.row # "live"
       /\ op.kind = "refresh" /\ op.target = NoCredential /\ op.phase \in {"prepared", "pending"}
          => d.cred = op.expected
       /\ receipt[o].state # "none" /\ op.phase # "none" => Fits(receipt[o].cmd, op)

Form(d) ==
    /\ d.cred # NoCredential => d.cred.by \in Operations
    /\ \A o \in Operations : Rowed(d, o)

(* The step pc of the handler w works on an operation of its kind, and     *)
(* rotates what the operation found.                                       *)
Ready(pc, w, d) ==
    /\ pc = "create" => d.ops[w.o].kind = "enroll"
    /\ pc = "delete" => d.ops[w.o].kind = "logout" /\ IsUnsettled(d.ops[w.o])
    /\ pc = "rotate" => d.cred = d.ops[w.o].expected

AInv ==
    /\ Form(db)
    /\ \A h \in Handlers :
          /\ handler[h].pc # "idle" => Ready(handler[h].pc, handler[h], db)
          /\ handler[h].pc # "idle" /\ handler[h].cmd \in Tasks =>
                receipt[handler[h].o].state = "none"

----------------------------------------------------------------------------
(* The transactions, as steps of the promise.                              *)

Lawfully(d, e) == Lawful(d, e) /\ Form(e)

LEMMA StaysLawful == \A d : Lawful(d, d)
  BY DEF Lawful, Stays, Alike

(* Two unsettled operations: one of them is held.                          *)
LEMMA OthersAreHeld ==
    ASSUME NEW ops \in Rows, Journal(ops), NEW o \in Operations, NEW x \in Operations,
           IsUnsettled(ops[o]), ~Held(ops, o), IsUnsettled(ops[x]), x # o
    PROVE  Held(ops, x) /\ ops[x].phase = "recovery" /\ ops[x].kind = "refresh"
<1>1. ops[o].recovers = x
  BY DEF Journal, Held
<1>2. Held(ops, x)
  BY <1>1 DEF Held
<1>3. QED
  BY <1>2, HeldIsRecovery

(* What advance_operation_sync leaves, row by row.                         *)
LEMMA AdvanceRows ==
    ASSUME NEW d \in Database, Journal(d.ops), NEW o \in Operations, NEW from \in Phases,
           NEW to \in Phases, NEW code \in Codes
    PROVE  LET e == Advance(d, o, from, to, code, inUse).db
           IN \/ e = d
              \/ /\ IsUnsettled(d.ops[o]) /\ d.ops[o].phase = from /\ <<from, to>> \in Allowed
                 /\ e.cred = d.cred
                 /\ \A x \in Operations :
                       /\ e.ops[x].kind = d.ops[x].kind /\ e.ops[x].expected = d.ops[x].expected
                       /\ e.ops[x].target = d.ops[x].target
                       /\ e.ops[x].recovers = d.ops[x].recovers
                       /\ e.ops[x].phase = IF x = o THEN to ELSE d.ops[x].phase
                       /\ e.ops[x].by = IF to = "committed" /\ x = d.ops[o].recovers THEN o
                                        ELSE d.ops[x].by
                 /\ IF to = "committed"
                    THEN e.acct = CommittedAccount(d, o) /\ CommitRejection(d, o, inUse) = "none"
                    ELSE e.acct = d.acct
<1> DEFINE r == Advance(d, o, from, to, code, inUse)
           old == IF to = "committed" THEN Superseded(d, o) ELSE d.ops
           new == Moved(old, o, to, code)
           applies == /\ d.ops[o].phase # to
                      /\ d.ops[o].by = NoOperation
                      /\ d.ops[o].phase = from /\ <<from, to>> \in Allowed
                      /\ to = "committed" => CommitRejection(d, o, inUse) = "none"
                      /\ r.db # d
<1>0. d.ops \in Rows
  BY DEF Database, Rows
<1>1. CASE ~applies
  BY <1>1 DEF Advance, Result
<1>2. CASE applies
  <2>1. IsUnsettled(d.ops[o])
    BY <1>2 DEF IsUnsettled, UnsettledPhases, Allowed
  <2>2. /\ r.db.cred = d.cred /\ r.db.ops = new
        /\ r.db.acct = IF to = "committed" THEN CommittedAccount(d, o) ELSE d.acct
    BY <1>2 DEF Advance, Result, Database
  <2>3. \A x \in Operations :
           old[x] = IF to = "committed" /\ x = d.ops[o].recovers THEN [d.ops[x] EXCEPT !.by = o]
                    ELSE d.ops[x]
    BY DEF Superseded
  <2>4. old \in Rows
    BY <1>0 DEF Superseded, Rows, Operation, Reference
  <2>5. \A x \in Operations :
           /\ old[x].kind = d.ops[x].kind /\ old[x].expected = d.ops[x].expected
           /\ old[x].target = d.ops[x].target /\ old[x].recovers = d.ops[x].recovers
           /\ old[x].phase = d.ops[x].phase
           /\ old[x].by = IF to = "committed" /\ x = d.ops[o].recovers THEN o ELSE d.ops[x].by
    BY <1>0, <2>3 DEF Rows, Operation
  <2> HIDE DEF old, r
  <2>6. \A x \in Operations :
           /\ new[x].kind = old[x].kind /\ new[x].expected = old[x].expected
           /\ new[x].target = old[x].target /\ new[x].recovers = old[x].recovers
           /\ new[x].phase = IF x = o THEN to ELSE old[x].phase
           /\ new[x].by = old[x].by
    BY <2>4 DEF Moved, Rows, Operation
  <2> HIDE DEF new
  <2>7. QED
    BY <1>2, <2>1, <2>2, <2>5, <2>6 DEF r
<1>3. QED
  BY <1>1, <1>2

(* A cancellation is excused by what the credential is, and not of an      *)
(* operation that was taken over.                                          *)
CanCancel(d, o, from, to) ==
    to = "cancelled" /\ from # "cancelled" =>
        /\ d.ops[o].phase = from => (d.acct.row = "live" => d.cred = d.ops[o].expected)
        /\ from = "recovery" => ~Held(d.ops, o)

LEMMA PredecessorVersion ==
    ASSUME NEW d \in Database
    PROVE  Predecessor(d).v \in Nat
<1>1. \A o \in Operations : d.ops[o].expected \in Credential
  BY DEF Database, Operation
<1>2. Predecessor(d) \in Credential
  BY <1>1, BindingType DEF Predecessor
<1>3. QED
  BY <1>2 DEF Credential

LEMMA AdvanceForms ==
    ASSUME NEW d \in Database, Journal(d.ops), Form(d), NEW o \in Operations, NEW from \in Phases,
           NEW to \in Phases, NEW code \in Codes
    PROVE  Form(Advance(d, o, from, to, code, inUse).db)
<1> DEFINE e == Advance(d, o, from, to, code, inUse).db
<1>1. \/ e = d
      \/ /\ IsUnsettled(d.ops[o]) /\ d.ops[o].phase = from /\ <<from, to>> \in Allowed
         /\ e.cred = d.cred
         /\ \A x \in Operations :
               /\ e.ops[x].kind = d.ops[x].kind /\ e.ops[x].expected = d.ops[x].expected
               /\ e.ops[x].target = d.ops[x].target
               /\ e.ops[x].recovers = d.ops[x].recovers
               /\ e.ops[x].phase = IF x = o THEN to ELSE d.ops[x].phase
               /\ e.ops[x].by = IF to = "committed" /\ x = d.ops[o].recovers THEN o
                                ELSE d.ops[x].by
         /\ IF to = "committed"
            THEN e.acct = CommittedAccount(d, o) /\ CommitRejection(d, o, inUse) = "none"
            ELSE e.acct = d.acct
  BY AdvanceRows
<1> SUFFICES ASSUME e # d PROVE Form(e)
  OBVIOUS
<1> HIDE DEF e
<1>2. d.ops \in Rows
  BY DEF Database, Rows
<1>3. /\ to \notin {"none", "prepared"} /\ (to = "pending" => from = "prepared")
      /\ to = "committed" => from = "applied"
  BY <1>1 DEF Allowed
<1>4. ASSUME NEW x \in Operations, e.ops[x].kind = "enroll", IsUnsettled(e.ops[x])
      PROVE  e.acct.row # "live"
  <2>1. to = "committed" => x # o
    BY <1>1, <1>4 DEF IsUnsettled, UnsettledPhases
  <2>2. to = "committed" => x # d.ops[o].recovers
    BY <1>1, <1>4, StoreAssumption DEF IsUnsettled
  <2>3. IsUnsettled(d.ops[x]) /\ d.ops[x].kind = "enroll"
    BY <1>1, <1>4, <2>2 DEF IsUnsettled
  <2>4. d.acct.row # "live"
    BY <2>3 DEF Form, Rowed
  <2>5. to # "committed"
    <3> SUFFICES ASSUME to = "committed" PROVE FALSE
      OBVIOUS
    <3>1. ~Held(d.ops, o)
      BY <1>1, <1>2, <1>3, HeldIsRecovery
    <3>2. QED
      BY <1>1, <1>2, <2>1, <2>3, <3>1, OthersAreHeld
  <2>6. QED
    BY <1>1, <2>4, <2>5
<1>5. ASSUME NEW x \in Operations
      PROVE  Rowed(e, x)
  <2>1. Rowed(d, x)
    BY DEF Form
  <2>2. /\ e.ops[x].target # NoCredential => e.ops[x].target.by = x
        /\ e.ops[x].kind = "enroll" => e.ops[x].expected = NoCredential
    BY <1>1, <2>1 DEF Rowed
  <2>3. /\ e.ops[x].phase \in {"prepared", "pending"} => d.ops[x].phase \in {"prepared", "pending"}
        /\ e.ops[x].phase = "prepared" => d.ops[x].phase = "prepared"
        /\ e.ops[x].phase # "none" => d.ops[x].phase # "none"
    BY <1>1, <1>3 DEF IsUnsettled, UnsettledPhases
  <2>7. e.ops[x].phase = "none" => e.ops[x].kind = "none"
    <3>1. e.ops[x].phase = "none" => d.ops[x].phase = "none"
      BY <1>1, <1>3
    <3>2. QED
      BY <1>1, <2>1, <3>1 DEF Rowed
  <2>4. receipt[x].state # "none" /\ e.ops[x].phase # "none" => Fits(receipt[x].cmd, e.ops[x])
    BY <1>1, <2>1, <2>3 DEF Rowed, Fits
  <2>5. /\ e.ops[x].kind = "refresh" /\ e.ops[x].target = NoCredential
        /\ e.ops[x].phase \in {"prepared", "pending"}
        => e.cred = e.ops[x].expected
    BY <1>1, <2>1, <2>3 DEF Rowed
  <2>6. QED
    BY <1>4, <2>2, <2>4, <2>5, <2>7 DEF Rowed
<1>6. QED
  BY <1>1, <1>5 DEF Form

LEMMA AdvanceLawful ==
    ASSUME NEW d \in Database, Journal(d.ops), Form(d), NEW o \in Operations, NEW from \in Phases,
           NEW to \in Phases, NEW code \in Codes, CanCancel(d, o, from, to)
    PROVE  LET e == Advance(d, o, from, to, code, inUse).db
           IN /\ Lawful(d, e)
              /\ to \notin {"committed", "cancelled"} => Stays(d, e)
<1> DEFINE e == Advance(d, o, from, to, code, inUse).db
<1>1. \/ e = d
      \/ /\ IsUnsettled(d.ops[o]) /\ d.ops[o].phase = from /\ <<from, to>> \in Allowed
         /\ e.cred = d.cred
         /\ \A x \in Operations :
               /\ e.ops[x].kind = d.ops[x].kind /\ e.ops[x].expected = d.ops[x].expected
               /\ e.ops[x].target = d.ops[x].target
               /\ e.ops[x].recovers = d.ops[x].recovers
               /\ e.ops[x].phase = IF x = o THEN to ELSE d.ops[x].phase
               /\ e.ops[x].by = IF to = "committed" /\ x = d.ops[o].recovers THEN o
                                ELSE d.ops[x].by
         /\ IF to = "committed"
            THEN e.acct = CommittedAccount(d, o) /\ CommitRejection(d, o, inUse) = "none"
            ELSE e.acct = d.acct
  BY AdvanceRows
<1> HIDE DEF e
<1> SUFFICES ASSUME e # d
             PROVE  Lawful(d, e) /\ (to \notin {"committed", "cancelled"} => Stays(d, e))
  BY DEF Lawful, Stays, Alike, e
<1>2. d.ops \in Rows /\ d.ops[o].by = NoOperation
  BY <1>1 DEF Database, Rows, IsUnsettled
<1>3. \A x \in Operations : x # o /\ e.ops[x].by = d.ops[x].by => Stage(e.ops[x]) = Stage(d.ops[x])
  BY <1>1 DEF Stage
<1>4. CASE to \notin {"committed", "cancelled"}
  <2>1. Stage(d.ops[o]) = "open" /\ Stage(e.ops[o]) = "open"
    <3>1. d.ops[o].phase \in UnsettledPhases /\ to \in UnsettledPhases
      BY <1>1, <1>4 DEF IsUnsettled, Allowed, UnsettledPhases
    <3>2. e.ops[o].phase = to /\ e.ops[o].by = NoOperation
      BY <1>1, <1>2, <1>4
    <3>3. QED
      BY <1>2, <3>1, <3>2 DEF Stage, UnsettledPhases
  <2>2. \A x \in Operations : e.ops[x].by = d.ops[x].by
    BY <1>1, <1>4
  <2>3. \A x \in Operations : Alike(d.ops[x], e.ops[x])
    BY <1>1, <1>3, <2>1, <2>2 DEF Alike
  <2>4. QED
    BY <1>1, <1>4, <2>3 DEF Lawful, Stays
<1>5. CASE to = "cancelled"
  <2>1. from # "cancelled" /\ (from = "recovery" => ~Held(d.ops, o))
    BY <1>1, <1>5 DEF CanCancel, Allowed
  <2>2. ~Held(d.ops, o)
    BY <1>1, <1>2, <2>1, HeldIsRecovery
  <2>3. d.acct.row = "live" => d.cred = d.ops[o].expected
    BY <1>1, <1>5, <2>1 DEF CanCancel
  <2>4. e.ops[o].by = NoOperation /\ e.ops[o].phase = "cancelled"
    BY <1>1, <1>2, <1>5
  <2>5. Stage(e.ops[o]) = "undone"
    BY <2>4 DEF Stage
  <2>6. \A x \in Operations : x # o => Stage(e.ops[x]) = Stage(d.ops[x])
    BY <1>1, <1>3, <1>5
  <2>7. Cancels(d, e, o)
    BY <1>1, <1>5, <2>2, <2>3, <2>5, <2>6 DEF Cancels, Holding
  <2>8. QED
    BY <1>5, <2>7 DEF Lawful
<1>6. CASE to = "committed"
  <2>1. ~Held(d.ops, o)
    BY <1>1, <1>2, <1>6, HeldIsRecovery DEF Allowed
  <2> DEFINE r == d.ops[o].recovers
  <2>2. CommitRejection(d, o, inUse) = "none" /\ e.acct = CommittedAccount(d, o)
    BY <1>1, <1>6
  <2>3. r # NoOperation => TakesOver(d.ops[o], d.ops[r]) /\ r # o
    <3>1. r # NoOperation => TakesOver(d.ops[o], d.ops[r])
      BY <2>2 DEF CommitRejection
    <3>2. from = "applied" /\ d.ops[o].phase = from
      BY <1>1, <1>6 DEF Allowed
    <3>3. QED
      BY <3>1, <3>2 DEF TakesOver
  <2>4. Stage(e.ops[o]) = "done"
    <3>1. r # o
      BY <2>3, StoreAssumption
    <3>2. e.ops[o].phase = "committed" /\ e.ops[o].by = NoOperation
      BY <1>1, <1>2, <1>6, <3>1
    <3>3. QED
      BY <3>2 DEF Stage
  <2>5. ASSUME NEW x \in Operations, x # o, x = r
        PROVE  Stage(e.ops[x]) = "replaced"
    <3>1. e.ops[x].by = o /\ e.ops[x].phase = "recovery"
      BY <1>1, <1>6, <2>3, <2>5, StoreAssumption DEF TakesOver
    <3>2. QED
      BY <3>1, StoreAssumption DEF Stage
  <2>6. \A x \in Operations : x # o /\ x # r => Stage(e.ops[x]) = Stage(d.ops[x])
    BY <1>1, <1>3
  <2>7. /\ d.cred.by \in {o, NoOperation}
        /\ d.cred.by = NoOperation => d.acct.row = "live" /\ ~inUse
        /\ e.acct.row = IF d.cred.by = o THEN "live" ELSE "tombstone"
    <3>1. d.ops[o].target # NoCredential => d.ops[o].target.by = o
      BY DEF Form, Rowed
    <3>2. CASE d.ops[o].kind = "enroll"
      <4>1. d.cred = d.ops[o].target /\ d.ops[o].target.v # 0
        <5>1. EnrollCommitRejection(d, d.ops[o]) = "none"
          BY <2>2, <3>2 DEF CommitRejection
        <5>2. d.acct.row \in {"none", "live", "tombstone"}
          BY DEF Database, Account
        <5>3. \/ d.acct.row = "none" /\ d.ops[o].target.v = 1
              \/ d.acct.row = "tombstone" /\ d.ops[o].target.v = Predecessor(d).v + 1
          BY <5>1, <5>2 DEF EnrollCommitRejection
        <5>4. Predecessor(d).v \in Nat
          BY PredecessorVersion
        <5>5. QED
          BY <5>1, <5>3, <5>4 DEF EnrollCommitRejection
      <4>2. d.cred.by = o
        BY <3>1, <4>1 DEF NoCredential
      <4>3. e.acct.row = "live"
        BY <2>2, <3>2 DEF CommittedAccount
      <4>4. QED
        BY <4>2, <4>3, StoreAssumption
    <3>3. CASE d.ops[o].kind = "refresh"
      <4>1. RefreshCommitRejection(d, d.ops[o]) = "none"
        BY <2>2, <3>3 DEF CommitRejection
      <4>2. d.cred.by = o /\ d.acct.row = "live"
        BY <3>1, <4>1 DEF RefreshCommitRejection
      <4>3. e.acct.row = "live"
        BY <2>2, <3>3, <4>2 DEF CommittedAccount, Database, Account
      <4>4. QED
        BY <4>2, <4>3, StoreAssumption
    <3>4. CASE d.ops[o].kind \notin {"enroll", "refresh"}
      <4>1. LogoutCommitRejection(d, inUse) = "none"
        BY <2>2, <3>4 DEF CommitRejection
      <4>2. d.cred.by = NoOperation /\ d.acct.row = "live" /\ ~inUse
        BY <4>1 DEF LogoutCommitRejection, NoCredential
      <4>3. e.acct.row = "tombstone"
        BY <2>2, <3>4 DEF CommittedAccount
      <4>4. QED
        BY <4>2, <4>3, StoreAssumption
    <3>5. QED
      BY <3>2, <3>3, <3>4
  <2>8. Commits(d, e, o)
    BY <1>1, <1>2, <2>1, <2>4, <2>5, <2>6, <2>7 DEF Commits, Holding
  <2>9. QED
    BY <1>6, <2>8 DEF Lawful
<1>7. QED
  BY <1>4, <1>5, <1>6

(* prepare_operation_sync, of an operation that installs its own           *)
(* credential and is what its receipt says.                                *)
LEMMA PrepareLawful ==
    ASSUME Sound, Form(db), NEW o \in Operations, NEW op \in Operation,
           op.phase = "prepared", op.by = NoOperation,
           op.kind \in {"enroll", "refresh", "logout"},
           op.kind = "enroll" => op.expected = NoCredential /\ op.recovers = NoOperation,
           op.target # NoCredential => op.target.by = o,
           receipt[o].state # "none" => Fits(receipt[o].cmd, op)
    PROVE  /\ Lawfully(db, Prepare(db, o, op).db)
           /\ Prepare(db, o, op).db.cred = db.cred
           /\ /\ Accepted(Prepare(db, o, op)) /\ db.ops[o].phase = "none"
              /\ op.kind # "enroll"
              => op.expected = db.cred
<1> DEFINE r == Prepare(db, o, op)
           e == [db EXCEPT !.ops[o] = op]
           applies == /\ db.ops[o].phase = "none"
                      /\ UnsettledRejection(db, op) = "none" /\ RowRejection(db, op) = "none"
<1>0. db \in Database /\ db.ops \in Rows /\ Journal(db.ops)
  BY DEF Sound, TypeOK, Database, Rows
<1>1. CASE ~applies
  <2>1. r.db = db
    BY <1>1 DEF Prepare, Result
  <2>2. db.ops[o].phase = "none" => ~Accepted(r)
    <3>1. UnsettledRejection(db, op) \notin {"applied", "replayed"}
      BY DEF UnsettledRejection, TakeoverRejection
    <3>2. RowRejection(db, op) \notin {"applied", "replayed"}
      BY DEF RowRejection, EnrollmentRejection
    <3>3. QED
      BY <1>1, <3>1, <3>2 DEF Prepare, Result, Accepted
  <2>3. QED
    BY <2>1, <2>2, StaysLawful DEF Lawfully
<1>2. CASE applies
  <2> DEFINE v == op.recovers
  <2>0. r.db = e
    BY <1>2 DEF Prepare, Result
  <2>1. /\ e.cred = db.cred /\ e.acct = db.acct /\ e.ops[o] = op
        /\ \A x \in Operations : x # o => e.ops[x] = db.ops[x]
    BY <1>0 DEF Database
  <2> HIDE DEF e, r
  <2>2. op.kind = "enroll" => db.acct.row # "live"
    BY <1>2 DEF RowRejection, EnrollmentRejection
  <2>3. op.kind # "enroll" => db.acct.row = "live" /\ op.expected = db.cred
    BY <1>2 DEF RowRejection
  <2>4. v # NoOperation => /\ v \in Operations /\ TakesOver(op, db.ops[v])
                           /\ \A x \in Operations : db.ops[x].recovers = v =>
                                 ~IsUnsettled(db.ops[x])
    BY <1>2 DEF UnsettledRejection, TakeoverRejection, IsUnsettled, Operation, Reference
  <2>5. v # NoOperation => /\ db.ops[v].recovers = NoOperation /\ IsUnsettled(db.ops[v])
                           /\ db.ops[v].expected = db.cred
    BY <2>3, <2>4 DEF TakesOver, IsUnsettled, UnsettledPhases
  <2>6. ASSUME NEW x \in Operations, IsUnsettled(db.ops[x])
        PROVE  x = v
    <3>1. v # NoOperation
      BY <1>2, <2>6 DEF UnsettledRejection, UnsettledOf
    <3>2. x # v => db.ops[x].recovers = v \/ db.ops[v].recovers = x
      BY <1>0, <2>4, <2>5, <2>6, <3>1 DEF Journal
    <3>3. QED
      BY <2>4, <2>5, <2>6, <3>1, <3>2, StoreAssumption
  <2>7. \A x \in Operations : (Stage(db.ops[x]) = "open") = IsUnsettled(db.ops[x])
    BY <1>0, OpenIsUnsettled DEF Rows
  <2>8. Stage(db.ops[o]) = "new" /\ Stage(op) = "open"
    BY <1>2 DEF Stage
  <2>9. op.expected.by = IF db.acct.row = "live" THEN db.cred.by ELSE NoOperation
    BY <2>2, <2>3 DEF NoCredential
  <2>10. Begins(db, e, o)
    <3>1. \A x \in Operations : x # o => Alike(db.ops[x], e.ops[x])
      BY <2>1 DEF Alike
    <3>2. \A x \in Operations : Stage(db.ops[x]) = "open" => x = v
      BY <2>6, <2>7
    <3>3. v # NoOperation => /\ Stage(db.ops[v]) = "open" /\ db.ops[v].recovers = NoOperation
                             /\ db.ops[v].expected.by = db.cred.by
      BY <2>4, <2>5, <2>7
    <3>4. v \in Reference
      BY DEF Operation
    <3>5. QED
      BY <2>1, <2>8, <2>9, <3>1, <3>2, <3>3, <3>4 DEF Begins
  <2>11. ASSUME NEW x \in Operations
         PROVE  Rowed(e, x)
    <3>1. CASE x = o
      BY <2>1, <2>2, <2>3, <3>1 DEF Rowed
    <3>2. CASE x # o
      BY <2>1, <3>2 DEF Rowed, Form
    <3>3. QED
      BY <3>1, <3>2
  <2>12. Form(e)
    BY <2>1, <2>11 DEF Form
  <2>13. QED
    BY <2>0, <2>1, <2>3, <2>10, <2>12 DEF Lawfully, Lawful, r
<1>3. QED
  BY <1>1, <1>2

(* set_operation_target_sync, of a pending operation.                      *)
LEMMA TargetLawful ==
    ASSUME Sound, Form(db), NEW o \in Operations, NEW target \in Credential,
           target # NoCredential, db.ops[o].kind = "refresh"
    PROVE  LET r == SetTarget(db, o, target)
           IN /\ Lawfully(db, r.db) /\ r.db.cred = db.cred
              /\ r.db.ops[o].expected = db.ops[o].expected
<1> DEFINE r == SetTarget(db, o, target)
           e == [db EXCEPT !.ops[o].target = target]
<1>0. db \in Database /\ db.ops[o] \in Operation
  BY DEF Sound, TypeOK, Database
<1>1. r.db = db \/ (r.db = e /\ target.by = o /\ db.ops[o].phase = "pending")
  BY DEF SetTarget, Result
<1>2. CASE r.db = e /\ target.by = o /\ db.ops[o].phase = "pending"
  <2>1. /\ e.cred = db.cred /\ e.acct = db.acct
        /\ e.ops[o] = [db.ops[o] EXCEPT !.target = target]
        /\ \A x \in Operations : x # o => e.ops[x] = db.ops[x]
    BY <1>0 DEF Database
  <2>2. /\ e.ops[o].target = target /\ e.ops[o].kind = db.ops[o].kind
        /\ e.ops[o].phase = db.ops[o].phase /\ e.ops[o].expected = db.ops[o].expected
        /\ e.ops[o].recovers = db.ops[o].recovers /\ e.ops[o].by = db.ops[o].by
    BY <1>0, <2>1 DEF Operation
  <2> HIDE DEF e
  <2>3. Alike(db.ops[o], e.ops[o])
    BY <2>2 DEF Alike, Stage
  <2>4. Stays(db, e)
    BY <2>1, <2>3 DEF Stays, Alike
  <2>5. Rowed(e, o)
    BY <1>2, <2>2 DEF Rowed, Form, Fits
  <2>6. ASSUME NEW x \in Operations, x # o
        PROVE  Rowed(e, x)
    BY <2>1, <2>6 DEF Rowed, Form
  <2>7. QED
    BY <1>2, <2>1, <2>2, <2>4, <2>5, <2>6 DEF Lawfully, Lawful, Form
<1>3. CASE r.db = db
  BY <1>3, StaysLawful DEF Lawfully
<1>4. QED
  BY <1>1, <1>2, <1>3

(* The credential record, by an operation that holds the account.          *)
LEMMA CredentialLawful ==
    ASSUME Sound, Form(db), NEW o \in Operations, NEW d, SameRows(d),
           d # db => /\ IsUnsettled(db.ops[o]) /\ ~Held(db.ops, o)
                     /\ db.cred = db.ops[o].expected
                     /\ \/ d.cred = db.ops[o].target /\ d.cred # NoCredential
                        \/ d.cred = NoCredential /\ db.ops[o].kind = "logout"
    PROVE  Lawfully(db, d)
<1>1. CASE d = db
  BY <1>1, StaysLawful DEF Lawfully
<1>2. CASE d # db
  <2>1. d.ops = db.ops /\ d.acct = db.acct /\ db.ops \in Rows /\ Journal(db.ops)
    BY DEF SameRows, Sound, TypeOK, Database, Rows
  <2>2. d.cred.by \in {o, NoOperation} /\ (d.cred # NoCredential => d.cred.by = o)
    BY <1>2 DEF Form, Rowed, NoCredential
  <2>3. Changes(db, d, o)
    BY <1>2, <2>1, <2>2 DEF Changes, Holding, Alike
  <2>4. ASSUME NEW x \in Operations
        PROVE  Rowed(d, x)
    <3>1. Rowed(db, x)
      BY DEF Form
    <3>2. /\ db.ops[x].kind = "refresh" /\ db.ops[x].target = NoCredential
          /\ db.ops[x].phase \in {"prepared", "pending"}
          => FALSE
      <4> SUFFICES ASSUME db.ops[x].kind = "refresh", db.ops[x].target = NoCredential,
                          db.ops[x].phase \in {"prepared", "pending"}
                   PROVE  FALSE
        OBVIOUS
      <4>1. x # o
        BY <1>2
      <4>2. IsUnsettled(db.ops[x])
        BY <2>1 DEF Journal, IsUnsettled, UnsettledPhases
      <4>3. QED
        BY <1>2, <2>1, <4>1, <4>2, OthersAreHeld
    <3>3. QED
      BY <2>1, <3>1, <3>2 DEF Rowed
  <2>5. QED
    BY <2>2, <2>3, <2>4 DEF Lawfully, Lawful, Form
<1>3. QED
  BY <1>1, <1>2

(* A step of the promise, and then one that it cannot see.                 *)
LEMMA LawfulThenStays ==
    ASSUME NEW c, NEW d, NEW e, Lawful(c, d), Stays(d, e)
    PROVE  Lawful(c, e)
<1>1. CASE Stays(c, d)
  BY <1>1 DEF Lawful, Stays, Alike
<1>2. ASSUME NEW o \in Operations, Begins(c, d, o)
      PROVE  Begins(c, e, o)
  <2>1. \A x \in Operations : Alike(d.ops[x], e.ops[x])
    BY DEF Stays
  <2>2. e.ops[o].recovers = d.ops[o].recovers
    BY <2>1 DEF Alike
  <2>3. QED
    BY <1>2, <2>1, <2>2 DEF Begins, Stays, Alike
<1>3. ASSUME NEW o \in Operations, Changes(c, d, o)
      PROVE  Changes(c, e, o)
  BY <1>3 DEF Changes, Stays, Alike
<1>4. ASSUME NEW o \in Operations, Commits(c, d, o)
      PROVE  Commits(c, e, o)
  BY <1>4 DEF Commits, Stays, Alike
<1>5. ASSUME NEW o \in Operations, Cancels(c, d, o)
      PROVE  Cancels(c, e, o)
  BY <1>5 DEF Cancels, Stays, Alike
<1>6. QED
  BY <1>1, <1>2, <1>3, <1>4, <1>5 DEF Lawful

----------------------------------------------------------------------------
(* The steps of a handler keep the promise.                                *)

Promised == AInv' /\ Lawful(db, db')

(* What no handler changes of a receipt.                                   *)
SameCommands ==
    \A o \in Operations :
        /\ receipt'[o].cmd = receipt[o].cmd
        /\ (receipt'[o].state = "none") = (receipt[o].state = "none")

LEMMA AnswerKeepsCommands ==
    ASSUME IInv, TInv, NEW h \in Handlers, handler[h].pc # "idle", NEW answer,
           receipt' \in {receipt, Released(h), Answered(h, answer)}
    PROVE  SameCommands
<1> DEFINE o == handler[h].o
           told == [receipt[o] EXCEPT !.state = "done", !.claim = Free, !.answer = answer]
           free == [receipt[o] EXCEPT !.claim = Free]
<1>1. receipt \in [Operations -> Receipt] /\ o \in Operations
  BY DEF IInv, Sound, TypeOK, Busy
<1>2. \/ receipt' = receipt
      \/ HasReceipt(h) /\ receipt' = [receipt EXCEPT ![o] = told]
      \/ receipt' = [receipt EXCEPT ![o] = free]
  BY DEF Answered, Released
<1>3. HasReceipt(h) => receipt[o].state # "none"
  BY DEF TInv, HandlerTokens, HasReceipt
<1>4. /\ told.cmd = receipt[o].cmd /\ told.state = "done"
      /\ free.cmd = receipt[o].cmd /\ free.state = receipt[o].state
  BY <1>1 DEF Receipt
<1> HIDE DEF told, free
<1>5. QED
  BY <1>1, <1>2, <1>3, <1>4 DEF SameCommands

LEMMA FormLater ==
    ASSUME SameCommands, Form(db')
    PROVE  Form(db)'
<1>1. ASSUME NEW o \in Operations
      PROVE  Rowed(db, o)'
  BY DEF SameCommands, Form, Rowed, Fits
<1>2. QED
  BY <1>1 DEF Form

(* A handler goes on, or ends.                                             *)
LEMMA WorkerPromised ==
    ASSUME IInv, AInv, NEW h \in Handlers, Running(h), SameCommands, Lawfully(db, db'),
           \A g \in Handlers : g # h => handler'[g] = handler[g],
           handler'[h].pc = "idle" \/ (/\ handler'[h].o = handler[h].o
                                       /\ handler'[h].cmd = handler[h].cmd
                                       /\ handler[h].pc # "idle"
                                       /\ Ready(handler'[h].pc, handler'[h], db'))
    PROVE  Promised
<1>1. Form(db)'
  BY FormLater DEF Lawfully
<1>2. ASSUME NEW g \in Handlers, handler'[g].pc # "idle"
      PROVE  /\ Ready(handler[g].pc, handler[g], db)'
             /\ handler'[g].cmd \in Tasks => receipt'[handler'[g].o].state = "none"
  <2>1. Ready(handler[g].pc, handler[g], db)'
    <3>1. CASE g = h
      <4>1. Ready(handler'[h].pc, handler'[h], db')
        BY <1>2, <3>1
      <4>2. QED
        BY <3>1, <4>1 DEF Ready
    <3>2. CASE g # h
      BY <3>2 DEF Ready, Running
    <3>3. QED
      BY <3>1, <3>2
  <2>2. handler'[g].o = handler[g].o /\ handler'[g].cmd = handler[g].cmd /\ handler[g].pc # "idle"
    BY <1>2
  <2>3. handler[g].o \in Operations
    BY <2>2 DEF IInv, Busy
  <2>4. QED
    BY <2>1, <2>2, <2>3 DEF AInv, SameCommands
<1>3. QED
  BY <1>1, <1>2 DEF AInv, Promised, Lawfully

LEMMA FinishPromised ==
    ASSUME IInv, AInv, NEW h \in Handlers, Running(h), SameCommands, Lawfully(db, db'), Finish(h)
    PROVE  Promised
<1>1. handler'[h] = IdleHandler /\ \A g \in Handlers : g # h => handler'[g] = handler[g]
  BY DEF Finish, IInv, Sound, TypeOK
<1>2. IdleHandler.pc = "idle"
  BY DEF IdleHandler
<1>3. QED
  BY <1>1, <1>2, WorkerPromised

(* The same account: nothing of the database changes.                      *)
LEMMA SameLawfully == AInv => Lawfully(db, db)
  BY StaysLawful DEF AInv, Lawfully

LEMMA EndsPromised ==
    ASSUME IInv, TInv, AInv, NEW h \in Handlers, Running(h), handler[h].pc # "idle",
           Refuse(h) \/ Abandon(h)
    PROVE  Promised
<1>1. db' = db /\ Finish(h) /\ receipt' \in {receipt, Released(h), Answered(h, "error")}
  BY DEF Refuse, Abandon
<1>2. Lawfully(db, db')
  BY <1>1, SameLawfully
<1>3. QED
  BY <1>1, <1>2, AnswerKeepsCommands, FinishPromised

(* complete_account_operation_command                                      *)
LEMMA CompletePromised ==
    ASSUME IInv, TInv, AInv, NEW h \in Handlers, Running(h), handler[h].pc # "idle",
           NEW d, SameRows(d), Lawfully(db, d),
           NEW from \in Phases, NEW to \in Phases, NEW code \in Codes, NEW answer,
           CanCancel(d, handler[h].o, from, to),
           d = db \/ to \notin {"committed", "cancelled"},
           Complete(h, d, from, to, code, answer)
    PROVE  Promised
<1> DEFINE r == Advance(d, handler[h].o, from, to, code, inUse)
<1>1. d \in Database /\ Journal(d.ops) /\ Form(d) /\ handler[h].o \in Operations
  BY DEF SameRows, IInv, Sound, Lawfully, Running
<1>2. Form(r.db) /\ Lawful(d, r.db) /\ (to \notin {"committed", "cancelled"} => Stays(d, r.db))
  BY <1>1, AdvanceForms, AdvanceLawful
<1>3. /\ Finish(h) /\ db' \in {r.db, d}
      /\ receipt' = Released(h)
         \/ receipt' = Answered(h, IF Accepted(r) THEN answer ELSE "error")
  BY DEF Complete
<1> HIDE DEF r
<1>4. Lawfully(db, r.db)
  BY <1>2, LawfulThenStays DEF Lawfully
<1>5. Lawfully(db, db')
  BY <1>3, <1>4
<1>6. SameCommands
  BY <1>3, AnswerKeepsCommands
<1>7. QED
  BY <1>3, <1>5, <1>6, FinishPromised

LEMMA StepPromised ==
    ASSUME IInv, TInv, AInv, NEW h \in Handlers, Running(h), handler[h].pc # "idle",
           NEW r, NEW pc \in Steps, Step(h, r, pc),
           Accepted(r) => Lawfully(db, r.db) /\ Ready(pc, handler[h], r.db)
    PROVE  Promised
<1>1. CASE ~Accepted(r)
  BY <1>1, EndsPromised DEF Step
<1>2. CASE Accepted(r)
  <2>1. db' = r.db /\ handler' = [handler EXCEPT ![h].pc = pc] /\ receipt' = receipt
    BY <1>2 DEF Step, Goto
  <2>2. /\ \A g \in Handlers : g # h => handler'[g] = handler[g]
        /\ handler'[h].pc = pc /\ handler'[h].o = handler[h].o
        /\ handler'[h].cmd = handler[h].cmd
    BY <2>1 DEF IInv, Sound, TypeOK, Handler
  <2>3. SameCommands
    BY <2>1 DEF SameCommands
  <2>4. Lawfully(db, db') /\ Ready(pc, handler[h], db')
    BY <1>2, <2>1
  <2>5. Ready(handler'[h].pc, handler'[h], db')
    BY <2>2, <2>4 DEF Ready
  <2>6. QED
    BY <2>2, <2>3, <2>4, <2>5, WorkerPromised
<1>3. QED
  BY <1>1, <1>2

(* The steps that ask for nothing in particular.                           *)
Unready == Steps \ {"idle", "create", "delete", "rotate"}

LEMMA ResumesPromised ==
    ASSUME IInv, TInv, AInv, NEW h \in Handlers, Running(h), handler[h].pc # "idle",
           NEW pc \in Steps, Ready(pc, handler[h], db), Resume(h, pc)
    PROVE  Promised
<1>1. Result("replayed", db).db = db
  BY DEF Result
<1>2. QED
  BY <1>1, SameLawfully, StepPromised DEF Resume

LEMMA AdvancesPromised ==
    ASSUME IInv, TInv, AInv, NEW h \in Handlers, Running(h), handler[h].pc # "idle",
           NEW from \in Phases, NEW to \in Phases, to # "cancelled",
           NEW pc \in Unready, AdvanceStep(h, from, to, pc)
    PROVE  Promised
<1> DEFINE r == Advance(db, handler[h].o, from, to, "none", inUse)
<1>1. db \in Database /\ Journal(db.ops) /\ Form(db) /\ handler[h].o \in Operations
  BY DEF IInv, Sound, TypeOK, AInv, Running
<1>2. CanCancel(db, handler[h].o, from, to) /\ "none" \in Codes
  BY DEF CanCancel, Codes
<1>3. Lawfully(db, r.db)
  BY <1>1, <1>2, AdvanceForms, AdvanceLawful DEF Lawfully
<1>4. Ready(pc, handler[h], r.db) /\ pc \in Steps
  BY DEF Ready, Unready
<1>5. Step(h, r, pc)
  BY DEF AdvanceStep
<1> HIDE DEF r
<1>6. QED
  BY <1>3, <1>4, <1>5, StepPromised

(* The present row, or a change of it that is no cancellation.             *)
LEMMA CompletesPromised ==
    ASSUME IInv, TInv, AInv, NEW h \in Handlers, Running(h), handler[h].pc # "idle",
           NEW from \in Phases, NEW to \in Phases, NEW code \in Codes, NEW answer,
           from = to \/ to # "cancelled", Complete(h, db, from, to, code, answer)
    PROVE  Promised
<1>1. CanCancel(db, handler[h].o, from, to)
  BY DEF CanCancel
<1>2. SameRows(db) /\ Lawfully(db, db)
  BY Here, SameLawfully
<1>3. QED
  BY <1>1, <1>2, CompletePromised

LEMMA PreparesPromised ==
    ASSUME IInv, TInv, AInv, NEW h \in Handlers, Running(h), handler[h].pc # "idle",
           NEW op \in Operation, op.phase = "prepared", op.by = NoOperation,
           op.kind \in {"enroll", "refresh", "logout"},
           op.kind = "enroll" => op.expected = NoCredential /\ op.recovers = NoOperation,
           op.target # NoCredential => op.target.by = handler[h].o,
           receipt[handler[h].o].state # "none" => Fits(receipt[handler[h].o].cmd, op),
           NEW pc \in {"create", "pend", "rotate", "delete", "reject"},
           pc = "create" => op.kind = "enroll",
           pc = "delete" => op.kind = "logout",
           pc = "rotate" => op.kind = "refresh" /\ db.ops[handler[h].o].phase = "none",
           PrepareStep(h, op, pc)
    PROVE  Promised
<1> DEFINE o == handler[h].o
           r == Prepare(db, o, op)
           new == r.db.ops[o]
<1>1. Good(r.db) /\ (Accepted(r) => SameDescriptor(new, op)) /\ o \in Operations
  BY PrepareGood DEF Running, IInv
<1>2. /\ Lawfully(db, r.db) /\ r.db.cred = db.cred
      /\ pc = "rotate" /\ Accepted(r) => op.expected = db.cred
  BY <1>1, PrepareLawful DEF IInv, AInv
<1>3. CASE Accepted(r) /\ new.phase = "prepared"
  <2>1. IsUnsettled(new)
    BY <1>1, <1>3 DEF Good, Journal, IsUnsettled, UnsettledPhases
  <2>2. new.kind = op.kind /\ new.expected = op.expected
    BY <1>1, <1>3 DEF SameDescriptor
  <2>3. Step(h, r, pc)
    BY <1>3 DEF PrepareStep
  <2> HIDE DEF r
  <2>4. Ready(pc, handler[h], r.db) /\ pc \in Steps
    BY <1>2, <1>3, <2>1, <2>2 DEF Ready, Steps
  <2>5. QED
    BY <1>2, <2>3, <2>4, StepPromised
<1>4. CASE ~(Accepted(r) /\ new.phase = "prepared")
  BY <1>4, EndsPromised DEF PrepareStep
<1>5. QED
  BY <1>3, <1>4

----------------------------------------------------------------------------
(* The actions of a handler.                                               *)

(* A waiting command works on its own operation.                           *)
LEMMA CommandWaits ==
    ASSUME IInv, TInv, NEW h \in Handlers, NEW cmd, Acquire(h, cmd)
    PROVE  /\ Running(h) /\ handler[h].o \in Operations /\ handler[h].pc # "idle"
           /\ handler[h].cmd = cmd
           /\ cmd \in Commands => /\ receipt[handler[h].o].cmd = cmd
                                  /\ receipt[handler[h].o].state # "none"
<1>1. /\ Running(h) /\ handler[h].o \in Operations /\ handler[h].pc # "idle"
      /\ handler[h].cmd = cmd
  BY WaiterRuns
<1>2. QED
  BY <1>1 DEF TInv, HandlerTokens

LEMMA WorkerReady ==
    ASSUME IInv, TInv, AInv, NEW h \in Handlers, handler[h].pc \notin {"idle", "wait"}
    PROVE  /\ Running(h) /\ handler[h].o \in Operations /\ handler[h].pc # "idle"
           /\ Presumes(handler[h].pc, handler[h], db)
           /\ Ready(handler[h].pc, handler[h], db)
  BY WorkerRuns DEF AInv

(* The rows an action works on.                                            *)
LEMMA RowHere ==
    ASSUME IInv, AInv, NEW o \in Operations
    PROVE  /\ db.ops[o] \in Operation /\ db.ops \in Rows /\ Journal(db.ops) /\ Rowed(db, o)
           /\ db.ops[o].phase \in Phases
           /\ db.ops[o].phase \in {"prepared", "pending", "applied"} =>
                 db.ops[o].by = NoOperation /\ IsUnsettled(db.ops[o])
<1>1. db.ops[o] \in Operation /\ db.ops \in Rows /\ Journal(db.ops) /\ Rowed(db, o)
  BY DEF IInv, Sound, TypeOK, Database, Rows, AInv, Form
<1>2. db.ops[o].by # NoOperation => db.ops[o].phase = "recovery"
  BY <1>1 DEF Journal
<1>3. QED
  BY <1>1, <1>2 DEF Operation, IsUnsettled, UnsettledPhases

LEMMA BeginEnrollPromised ==
    ASSUME IInv, TInv, AInv, NEW h \in Handlers, BeginEnroll(h)
    PROVE  Promised
<1> DEFINE o == handler[h].o
<1>1. /\ Running(h) /\ o \in Operations /\ handler[h].pc # "idle"
      /\ receipt[o].cmd = "enroll"
  BY CommandWaits DEF BeginEnroll, Commands
<1>2. Op(h).phase \in Phases /\ "none" \in Codes
  BY <1>1, OpType DEF Op, Codes
<1>3. /\ EnrollmentOf(h) \in Operation /\ EnrollmentOf(h).phase = "prepared"
      /\ EnrollmentOf(h).by = NoOperation
  BY <1>1, EnrollmentRow
<1>4. /\ EnrollmentOf(h).kind = "enroll" /\ EnrollmentOf(h).expected = NoCredential
      /\ EnrollmentOf(h).recovers = NoOperation /\ EnrollmentOf(h).target.by = o
  BY DEF EnrollmentOf, NewOperation, Binding
<1>5. Fits(receipt[o].cmd, EnrollmentOf(h))
  BY <1>1 DEF Fits
<1>6. PrepareStep(h, EnrollmentOf(h), "create") => Promised
  BY <1>1, <1>3, <1>4, <1>5, PreparesPromised
<1>7. Resume(h, "complete") => Promised
  BY <1>1, ResumesPromised DEF Steps, Ready
<1>8. Complete(h, db, Op(h).phase, Op(h).phase, "none", "error") => Promised
  BY <1>1, <1>2, CompletesPromised
<1>9. (Refuse(h) => Promised) /\ (Abandon(h) => Promised)
  BY <1>1, EndsPromised
<1>10. QED
  BY <1>6, <1>7, <1>8, <1>9 DEF BeginEnroll

LEMMA CreatePromised ==
    ASSUME IInv, TInv, AInv, NEW h \in Handlers, Create(h)
    PROVE  Promised
<1> DEFINE o == handler[h].o
           r == CreateCredential(db, Op(h).target)
<1>1. PICK call \in Calls :
         /\ Charge(call)
         /\ IF Accepted(r)
            THEN IF call = "ok" THEN Step(h, r, "apply")
                 ELSE \E d \in {db, r.db} : Complete(h, d, "prepared", "recovery", "other", "error")
            ELSE IF Seen(call, Op(h).target) = "exact" THEN Resume(h, "apply")
            ELSE \E to \in {"cancelled"} \cup (IF call = "ok" THEN {} ELSE {"recovery"}) :
                    Complete(h, db, "prepared", to,
                             IF to = "recovery" THEN "other" ELSE "none", "error")
  BY DEF Create
<1>2. /\ Running(h) /\ o \in Operations /\ handler[h].pc # "idle"
      /\ db.ops[o].phase = "prepared" /\ db.ops[o].kind = "enroll"
  BY WorkerReady DEF Create, At, Presumes, Ready
<1>3. /\ IsUnsettled(db.ops[o]) /\ ~Held(db.ops, o) /\ db.ops[o].expected = NoCredential
      /\ db.acct.row # "live"
  BY <1>2, RowHere, HeldIsRecovery DEF Rowed
<1>4. SameRows(db) /\ SameRows(r.db)
  BY <1>2, Here, OpType, CredentialSameRows DEF IInv, Op
<1>5. r.db # db => db.cred = NoCredential /\ r.db = [db EXCEPT !.cred = Op(h).target]
  BY DEF CreateCredential, Result
<1>6. r.db # db => r.db.cred = Op(h).target /\ r.db.cred # NoCredential
  BY <1>4, <1>5 DEF SameRows, Database
<1> HIDE DEF r
<1>7. Lawfully(db, r.db) /\ Lawfully(db, db)
  BY <1>2, <1>3, <1>4, <1>5, <1>6, CredentialLawful, SameLawfully DEF IInv, AInv, Op
<1>8. Ready("apply", handler[h], r.db) /\ Ready("apply", handler[h], db) /\ "apply" \in Steps
  BY DEF Ready, Steps
<1>9. (Step(h, r, "apply") => Promised) /\ (Resume(h, "apply") => Promised)
  BY <1>2, <1>7, <1>8, StepPromised, ResumesPromised
<1>10. \A d \in {db, r.db} : Complete(h, d, "prepared", "recovery", "other", "error") => Promised
  BY <1>2, <1>4, <1>7, CompletePromised DEF Phases, Codes, CanCancel
<1>11. Complete(h, db, "prepared", "cancelled", "none", "error") => Promised
  BY <1>2, <1>3, <1>4, <1>7, CompletePromised DEF Phases, Codes, CanCancel
<1>12. QED
  BY <1>1, <1>9, <1>10, <1>11

LEMMA RefreshPreparePromised ==
    ASSUME IInv, TInv, AInv, NEW h \in Handlers, Running(h), handler[h].pc # "idle",
           handler[h].cmd \in {"refresh"} \cup Tasks, NEW pc \in {"pend", "reject"},
           PrepareStep(h, NewOperation("refresh", db.acct.rev, db.cred, NoCredential,
                                       NoOperation), pc)
    PROVE  Promised
<1> DEFINE op == NewOperation("refresh", db.acct.rev, db.cred, NoCredential, NoOperation)
<1>1. "refresh" \in Kinds /\ db.acct.rev \in Nat /\ db.cred \in Credential
  BY OpType DEF Kinds, Running
<1>2. op \in Operation /\ op.phase = "prepared" /\ op.by = NoOperation
  BY <1>1, BindingType, NewOperationType
<1>3. op.kind = "refresh" /\ op.target = NoCredential
  BY DEF NewOperation
<1> HIDE DEF op
<1>4. receipt[handler[h].o].state # "none" => receipt[handler[h].o].cmd = "refresh"
  BY DEF AInv, TInv, HandlerTokens, Commands
<1>5. receipt[handler[h].o].state # "none" => Fits(receipt[handler[h].o].cmd, op)
  BY <1>3, <1>4 DEF Fits
<1>6. QED
  BY <1>2, <1>3, <1>5, PreparesPromised DEF op

LEMMA ReplayRefreshPromised ==
    ASSUME IInv, TInv, AInv, NEW h \in Handlers, Acquire(h, "refresh"),
           NEW call, Op(h).phase # "none", ReplayRefresh(h, call)
    PROVE  Promised
<1> DEFINE o == handler[h].o
<1>1. /\ Running(h) /\ o \in Operations /\ handler[h].pc # "idle"
      /\ receipt[o].cmd = "refresh" /\ receipt[o].state # "none"
  BY CommandWaits DEF Commands
<1>2. /\ Op(h).phase \in Phases /\ "pending" \in Phases /\ "applied" \in Phases
      /\ "cancelled" \in Phases /\ "prepared" \in Phases /\ "recovery" \in Phases
      /\ "other" \in Codes /\ "none" \in Codes
  BY <1>1, OpType DEF Op, Phases, Codes
<1>3. \A pc \in {"commit", "complete"} : Resume(h, pc) => Promised
  BY <1>1, ResumesPromised DEF Steps, Ready
<1>4. AdvanceStep(h, "pending", "applied", "commit") => Promised
  BY <1>1, <1>2, AdvancesPromised DEF Unready, Steps
<1>5. /\ Complete(h, db, "pending", "recovery", "other", "error") => Promised
      /\ Complete(h, db, Op(h).phase, Op(h).phase, "none", "error") => Promised
  BY <1>1, <1>2, CompletesPromised
<1>6. Complete(h, db, "prepared", "cancelled", "none", "error") => Promised
  <2>1. db.ops[o].phase = "prepared" => db.cred = db.ops[o].expected
    BY <1>1, RowHere DEF Rowed, Fits
  <2>2. CanCancel(db, o, "prepared", "cancelled")
    BY <2>1 DEF CanCancel
  <2>3. QED
    BY <1>1, <1>2, <2>2, Here, SameLawfully, CompletePromised
<1>7. Abandon(h) => Promised
  BY <1>1, EndsPromised
<1>8. QED
  BY <1>3, <1>4, <1>5, <1>6, <1>7 DEF ReplayRefresh

LEMMA BeginRefreshPromised ==
    ASSUME IInv, TInv, AInv, NEW h \in Handlers, BeginRefresh(h) \/ BeginBackground(h)
    PROVE  Promised
<1> DEFINE Prepared == PrepareStep(h, NewOperation("refresh", db.acct.rev, db.cred, NoCredential,
                                                   NoOperation), "pend")
<1>1. /\ Running(h) /\ handler[h].pc # "idle" /\ handler[h].cmd \in {"refresh", "background"}
  BY CommandWaits DEF BeginRefresh, BeginBackground
<1>2. PICK call \in Calls :
         \/ Refuse(h) \/ Abandon(h) \/ Prepared
         \/ Acquire(h, "refresh") /\ Op(h).phase # "none" /\ ReplayRefresh(h, call)
  BY DEF BeginRefresh, BeginBackground
<1>3. Prepared => Promised
  BY <1>1, RefreshPreparePromised DEF Tasks
<1>4. QED
  BY <1>1, <1>2, <1>3, EndsPromised, ReplayRefreshPromised

LEMMA PendPromised ==
    ASSUME IInv, TInv, AInv, NEW h \in Handlers, Pend(h)
    PROVE  Promised
<1>1. Running(h) /\ handler[h].pc # "idle"
  BY WorkerReady DEF Pend, At
<1>2. QED
  BY <1>1, AdvancesPromised DEF Pend, Phases, Unready, Steps

LEMMA ProviderPromised ==
    ASSUME IInv, TInv, AInv, NEW h \in Handlers, NEW result \in Results, Provider(h, result)
    PROVE  Promised
<1>1. Running(h) /\ handler[h].pc # "idle"
  BY WorkerReady DEF Provider, At
<1>2. UNCHANGED <<db, receipt>>
  BY DEF Provider
<1>3. /\ handler'[h].pc = "resolve" /\ handler'[h].o = handler[h].o
      /\ handler'[h].cmd = handler[h].cmd
      /\ \A g \in Handlers : g # h => handler'[g] = handler[g]
  <2>1. handler' = [handler EXCEPT ![h].pc = "resolve", ![h].result = result,
                                   ![h].token = IF result = "rotated" THEN issued + 1 ELSE 0]
    BY DEF Provider
  <2>2. QED
    BY ZenonT(60), <2>1 DEF IInv, Sound, TypeOK, Handler
<1>4. SameCommands /\ Lawfully(db, db')
  BY <1>2, SameLawfully DEF SameCommands
<1>5. Ready(handler'[h].pc, handler'[h], db')
  BY <1>3 DEF Ready
<1>6. QED
  BY <1>1, <1>3, <1>4, <1>5, WorkerPromised

LEMMA ResolvePromised ==
    ASSUME IInv, TInv, AInv, NEW h \in Handlers, Resolve(h)
    PROVE  Promised
<1> DEFINE o == handler[h].o
           target == Binding(db.cred.v + 1, o, handler[h].token)
           r == SetTarget(db, o, target)
<1>1. /\ Running(h) /\ o \in Operations /\ handler[h].pc # "idle"
      /\ db.ops[o].kind = "refresh" /\ db.ops[o].target = NoCredential
  BY WorkerReady DEF Resolve, At, Presumes, Guilty
<1>2. db.ops[o].phase = "pending"
  BY HolderRuns DEF Resolve, At, AtPhase
<1>3. db.cred = db.ops[o].expected
  BY <1>1, <1>2, RowHere DEF Rowed
<1>4. target \in Credential /\ target # NoCredential
  <2>1. db.cred.v \in Nat /\ handler[h].token \in Nat
    BY DEF IInv, Sound, TypeOK, Database, Credential, Handler
  <2>2. target.v = db.cred.v + 1
    BY DEF Binding
  <2>3. QED
    BY <1>1, <2>1, <2>2, BindingType DEF NoCredential
<1> HIDE DEF target
<1>5. Step(h, r, "rotate") => Promised
  <2>1. Lawfully(db, r.db) /\ r.db.cred = db.cred /\ r.db.ops[o].expected = db.ops[o].expected
    BY <1>1, <1>4, TargetLawful DEF IInv, AInv
  <2> HIDE DEF r
  <2>2. Ready("rotate", handler[h], r.db) /\ "rotate" \in Steps
    BY <1>3, <2>1 DEF Ready, Steps
  <2>3. QED
    BY <1>1, <2>1, <2>2, StepPromised
<1>6. CanCancel(db, o, "pending", "cancelled")
  BY <1>3 DEF CanCancel
<1>7. \A answer : Complete(h, db, "pending", "cancelled", "none", answer) => Promised
  BY <1>1, <1>6, Here, SameLawfully, CompletePromised DEF Phases, Codes
<1>8. \A code \in Codes : Complete(h, db, "pending", "recovery", code, "error") => Promised
  BY <1>1, CompletesPromised DEF Phases
<1>9. QED
  BY <1>5, <1>7, <1>8 DEF Resolve, Codes, target

LEMMA RotatePromised ==
    ASSUME IInv, TInv, AInv, NEW h \in Handlers, Rotate(h)
    PROVE  Promised
<1> DEFINE o == handler[h].o
           r == RotateCredential(db, Op(h).expected, Op(h).target)
           Outcome(d) ==
              \/ Complete(h, d, "pending", "recovery", "other", "error")
              \/ Step(h, Result("applied", d), "apply")
              \/ d = db /\ Complete(h, d, "prepared", "cancelled", "none", "error")
              \/ Complete(h, d, "prepared", "recovery", "other", "error")
<1>1. Step(h, r, "apply") \/ \E d \in {db, r.db} : Outcome(d)
  BY DEF Rotate
<1>2. /\ Running(h) /\ o \in Operations /\ handler[h].pc # "idle"
      /\ IsUnsettled(db.ops[o]) /\ db.cred = db.ops[o].expected
  BY WorkerReady DEF Rotate, At, Presumes, Ready
<1>3. ~Held(db.ops, o)
  BY <1>2, RowHere, HolderRuns, HeldIsRecovery DEF Rotate, At, AtPhase
<1>4. SameRows(db) /\ SameRows(r.db)
  BY <1>2, Here, OpType, CredentialSameRows DEF IInv, Op
<1>5. r.db # db => r.db.cred = Op(h).target /\ r.db.cred # NoCredential
  <2>1. Op(h).expected.v \in Nat
    BY <1>2, OpType DEF Op, Credential
  <2>2. r.db # db => /\ r.db = [db EXCEPT !.cred = Op(h).target]
                     /\ Op(h).target.v = Op(h).expected.v + 1
    BY DEF RotateCredential, Result
  <2>3. r.db # db => Op(h).target # NoCredential
    BY <2>1, <2>2 DEF NoCredential
  <2>4. QED
    BY <1>4, <2>2, <2>3 DEF SameRows, Database
<1> HIDE DEF r
<1>6. Lawfully(db, r.db) /\ Lawfully(db, db)
  BY <1>2, <1>3, <1>4, <1>5, CredentialLawful, SameLawfully DEF IInv, AInv, Op
<1>7. \A d : Ready("apply", handler[h], d) /\ "apply" \in Steps
  BY DEF Ready, Steps
<1>8. Step(h, r, "apply") => Promised
  BY <1>2, <1>6, <1>7, StepPromised
<1>9. ASSUME NEW d \in {db, r.db}, Outcome(d)
      PROVE  Promised
  <2>1. Result("applied", d).db = d /\ SameRows(d) /\ Lawfully(db, d)
    BY <1>4, <1>6 DEF Result
  <2>2. Step(h, Result("applied", d), "apply") => Promised
    BY <1>2, <1>7, <2>1, StepPromised
  <2>3. /\ Complete(h, d, "pending", "recovery", "other", "error") => Promised
        /\ Complete(h, d, "prepared", "recovery", "other", "error") => Promised
    BY <1>2, <2>1, CompletePromised DEF Phases, Codes, CanCancel
  <2>4. d = db /\ Complete(h, d, "prepared", "cancelled", "none", "error") => Promised
    <3>1. CanCancel(db, o, "prepared", "cancelled")
      BY <1>2 DEF CanCancel
    <3>2. QED
      BY <1>2, <2>1, <3>1, CompletePromised DEF Phases, Codes
  <2>5. QED
    BY <1>9, <2>2, <2>3, <2>4
<1>10. QED
  BY <1>1, <1>8, <1>9

(* classify_prepared_refresh_reconciliation: what is not applied has left  *)
(* the credential it found.                                                *)
LEMMA UnappliedFound ==
    ASSUME IInv, AInv, NEW o \in Operations, NEW call, db.ops[o].kind = "refresh",
           db.ops[o].phase = "prepared", PreparedRefresh(db.ops[o], call) = "not_applied"
    PROVE  db.cred = db.ops[o].expected
<1>1. CASE db.ops[o].target = NoCredential
  BY <1>1, RowHere DEF Rowed
<1>2. CASE db.ops[o].target # NoCredential
  BY <1>2 DEF PreparedRefresh
<1>3. QED
  BY <1>1, <1>2

LEMMA ReplayReauthPromised ==
    ASSUME IInv, TInv, AInv, NEW h \in Handlers, Acquire(h, "reauth"),
           NEW call, Op(h).phase # "none", ReplayReauth(h, call)
    PROVE  Promised
<1> DEFINE o == handler[h].o
<1>1. /\ Running(h) /\ o \in Operations /\ handler[h].pc # "idle"
      /\ receipt[o].cmd = "reauth" /\ receipt[o].state # "none"
  BY CommandWaits DEF Commands
<1>2. /\ Op(h).phase \in Phases /\ "applied" \in Phases /\ "cancelled" \in Phases
      /\ "prepared" \in Phases /\ "recovery" \in Phases /\ "other" \in Codes /\ "none" \in Codes
  BY <1>1, OpType DEF Op, Phases, Codes
<1>3. Resume(h, "complete") => Promised
  BY <1>1, ResumesPromised DEF Steps, Ready
<1>4. AdvanceStep(h, Op(h).phase, "applied", "complete") => Promised
  BY <1>1, <1>2, AdvancesPromised DEF Unready, Steps
<1>5. /\ Complete(h, db, "cancelled", "cancelled", "none", "error") => Promised
      /\ Complete(h, db, Op(h).phase, "recovery", "other", "error") => Promised
  BY <1>1, <1>2, CompletesPromised
<1>6. ASSUME Op(h).phase = "prepared", PreparedRefresh(Op(h), call) = "not_applied",
             Complete(h, db, "prepared", "cancelled", "none", "error")
      PROVE  Promised
  <2>1. db.ops[o].kind = "refresh"
    BY <1>1, <1>6, RowHere DEF Rowed, Fits, Op
  <2>2. CanCancel(db, o, "prepared", "cancelled")
    BY <1>1, <1>6, <2>1, UnappliedFound DEF CanCancel, Op
  <2>3. QED
    BY <1>1, <1>2, <1>6, <2>2, Here, SameLawfully, CompletePromised
<1>7. QED
  BY <1>3, <1>4, <1>5, <1>6 DEF ReplayReauth

LEMMA BeginReauthPromised ==
    ASSUME IInv, TInv, AInv, NEW h \in Handlers, BeginReauth(h)
    PROVE  Promised
<1> DEFINE o == handler[h].o
           target == Binding(db.cred.v + 1, o, receipt[o].token)
           op == NewOperation("refresh", receipt[o].rev, db.cred, target, receipt[o].recovers)
<1>1. PICK call \in Calls :
         \/ Refuse(h)
         \/ Op(h).phase # "none" /\ ReplayReauth(h, call)
         \/ Op(h).phase = "none" /\ PrepareStep(h, op, "rotate")
  BY DEF BeginReauth
<1>2. /\ Acquire(h, "reauth") /\ Running(h) /\ o \in Operations /\ handler[h].pc # "idle"
      /\ receipt[o].cmd = "reauth"
  BY CommandWaits DEF BeginReauth, Commands
<1>3. /\ receipt[o].token \in Nat /\ receipt[o].rev \in Nat /\ receipt[o].recovers \in Reference
      /\ db.cred \in Credential /\ "refresh" \in Kinds
  BY <1>2, ReceiptFields, OpType DEF Kinds
<1>4. target \in Credential /\ target.by = o
  <2>1. db.cred.v + 1 \in Nat
    BY <1>3 DEF Credential
  <2>2. QED
    BY <1>2, <1>3, <2>1, BindingType DEF Binding
<1> HIDE DEF target
<1>5. op \in Operation /\ op.phase = "prepared" /\ op.by = NoOperation
  BY <1>3, <1>4, NewOperationType
<1>6. op.target = target /\ op.kind = "refresh"
  BY DEF NewOperation
<1>7. Fits(receipt[o].cmd, op)
  BY <1>2, <1>6 DEF Fits
<1> HIDE DEF op
<1>8. Op(h).phase = "none" /\ PrepareStep(h, op, "rotate") => Promised
  BY <1>2, <1>4, <1>5, <1>6, <1>7, PreparesPromised DEF Op
<1>9. QED
  BY <1>1, <1>2, <1>8, EndsPromised, ReplayReauthPromised

LEMMA BeginLogoutPromised ==
    ASSUME IInv, TInv, AInv, NEW h \in Handlers, BeginLogout(h)
    PROVE  Promised
<1> DEFINE o == handler[h].o
           op == NewOperation("logout", receipt[o].rev, db.cred, NoCredential, RejectedRecovery)
<1>1. /\ Running(h) /\ o \in Operations /\ handler[h].pc # "idle"
      /\ receipt[o].cmd = "logout" /\ receipt[o].state # "none"
  BY CommandWaits DEF BeginLogout, Commands
<1>2. op \in Operation /\ op.phase = "prepared" /\ op.by = NoOperation
  <2>1. receipt[o].rev \in Nat /\ db.cred \in Credential /\ "logout" \in Kinds
    BY <1>1, ReceiptFields, OpType DEF Kinds
  <2>2. QED
    BY <2>1, BindingType, RecoveryTypes, NewOperationType
<1>3. op.target = NoCredential /\ op.kind = "logout"
  BY DEF NewOperation
<1>4. Fits(receipt[o].cmd, op)
  BY <1>1, <1>3 DEF Fits
<1> HIDE DEF op
<1>5. PrepareStep(h, op, "delete") => Promised
  BY <1>1, <1>2, <1>3, <1>4, PreparesPromised
<1>6. Resume(h, "complete") => Promised
  BY <1>1, ResumesPromised DEF Steps, Ready
<1>7. Op(h).phase = "prepared" /\ Resume(h, "delete") => Promised
  <2>1. Op(h).phase = "prepared" => db.ops[o].kind = "logout" /\ IsUnsettled(db.ops[o])
    BY <1>1, RowHere DEF Rowed, Fits, Op
  <2>2. Op(h).phase = "prepared" => Ready("delete", handler[h], db) /\ "delete" \in Steps
    BY <2>1 DEF Ready, Steps
  <2>3. QED
    BY <1>1, <2>2, ResumesPromised
<1>8. Complete(h, db, Op(h).phase, Op(h).phase, "none", "error") => Promised
  <2>1. Op(h).phase \in Phases /\ "none" \in Codes
    BY <1>1, OpType DEF Op, Codes
  <2>2. QED
    BY <1>1, <2>1, CompletesPromised
<1>9. Refuse(h) => Promised
  BY <1>1, EndsPromised
<1>10. QED
  BY <1>5, <1>6, <1>7, <1>8, <1>9 DEF BeginLogout, op

(* A logout that is still unsettled deletes the credential it found, or    *)
(* nothing.                                                                *)
LEMMA DeletesLawful ==
    ASSUME IInv, AInv, NEW o \in Operations, db.ops[o].kind = "logout", IsUnsettled(db.ops[o])
    PROVE  LET d == DeleteCredential(db, db.ops[o].expected).db
           IN SameRows(d) /\ Lawfully(db, d)
<1> DEFINE d == DeleteCredential(db, db.ops[o].expected).db
<1>1. SameRows(d)
  BY BindingType, CredentialSameRows DEF IInv
<1>2. ~Held(db.ops, o)
  BY RowHere, HeldIsRecovery
<1>3. d # db => db.cred = db.ops[o].expected /\ d = [db EXCEPT !.cred = NoCredential]
  BY DEF DeleteCredential, ReadExact, Result
<1>4. d # db => d.cred = NoCredential
  BY <1>1, <1>3 DEF SameRows, Database
<1> HIDE DEF d
<1>5. Lawfully(db, d)
  BY <1>1, <1>2, <1>3, <1>4, CredentialLawful DEF IInv, AInv
<1>6. QED
  BY <1>1, <1>5 DEF d

LEMMA DeletePromised ==
    ASSUME IInv, TInv, AInv, NEW h \in Handlers, Delete(h)
    PROVE  Promised
<1> DEFINE r == DeleteCredential(db, Op(h).expected)
           code == IF Op(h).phase = "recovery" THEN "none" ELSE "other"
<1>1. \/ \E d \in {db, r.db} : Complete(h, d, Op(h).phase, "recovery", code, "error")
      \/ Step(h, Result("applied", r.db), "apply")
  BY DEF Delete
<1>2. /\ Running(h) /\ handler[h].o \in Operations /\ handler[h].pc # "idle"
      /\ Op(h).kind = "logout" /\ IsUnsettled(Op(h))
  BY WorkerReady DEF Delete, At, Ready, Op
<1>3. SameRows(r.db) /\ Lawfully(db, r.db) /\ SameRows(db) /\ Lawfully(db, db)
  BY <1>2, DeletesLawful, Here, SameLawfully DEF Op
<1>4. Op(h).phase \in Phases /\ code \in Codes /\ "recovery" \in Phases
  BY <1>2, OpType DEF Op, Codes, Phases
<1> HIDE DEF r, code
<1>5. \A d \in {db, r.db} : Complete(h, d, Op(h).phase, "recovery", code, "error") => Promised
  BY <1>2, <1>3, <1>4, CompletePromised DEF CanCancel
<1>6. Step(h, Result("applied", r.db), "apply") => Promised
  <2>1. Result("applied", r.db).db = r.db
    BY DEF Result
  <2>2. Ready("apply", handler[h], r.db) /\ "apply" \in Steps
    BY DEF Ready, Steps
  <2>3. QED
    BY <1>2, <1>3, <2>1, <2>2, StepPromised
<1>7. QED
  BY <1>1, <1>5, <1>6

LEMMA ObservePromised ==
    ASSUME IInv, TInv, AInv, NEW h \in Handlers, BeginObserve(h) \/ Reject(h)
    PROVE  Promised
<1>1. CASE BeginObserve(h)
  <2>1. Running(h) /\ handler[h].pc # "idle" /\ handler[h].cmd \in Tasks
    BY <1>1, CommandWaits DEF BeginObserve, Tasks
  <2>2. QED
    BY <1>1, <2>1, EndsPromised, RefreshPreparePromised DEF BeginObserve
<1>2. CASE Reject(h)
  <2>1. Running(h) /\ handler[h].pc # "idle"
    BY <1>2, WorkerReady DEF Reject, At
  <2>2. Complete(h, db, "prepared", "recovery", "rejected", "error")
    BY <1>2 DEF Reject
  <2>3. QED
    BY <2>1, <2>2, CompletesPromised DEF Phases, Codes
<1>3. QED
  BY <1>1, <1>2

LEMMA ApplyPromised ==
    ASSUME IInv, TInv, AInv, NEW h \in Handlers, Apply(h)
    PROVE  Promised
<1>1. Running(h) /\ handler[h].o \in Operations /\ handler[h].pc # "idle"
  BY WorkerReady DEF Apply, At
<1>2. Op(h).phase \in Phases /\ "applied" \in Phases
  BY <1>1, OpType DEF Op, Phases
<1>3. QED
  BY <1>1, <1>2, AdvancesPromised DEF Apply, Unready, Steps

LEMMA CommitPromised ==
    ASSUME IInv, TInv, AInv, NEW h \in Handlers, Commit(h) \/ CompleteSuccess(h)
    PROVE  Promised
<1> DEFINE r == Advance(db, handler[h].o, "applied", "committed", "none", inUse)
<1>1. /\ Running(h) /\ handler[h].o \in Operations /\ handler[h].pc # "idle"
  BY WorkerReady DEF Commit, CompleteSuccess, At
<1>2. "applied" \in Phases /\ "committed" \in Phases /\ "none" \in Codes
  BY DEF Phases, Codes
<1>3. CASE Commit(h) /\ Step(h, r, "complete")
  <2>1. AdvanceStep(h, "applied", "committed", "complete")
    BY <1>3 DEF AdvanceStep
  <2>2. QED
    BY <1>1, <1>2, <2>1, AdvancesPromised DEF Unready, Steps
<1>4. CASE Commit(h) /\ db' = r.db /\ Finish(h) /\ UNCHANGED <<receipt, unanswered>>
  <2>1. db \in Database /\ Journal(db.ops) /\ Form(db)
    BY DEF IInv, Sound, TypeOK, AInv
  <2>2. CanCancel(db, handler[h].o, "applied", "committed")
    BY DEF CanCancel
  <2>3. Lawfully(db, r.db)
    BY <1>1, <1>2, <2>1, <2>2, AdvanceForms, AdvanceLawful DEF Lawfully
  <2>4. SameCommands
    BY <1>4 DEF SameCommands
  <2> HIDE DEF r
  <2>5. QED
    BY <1>1, <1>4, <2>3, <2>4, FinishPromised
<1>5. CASE CompleteSuccess(h)
  <2>1. Complete(h, db, "applied", "committed", "none", "ok")
    BY <1>5 DEF CompleteSuccess
  <2>2. QED
    BY <1>1, <1>2, <2>1, CompletesPromised
<1>6. QED
  BY <1>3, <1>4, <1>5 DEF Commit

(* What is proved not applied can be cancelled.                            *)
LEMMA NotAppliedCancels ==
    ASSUME IInv, AInv, NEW o \in Operations, NEW call, ProvedNotApplied(db.ops[o], call)
    PROVE  db.ops[o].phase = "prepared" /\ CanCancel(db, o, "prepared", "cancelled")
<1>1. db.ops[o].phase = "prepared"
  BY DEF ProvedNotApplied
<1>2. CASE db.ops[o].kind = "enroll"
  BY <1>1, <1>2, RowHere DEF Rowed, CanCancel
<1>3. CASE db.ops[o].kind = "refresh" /\ PreparedRefresh(db.ops[o], call) = "not_applied"
  BY <1>1, <1>3, UnappliedFound DEF CanCancel
<1>4. QED
  BY <1>1, <1>2, <1>3 DEF ProvedNotApplied

LEMMA ReconcileExactPromised ==
    ASSUME IInv, TInv, AInv, NEW h \in Handlers, Running(h), handler[h].pc # "idle", NEW call,
           Op(h).phase \notin {"committed", "cancelled"}, Op(h).by = NoOperation,
           ReconcileExact(h, call)
    PROVE  Promised
<1> DEFINE op == Op(h)
           code == IF op.phase = "recovery" THEN "none" ELSE "other"
<1>1. op.phase \in Phases /\ code \in Codes /\ handler[h].o \in Operations
  BY OpType DEF Op, Running, Codes
<1>2. /\ "committed" \in Phases /\ "cancelled" \in Phases /\ "applied" \in Phases
      /\ "recovery" \in Phases /\ "prepared" \in Phases /\ "none" \in Codes
  BY DEF Phases, Codes
<1>3. /\ Complete(h, db, "applied", "committed", "none", "ok") => Promised
      /\ Complete(h, db, op.phase, "recovery", code, "error") => Promised
  BY <1>1, <1>2, CompletesPromised
<1>4. AdvanceStep(h, op.phase, "applied", "complete") => Promised
  BY <1>1, <1>2, AdvancesPromised DEF Unready, Steps
<1>5. op.kind = "logout" /\ Resume(h, "delete") => Promised
  <2>1. op.kind = "logout" => IsUnsettled(op)
    BY <1>1, RowHere DEF Rowed, IsUnsettled, UnsettledPhases, Phases, Op
  <2>2. op.kind = "logout" => Ready("delete", handler[h], db) /\ "delete" \in Steps
    BY <2>1 DEF Ready, Steps, Op
  <2>3. QED
    BY <2>2, ResumesPromised
<1>6. ASSUME ProvedNotApplied(op, call), Complete(h, db, "prepared", "cancelled", "none", "ok")
      PROVE  Promised
  <2>1. CanCancel(db, handler[h].o, "prepared", "cancelled")
    BY <1>1, <1>6, NotAppliedCancels DEF Op
  <2>2. QED
    BY <1>1, <1>2, <1>6, <2>1, Here, SameLawfully, CompletePromised
<1>7. QED
  BY <1>3, <1>4, <1>5, <1>6 DEF ReconcileExact

(* A manual recovery cancels only what has changed nothing.                *)
LEMMA AbsentCancels ==
    ASSUME IInv, AInv, NEW o \in Operations, NEW call \in Calls, db.ops[o].by = NoOperation,
           ProvedAbsent(db.ops[o], call)
    PROVE  CanCancel(db, o, db.ops[o].phase, "cancelled")
<1>1. CASE db.ops[o].kind = "enroll"
  <2>1. IsUnsettled(db.ops[o])
    BY <1>1 DEF ProvedAbsent, IsUnsettled, UnsettledPhases
  <2>2. db.acct.row # "live" /\ ~Held(db.ops, o)
    BY <1>1, <2>1, RowHere, HeldIsRecovery DEF Rowed
  <2>3. QED
    BY <2>2 DEF CanCancel
<1>2. CASE db.ops[o].kind # "enroll"
  <2>1. Seen(call, db.ops[o].expected) = "exact"
    BY <1>2 DEF ProvedAbsent
  <2>2. db.cred = db.ops[o].expected
    BY <2>1 DEF Seen, ReadExact, Calls
  <2>3. db.ops[o].phase = "recovery" => ~Held(db.ops, o)
    <3>1. db.ops[o].phase = "recovery" =>
             db.ops[o].kind = "logout" \/ db.ops[o].recovers # NoOperation
      BY <1>2 DEF ProvedAbsent
    <3>2. QED
      BY <3>1, RowHere, HeldIsRecovery
  <2>4. QED
    BY <2>2, <2>3 DEF CanCancel
<1>3. QED
  BY <1>1, <1>2

LEMMA RecoverPromised ==
    ASSUME IInv, TInv, AInv, NEW h \in Handlers, NEW cmd \in Recoveries, Recover(h, cmd)
    PROVE  Promised
<1> DEFINE op == Op(h)
<1>1. PICK call \in Calls :
         \/ Refuse(h) \/ Abandon(h)
         \/ /\ op.phase \notin {"committed", "cancelled"} /\ op.by = NoOperation
            /\ ReconcileExact(h, call)
         \/ Complete(h, db, op.phase, op.phase, "none", "ok")
         \/ /\ op.by = NoOperation /\ ProvedAbsent(op, call)
            /\ Complete(h, db, op.phase, "cancelled", "none", "ok")
         \/ Complete(h, db, op.phase, op.phase, "none", "error")
  BY DEF Recover
<1>2. Running(h) /\ handler[h].o \in Operations /\ handler[h].pc # "idle"
  BY CommandWaits DEF Recover
<1>3. op.phase \in Phases /\ "cancelled" \in Phases /\ "none" \in Codes
  BY <1>2, OpType DEF Op, Phases, Codes
<1>4. /\ Complete(h, db, op.phase, op.phase, "none", "error") => Promised
      /\ Complete(h, db, op.phase, op.phase, "none", "ok") => Promised
  BY <1>2, <1>3, CompletesPromised
<1>5. ASSUME op.by = NoOperation, ProvedAbsent(op, call),
             Complete(h, db, op.phase, "cancelled", "none", "ok")
      PROVE  Promised
  <2>1. CanCancel(db, handler[h].o, op.phase, "cancelled")
    BY <1>2, <1>5, AbsentCancels DEF Op
  <2>2. QED
    BY <1>2, <1>3, <1>5, <2>1, Here, SameLawfully, CompletePromised
<1>6. QED
  BY <1>1, <1>2, <1>4, <1>5, EndsPromised, ReconcileExactPromised

LEMMA JournalFailsPromised ==
    ASSUME IInv, TInv, AInv, NEW h \in Handlers, JournalFails(h)
    PROVE  Promised
<1>1. Running(h) /\ handler[h].pc # "idle"
  BY HolderRuns DEF JournalFails, IInv, Busy
<1>2. QED
  BY <1>1, EndsPromised DEF JournalFails

LEMMA HandlerStepPromised ==
    ASSUME IInv, TInv, AInv, NEW h \in Handlers, HandlerStep(h)
    PROVE  Promised
  BY BeginEnrollPromised, BeginRefreshPromised, BeginReauthPromised, BeginLogoutPromised,
     ObservePromised, RecoverPromised, CreatePromised, PendPromised, ProviderPromised,
     ResolvePromised, RotatePromised, DeletePromised, ApplyPromised, CommitPromised
     DEF HandlerStep

----------------------------------------------------------------------------
(* Startup and the rest of the world keep the promise.                     *)

(* A handler goes on as it was, or is gone, or begins to wait.             *)
LEMMA WorldPromised ==
    ASSUME IInv, AInv, SameCommands, Lawfully(db, db'),
           \A g \in Handlers :
              \/ handler'[g] = handler[g]
              \/ /\ handler'[g].pc \in {"idle", "wait"}
                 /\ handler'[g].pc # "idle" /\ handler'[g].cmd \in Tasks =>
                       handler'[g].o \in Operations /\ receipt[handler'[g].o].state = "none",
           db' = db \/ \A g \in Handlers : handler'[g].pc \in {"idle", "wait"}
    PROVE  Promised
<1>1. Form(db)'
  BY FormLater DEF Lawfully
<1>2. ASSUME NEW g \in Handlers, handler'[g].pc # "idle"
      PROVE  /\ Ready(handler[g].pc, handler[g], db)'
             /\ handler'[g].cmd \in Tasks => receipt'[handler'[g].o].state = "none"
  <2>1. Ready(handler[g].pc, handler[g], db)'
    <3>1. CASE handler'[g].pc = "wait"
      BY <3>1 DEF Ready
    <3>2. CASE handler'[g].pc # "wait"
      <4>1. db' = db /\ handler'[g] = handler[g]
        BY <1>2, <3>2
      <4>2. Ready(handler[g].pc, handler[g], db)
        BY <1>2, <4>1 DEF AInv
      <4>3. QED
        BY <4>1, <4>2 DEF Ready
    <3>3. QED
      BY <3>1, <3>2
  <2>2. handler'[g].cmd \in Tasks => /\ handler'[g].o \in Operations
                                     /\ receipt[handler'[g].o].state = "none"
    BY <1>2 DEF AInv, IInv, Busy
  <2>3. QED
    BY <2>1, <2>2 DEF SameCommands
<1>3. QED
  BY <1>1, <1>2 DEF AInv, Promised, Lawfully

LEMMA SettlePromised ==
    ASSUME IInv, AInv, Startup, StartupKeeps, NEW r, Lawfully(db, r.db), Settle(r)
    PROVE  Promised
<1>1. \A h \in Handlers : handler[h].pc \in {"idle", "wait"}
  BY NobodyRuns DEF Startup
<1>2. UNCHANGED <<receipt, handler>>
  BY DEF Startup
<1>3. Lawfully(db, db')
  BY SameLawfully DEF Settle
<1>4. SameCommands
  BY <1>2 DEF SameCommands
<1>5. QED
  BY <1>1, <1>2, <1>3, <1>4, WorldPromised

LEMMA ReconcilePromised ==
    ASSUME IInv, AInv, NEW o \in Operations, Reconcile(o)
    PROVE  Promised
<1> DEFINE op == db.ops[o]
           To(to, code) == Settle(Advance(db, o, op.phase, to, code, inUse))
<1>1. PICK call \in Calls :
         \/ To("committed", "none") \/ To("applied", "none") \/ To("recovery", "other")
         \/ ProvedNotApplied(op, call) /\ To("cancelled", "none")
  BY DEF Reconcile
<1>2. op.phase \in Phases /\ "committed" \in Phases /\ "applied" \in Phases
      /\ "cancelled" \in Phases /\ "recovery" \in Phases /\ "none" \in Codes /\ "other" \in Codes
  BY OpType DEF Phases, Codes
<1>3. ASSUME NEW to \in Phases, NEW code \in Codes, CanCancel(db, o, op.phase, to), To(to, code)
      PROVE  Promised
  <2>1. db \in Database /\ Journal(db.ops) /\ Form(db)
    BY DEF IInv, Sound, TypeOK, AInv
  <2>2. Lawfully(db, Advance(db, o, op.phase, to, code, inUse).db)
    BY <1>2, <1>3, <2>1, AdvanceForms, AdvanceLawful DEF Lawfully
  <2>3. QED
    BY <1>3, <2>2, SettlePromised DEF Reconcile
<1>4. /\ CanCancel(db, o, op.phase, "committed") /\ CanCancel(db, o, op.phase, "applied")
      /\ CanCancel(db, o, op.phase, "recovery")
  BY DEF CanCancel
<1>5. ProvedNotApplied(op, call) => CanCancel(db, o, op.phase, "cancelled")
  BY NotAppliedCancels
<1> HIDE DEF To
<1>6. QED
  BY <1>1, <1>2, <1>3, <1>4, <1>5

LEMMA ReconcileLogoutPromised ==
    ASSUME IInv, AInv, NEW o \in Operations, ReconcileLogout(o)
    PROVE  Promised
<1> DEFINE r == DeleteCredential(db, db.ops[o].expected)
           To(d, to, code) == Settle(Advance(d, o, "prepared", to, code, inUse))
<1>1. \/ \E d \in {db, r.db} : To(d, "recovery", "other")
      \/ To(db, "applied", "none") \/ Settle(r)
  BY DEF ReconcileLogout
<1>2. db.ops[o].kind = "logout" /\ IsUnsettled(db.ops[o])
  BY RowHere DEF ReconcileLogout
<1>3. SameRows(r.db) /\ Lawfully(db, r.db) /\ SameRows(db) /\ Lawfully(db, db)
  BY <1>2, DeletesLawful, Here, SameLawfully
<1>4. ASSUME NEW d \in {db, r.db}, NEW to \in {"recovery", "applied"}, NEW code \in Codes,
             To(d, to, code)
      PROVE  Promised
  <2> DEFINE e == Advance(d, o, "prepared", to, code, inUse).db
  <2>1. d \in Database /\ Journal(d.ops) /\ Form(d) /\ Lawful(db, d)
    BY <1>3 DEF SameRows, Lawfully, IInv, Sound
  <2>2. CanCancel(d, o, "prepared", to) /\ "prepared" \in Phases /\ to \in Phases
    BY DEF CanCancel, Phases
  <2>3. Form(e) /\ Stays(d, e)
    BY <2>1, <2>2, AdvanceForms, AdvanceLawful
  <2> HIDE DEF e
  <2>4. Lawfully(db, e)
    BY <2>1, <2>3, LawfulThenStays DEF Lawfully
  <2>5. QED
    BY <1>4, <2>4, SettlePromised DEF ReconcileLogout, e
<1>5. Settle(r) => Promised
  BY <1>3, SettlePromised DEF ReconcileLogout
<1> HIDE DEF To, r
<1>6. QED
  BY <1>1, <1>4, <1>5 DEF Codes

(* An observation cancels a refresh that nothing has taken over.           *)
LEMMA AcceptRecoveryPromised ==
    ASSUME IInv, AInv, NEW o \in Operations, AcceptRecovery(o)
    PROVE  Promised
<1>1. o = UnsettledOperation(db) /\ o # NoOperation
  BY StoreAssumption DEF AcceptRecovery, RejectedRecovery
<1>2. ~Held(db.ops, o)
  <2> SUFFICES ASSUME Held(db.ops, o) PROVE FALSE
    OBVIOUS
  <2>1. db.ops[o].recovers = NoOperation
    BY RowHere, HeldIsRecovery
  <2>2. PICK x \in Operations : IsUnsettled(db.ops[x]) /\ db.ops[x].recovers = o
    BY DEF Held
  <2>3. x \in UnsettledOf(db) /\ db.ops[x].recovers # NoOperation
    BY <1>1, <2>2 DEF UnsettledOf
  <2>4. QED
    BY <1>1, <2>1, <2>3, UnsettledChoice
<1>3. CanCancel(db, o, "recovery", "cancelled")
  BY <1>2 DEF CanCancel, AcceptRecovery
<1>4. db \in Database /\ Journal(db.ops) /\ Form(db)
  BY DEF IInv, Sound, TypeOK, AInv
<1>5. Lawfully(db, Advance(db, o, "recovery", "cancelled", "none", inUse).db)
  BY <1>3, <1>4, AdvanceForms, AdvanceLawful DEF Lawfully, Phases, Codes
<1>6. Lawfully(db, db') /\ UNCHANGED <<receipt, handler>>
  BY <1>5 DEF AcceptRecovery
<1>7. \A h \in Handlers : handler[h].pc \in {"idle", "wait"}
  BY NobodyRuns DEF AcceptRecovery
<1>8. SameCommands
  BY <1>6 DEF SameCommands
<1>9. QED
  BY <1>6, <1>7, <1>8, WorldPromised

LEMMA TogglePromised ==
    ASSUME IInv, AInv, NEW enabled \in BOOLEAN, Toggle(enabled)
    PROVE  Promised
<1>1. db'.cred = db.cred /\ db'.ops = db.ops /\ db'.acct.row = db.acct.row
  BY DEF Toggle, SetEnabled, Result, IInv, Sound, TypeOK, Database, Account
<1>2. Stays(db, db')
  BY <1>1 DEF Stays, Alike
<1>3. ASSUME NEW x \in Operations
      PROVE  Rowed(db', x)
  BY <1>1 DEF AInv, Form, Rowed
<1>4. Lawfully(db, db')
  BY <1>1, <1>2, <1>3 DEF Lawfully, Lawful, AInv, Form
<1>5. UNCHANGED <<receipt, handler>>
  BY DEF Toggle
<1>6. \A h \in Handlers : handler[h].pc \in {"idle", "wait"}
  BY NobodyRuns DEF Toggle
<1>7. SameCommands
  BY <1>5 DEF SameCommands
<1>8. QED
  BY <1>4, <1>5, <1>6, <1>7, WorldPromised

LEMMA OutsidePromised ==
    ASSUME IInv, AInv,
           Launch \/ ProcessDies \/ StartupEnds \/ Crash \/ \E o \in Operations : ClaimExpires(o)
    PROVE  Promised
<1>1. db' = db
  BY DEF Launch, ProcessDies, StartupEnds, ClaimExpires, Crash
<1>2. \A x \in Operations :
         receipt'[x].cmd = receipt[x].cmd /\ receipt'[x].state = receipt[x].state
  <2>1. CASE UNCHANGED receipt
    BY <2>1
  <2>2. ASSUME NEW o \in Operations, ClaimExpires(o)
        PROVE  \A x \in Operations :
                  receipt'[x].cmd = receipt[x].cmd /\ receipt'[x].state = receipt[x].state
    BY <2>2 DEF ClaimExpires, IInv, Sound, TypeOK, Receipt
  <2>3. CASE Crash
    BY <2>3 DEF Crash, IInv, Sound, TypeOK, Receipt
  <2>4. QED
    BY <2>1, <2>2, <2>3 DEF Launch, ProcessDies, StartupEnds, Startup
<1>3. \A g \in Handlers : handler'[g] = handler[g] \/ handler'[g].pc = "idle"
  <2>1. CASE UNCHANGED handler
    BY <2>1
  <2>2. CASE Crash
    BY <2>2 DEF Crash, IdleHandler
  <2>3. QED
    BY <2>1, <2>2 DEF Launch, ProcessDies, StartupEnds, Startup, ClaimExpires
<1>4. SameCommands /\ Lawfully(db, db')
  BY <1>1, <1>2, SameLawfully DEF SameCommands
<1>5. QED
  BY <1>1, <1>3, <1>4, WorldPromised

(* A retry, a task or a recovery begins to wait.                           *)
LEMMA WaitersPromised ==
    ASSUME IInv, AInv, NEW h \in Handlers, NEW o \in Operations,
           \/ \E cmd \in Tasks : StartTask(h, o, cmd)
           \/ \E cmd \in Recoveries : SubmitRecovery(h, o, cmd)
           \/ Retry(h, o)
    PROVE  Promised
<1>1. PICK cmd, rev :
         /\ handler' = [handler EXCEPT ![h] = Waiting(cmd, o, rev)]
         /\ cmd \in Tasks => receipt[o].state = "none"
  <2>1. CASE Retry(h, o)
    <3>1. receipt[o].cmd \notin Tasks
      BY DEF IInv, Sound, TypeOK, Receipt, Tasks, Commands
    <3>2. QED
      BY <2>1, <3>1 DEF Retry
  <2>2. ASSUME NEW cmd \in Tasks, StartTask(h, o, cmd)
        PROVE  \E rev : /\ handler' = [handler EXCEPT ![h] = Waiting(cmd, o, rev)]
                        /\ receipt[o].state = "none"
    BY <2>2 DEF StartTask, Unused
  <2>3. ASSUME NEW cmd \in Recoveries, SubmitRecovery(h, o, cmd)
        PROVE  /\ \E rev : handler' = [handler EXCEPT ![h] = Waiting(cmd, o, rev)]
               /\ cmd \notin Tasks
    BY <2>3 DEF SubmitRecovery, Recoveries, Tasks
  <2>4. QED
    BY <2>1, <2>2, <2>3
<1>2. /\ handler'[h] = Waiting(cmd, o, rev)
      /\ \A g \in Handlers : g # h => handler'[g] = handler[g]
  BY <1>1 DEF IInv, Sound, TypeOK
<1>3. /\ Waiting(cmd, o, rev).pc = "wait" /\ Waiting(cmd, o, rev).o = o
      /\ Waiting(cmd, o, rev).cmd = cmd
  BY DEF Waiting, IdleHandler
<1>4. db' = db
  BY DEF StartTask, SubmitRecovery, Retry
<1>5. SameCommands
  <2>1. UNCHANGED receipt \/ receipt' = [receipt EXCEPT ![o].claim = h]
    BY DEF StartTask, SubmitRecovery, Retry
  <2>2. QED
    BY <2>1 DEF SameCommands, IInv, Sound, TypeOK, Receipt
<1>6. Lawfully(db, db')
  BY <1>4, SameLawfully
<1>7. QED
  BY <1>1, <1>2, <1>3, <1>4, <1>5, <1>6, WorldPromised

(* The receipt of a command is reserved before it has an operation.        *)
LEMMA SubmitPromised ==
    ASSUME IInv, AInv, NEW h \in Handlers, NEW o \in Operations, NEW cmd \in Commands,
           Submit(h, o, cmd)
    PROVE  Promised
<1>1. db' = db /\ Unused(o) /\ handler' = [handler EXCEPT ![h] = Waiting(cmd, o, db.acct.rev)]
  BY DEF Submit
<1>2. /\ handler'[h] = Waiting(cmd, o, db.acct.rev)
      /\ \A g \in Handlers : g # h => handler'[g] = handler[g]
  BY <1>1 DEF IInv, Sound, TypeOK
<1>3. handler'[h].pc = "wait" /\ handler'[h].cmd \notin Tasks
  BY <1>2 DEF Waiting, IdleHandler, Tasks, Commands
<1>4. \A x \in Operations : x # o => receipt'[x] = receipt[x]
  BY DEF Submit, IInv, Sound, TypeOK
<1>5. Form(db)'
  <2>1. ASSUME NEW x \in Operations
        PROVE  Rowed(db, x)'
    <3>1. Rowed(db, x)
      BY DEF AInv, Form
    <3>2. CASE x # o
      BY <1>1, <1>4, <3>1, <3>2 DEF Rowed
    <3>3. CASE x = o
      <4>1. db.ops[x].phase = "none"
        BY <1>1, <3>3 DEF Unused
      <4>2. QED
        BY <1>1, <3>1, <4>1 DEF Rowed
    <3>4. QED
      BY <3>2, <3>3
  <2>2. QED
    BY <1>1, <2>1 DEF AInv, Form
<1>6. ASSUME NEW g \in Handlers, handler'[g].pc # "idle"
      PROVE  /\ Ready(handler[g].pc, handler[g], db)'
             /\ handler'[g].cmd \in Tasks => receipt'[handler'[g].o].state = "none"
  <2>1. CASE g = h
    BY <1>3, <2>1 DEF Ready
  <2>2. CASE g # h
    <3>1. handler'[g] = handler[g] /\ handler[g].o # o /\ handler[g].o \in Operations
      BY <1>1, <1>2, <1>6, <2>2 DEF Unused, IInv, Busy
    <3>2. Ready(handler[g].pc, handler[g], db)
      BY <1>6, <3>1 DEF AInv
    <3>3. Ready(handler[g].pc, handler[g], db)'
      BY <1>1, <3>1, <3>2 DEF Ready
    <3>4. QED
      BY <1>4, <1>6, <3>1, <3>3 DEF AInv
  <2>3. QED
    BY <2>1, <2>2
<1>7. QED
  BY <1>1, <1>5, <1>6, StaysLawful DEF AInv, Promised

(* Every step of the service.                                              *)
LEMMA StepsPromised ==
    ASSUME IInv, TInv, AInv, Next
    PROVE  Promised
<1>1. ASSUME NEW h \in Handlers, NEW o \in Operations,
             \/ \E cmd \in Tasks : StartTask(h, o, cmd)
             \/ \E cmd \in Recoveries : SubmitRecovery(h, o, cmd)
             \/ Retry(h, o)
      PROVE  Promised
  BY <1>1, WaitersPromised
<1>2. ASSUME NEW o \in Operations, Reconcile(o) \/ ReconcileLogout(o) \/ AcceptRecovery(o)
      PROVE  Promised
  BY <1>2, ReconcilePromised, ReconcileLogoutPromised, AcceptRecoveryPromised
<1>3. QED
  BY <1>1, <1>2, HandlerStepPromised, JournalFailsPromised, SubmitPromised, OutsidePromised,
     TogglePromised DEF Next, StartupStep

(* Only a launch and the end of a process change whether one runs.         *)
LEMMA UseStays ==
    ASSUME Next
    PROVE  Launch \/ ProcessDies \/ inUse' = inUse
<1>1. ASSUME NEW h \in Handlers, HandlerStep(h)
      PROVE  inUse' = inUse
  <2>1. HandlerStep(h) => Quiet \/ NoWorld
    BY DEF HandlerStep, BeginEnroll, BeginRefresh, BeginBackground, BeginReauth, BeginLogout,
           BeginObserve, Recover, Create, Pend, Provider, Resolve, Rotate, Delete, Reject,
           Apply, Commit, CompleteSuccess
  <2>2. QED
    BY <1>1, <2>1 DEF Quiet, NoWorld
<1>2. ASSUME NEW h \in Handlers, JournalFails(h)
      PROVE  inUse' = inUse
  BY <1>2 DEF JournalFails, Quiet, NoWorld
<1>3. ASSUME NEW h \in Handlers, NEW o \in Operations,
             \/ \E cmd \in Commands : Submit(h, o, cmd)
             \/ \E cmd \in Tasks : StartTask(h, o, cmd)
             \/ \E cmd \in Recoveries : SubmitRecovery(h, o, cmd)
             \/ Retry(h, o)
      PROVE  inUse' = inUse
  BY <1>3 DEF Submit, StartTask, SubmitRecovery, Retry, Quiet, NoWorld
<1>4. ASSUME NEW o \in Operations, ClaimExpires(o) \/ AcceptRecovery(o)
      PROVE  inUse' = inUse
  BY <1>4 DEF ClaimExpires, AcceptRecovery, Quiet, NoWorld
<1>5. StartupStep => inUse' = inUse
  BY DEF StartupStep, StartupEnds, Reconcile, ReconcileLogout, StartupKeeps
<1>6. Crash \/ (\E enabled \in BOOLEAN : Toggle(enabled)) => inUse' = inUse
  BY DEF Crash, Toggle
<1>7. QED
  BY <1>1, <1>2, <1>3, <1>4, <1>5, <1>6 DEF Next

(* A process starts and stops as promised.                                 *)
LEMMA UsePromised ==
    ASSUME IInv, AInv, Launch \/ ProcessDies
    PROVE  Promise!PromiseNext
<1>1. db' = db
  BY DEF Launch, ProcessDies
<1>2. CASE Launch
  <2>1. /\ db.acct.row = "live" /\ db.cred # NoCredential /\ UnsettledOf(db) = {}
        /\ inUse' = TRUE
    BY <1>2 DEF Launch, Admitted
  <2>2. db.cred.by # NoOperation
    BY <2>1, StoreAssumption DEF AInv, Form
  <2>3. \A o \in Operations : Stage(db.ops[o]) # "open"
    BY <2>1, RowHere, OpenIsUnsettled DEF UnsettledOf
  <2>4. Promise!Start
    BY <1>1, <2>1, <2>2, <2>3 DEF Promise!Start
  <2>5. QED
    BY <2>4 DEF Promise!PromiseNext
<1>3. CASE ProcessDies
  <2>1. Promise!Stop
    BY <1>1, <1>3 DEF ProcessDies, Promise!Stop
  <2>2. QED
    BY <2>1 DEF Promise!PromiseNext
<1>4. QED
  BY <1>2, <1>3

LEMMA StutterPromised ==
    ASSUME UNCHANGED vars
    PROVE  /\ AInv => AInv'
           /\ UNCHANGED Promise!accountVars
<1>1. UNCHANGED <<db, receipt, handler, inUse>>
  BY DEF vars
<1>2. AInv => AInv'
  BY <1>1 DEF AInv, Form, Rowed, Ready, Fits
<1>3. QED
  BY <1>1, <1>2 DEF Promise!accountVars

LEMMA InitPromised == Init => AInv /\ Promise!PromiseInit
<1> SUFFICES ASSUME Init PROVE AInv /\ Promise!PromiseInit
  OBVIOUS
<1>1. /\ db.cred = NoCredential /\ db.acct.row = "none" /\ inUse = FALSE
      /\ \A o \in Operations : receipt[o] = NoReceipt /\ db.ops[o] = NoOp
      /\ \A h \in Handlers : handler[h] = IdleHandler
  BY DEF Init
<1>2. NoReceipt.state = "none" /\ IdleHandler.pc = "idle"
  BY DEF NoReceipt, IdleHandler
<1>3. /\ NoOp.phase = "none" /\ NoOp.kind = "none" /\ NoOp.target = NoCredential
      /\ NoOp.expected = NoCredential /\ NoOp.recovers = NoOperation
      /\ NoCredential.by = NoOperation
  BY DEF NoOp, NewOperation, NoCredential
<1>4. ASSUME NEW o \in Operations
      PROVE  Rowed(db, o)
  BY <1>1, <1>2, <1>3 DEF Rowed
<1>5. AInv
  BY <1>1, <1>2, <1>4 DEF AInv, Form
<1>6. \A o \in Operations : Stage(db.ops[o]) = "new"
  BY <1>1, <1>3 DEF Stage
<1>7. Promise!PromiseInit
  BY <1>1, <1>3, <1>6 DEF Promise!PromiseInit
<1>8. QED
  BY <1>5, <1>7

(* Whichever calls fail, whenever the service stops and whoever recovers   *)
(* an operation by hand, an operation is open only over the credential it  *)
(* found, and each handler works on an operation of its kind (AInv).       *)
THEOREM PromiseInvariance == Spec => []AInv
<1>1. Init => AInv
  BY InitPromised
<1>2. IInv /\ TInv /\ AInv /\ [Next]_vars => AInv'
  BY StepsPromised, StutterPromised DEF Promised
<1>3. QED
  BY <1>1, <1>2, Invariance, FenceInvariance, PTL DEF Spec

(* AccountService keeps the promise of AccountPromise: every transaction   *)
(* of the journal and every write or delete of the credential record is a  *)
(* step of an operation that holds the account, or one that the promise    *)
(* cannot see.                                                             *)
THEOREM CredentialsKeepTheirPromise == Spec => ImplementsAccountPromise
<1>1. Init => Promise!PromiseInit
  BY InitPromised
<1>2. IInv /\ TInv /\ AInv /\ [Next]_vars /\ IInv' => [Promise!PromiseNext]_Promise!accountVars
  <2> SUFFICES ASSUME IInv, TInv, AInv, [Next]_vars, IInv'
               PROVE  [Promise!PromiseNext]_Promise!accountVars
    OBVIOUS
  <2>1. CASE UNCHANGED vars
    BY <2>1, StutterPromised
  <2>2. CASE Next
    <3>1. CASE Launch \/ ProcessDies
      BY <3>1, UsePromised
    <3>2. CASE inUse' = inUse
      <4>1. TypeOK /\ TypeOK' /\ Lawful(db, db')
        BY <2>2, StepsPromised DEF IInv, Sound, Promised
      <4>2. QED
        BY <3>2, <4>1, LawfulKept
    <3>3. QED
      BY <2>2, <3>1, <3>2, UseStays
  <2>3. QED
    BY <2>1, <2>2
<1>3. QED
  BY <1>1, <1>2, Invariance, FenceInvariance, PromiseInvariance, PTL
  DEF Spec, ImplementsAccountPromise, Promise!PromiseSpec
=============================================================================
