------------------------ MODULE AccountServiceProofs ------------------------
(***************************************************************************)
(* Proofs about AccountService for any number of operations, handlers,     *)
(* crashes, failing calls and changes of enablement.                       *)
(***************************************************************************)
EXTENDS AccountService, TLAPS

----------------------------------------------------------------------------
(* The journal: an invariant of its rows, kept by every transaction.       *)

Rows == [Operations -> Operation]

SettledRow(op) == op.phase \in {"committed", "cancelled"} \/ op.by # NoOperation

(* OneUnsettledOperation, TakeoverKeepsItsRecovery, and what a superseded  *)
(* row is.                                                                 *)
Journal(ops) ==
    /\ \A a, b \in Operations :
          IsUnsettled(ops[a]) /\ IsUnsettled(ops[b]) /\ a # b =>
              ops[a].recovers = b \/ ops[b].recovers = a
    /\ \A o \in Operations :
          /\ IsUnsettled(ops[o]) /\ ops[o].recovers # NoOperation =>
                TakesOver(ops[o], ops[ops[o].recovers])
          /\ ops[o].phase = "committed" /\ ops[o].recovers # NoOperation =>
                ops[ops[o].recovers].by = o
          /\ ops[o].by # NoOperation =>
                /\ ops[o].phase = "recovery"
                /\ ops[ops[o].by].phase = "committed"
                /\ ops[ops[o].by].recovers = o

(* An unsettled operation takes over o.                                    *)
Held(ops, o) == \E x \in Operations : IsUnsettled(ops[x]) /\ ops[x].recovers = o

(* What a takeover holds is a refresh without a target, in recovery.       *)
LEMMA HeldIsRecovery ==
    ASSUME NEW ops \in Rows, Journal(ops), NEW o \in Operations, Held(ops, o)
    PROVE  /\ ops[o].kind = "refresh" /\ ops[o].phase = "recovery"
           /\ ops[o].target = NoCredential /\ ops[o].recovers = NoOperation
           /\ ops[o].by = NoOperation
<1>1. PICK x \in Operations : IsUnsettled(ops[x]) /\ ops[x].recovers = o
  BY DEF Held
<1>2. ops[x].recovers # NoOperation
  BY <1>1, StoreAssumption
<1>3. TakesOver(ops[x], ops[o])
  BY <1>1, <1>2 DEF Journal
<1>4. QED
  BY <1>3 DEF TakesOver

LEMMA MovedType ==
    ASSUME NEW ops \in Rows, NEW o \in Operations, NEW to \in Phases, NEW code \in Codes
    PROVE  Moved(ops, o, to, code) \in Rows
BY DEF Moved, Rows, Operation

(* A move of an unsettled row that is not held, short of a commit.         *)
LEMMA MoveKeepsJournal ==
    ASSUME NEW ops \in Rows, Journal(ops), NEW o \in Operations,
           NEW to \in Phases, to # "committed", NEW code \in Codes,
           IsUnsettled(ops[o]), ~Held(ops, o)
    PROVE  Journal(Moved(ops, o, to, code)) /\ Moved(ops, o, to, code) \in Rows
<1> DEFINE new == Moved(ops, o, to, code)
<1>1. /\ new \in Rows
      /\ \A x \in Operations : x # o => new[x] = ops[x]
      /\ new[o].phase = to /\ new[o].code = code
      /\ new[o].kind = ops[o].kind /\ new[o].rev = ops[o].rev
      /\ new[o].expected = ops[o].expected /\ new[o].target = ops[o].target
      /\ new[o].recovers = ops[o].recovers /\ new[o].by = ops[o].by
  BY DEF Moved, Rows, Operation
<1>2. ops[o].by = NoOperation /\ ops[o].phase # "committed"
  BY DEF IsUnsettled, UnsettledPhases
<1> HIDE DEF new
<1>3. \A x \in Operations : IsUnsettled(new[x]) => IsUnsettled(ops[x])
  BY <1>1, <1>2 DEF IsUnsettled
<1>4. \A x \in Operations : new[x].recovers = ops[x].recovers /\ new[x].by = ops[x].by
  BY <1>1
<1>5. \A a, b \in Operations :
         IsUnsettled(new[a]) /\ IsUnsettled(new[b]) /\ a # b =>
             new[a].recovers = b \/ new[b].recovers = a
  BY <1>3, <1>4 DEF Journal
<1>6. ASSUME NEW x \in Operations, IsUnsettled(new[x]), new[x].recovers # NoOperation
      PROVE  TakesOver(new[x], new[new[x].recovers])
  <2>1. IsUnsettled(ops[x]) /\ TakesOver(ops[x], ops[ops[x].recovers])
    BY <1>3, <1>4, <1>6 DEF Journal
  <2>2. ops[x].recovers \in Operations
    BY <1>4, <1>6 DEF Rows, Operation, Reference
  <2>3. ops[x].recovers # o
    BY <2>1, <2>2 DEF Held
  <2>4. new[new[x].recovers] = ops[ops[x].recovers]
    BY <1>1, <1>4, <2>2, <2>3
  <2>5. /\ new[x].kind = ops[x].kind /\ new[x].rev = ops[x].rev
        /\ new[x].expected = ops[x].expected /\ new[x].target = ops[x].target
    BY <1>1
  <2>6. QED
    BY <2>1, <2>4, <2>5 DEF TakesOver
<1>7. ASSUME NEW x \in Operations, new[x].phase = "committed", new[x].recovers # NoOperation
      PROVE  new[new[x].recovers].by = x
  <2>1. x # o
    BY <1>1, <1>7
  <2>2. new[x].recovers \in Operations
    BY <1>1, <1>7 DEF Rows, Operation, Reference
  <2>3. QED
    BY <1>1, <1>4, <1>7, <2>1, <2>2 DEF Journal
<1>8. ASSUME NEW x \in Operations, new[x].by # NoOperation
      PROVE  /\ new[x].phase = "recovery" /\ new[new[x].by].phase = "committed"
             /\ new[new[x].by].recovers = x
  <2>1. x # o /\ ops[x].by # NoOperation
    BY <1>2, <1>4, <1>8
  <2>2. ops[x].by \in Operations
    BY <2>1 DEF Rows, Operation, Reference
  <2>3. /\ ops[x].phase = "recovery" /\ ops[ops[x].by].phase = "committed"
        /\ ops[ops[x].by].recovers = x
    BY <2>1 DEF Journal
  <2>4. ops[x].by # o
    BY <1>2, <2>3
  <2>5. QED
    BY <1>1, <2>1, <2>2, <2>3, <2>4
<1>9. Journal(new)
  BY <1>5, <1>6, <1>7, <1>8 DEF Journal
<1>10. QED
  BY <1>1, <1>9 DEF new

(* A commit, which supersedes the operation it took over.                  *)
LEMMA CommitKeepsJournal ==
    ASSUME NEW d \in Database, Journal(d.ops), NEW o \in Operations,
           IsUnsettled(d.ops[o]), ~Held(d.ops, o)
    PROVE  LET new == Moved(Superseded(d, o), o, "committed", "none")
           IN Journal(new) /\ new \in Rows
<1> DEFINE ops == d.ops
           r == ops[o].recovers
           new == Moved(Superseded(d, o), o, "committed", "none")
<1>0. ops \in Rows /\ r \in Reference
  BY DEF Database, Rows, Operation
<1>a. r # NoOperation => TakesOver(ops[o], ops[r])
  BY DEF Journal
<1>b. r # NoOperation => /\ r \in Operations /\ r # o
                         /\ ops[r].phase = "recovery" /\ ops[r].by = NoOperation
                         /\ ops[r].recovers = NoOperation
  BY <1>0, <1>a DEF TakesOver, Reference
<1>c. ops[o].by = NoOperation /\ ops[o].phase # "committed"
  BY DEF IsUnsettled, UnsettledPhases
<1>1. /\ new \in Rows
      /\ \A x \in Operations : x # o /\ x # r => new[x] = ops[x]
      /\ new[o].phase = "committed" /\ new[o].recovers = r /\ new[o].by = NoOperation
      /\ r # NoOperation => /\ new[r].by = o /\ new[r].phase = "recovery"
                            /\ new[r].recovers = NoOperation
  <2>1. Superseded(d, o) \in Rows
    BY <1>0 DEF Superseded, Rows, Operation, Reference
  <2>2. \A x \in Operations :
           Superseded(d, o)[x] = IF x = r THEN [ops[x] EXCEPT !.by = o] ELSE ops[x]
    BY DEF Superseded
  <2>3. Superseded(d, o)[o] = ops[o]
    BY <2>2, <1>b, StoreAssumption
  <2>4. \A x \in Operations : x # o => new[x] = Superseded(d, o)[x]
    BY <2>1 DEF Moved, Rows
  <2>5. new[o] = [ops[o] EXCEPT !.phase = "committed", !.code = "none"]
    BY <2>1, <2>3 DEF Moved, Rows
  <2>6. new \in Rows
    BY <2>1, MovedType DEF Phases, Codes
  <2>7. r # NoOperation => new[r] = [ops[r] EXCEPT !.by = o]
    BY <2>2, <2>4, <1>b
  <2>8. \A x \in Operations : x # o /\ x # r => new[x] = ops[x]
    BY <2>2, <2>4
  <2>9. new[o].phase = "committed" /\ new[o].recovers = r /\ new[o].by = NoOperation
    BY ZenonT(60), <2>5, <1>c, <1>0 DEF Rows, Operation
  <2>10. r # NoOperation => /\ new[r].by = o /\ new[r].phase = "recovery"
                            /\ new[r].recovers = NoOperation
    BY <2>7, <1>b, <1>0 DEF Rows, Operation
  <2>11. QED
    BY <2>6, <2>8, <2>9, <2>10
<1> HIDE DEF new
<1>2. \A x \in Operations : IsUnsettled(new[x]) =>
         x # o /\ x # r /\ new[x] = ops[x] /\ IsUnsettled(ops[x])
  BY <1>1, StoreAssumption DEF IsUnsettled, UnsettledPhases
<1>3. \A a, b \in Operations :
         IsUnsettled(new[a]) /\ IsUnsettled(new[b]) /\ a # b =>
             new[a].recovers = b \/ new[b].recovers = a
  BY <1>2 DEF Journal
<1>4. ASSUME NEW x \in Operations, IsUnsettled(new[x]), new[x].recovers # NoOperation
      PROVE  TakesOver(new[x], new[new[x].recovers])
  <2>1. x # o /\ x # r /\ new[x] = ops[x] /\ IsUnsettled(ops[x])
    BY <1>2, <1>4
  <2>2. TakesOver(ops[x], ops[ops[x].recovers]) /\ ops[x].recovers \in Operations
    BY <1>0, <1>4, <2>1 DEF Journal, Rows, Operation, Reference
  <2>3. ops[x].recovers # o
    BY <2>1 DEF Held
  <2>4. ops[x].recovers = o \/ r = x
    BY <2>1 DEF Journal
  <2>5. QED
    BY <2>1, <2>3, <2>4
<1>5. ASSUME NEW x \in Operations, new[x].phase = "committed", new[x].recovers # NoOperation
      PROVE  new[new[x].recovers].by = x
  <2>1. CASE x = o
    BY <1>1, <1>5, <2>1
  <2>2. CASE x # o
    <3>1. x # r /\ new[x] = ops[x]
      BY <1>1, <1>5, <2>2, StoreAssumption
    <3>2. ops[ops[x].recovers].by = x /\ ops[x].recovers \in Operations
      BY <1>0, <1>5, <3>1 DEF Journal, Rows, Operation, Reference
    <3>3. ops[x].recovers # o /\ ops[x].recovers # r
      BY <1>b, <1>c, <1>5, <3>1, <3>2, StoreAssumption
    <3>4. QED
      BY <1>1, <3>1, <3>2, <3>3
  <2>3. QED
    BY <2>1, <2>2
<1>6. ASSUME NEW x \in Operations, new[x].by # NoOperation
      PROVE  /\ new[x].phase = "recovery" /\ new[new[x].by].phase = "committed"
             /\ new[new[x].by].recovers = x
  <2>1. CASE x = r
    BY <1>1, <1>6, <2>1, StoreAssumption
  <2>2. CASE x # r
    <3>1. x # o /\ new[x] = ops[x]
      BY <1>1, <1>6, <2>2
    <3>2. /\ ops[x].phase = "recovery" /\ ops[ops[x].by].phase = "committed"
          /\ ops[ops[x].by].recovers = x /\ ops[x].by \in Operations
      BY <1>0, <1>6, <3>1 DEF Journal, Rows, Operation, Reference
    <3>3. ops[x].by # o /\ ops[x].by # r
      BY <1>b, <1>c, <3>2, StoreAssumption
    <3>4. QED
      BY <1>1, <3>1, <3>2, <3>3
  <2>3. QED
    BY <2>1, <2>2
<1>7. Journal(new)
  BY <1>3, <1>4, <1>5, <1>6 DEF Journal
<1>8. QED
  BY <1>1, <1>7 DEF new

(* A new row: of an account without an unsettled operation, or one that    *)
(* takes over the only one.                                                *)
LEMMA PrepareKeepsJournal ==
    ASSUME NEW d \in Database, Journal(d.ops), NEW o \in Operations, NEW op \in Operation,
           d.ops[o].phase = "none", op.phase = "prepared", op.by = NoOperation,
           UnsettledRejection(d, op) = "none"
    PROVE  Journal([d.ops EXCEPT ![o] = op]) /\ [d.ops EXCEPT ![o] = op] \in Rows
<1> DEFINE ops == d.ops
           r == op.recovers
           new == [ops EXCEPT ![o] = op]
<1>0. ops \in Rows /\ r \in Reference
  BY DEF Database, Rows, Operation
<1>1. new \in Rows /\ new[o] = op /\ \A x \in Operations : x # o => new[x] = ops[x]
  BY <1>0 DEF Rows
<1>2. ~IsUnsettled(ops[o]) /\ ~Held(ops, o)
  BY <1>0, HeldIsRecovery DEF IsUnsettled, UnsettledPhases
<1>3. r # NoOperation => /\ r \in Operations /\ TakesOver(op, ops[r])
                         /\ \A x \in Operations : ops[x].recovers = r => ~IsUnsettled(ops[x])
  BY <1>0 DEF UnsettledRejection, TakeoverRejection, IsUnsettled, Reference
<1>4. r # NoOperation => /\ r # o /\ ops[r].recovers = NoOperation /\ IsUnsettled(ops[r])
  BY <1>3 DEF TakesOver, IsUnsettled, UnsettledPhases
<1>5. ASSUME NEW x \in Operations, IsUnsettled(new[x]), x # o
      PROVE  r # NoOperation /\ x = r
  <2>1. IsUnsettled(ops[x])
    BY <1>1, <1>5
  <2>2. r # NoOperation
    BY <2>1 DEF UnsettledRejection, UnsettledOf
  <2>3. x # r => ops[x].recovers = r \/ ops[r].recovers = x
    BY <1>3, <1>4, <2>1, <2>2 DEF Journal
  <2>4. QED
    BY <1>3, <1>4, <2>1, <2>2, <2>3, StoreAssumption
<1> HIDE DEF new
<1>6. \A a, b \in Operations :
         IsUnsettled(new[a]) /\ IsUnsettled(new[b]) /\ a # b =>
             new[a].recovers = b \/ new[b].recovers = a
  BY <1>1, <1>5
<1>7. ASSUME NEW x \in Operations, IsUnsettled(new[x]), new[x].recovers # NoOperation
      PROVE  TakesOver(new[x], new[new[x].recovers])
  <2>1. x = o
    BY <1>1, <1>4, <1>5, <1>7
  <2>2. QED
    BY <1>1, <1>3, <1>4, <1>7, <2>1
<1>8. ASSUME NEW x \in Operations, new[x].phase = "committed", new[x].recovers # NoOperation
      PROVE  new[new[x].recovers].by = x
  <2>1. x # o /\ new[x] = ops[x]
    BY <1>1, <1>8
  <2>2. ops[ops[x].recovers].by = x /\ ops[x].recovers \in Operations
    BY <1>0, <1>8, <2>1 DEF Journal, Rows, Operation, Reference
  <2>3. ops[x].recovers # o
    BY <2>2, StoreAssumption DEF Journal
  <2>4. QED
    BY <1>1, <2>1, <2>2, <2>3
<1>9. ASSUME NEW x \in Operations, new[x].by # NoOperation
      PROVE  /\ new[x].phase = "recovery" /\ new[new[x].by].phase = "committed"
             /\ new[new[x].by].recovers = x
  <2>1. x # o /\ new[x] = ops[x]
    BY <1>1, <1>9
  <2>2. /\ ops[x].phase = "recovery" /\ ops[ops[x].by].phase = "committed"
        /\ ops[ops[x].by].recovers = x /\ ops[x].by \in Operations
    BY <1>0, <1>9, <2>1 DEF Journal, Rows, Operation, Reference
  <2>3. QED
    BY <1>1, <2>1, <2>2
<1>10. Journal(new)
  BY <1>6, <1>7, <1>8, <1>9 DEF Journal
<1>11. QED
  BY <1>1, <1>10 DEF new

(* The target of an operation that takes nothing over.                     *)
LEMMA TargetKeepsJournal ==
    ASSUME NEW ops \in Rows, Journal(ops), NEW o \in Operations, NEW target \in Credential,
           ops[o].phase = "pending", ops[o].recovers = NoOperation
    PROVE  Journal([ops EXCEPT ![o].target = target]) /\ [ops EXCEPT ![o].target = target] \in Rows
<1> DEFINE new == [ops EXCEPT ![o].target = target]
<1>1. new \in Rows /\ \A x \in Operations : x # o => new[x] = ops[x]
  BY DEF Rows, Operation
<1>2. new[o].phase = "pending" /\ new[o].recovers = NoOperation /\ new[o].by = ops[o].by
  BY DEF Rows, Operation
<1>3. ~Held(ops, o)
  BY HeldIsRecovery
<1> HIDE DEF new
<1>4. \A x \in Operations : /\ new[x].phase = ops[x].phase /\ new[x].by = ops[x].by
                            /\ new[x].recovers = ops[x].recovers
  BY <1>1, <1>2
<1>5. \A x \in Operations : IsUnsettled(new[x]) = IsUnsettled(ops[x])
  BY <1>4 DEF IsUnsettled
<1>6. \A a, b \in Operations :
         IsUnsettled(new[a]) /\ IsUnsettled(new[b]) /\ a # b =>
             new[a].recovers = b \/ new[b].recovers = a
  BY <1>4, <1>5 DEF Journal
<1>7. ASSUME NEW x \in Operations, IsUnsettled(new[x]), new[x].recovers # NoOperation
      PROVE  TakesOver(new[x], new[new[x].recovers])
  <2>1. x # o
    BY <1>2, <1>7
  <2>2. /\ IsUnsettled(ops[x]) /\ TakesOver(ops[x], ops[ops[x].recovers])
        /\ ops[x].recovers \in Operations
    BY <1>4, <1>5, <1>7 DEF Journal, Rows, Operation, Reference
  <2>3. ops[x].recovers # o
    BY <1>3, <2>2 DEF Held
  <2>4. QED
    BY <1>1, <1>4, <2>1, <2>2, <2>3
<1>8. ASSUME NEW x \in Operations
      PROVE  /\ new[x].phase = "committed" /\ new[x].recovers # NoOperation =>
                   new[new[x].recovers].by = x
             /\ new[x].by # NoOperation =>
                   /\ new[x].phase = "recovery" /\ new[new[x].by].phase = "committed"
                   /\ new[new[x].by].recovers = x
  <2>1. ops[x].recovers \in Reference /\ ops[x].by \in Reference
    BY DEF Rows, Operation
  <2>2. /\ ops[x].phase = "committed" /\ ops[x].recovers # NoOperation =>
              ops[ops[x].recovers].by = x
        /\ ops[x].by # NoOperation =>
              /\ ops[x].phase = "recovery" /\ ops[ops[x].by].phase = "committed"
              /\ ops[ops[x].by].recovers = x
    BY DEF Journal
  <2>3. QED
    BY <1>4, <2>1, <2>2 DEF Reference
<1>9. Journal(new)
  BY <1>6, <1>7, <1>8 DEF Journal
<1>10. QED
  BY <1>1, <1>9 DEF new

----------------------------------------------------------------------------
(* The transactions as steps from the present database.                    *)

(* A database the present one may become: the journal keeps its invariant, *)
(* settled rows stay, and an account in use stays live.                    *)
Good(e) ==
    /\ e \in Database /\ Journal(e.ops)
    /\ \A o \in Operations : SettledRow(db.ops[o]) => e.ops[o] = db.ops[o]
    /\ inUse => e.acct.row = "live"

(* What a change of the credential record leaves alone.                    *)
SameRows(d) == d \in Database /\ d.ops = db.ops /\ d.acct = db.acct

Sound == TypeOK /\ Journal(db.ops) /\ TombstoneHasNoProcess

LEMMA SameRowsGood ==
    ASSUME Sound, NEW d, SameRows(d)
    PROVE  Good(d)
  BY DEF Sound, SameRows, Good, TombstoneHasNoProcess, Database

LEMMA PresentRows == Sound => SameRows(db) /\ Good(db)
<1>1. Sound => SameRows(db)
  BY DEF Sound, SameRows, TypeOK
<1>2. QED
  BY <1>1, SameRowsGood

(* A transition that a takeover does not stand against.                    *)
Movable(o, from, to) ==
    \/ from # "recovery" \/ to = "recovery"
    \/ db.ops[o].kind # "refresh" \/ db.ops[o].target # NoCredential
    \/ ~Held(db.ops, o)

(* advance_operation_sync                                                  *)
LEMMA AdvanceGood ==
    ASSUME Sound, NEW d, SameRows(d), NEW o \in Operations, NEW from \in Phases,
           NEW to \in Phases, NEW code \in Codes, Movable(o, from, to)
    PROVE  LET r == Advance(d, o, from, to, code, inUse)
           IN Good(r.db) /\ (Accepted(r) => r.db.ops[o].phase = to)
<1> DEFINE r == Advance(d, o, from, to, code, inUse)
           applies == /\ (to = "recovery") = (code # "none") /\ d.ops[o].phase # to
                      /\ d.ops[o].by = NoOperation /\ d.ops[o].phase = from
                      /\ <<from, to>> \in Allowed
<1>0. Good(d) /\ d \in Database /\ d.ops = db.ops /\ d.acct = db.acct /\ d.ops \in Rows
      /\ Journal(d.ops)
  BY SameRowsGood DEF Sound, SameRows, Database, Rows
<1>1. CASE ~applies
  <2>1. r = Result("invalid_input", d) \/ (r = Result("replayed", d) /\ d.ops[o].phase = to)
        \/ r = Result("stale_operation", d)
    BY <1>1 DEF Advance
  <2>2. QED
    BY <1>0, <2>1 DEF Result, Accepted
<1>2. CASE applies
  <2>1. IsUnsettled(d.ops[o]) /\ ~(from = "recovery" /\ to = "recovery")
    BY <1>2 DEF IsUnsettled, UnsettledPhases, Allowed
  <2>2. ~Held(d.ops, o)
    BY <1>0, <1>2, <2>1, HeldIsRecovery DEF Movable
  <2>3. ~SettledRow(db.ops[o])
    BY <1>0, <2>1 DEF SettledRow, IsUnsettled, UnsettledPhases
  <2>4. CASE to # "committed"
    <3> DEFINE e == [d EXCEPT !.ops = Moved(@, o, to, code)]
    <3>1. r = Result("applied", e)
      BY <1>2, <2>4 DEF Advance
    <3>2. Journal(Moved(d.ops, o, to, code)) /\ Moved(d.ops, o, to, code) \in Rows
      BY <1>0, <2>1, <2>2, <2>4, MoveKeepsJournal
    <3>3. e.ops = Moved(d.ops, o, to, code) /\ e.acct = d.acct /\ e \in Database
      BY <1>0, <3>2 DEF Database, Rows
    <3>4. /\ e.ops[o].phase = to
          /\ \A x \in Operations : x # o => e.ops[x] = d.ops[x]
      BY <1>0, <3>3 DEF Moved, Rows, Operation
    <3>5. Good(e)
      BY <1>0, <2>3, <3>2, <3>3, <3>4 DEF Good
    <3>6. r.db = e
      BY <3>1 DEF Result
    <3>7. QED
      BY <3>4, <3>5, <3>6
  <2>5. CASE to = "committed" /\ CommitRejection(d, o, inUse) # "none"
    <3>1. r = Result(CommitRejection(d, o, inUse), d)
      BY <1>2, <2>5 DEF Advance
    <3>2. CommitRejection(d, o, inUse) \notin {"applied", "replayed"}
      BY DEF CommitRejection, EnrollCommitRejection, RefreshCommitRejection, LogoutCommitRejection
    <3>3. QED
      BY <1>0, <3>1, <3>2 DEF Result, Accepted
  <2>6. CASE to = "committed" /\ CommitRejection(d, o, inUse) = "none"
    <3> DEFINE new == Moved(Superseded(d, o), o, to, code)
               e == [acct |-> CommittedAccount(d, o), cred |-> d.cred, ops |-> new]
    <3>1. r = Result("applied", e)
      BY <1>2, <2>6 DEF Advance
    <3>2. code = "none"
      BY <1>2, <2>6
    <3>3. Journal(new) /\ new \in Rows
      BY <1>0, <2>1, <2>2, <2>6, <3>2, CommitKeepsJournal
    <3>4. CommittedAccount(d, o) \in Account
      BY <1>0 DEF CommittedAccount, Account, Database
    <3>5. inUse => CommittedAccount(d, o).row = "live"
      BY <1>0, <2>6 DEF CommittedAccount, CommitRejection, LogoutCommitRejection, Good,
                        Database, Account
    <3>6. new[o].phase = "committed"
      BY <1>0, <2>6 DEF Moved, Superseded, Rows, Operation
    <3>7. ASSUME NEW x \in Operations, SettledRow(db.ops[x])
          PROVE  new[x] = db.ops[x]
      <4>1. x # o
        BY <2>3, <3>7
      <4>2. x # d.ops[o].recovers
        <5>1. d.ops[o].recovers # NoOperation => TakesOver(d.ops[o], d.ops[d.ops[o].recovers])
          BY <1>0, <2>1 DEF Journal
        <5>2. x = d.ops[o].recovers => ~SettledRow(d.ops[x])
          BY <5>1, StoreAssumption DEF TakesOver, SettledRow
        <5>3. QED
          BY <1>0, <3>7, <5>2
      <4>3. Superseded(d, o)[x] = d.ops[x]
        BY <4>2 DEF Superseded
      <4>4. QED
        BY <1>0, <4>1, <4>3 DEF Moved, Superseded
    <3>8. e \in Database
      BY <1>0, <3>3, <3>4 DEF Database, Rows
    <3>9. Good(e)
      BY <3>3, <3>5, <3>7, <3>8 DEF Good
    <3>10. QED
      BY <2>6, <3>1, <3>6, <3>9 DEF Result
  <2>7. QED
    BY <2>4, <2>5, <2>6
<1>3. QED
  BY <1>1, <1>2

(* prepare_operation_sync                                                  *)
LEMMA PrepareGood ==
    ASSUME Sound, NEW o \in Operations, NEW op \in Operation,
           op.phase = "prepared", op.by = NoOperation
    PROVE  LET r == Prepare(db, o, op)
           IN /\ Good(r.db)
              /\ Accepted(r) => SameDescriptor(r.db.ops[o], op)
<1> DEFINE r == Prepare(db, o, op)
           e == [db EXCEPT !.ops[o] = op]
<1>0. Good(db) /\ db \in Database /\ db.ops \in Rows /\ Journal(db.ops)
  BY PresentRows DEF Sound, SameRows, Database, Rows
<1>1. CASE db.ops[o].phase # "none"
  BY <1>0, <1>1 DEF Prepare, Result, Accepted
<1>2. CASE db.ops[o].phase = "none" /\ UnsettledRejection(db, op) # "none"
  <2>1. UnsettledRejection(db, op) \notin {"applied", "replayed"}
    BY DEF UnsettledRejection, TakeoverRejection
  <2>2. QED
    BY <1>0, <1>2, <2>1 DEF Prepare, Result, Accepted
<1>3. CASE /\ db.ops[o].phase = "none" /\ UnsettledRejection(db, op) = "none"
           /\ RowRejection(db, op) # "none"
  <2>1. RowRejection(db, op) \notin {"applied", "replayed"}
    BY DEF RowRejection, EnrollmentRejection
  <2>2. QED
    BY <1>0, <1>3, <2>1 DEF Prepare, Result, Accepted
<1>4. CASE /\ db.ops[o].phase = "none" /\ UnsettledRejection(db, op) = "none"
           /\ RowRejection(db, op) = "none"
  <2>1. r = Result("applied", e)
    BY <1>4 DEF Prepare
  <2>2. Journal([db.ops EXCEPT ![o] = op]) /\ [db.ops EXCEPT ![o] = op] \in Rows
    BY <1>0, <1>4, PrepareKeepsJournal
  <2>3. e.ops = [db.ops EXCEPT ![o] = op] /\ e.acct = db.acct /\ e \in Database
    BY <1>0, <2>2 DEF Database, Rows
  <2>4. e.ops[o] = op /\ \A x \in Operations : x # o => e.ops[x] = db.ops[x]
    BY <1>0, <2>3 DEF Rows
  <2>5. ~SettledRow(db.ops[o])
    BY <1>0, <1>4 DEF SettledRow, Journal
  <2>6. Good(e)
    BY <1>0, <2>2, <2>3, <2>4, <2>5 DEF Good
  <2>7. r.db = e
    BY <2>1 DEF Result
  <2>8. QED
    BY <2>4, <2>6, <2>7 DEF SameDescriptor
<1>5. QED
  BY <1>1, <1>2, <1>3, <1>4

(* set_operation_target_sync                                               *)
LEMMA TargetGood ==
    ASSUME Sound, NEW o \in Operations, NEW target \in Credential,
           db.ops[o].phase = "pending", db.ops[o].recovers = NoOperation
    PROVE  LET r == SetTarget(db, o, target)
           IN Good(r.db) /\ r.db.ops[o].phase = "pending"
<1> DEFINE r == SetTarget(db, o, target)
           e == [db EXCEPT !.ops[o].target = target]
<1>0. Good(db) /\ db \in Database /\ db.ops \in Rows /\ Journal(db.ops)
  BY PresentRows DEF Sound, SameRows, Database, Rows
<1>1. r.db = db \/ (r.db = e /\ db.ops[o].by = NoOperation)
  BY DEF SetTarget, Result
<1>2. CASE r.db = e /\ db.ops[o].by = NoOperation
  <2>1. /\ Journal([db.ops EXCEPT ![o].target = target])
        /\ [db.ops EXCEPT ![o].target = target] \in Rows
    BY <1>0, TargetKeepsJournal
  <2>2. e.ops = [db.ops EXCEPT ![o].target = target] /\ e.acct = db.acct /\ e \in Database
    BY <1>0, <2>1 DEF Database, Rows
  <2>3. e.ops[o].phase = "pending" /\ \A x \in Operations : x # o => e.ops[x] = db.ops[x]
    BY <1>0, <2>2 DEF Rows, Operation
  <2>4. ~SettledRow(db.ops[o])
    BY <1>2 DEF SettledRow
  <2>5. Good(e)
    BY <1>0, <2>1, <2>2, <2>3, <2>4 DEF Good
  <2>6. QED
    BY <1>2, <2>3, <2>5
<1>3. QED
  BY <1>0, <1>1, <1>2

(* The credential record changes alone.                                    *)
LEMMA CredentialSameRows ==
    ASSUME Sound, NEW expected, NEW target \in Credential
    PROVE  /\ SameRows(CreateCredential(db, target).db)
           /\ SameRows(RotateCredential(db, expected, target).db)
           /\ SameRows(DeleteCredential(db, expected).db)
<1>1. SameRows(db) /\ db \in Database /\ NoCredential \in Credential
  BY PresentRows DEF Sound, TypeOK, NoCredential, Credential, Reference
<1>2. \A c \in Credential : SameRows([db EXCEPT !.cred = c])
  BY <1>1 DEF SameRows, Database
<1>3. QED
  BY <1>1, <1>2 DEF CreateCredential, RotateCredential, DeleteCredential, Result

(* set_account_enabled_sync                                                *)
LEMMA EnabledGood ==
    ASSUME Sound, NEW enabled \in BOOLEAN
    PROVE  Good(SetEnabled(db, db.acct.rev, enabled).db)
<1> DEFINE e == [db EXCEPT !.acct.enabled = enabled, !.acct.rev = db.acct.rev + 1]
<1>0. Good(db) /\ db \in Database
  BY PresentRows DEF Sound, SameRows
<1>1. SetEnabled(db, db.acct.rev, enabled).db \in {db, e}
  BY DEF SetEnabled, Result
<1>2. e \in Database /\ e.ops = db.ops /\ e.acct.row = db.acct.row
  <2> DEFINE a == [db.acct EXCEPT !.enabled = enabled]
             b == [a EXCEPT !.rev = db.acct.rev + 1]
             f == [db EXCEPT !.acct = a]
             g == [f EXCEPT !.acct = b]
  <2>1. a \in Account /\ a.row = db.acct.row
    BY <1>0 DEF Database, Account
  <2>2. db.acct.rev + 1 \in Nat
    BY <1>0 DEF Database, Account
  <2>3. b \in Account /\ b.row = a.row
    <3> HIDE DEF a
    <3> QED
      BY <2>1, <2>2 DEF Account
  <2>4. f \in Database /\ f.ops = db.ops /\ f.acct = a
    <3> HIDE DEF a
    <3> QED
      BY <1>0, <2>1 DEF Database
  <2>5. e = [f EXCEPT !.acct = [f.acct EXCEPT !.rev = db.acct.rev + 1]]
    OBVIOUS
  <2>6. g \in Database /\ g.ops = f.ops /\ g.acct = b
    <3> HIDE DEF b, f
    <3> QED
      BY <2>3, <2>4 DEF Database
  <2>7. QED
    BY <2>1, <2>3, <2>4, <2>5, <2>6
<1>3. Good(e)
  BY <1>0, <1>2 DEF Good
<1>4. QED
  BY <1>0, <1>1, <1>3

----------------------------------------------------------------------------
(* The invariant of the service.                                           *)

(* What the step a handler is at presumes of its operation.                *)
AtPhase(pc, op) ==
    /\ pc = "pend" => op.recovers = NoOperation
    /\ pc \in {"provider", "resolve"} => op.recovers = NoOperation /\ op.phase = "pending"
    /\ pc \in {"create", "rotate", "delete", "apply"} =>
          op.phase # "recovery" \/ op.kind # "refresh"

(* A handler past its wait, and no other, holds the account's lock.        *)
Busy ==
    \A h \in Handlers :
        /\ handler[h].pc # "idle" => handler[h].o \in Operations
        /\ lock = h => handler[h].pc \notin {"idle", "wait"}
        /\ handler[h].pc \notin {"idle", "wait"} =>
              lock = h /\ phase = "up" /\ AtPhase(handler[h].pc, db.ops[handler[h].o])

IInv == Sound /\ AnswerIsTrue /\ Busy

(* SettledIsFinal as a step.                                               *)
Final == \A o \in Operations : SettledRow(db.ops[o]) => db'.ops[o] = db.ops[o]

(* What the steps of a handler leave alone.                                *)
Frame ==
    /\ faults' \in Nat /\ valid' \subseteq Nat /\ issued' \in Nat
    /\ UNCHANGED <<inUse, phase, crashes, toggles>>

Running(h) ==
    /\ handler[h].o \in Operations /\ phase = "up"
    /\ \A g \in Handlers : g # h => handler[g].pc \in {"idle", "wait"}

LEMMA AcquireRuns ==
    ASSUME IInv, NEW h \in Handlers, NEW cmd, Acquire(h, cmd)
    PROVE  Running(h)
<1>1. \A g \in Handlers : handler[g].pc \in {"idle", "wait"}
  BY ServiceAssumption DEF IInv, Busy, Acquire
<1>2. QED
  BY <1>1 DEF IInv, Busy, Acquire, At, Running

LEMMA HolderRuns ==
    ASSUME IInv, NEW h \in Handlers, handler[h].pc \notin {"idle", "wait"}
    PROVE  Running(h) /\ lock = h /\ AtPhase(handler[h].pc, db.ops[handler[h].o])
  BY DEF IInv, Busy, Running

LEMMA QuietFrame ==
    ASSUME IInv, Quiet, faults' \in Nat
    PROVE  Frame
  BY DEF IInv, Sound, TypeOK, Quiet, NoProvider, NoWorld, Frame

LEMMA ChargeFrame ==
    ASSUME IInv, Quiet, NEW call, Charge(call)
    PROVE  Frame
<1>1. faults' \in Nat
  BY DEF Charge, IInv, Sound, TypeOK
<1>2. QED
  BY <1>1, QuietFrame

LEMMA NoFaultFrame == IInv /\ Quiet /\ NoFault => Frame
<1>1. IInv /\ NoFault => faults' \in Nat
  BY DEF NoFault, IInv, Sound, TypeOK
<1>2. QED
  BY <1>1, QuietFrame

(* Receipts stay receipts, and only a told answer is new.                  *)
LEMMA ReceiptTypes ==
    ASSUME IInv, NEW h \in Handlers, handler[h].o \in Operations, NEW answer \in Answers
    PROVE  /\ Answered(h, answer) \in [Operations -> Receipt]
           /\ Released(h) \in [Operations -> Receipt]
           /\ \A o \in Operations : Released(h)[o].answer = receipt[o].answer
           /\ \A o \in Operations :
                 Answered(h, answer)[o].answer # receipt[o].answer =>
                     /\ HasReceipt(h) /\ Owns(h) /\ o = handler[h].o
                     /\ Answered(h, answer)[o].answer = answer
<1>1. receipt \in [Operations -> Receipt] /\ Free \in Handlers \cup {Free}
  BY DEF IInv, Sound, TypeOK
<1> DEFINE o == handler[h].o
           told == [receipt[o] EXCEPT !.state = "done", !.claim = Free, !.answer = answer]
           free == [receipt[o] EXCEPT !.claim = Free]
<1>2. told \in Receipt /\ told.answer = answer
  BY ZenonT(60), <1>1 DEF Receipt
<1>3. free \in Receipt /\ free.answer = receipt[o].answer
  BY <1>1 DEF Receipt
<1>4. \/ Answered(h, answer) = receipt
      \/ HasReceipt(h) /\ Owns(h) /\ Answered(h, answer) = [receipt EXCEPT ![o] = told]
  BY DEF Answered
<1>5. Released(h) = receipt \/ Released(h) = [receipt EXCEPT ![o] = free]
  BY DEF Released
<1> HIDE DEF told, free
<1>6. QED
  BY <1>1, <1>2, <1>3, <1>4, <1>5

(* A handler ends.                                                         *)
LEMMA FinishKeeps ==
    ASSUME IInv, NEW h \in Handlers, Running(h), Frame, Finish(h), Good(db'),
           receipt' \in [Operations -> Receipt], unanswered' \in BOOLEAN,
           \A o \in Operations :
              /\ receipt'[o].answer = "ok" =>
                    receipt[o].answer = "ok" \/ db'.ops[o].phase = "committed"
              /\ receipt'[o].answer = "current" =>
                    receipt[o].answer = "current" \/ db'.ops[o].phase = "cancelled"
    PROVE  IInv' /\ Final
<1>1. Final
  BY DEF Good, Final
<1>2. handler' \in [Handlers -> Handler] /\ lock' \in Handlers \cup {Free}
  BY DEF Finish, IInv, Sound, TypeOK, Handler, IdleHandler, Reference, Steps, Results
<1>3. TypeOK'
  BY <1>2 DEF TypeOK, IInv, Sound, Frame, Good
<1>4. Journal(db'.ops) /\ TombstoneHasNoProcess'
  BY DEF Good, Frame, TombstoneHasNoProcess
<1>5. AnswerIsTrue'
  BY <1>1 DEF AnswerIsTrue, IInv, Final, SettledRow
<1>6. Busy'
  <2>1. \A g \in Handlers : handler'[g].pc \in {"idle", "wait"}
    BY DEF Running, Finish, IInv, Sound, TypeOK, IdleHandler
  <2>2. \A g \in Handlers : handler'[g].pc # "idle" => handler'[g] = handler[g]
    BY DEF Finish, IInv, Sound, TypeOK, IdleHandler
  <2>3. lock' = Free /\ Free \notin Handlers
    BY ServiceAssumption DEF Finish
  <2>4. QED
    BY <2>1, <2>2, <2>3 DEF Busy, IInv
<1>7. QED
  BY <1>1, <1>3, <1>4, <1>5, <1>6 DEF IInv, Sound

LEMMA AbandonKeeps ==
    ASSUME IInv, NEW h \in Handlers, Running(h), Frame, Abandon(h)
    PROVE  IInv' /\ Final
<1>1. Good(db')
  BY PresentRows DEF Abandon, IInv
<1>2. receipt' = Released(h) /\ unanswered' \in BOOLEAN /\ "none" \in Answers
  BY DEF Abandon, IInv, Sound, TypeOK, Answers
<1>3. QED
  BY <1>1, <1>2, ReceiptTypes, FinishKeeps DEF Abandon, Running

LEMMA RefuseKeeps ==
    ASSUME IInv, NEW h \in Handlers, Running(h), Frame, Refuse(h)
    PROVE  IInv' /\ Final
<1>1. Good(db')
  BY PresentRows DEF Refuse, IInv
<1>2. receipt' = Answered(h, "error") /\ unanswered' \in BOOLEAN /\ "error" \in Answers
  BY DEF Refuse, IInv, Sound, TypeOK, Answers
<1>3. /\ receipt' \in [Operations -> Receipt]
      /\ \A o \in Operations : receipt'[o].answer # receipt[o].answer => receipt'[o].answer = "error"
  BY <1>2, ReceiptTypes DEF Running
<1>4. QED
  BY <1>1, <1>2, <1>3, FinishKeeps DEF Refuse

(* complete_account_operation_command                                      *)
LEMMA CompleteKeeps ==
    ASSUME IInv, NEW h \in Handlers, Running(h), Frame, NEW d, SameRows(d),
           NEW from \in Phases, NEW to \in Phases, NEW code \in Codes,
           Movable(handler[h].o, from, to), NEW answer \in {"ok", "current", "error"},
           HasReceipt(h) => /\ answer = "ok" => to = "committed"
                            /\ answer = "current" => to = "cancelled",
           Complete(h, d, from, to, code, answer)
    PROVE  IInv' /\ Final
<1> DEFINE o == handler[h].o
           r == Advance(d, o, from, to, code, inUse)
           told == IF Accepted(r) THEN answer ELSE "error"
<1>1. Good(d) /\ Good(r.db) /\ (Accepted(r) => r.db.ops[o].phase = to)
  BY AdvanceGood, SameRowsGood DEF IInv, Running
<1>2. told \in Answers /\ o \in Operations /\ unanswered' \in BOOLEAN
  BY DEF Answers, Running, Complete
<1>3. Good(db') /\ Finish(h)
  BY <1>1 DEF Complete
<1>4. \/ receipt' = Released(h)
      \/ receipt' = Answered(h, told) /\ (Owns(h) => db' = r.db)
  BY DEF Complete
<1> HIDE DEF r, told
<1>5. receipt' \in [Operations -> Receipt]
  BY <1>2, <1>4, ReceiptTypes
<1>6. ASSUME NEW x \in Operations, receipt'[x].answer # receipt[x].answer
      PROVE  /\ receipt'[x].answer = "ok" => db'.ops[x].phase = "committed"
             /\ receipt'[x].answer = "current" => db'.ops[x].phase = "cancelled"
  <2>1. /\ HasReceipt(h) /\ Owns(h) /\ x = o /\ receipt'[x].answer = told
        /\ receipt' = Answered(h, told)
    BY <1>2, <1>4, <1>6, ReceiptTypes
  <2>2. CASE Accepted(r)
    <3>1. db'.ops[x].phase = to
      BY <1>1, <1>4, <2>1, <2>2, <1>6, <1>2, ReceiptTypes
    <3>2. QED
      BY <2>1, <2>2, <3>1 DEF told
  <2>3. CASE ~Accepted(r)
    BY <2>1, <2>3 DEF told
  <2>4. QED
    BY <2>2, <2>3
<1>7. QED
  BY <1>2, <1>3, <1>5, <1>6, FinishKeeps

(* A step within a handler.                                                *)
LEMMA StepKeeps ==
    ASSUME IInv, NEW h \in Handlers, Running(h), Frame, NEW r,
           NEW pc \in Steps \ {"idle", "wait"}, Step(h, r, pc),
           Accepted(r) => Good(r.db) /\ AtPhase(pc, r.db.ops[handler[h].o])
    PROVE  IInv' /\ Final
<1>1. CASE ~Accepted(r)
  BY <1>1, AbandonKeeps DEF Step
<1>2. CASE Accepted(r)
  <2>1. /\ db' = r.db /\ lock' = h /\ handler' = [handler EXCEPT ![h].pc = pc]
        /\ receipt' = receipt /\ unanswered' = unanswered
    BY <1>2 DEF Step, Goto
  <2>2. Good(db')
    BY <1>2, <2>1
  <2>3. Final
    BY <2>2 DEF Good, Final
  <2>4. handler' \in [Handlers -> Handler]
    BY <2>1 DEF IInv, Sound, TypeOK, Handler
  <2>5. TypeOK'
    BY <2>1, <2>2, <2>4 DEF TypeOK, IInv, Sound, Frame, Good
  <2>6. Journal(db'.ops) /\ TombstoneHasNoProcess'
    BY <2>2 DEF Good, Frame, TombstoneHasNoProcess
  <2>7. AnswerIsTrue'
    BY <2>1, <2>3 DEF AnswerIsTrue, IInv, Final, SettledRow
  <2>8. Busy'
    <3>1. \A g \in Handlers : g # h => handler'[g] = handler[g] /\ handler[g].pc \in {"idle", "wait"}
      BY <2>1 DEF Running, IInv, Sound, TypeOK
    <3>2. handler'[h].pc = pc /\ handler'[h].o = handler[h].o
      BY <2>1 DEF IInv, Sound, TypeOK, Handler
    <3>3. phase' = "up"
      BY DEF Frame, Running
    <3>4. AtPhase(handler'[h].pc, db'.ops[handler'[h].o])
      BY <1>2, <2>1, <3>2
    <3>5. QED
      BY <2>1, <3>1, <3>2, <3>3, <3>4 DEF Busy, IInv, Running
  <2>9. QED
    BY <2>3, <2>5, <2>6, <2>7, <2>8 DEF IInv, Sound
<1>3. QED
  BY <1>1, <1>2

----------------------------------------------------------------------------
(* Ways a handler's action may go, for the proofs of the actions.          *)

Kept == IInv' /\ Final

LEMMA Ends ==
    ASSUME IInv, NEW h \in Handlers, Running(h), Frame
    PROVE  /\ Refuse(h) => Kept
           /\ Abandon(h) => Kept
  BY RefuseKeeps, AbandonKeeps DEF Kept

LEMMA Completes ==
    ASSUME IInv, NEW h \in Handlers, Running(h), Frame, NEW d, SameRows(d),
           NEW from \in Phases, NEW to \in Phases, NEW code \in Codes,
           Movable(handler[h].o, from, to)
    PROVE  /\ Complete(h, d, from, to, code, "error") => Kept
           /\ ~HasReceipt(h) \/ to = "committed" => (Complete(h, d, from, to, code, "ok") => Kept)
           /\ to = "cancelled" => (Complete(h, d, from, to, code, "current") => Kept)
  BY CompleteKeeps DEF Kept

LEMMA Here == IInv => SameRows(db)
  BY PresentRows DEF IInv

LEMMA OpType ==
    ASSUME IInv, NEW o \in Operations
    PROVE  /\ db.ops[o] \in Operation /\ db.ops[o].phase \in Phases
           /\ db.ops[o].target \in Credential /\ db.ops[o].expected \in Credential
           /\ db.cred \in Credential /\ db.acct.rev \in Nat
  BY DEF IInv, Sound, TypeOK, Database, Operation, Account

LEMMA Resumes ==
    ASSUME IInv, NEW h \in Handlers, Running(h), Frame, NEW pc \in Steps \ {"idle", "wait"},
           AtPhase(pc, Op(h)), Resume(h, pc)
    PROVE  Kept
<1>1. Good(db)
  BY PresentRows DEF IInv
<1>2. Result("replayed", db).db = db
  BY DEF Result
<1>3. QED
  BY <1>1, <1>2, StepKeeps DEF Resume, Kept, Op

(* To the steps that presume nothing.                                      *)
LEMMA Advances ==
    ASSUME IInv, NEW h \in Handlers, Running(h), Frame, NEW from \in Phases, NEW to \in Phases,
           Movable(handler[h].o, from, to), NEW pc \in {"commit", "complete"},
           AdvanceStep(h, from, to, pc)
    PROVE  Kept
<1> DEFINE r == Advance(db, handler[h].o, from, to, "none", inUse)
<1>1. Good(r.db)
  BY AdvanceGood, Here DEF Running, IInv, Codes
<1>2. AtPhase(pc, r.db.ops[handler[h].o]) /\ pc \in Steps \ {"idle", "wait"}
  BY DEF AtPhase, Steps
<1>3. QED
  BY <1>1, <1>2, StepKeeps DEF AdvanceStep, Kept

LEMMA Prepares ==
    ASSUME IInv, NEW h \in Handlers, Running(h), Frame, NEW op \in Operation,
           op.phase = "prepared", op.by = NoOperation,
           NEW pc \in {"create", "pend", "rotate", "delete", "reject"},
           pc = "pend" => op.recovers = NoOperation, PrepareStep(h, op, pc)
    PROVE  Kept
<1> DEFINE r == Prepare(db, handler[h].o, op)
           new == r.db.ops[handler[h].o]
<1>1. Good(r.db) /\ (Accepted(r) => SameDescriptor(new, op))
  BY PrepareGood DEF Running, IInv
<1>2. CASE Accepted(r) /\ new.phase = "prepared"
  <2>1. AtPhase(pc, new) /\ pc \in Steps \ {"idle", "wait"}
    BY <1>1, <1>2 DEF SameDescriptor, AtPhase, Steps
  <2>2. Step(h, r, pc)
    BY <1>2 DEF PrepareStep
  <2>3. QED
    BY <1>1, <2>1, <2>2, StepKeeps DEF Kept
<1>3. CASE ~(Accepted(r) /\ new.phase = "prepared")
  BY <1>3, Ends DEF PrepareStep
<1>4. QED
  BY <1>2, <1>3

LEMMA NewOperationType ==
    ASSUME NEW kind \in Kinds, NEW rev \in Nat, NEW expected \in Credential,
           NEW target \in Credential, NEW recovers \in Reference
    PROVE  /\ NewOperation(kind, rev, expected, target, recovers) \in Operation
           /\ NewOperation(kind, rev, expected, target, recovers).phase = "prepared"
           /\ NewOperation(kind, rev, expected, target, recovers).by = NoOperation
           /\ NewOperation(kind, rev, expected, target, recovers).recovers = recovers
  BY DEF NewOperation, Operation, Phases, Codes, Reference

LEMMA BindingType ==
    /\ NoCredential \in Credential /\ NoOperation \in Reference
    /\ \A v, t \in Nat, o \in Operations : Binding(v, o, t) \in Credential
  BY DEF NoCredential, Binding, Credential, Reference

LEMMA ReceiptFields ==
    ASSUME IInv, NEW o \in Operations
    PROVE  receipt[o].rev \in Nat /\ receipt[o].token \in Nat /\ receipt[o].recovers \in Reference
  BY DEF IInv, Sound, TypeOK, Receipt

(* The unsettled operation a client is shown is one, a takeover if any.    *)
LEMMA UnsettledChoice ==
    ASSUME UnsettledOperation(db) # NoOperation
    PROVE  /\ UnsettledOperation(db) \in UnsettledOf(db)
           /\ \A x \in UnsettledOf(db) : db.ops[x].recovers # NoOperation =>
                 db.ops[UnsettledOperation(db)].recovers # NoOperation
<1> DEFINE takeovers == {o \in UnsettledOf(db) : db.ops[o].recovers # NoOperation}
<1>1. UnsettledOf(db) # {}
  BY DEF UnsettledOperation
<1>2. \E o \in UnsettledOf(db) : takeovers = {} \/ o \in takeovers
  BY <1>1
<1>3. UnsettledOperation(db) = CHOOSE o \in UnsettledOf(db) : takeovers = {} \/ o \in takeovers
  BY <1>1 DEF UnsettledOperation
<1>4. UnsettledOperation(db) \in UnsettledOf(db)
      /\ (takeovers = {} \/ UnsettledOperation(db) \in takeovers)
  BY <1>2, <1>3
<1>5. QED
  BY <1>4

LEMMA RecoveryTypes == RejectedRecovery \in Reference /\ ShownRecovery \in Reference
<1>1. UnsettledOf(db) \subseteq Reference /\ NoOperation \in Reference
  BY DEF UnsettledOf, Reference
<1>2. QED
  BY <1>1, UnsettledChoice DEF RejectedRecovery, ShownRecovery

LEMMA PredecessorType == IInv => Predecessor(db) \in Credential /\ Predecessor(db).v + 1 \in Nat
<1> SUFFICES ASSUME IInv PROVE Predecessor(db) \in Credential /\ Predecessor(db).v + 1 \in Nat
  OBVIOUS
<1>1. \A o \in Operations : db.ops[o].expected \in Credential
  BY OpType
<1>2. Predecessor(db) \in Credential
  BY <1>1, BindingType DEF Predecessor
<1>3. QED
  BY <1>2 DEF Credential

----------------------------------------------------------------------------
(* The actions of a handler.                                               *)

LEMMA MovableWhen ==
    ASSUME NEW o, NEW from, NEW to, from # "recovery" \/ to = "recovery"
    PROVE  Movable(o, from, to)
  BY DEF Movable

(* Complete where it stands, and the usual ends of an operation.           *)
LEMMA CompletesHere ==
    ASSUME IInv, NEW h \in Handlers, Running(h), Frame, NEW d, SameRows(d)
    PROVE  /\ \A p \in Phases : Complete(h, d, p, p, "none", "error") => Kept
           /\ \A p \in Phases, code \in Codes : Complete(h, d, p, "recovery", code, "error") => Kept
           /\ \A p \in Phases \ {"recovery"} : Complete(h, d, p, "cancelled", "none", "error") => Kept
           /\ \A p \in Phases \ {"recovery"} : Complete(h, d, p, "cancelled", "none", "current") => Kept
           /\ \A p \in Phases \ {"recovery"} : Complete(h, d, p, "committed", "none", "ok") => Kept
<1>1. "recovery" \in Phases /\ "cancelled" \in Phases /\ "committed" \in Phases /\ "none" \in Codes
  BY DEF Phases, Codes
<1>2. \A p \in Phases : Movable(handler[h].o, p, p) /\ Movable(handler[h].o, p, "recovery")
  BY MovableWhen
<1>3. \A p \in Phases \ {"recovery"} :
         Movable(handler[h].o, p, "cancelled") /\ Movable(handler[h].o, p, "committed")
  BY MovableWhen
<1>4. ASSUME NEW p \in Phases PROVE Complete(h, d, p, p, "none", "error") => Kept
  BY <1>1, <1>2, Completes
<1>5. ASSUME NEW p \in Phases, NEW code \in Codes
      PROVE  Complete(h, d, p, "recovery", code, "error") => Kept
  BY <1>1, <1>2, Completes
<1>6. ASSUME NEW p \in Phases \ {"recovery"}
      PROVE  /\ Complete(h, d, p, "cancelled", "none", "error") => Kept
             /\ Complete(h, d, p, "cancelled", "none", "current") => Kept
             /\ Complete(h, d, p, "committed", "none", "ok") => Kept
  BY <1>1, <1>3, Completes
<1>7. QED
  BY <1>4, <1>5, <1>6

LEMMA BeginEnrollKeeps ==
    ASSUME IInv, NEW h \in Handlers, BeginEnroll(h)
    PROVE  Kept
<1>1. Running(h) /\ Frame /\ handler[h].o \in Operations
  BY AcquireRuns, NoFaultFrame DEF BeginEnroll, Running
<1>2. Op(h).phase \in Phases
  BY <1>1, OpType DEF Op
<1>3. /\ EnrollmentOf(h) \in Operation /\ EnrollmentOf(h).phase = "prepared"
      /\ EnrollmentOf(h).by = NoOperation
  <2>1. receipt[handler[h].o].token \in Nat
    BY <1>1, ReceiptFields
  <2>2. \A v \in Nat : Binding(v, handler[h].o, receipt[handler[h].o].token) \in Credential
    BY <1>1, <2>1, BindingType
  <2>3. "enroll" \in Kinds /\ db.acct.rev \in Nat
    BY <1>1, OpType DEF Kinds
  <2>4. QED
    BY <2>2, <2>3, BindingType, PredecessorType, NewOperationType DEF EnrollmentOf
<1>4. PrepareStep(h, EnrollmentOf(h), "create") => Kept
  BY <1>1, <1>3, Prepares
<1>5. Resume(h, "complete") => Kept
  BY <1>1, Resumes DEF AtPhase, Steps
<1>6. Complete(h, db, Op(h).phase, Op(h).phase, "none", "error") => Kept
  BY <1>1, <1>2, CompletesHere, Here
<1>7. (Refuse(h) => Kept) /\ (Abandon(h) => Kept)
  BY <1>1, Ends
<1>8. QED
  BY <1>4, <1>5, <1>6, <1>7 DEF BeginEnroll

LEMMA CreateKeeps ==
    ASSUME IInv, NEW h \in Handlers, Create(h)
    PROVE  Kept
<1> DEFINE r == CreateCredential(db, Op(h).target)
<1>1. PICK call \in Calls :
         /\ Charge(call)
         /\ IF Accepted(r)
            THEN IF call = "ok" THEN Step(h, r, "apply")
                 ELSE \E d \in {db, r.db} : Complete(h, d, "prepared", "recovery", "other", "error")
            ELSE IF Seen(call, Op(h).target) = "exact" THEN Resume(h, "apply")
            ELSE \E to \in {"cancelled"} \cup (IF call = "ok" THEN {} ELSE {"recovery"}) :
                    Complete(h, db, "prepared", to,
                             IF to = "recovery" THEN "other" ELSE "none", "error")
  BY DEF Create
<1>2. Running(h) /\ Frame /\ handler[h].o \in Operations /\ AtPhase("create", Op(h))
  BY <1>1, HolderRuns, ChargeFrame DEF Create, At, Running, Op
<1>3. SameRows(db) /\ SameRows(r.db)
  BY <1>2, Here, OpType, CredentialSameRows DEF IInv, Op
<1>4. AtPhase("apply", Op(h)) /\ AtPhase("apply", r.db.ops[handler[h].o])
  BY <1>2, <1>3 DEF AtPhase, SameRows, Op
<1>5. Step(h, r, "apply") => Kept
  BY <1>2, <1>3, <1>4, SameRowsGood, StepKeeps DEF IInv, Kept, Steps
<1>6. Resume(h, "apply") => Kept
  BY <1>2, <1>4, Resumes DEF Steps
<1>7. /\ "prepared" \in Phases \ {"recovery"} /\ "other" \in Codes
  BY DEF Phases, Codes
<1>8. \A d \in {db, r.db} : /\ Complete(h, d, "prepared", "recovery", "other", "error") => Kept
                            /\ Complete(h, d, "prepared", "cancelled", "none", "error") => Kept
  BY <1>2, <1>3, <1>7, CompletesHere
<1> HIDE DEF r
<1>9. QED
  BY <1>1, <1>5, <1>6, <1>8

LEMMA RefreshOperation ==
    ASSUME IInv, NEW h \in Handlers, Running(h), Frame, NEW pc \in {"pend", "reject"},
           PrepareStep(h, NewOperation("refresh", db.acct.rev, db.cred, NoCredential,
                                       NoOperation), pc)
    PROVE  Kept
<1>1. "refresh" \in Kinds /\ db.acct.rev \in Nat /\ db.cred \in Credential
  BY OpType DEF Kinds, Running
<1>2. QED
  BY <1>1, BindingType, NewOperationType, Prepares

LEMMA ReplayRefreshKeeps ==
    ASSUME IInv, NEW h \in Handlers, Running(h), Frame, NEW call, ReplayRefresh(h, call)
    PROVE  Kept
<1>1. Op(h).phase \in Phases
  BY OpType DEF Op, Running
<1>2. \A pc \in {"commit", "complete"} : Resume(h, pc) => Kept
  BY Resumes DEF AtPhase, Steps
<1>3. "pending" \in Phases \ {"recovery"} /\ "prepared" \in Phases \ {"recovery"}
      /\ "applied" \in Phases /\ "other" \in Codes
  BY DEF Phases, Codes
<1>4. AdvanceStep(h, "pending", "applied", "commit") => Kept
  BY <1>3, Advances, MovableWhen
<1>5. /\ Complete(h, db, "prepared", "cancelled", "none", "error") => Kept
      /\ Complete(h, db, "pending", "recovery", "other", "error") => Kept
      /\ Complete(h, db, Op(h).phase, Op(h).phase, "none", "error") => Kept
  BY <1>1, <1>3, CompletesHere, Here
<1>6. Abandon(h) => Kept
  BY Ends
<1>7. QED
  BY <1>2, <1>4, <1>5, <1>6 DEF ReplayRefresh

LEMMA BeginRefreshKeeps ==
    ASSUME IInv, NEW h \in Handlers, BeginRefresh(h)
    PROVE  Kept
<1>1. PICK call \in Calls :
         /\ Charge(call)
         /\ \/ Refuse(h) \/ ReplayRefresh(h, call)
            \/ PrepareStep(h, NewOperation("refresh", db.acct.rev, db.cred, NoCredential,
                                           NoOperation), "pend")
  BY DEF BeginRefresh
<1>2. Running(h) /\ Frame
  BY <1>1, AcquireRuns, ChargeFrame DEF BeginRefresh
<1>3. QED
  BY <1>1, <1>2, Ends, ReplayRefreshKeeps, RefreshOperation

LEMMA BeginBackgroundKeeps ==
    ASSUME IInv, NEW h \in Handlers, BeginBackground(h)
    PROVE  Kept
<1>1. PICK call \in Calls :
         /\ Charge(call)
         /\ \/ Abandon(h)
            \/ PrepareStep(h, NewOperation("refresh", db.acct.rev, db.cred, NoCredential,
                                           NoOperation), "pend")
  BY DEF BeginBackground
<1>2. Running(h) /\ Frame
  BY <1>1, AcquireRuns, ChargeFrame DEF BeginBackground
<1>3. QED
  BY <1>1, <1>2, Ends, RefreshOperation

LEMMA PendKeeps ==
    ASSUME IInv, NEW h \in Handlers, Pend(h)
    PROVE  Kept
<1> DEFINE o == handler[h].o
           r == Advance(db, o, "prepared", "pending", "none", inUse)
<1>1. Running(h) /\ Frame /\ o \in Operations /\ db.ops[o].recovers = NoOperation
  BY HolderRuns, NoFaultFrame DEF Pend, At, Running, AtPhase
<1>2. "prepared" \in Phases /\ "pending" \in Phases /\ "none" \in Codes
  BY DEF Phases, Codes
<1>3. Good(r.db) /\ (Accepted(r) => r.db.ops[o].phase = "pending")
  BY <1>1, <1>2, AdvanceGood, MovableWhen, Here DEF IInv
<1>4. r.db.ops[o].recovers = NoOperation
  <2>1. r.db = db \/ r.db = [db EXCEPT !.ops = Moved(@, o, "pending", "none")]
    BY DEF Advance, Result
  <2>2. QED
    BY <1>1, <2>1 DEF Moved, IInv, Sound, TypeOK, Database, Operation
<1>5. Accepted(r) => AtPhase("provider", r.db.ops[o])
  BY <1>3, <1>4 DEF AtPhase
<1>6. Step(h, r, "provider")
  BY DEF Pend, AdvanceStep
<1>7. QED
  BY <1>1, <1>3, <1>5, <1>6, StepKeeps DEF Kept, Steps

LEMMA ResolveKeeps ==
    ASSUME IInv, NEW h \in Handlers, Resolve(h)
    PROVE  Kept
<1> DEFINE o == handler[h].o
           r == SetTarget(db, o, Binding(db.cred.v + 1, o, handler[h].token))
<1>1. /\ Running(h) /\ Frame /\ o \in Operations
      /\ db.ops[o].recovers = NoOperation /\ db.ops[o].phase = "pending"
  BY HolderRuns, NoFaultFrame DEF Resolve, At, Running, AtPhase
<1>2. Binding(db.cred.v + 1, o, handler[h].token) \in Credential
  <2>1. handler[h].token \in Nat /\ db.cred.v + 1 \in Nat
    BY DEF IInv, Sound, TypeOK, Handler, Database, Credential
  <2>2. QED
    BY <1>1, <2>1, BindingType
<1>3. Good(r.db) /\ r.db.ops[o].phase = "pending"
  BY <1>1, <1>2, TargetGood DEF IInv
<1>4. AtPhase("rotate", r.db.ops[o])
  BY <1>3 DEF AtPhase
<1>5. Step(h, r, "rotate") => Kept
  <2>1. "rotate" \in Steps \ {"idle", "wait"}
    BY DEF Steps
  <2>2. Accepted(r) => Good(r.db) /\ AtPhase("rotate", r.db.ops[handler[h].o])
    BY <1>3, <1>4
  <2> HIDE DEF r
  <2>3. QED
    BY <1>1, <2>1, <2>2, StepKeeps DEF Kept
<1>6. "pending" \in Phases \ {"recovery"} /\ "rejected" \in Codes /\ "other" \in Codes
  BY DEF Phases, Codes
<1>7. /\ Complete(h, db, "pending", "cancelled", "none", "current") => Kept
      /\ Complete(h, db, "pending", "cancelled", "none", "error") => Kept
      /\ Complete(h, db, "pending", "recovery", "rejected", "error") => Kept
      /\ Complete(h, db, "pending", "recovery", "other", "error") => Kept
  BY <1>1, <1>6, CompletesHere, Here
<1> HIDE DEF r
<1>8. QED
  BY <1>5, <1>7 DEF Resolve, r

(* The provider's answer changes the handler alone.                        *)
LEMMA ProviderKeeps ==
    ASSUME IInv, NEW h \in Handlers, NEW result \in Results, Provider(h, result)
    PROVE  Kept
<1> DEFINE new == handler'[h]
<1>1. /\ Running(h) /\ lock = h /\ handler[h].o \in Operations
      /\ AtPhase("provider", db.ops[handler[h].o])
  BY HolderRuns DEF Provider, At, Running
<1>2. handler \in [Handlers -> Handler]
  BY DEF IInv, Sound, TypeOK
<1>3. valid' \subseteq Nat /\ issued' \in Nat
  BY DEF Provider, IInv, Sound, TypeOK
<1>4. /\ handler' \in [Handlers -> Handler]
      /\ \A g \in Handlers : g # h => handler'[g] = handler[g]
      /\ new.pc = "resolve" /\ new.o = handler[h].o
  <2>1. issued + 1 \in Nat /\ "resolve" \in Steps
    BY DEF IInv, Sound, TypeOK, Steps
  <2>2. handler' = [handler EXCEPT ![h].pc = "resolve", ![h].result = result,
                                   ![h].token = IF result = "rotated" THEN issued + 1 ELSE 0]
    BY DEF Provider
  <2>3. QED
    BY ZenonT(60), <1>2, <2>1, <2>2 DEF Handler
<1>5. UNCHANGED <<db, receipt, lock, unanswered, inUse, phase, crashes, toggles, faults>>
  BY DEF Provider, NoWorld, NoFault
<1>6. TypeOK'
  BY <1>3, <1>4, <1>5 DEF TypeOK, IInv, Sound
<1>7. Busy'
  BY <1>1, <1>4, <1>5 DEF Busy, IInv, AtPhase, Running
<1>8. Journal(db'.ops) /\ TombstoneHasNoProcess' /\ AnswerIsTrue' /\ Final
  BY <1>5 DEF IInv, Sound, TombstoneHasNoProcess, AnswerIsTrue, Final
<1>9. QED
  BY <1>6, <1>7, <1>8 DEF Kept, IInv, Sound

LEMMA RotateKeeps ==
    ASSUME IInv, NEW h \in Handlers, Rotate(h)
    PROVE  Kept
<1> DEFINE r == RotateCredential(db, Op(h).expected, Op(h).target)
           Outcome(d) ==
              \/ Complete(h, d, "pending", "recovery", "other", "error")
              \/ Step(h, Result("applied", d), "apply")
              \/ Complete(h, d, "prepared", "cancelled", "none", "error")
              \/ Complete(h, d, "prepared", "recovery", "other", "error")
<1>1. PICK rotation \in Calls :
         /\ Charge(rotation)
         /\ Step(h, r, "apply") \/ \E d \in {db, r.db} : Outcome(d)
  BY DEF Rotate
<1>2. Running(h) /\ Frame /\ handler[h].o \in Operations /\ AtPhase("rotate", Op(h))
  BY <1>1, HolderRuns, ChargeFrame DEF Rotate, At, Running, Op
<1>3. SameRows(db) /\ SameRows(r.db)
  BY <1>2, Here, OpType, CredentialSameRows DEF IInv, Op
<1>4. "pending" \in Phases \ {"recovery"} /\ "prepared" \in Phases \ {"recovery"}
      /\ "other" \in Codes /\ "apply" \in Steps \ {"idle", "wait"}
  BY DEF Phases, Codes, Steps
<1>5. ASSUME NEW d, SameRows(d), NEW x, x.db = d, Step(h, x, "apply")
      PROVE  Kept
  <2>1. Good(d) /\ AtPhase("apply", d.ops[handler[h].o])
    BY <1>2, <1>5, SameRowsGood DEF AtPhase, SameRows, Op, IInv
  <2>2. QED
    BY <1>2, <1>4, <1>5, <2>1, StepKeeps DEF Kept
<1>6. ASSUME NEW d \in {db, r.db}, Outcome(d)
      PROVE  Kept
  <2>1. SameRows(d) /\ Result("applied", d).db = d
    BY <1>3 DEF Result
  <2>2. /\ Complete(h, d, "pending", "recovery", "other", "error") => Kept
        /\ Complete(h, d, "prepared", "cancelled", "none", "error") => Kept
        /\ Complete(h, d, "prepared", "recovery", "other", "error") => Kept
    BY <1>2, <1>4, <2>1, CompletesHere
  <2>3. QED
    BY <1>5, <1>6, <2>1, <2>2
<1>7. QED
  BY <1>1, <1>3, <1>5, <1>6

LEMMA ReplayReauthKeeps ==
    ASSUME IInv, NEW h \in Handlers, Running(h), Frame, NEW call \in Calls,
           ReplayReauth(h, call)
    PROVE  Kept
<1>1. Op(h).phase \in Phases
  BY OpType DEF Op, Running
<1>2. Resume(h, "complete") => Kept
  BY Resumes DEF AtPhase, Steps
<1>3. "cancelled" \in Phases /\ "prepared" \in Phases \ {"recovery"}
      /\ "applied" \in Phases /\ "other" \in Codes
  BY DEF Phases, Codes
<1>4. /\ Complete(h, db, "cancelled", "cancelled", "none", "error") => Kept
      /\ Complete(h, db, "prepared", "cancelled", "none", "error") => Kept
      /\ Complete(h, db, Op(h).phase, "recovery", "other", "error") => Kept
  BY <1>1, <1>3, CompletesHere, Here
<1>5. ASSUME Seen(call, Op(h).target) = "exact", AdvanceStep(h, Op(h).phase, "applied", "complete")
      PROVE  Kept
  <2>1. Op(h).target # NoCredential
    BY <1>5 DEF Seen, ReadExact, Calls
  <2>2. Movable(handler[h].o, Op(h).phase, "applied")
    BY <2>1 DEF Movable, Op
  <2>3. QED
    BY <1>1, <1>3, <1>5, <2>2, Advances
<1>6. QED
  BY <1>2, <1>4, <1>5 DEF ReplayReauth

LEMMA BeginReauthKeeps ==
    ASSUME IInv, NEW h \in Handlers, BeginReauth(h)
    PROVE  Kept
<1> DEFINE o == handler[h].o
           op == NewOperation("refresh", receipt[o].rev, db.cred,
                              Binding(db.cred.v + 1, o, receipt[o].token), receipt[o].recovers)
<1>1. PICK call \in Calls :
         Charge(call) /\ (Refuse(h) \/ ReplayReauth(h, call) \/ PrepareStep(h, op, "rotate"))
  BY DEF BeginReauth
<1>2. Running(h) /\ Frame /\ o \in Operations
  BY <1>1, AcquireRuns, ChargeFrame DEF BeginReauth, Running
<1>3. op \in Operation /\ op.phase = "prepared" /\ op.by = NoOperation
  <2>1. /\ receipt[o].token \in Nat /\ receipt[o].rev \in Nat /\ receipt[o].recovers \in Reference
        /\ db.cred \in Credential /\ "refresh" \in Kinds
    BY <1>2, ReceiptFields, OpType DEF Kinds
  <2>2. db.cred.v + 1 \in Nat
    BY <2>1 DEF Credential
  <2>3. Binding(db.cred.v + 1, o, receipt[o].token) \in Credential
    BY <1>2, <2>1, <2>2, BindingType
  <2>4. QED
    BY <2>1, <2>3, NewOperationType
<1> HIDE DEF op
<1>4. QED
  BY <1>1, <1>2, <1>3, Ends, ReplayReauthKeeps, Prepares

LEMMA BeginLogoutKeeps ==
    ASSUME IInv, NEW h \in Handlers, BeginLogout(h)
    PROVE  Kept
<1> DEFINE o == handler[h].o
           op == NewOperation("logout", receipt[o].rev, db.cred, NoCredential, RejectedRecovery)
<1>1. Running(h) /\ Frame /\ o \in Operations
  BY AcquireRuns, NoFaultFrame DEF BeginLogout, Running
<1>2. op \in Operation /\ op.phase = "prepared" /\ op.by = NoOperation
  <2>1. receipt[o].rev \in Nat /\ db.cred \in Credential /\ "logout" \in Kinds
    BY <1>1, ReceiptFields, OpType DEF Kinds
  <2>2. QED
    BY <2>1, BindingType, RecoveryTypes, NewOperationType
<1>3. PrepareStep(h, op, "delete") => Kept
  BY <1>1, <1>2, Prepares
<1>4. Op(h).phase \in Phases
  BY <1>1, OpType DEF Op
<1>5. Resume(h, "complete") => Kept
  BY <1>1, Resumes DEF AtPhase, Steps
<1>6. Op(h).phase = "prepared" /\ Resume(h, "delete") => Kept
  BY <1>1, Resumes DEF AtPhase, Steps
<1>7. Complete(h, db, Op(h).phase, Op(h).phase, "none", "error") => Kept
  BY <1>1, <1>4, CompletesHere, Here
<1>8. Refuse(h) => Kept
  BY <1>1, Ends
<1> HIDE DEF op
<1>9. QED
  BY <1>3, <1>5, <1>6, <1>7, <1>8 DEF BeginLogout, op

LEMMA DeleteKeeps ==
    ASSUME IInv, NEW h \in Handlers, Delete(h)
    PROVE  Kept
<1> DEFINE r == DeleteCredential(db, Op(h).expected)
           code == IF Op(h).phase = "recovery" THEN "none" ELSE "other"
<1>1. PICK call \in Calls :
         /\ Charge(call)
         /\ \/ \E d \in {db, r.db} : Complete(h, d, Op(h).phase, "recovery", code, "error")
            \/ Step(h, Result("applied", r.db), "apply")
  BY DEF Delete
<1>2. Running(h) /\ Frame /\ handler[h].o \in Operations /\ AtPhase("delete", Op(h))
  BY <1>1, HolderRuns, ChargeFrame DEF Delete, At, Running, Op
<1>3. SameRows(db) /\ SameRows(r.db)
  BY <1>2, Here, BindingType, CredentialSameRows DEF IInv
<1>4. Op(h).phase \in Phases /\ code \in Codes
  BY <1>2, OpType DEF Op, Codes
<1>5. \A d \in {db, r.db} : Complete(h, d, Op(h).phase, "recovery", code, "error") => Kept
  BY <1>2, <1>3, <1>4, CompletesHere
<1>6. Step(h, Result("applied", r.db), "apply") => Kept
  <2>1. Result("applied", r.db).db = r.db
    BY DEF Result
  <2>2. Good(r.db) /\ AtPhase("apply", r.db.ops[handler[h].o])
    BY <1>2, <1>3, SameRowsGood DEF AtPhase, SameRows, Op, IInv
  <2>3. QED
    BY <1>2, <2>1, <2>2, StepKeeps DEF Kept, Steps
<1>7. QED
  BY <1>1, <1>5, <1>6

LEMMA ObserveKeeps ==
    ASSUME IInv, NEW h \in Handlers, BeginObserve(h) \/ Reject(h)
    PROVE  Kept
<1>1. CASE BeginObserve(h)
  <2>1. Running(h) /\ Frame
    BY <1>1, AcquireRuns, NoFaultFrame DEF BeginObserve
  <2>2. QED
    BY <1>1, <2>1, Ends, RefreshOperation DEF BeginObserve
<1>2. CASE Reject(h)
  <2>1. Running(h) /\ Frame /\ "prepared" \in Phases /\ "rejected" \in Codes
    BY <1>2, HolderRuns, NoFaultFrame DEF Reject, At, Phases, Codes
  <2>2. QED
    BY <1>2, <2>1, CompletesHere, Here DEF Reject
<1>3. QED
  BY <1>1, <1>2

LEMMA ApplyKeeps ==
    ASSUME IInv, NEW h \in Handlers, Apply(h)
    PROVE  Kept
<1>1. Running(h) /\ Frame /\ handler[h].o \in Operations /\ AtPhase("apply", Op(h))
  BY HolderRuns, NoFaultFrame DEF Apply, At, Running, Op
<1>2. Op(h).phase \in Phases /\ "applied" \in Phases
  BY <1>1, OpType DEF Op, Phases
<1>3. Movable(handler[h].o, Op(h).phase, "applied")
  BY <1>1 DEF Movable, AtPhase, Op
<1>4. QED
  BY <1>1, <1>2, <1>3, Advances DEF Apply

LEMMA CommitKeeps ==
    ASSUME IInv, NEW h \in Handlers, Commit(h) \/ CompleteSuccess(h)
    PROVE  Kept
<1> DEFINE r == Advance(db, handler[h].o, "applied", "committed", "none", inUse)
<1>1. Running(h) /\ Frame
  BY HolderRuns, NoFaultFrame DEF Commit, CompleteSuccess, At
<1>2. "applied" \in Phases \ {"recovery"} /\ "committed" \in Phases /\ "none" \in Codes
  BY DEF Phases, Codes
<1>3. Good(r.db)
  BY <1>1, <1>2, AdvanceGood, MovableWhen, Here DEF IInv, Running
<1>4. CASE Commit(h) /\ Step(h, r, "complete")
  <2>1. AtPhase("complete", r.db.ops[handler[h].o])
    BY DEF AtPhase
  <2>2. QED
    BY <1>1, <1>3, <1>4, <2>1, StepKeeps DEF Kept, Steps
<1>5. CASE Commit(h) /\ db' = r.db /\ Finish(h) /\ UNCHANGED <<receipt, unanswered>>
  <2>1. receipt' \in [Operations -> Receipt] /\ unanswered' \in BOOLEAN /\ Good(db')
    BY <1>3, <1>5 DEF IInv, Sound, TypeOK
  <2>2. QED
    BY <1>1, <1>5, <2>1, FinishKeeps DEF Kept
<1>6. CASE CompleteSuccess(h)
  BY <1>1, <1>2, <1>6, CompletesHere, Here DEF CompleteSuccess
<1>7. QED
  BY <1>4, <1>5, <1>6 DEF Commit

LEMMA ReconcileExactKeeps ==
    ASSUME IInv, NEW h \in Handlers, Running(h), Frame, ~HasReceipt(h), NEW call \in Calls,
           Op(h).phase \notin {"committed", "cancelled"}, ReconcileExact(h, call)
    PROVE  Kept
<1> DEFINE op == Op(h)
           code == IF op.phase = "recovery" THEN "none" ELSE "other"
<1>1. op.phase \in Phases /\ code \in Codes /\ handler[h].o \in Operations
  BY OpType DEF Op, Running, Codes
<1>2. "applied" \in Phases \ {"recovery"} /\ "prepared" \in Phases \ {"recovery"}
      /\ "cancelled" \in Phases /\ "none" \in Codes
  BY DEF Phases, Codes
<1>3. /\ Complete(h, db, "applied", "committed", "none", "ok") => Kept
      /\ Complete(h, db, op.phase, "recovery", code, "error") => Kept
  BY <1>1, <1>2, CompletesHere, Here
<1>4. Complete(h, db, "prepared", "cancelled", "none", "ok") => Kept
  BY <1>2, Completes, MovableWhen, Here
<1>5. op.kind = "logout" /\ Resume(h, "delete") => Kept
  BY Resumes DEF AtPhase, Steps
<1>6. ASSUME ProvedApplied(op, call), AdvanceStep(h, op.phase, "applied", "complete")
      PROVE  Kept
  <2>1. op.kind # "refresh" \/ op.target # NoCredential
    BY <1>6 DEF ProvedApplied
  <2>2. Movable(handler[h].o, op.phase, "applied")
    BY <2>1 DEF Movable, Op
  <2>3. QED
    BY <1>1, <1>2, <1>6, <2>2, Advances
<1>7. QED
  BY <1>3, <1>4, <1>5, <1>6 DEF ReconcileExact

(* A takeover in recovery may be cancelled, what it took over may not.     *)
LEMMA RecoverKeeps ==
    ASSUME IInv, NEW h \in Handlers, NEW cmd \in Recoveries, Recover(h, cmd)
    PROVE  Kept
<1> DEFINE op == Op(h)
<1>1. PICK call \in Calls :
         /\ Charge(call)
         /\ \/ Refuse(h) \/ Abandon(h)
            \/ /\ op.phase \in {"committed", "cancelled"}
               /\ Complete(h, db, op.phase, op.phase, "none", "ok")
            \/ op.phase \notin {"committed", "cancelled"} /\ ReconcileExact(h, call)
            \/ ProvedAbsent(op, call) /\ Complete(h, db, op.phase, "cancelled", "none", "ok")
            \/ Complete(h, db, op.phase, op.phase, "none", "error")
  BY DEF Recover
<1>2. Running(h) /\ Frame /\ handler[h].o \in Operations
  BY <1>1, AcquireRuns, ChargeFrame DEF Recover, Running
<1>3. ~HasReceipt(h)
  BY DEF Recover, Acquire, HasReceipt, Recoveries, Commands
<1>4. op.phase \in Phases /\ "cancelled" \in Phases /\ "none" \in Codes
  BY <1>2, OpType DEF Op, Phases, Codes
<1>5. /\ Complete(h, db, op.phase, op.phase, "none", "error") => Kept
      /\ Complete(h, db, op.phase, op.phase, "none", "ok") => Kept
  BY <1>2, <1>3, <1>4, Completes, MovableWhen, Here
<1>6. ASSUME ProvedAbsent(op, call), Complete(h, db, op.phase, "cancelled", "none", "ok")
      PROVE  Kept
  <2>1. op.phase # "recovery" \/ op.kind # "refresh" \/ op.recovers # NoOperation
    BY <1>6 DEF ProvedAbsent
  <2>2. op.recovers # NoOperation => ~Held(db.ops, handler[h].o)
    BY <1>2, HeldIsRecovery DEF Op, IInv, Sound, TypeOK, Database, Rows
  <2>3. Movable(handler[h].o, op.phase, "cancelled")
    BY <2>1, <2>2 DEF Movable, Op
  <2>4. QED
    BY <1>2, <1>3, <1>4, <1>6, <2>3, Completes, Here
<1>7. QED
  BY <1>1, <1>2, <1>3, <1>5, <1>6, Ends, ReconcileExactKeeps

LEMMA JournalFailsKeeps ==
    ASSUME IInv, NEW h \in Handlers, JournalFails(h)
    PROVE  Kept
<1>1. Running(h) /\ Frame
  BY HolderRuns, ChargeFrame DEF JournalFails, IInv, Busy
<1>2. QED
  BY <1>1, Ends DEF JournalFails

LEMMA HandlerStepKeeps ==
    ASSUME IInv, NEW h \in Handlers, HandlerStep(h)
    PROVE  Kept
  BY BeginEnrollKeeps, BeginRefreshKeeps, BeginBackgroundKeeps, BeginReauthKeeps,
     BeginLogoutKeeps, ObserveKeeps, RecoverKeeps, CreateKeeps, PendKeeps, ProviderKeeps,
     ResolveKeeps, RotateKeeps, DeleteKeeps, ApplyKeeps, CommitKeeps DEF HandlerStep

----------------------------------------------------------------------------
(* Startup and the rest of the world.                                      *)

LEMMA NobodyRuns ==
    ASSUME IInv, lock = Free \/ phase = "starting"
    PROVE  \A h \in Handlers : handler[h].pc \in {"idle", "wait"}
  BY ServiceAssumption DEF IInv, Busy

(* The database changes while no handler is past its wait.                 *)
LEMMA WorldKeeps ==
    ASSUME IInv, \A h \in Handlers : handler[h].pc \in {"idle", "wait"},
           Good(db'), UNCHANGED <<receipt, handler, lock, unanswered, valid, issued, crashes>>,
           phase' \in {"starting", "up"}, faults' \in Nat, toggles' \in Nat,
           inUse' \in BOOLEAN, inUse' => db'.acct.row = "live"
    PROVE  Kept
<1>1. Final
  BY DEF Good, Final
<1>2. TypeOK'
  BY DEF TypeOK, IInv, Sound, Good
<1>3. Journal(db'.ops) /\ TombstoneHasNoProcess'
  BY DEF Good, TombstoneHasNoProcess
<1>4. AnswerIsTrue'
  BY <1>1 DEF AnswerIsTrue, IInv, Final, SettledRow
<1>5. Busy'
  BY DEF Busy, IInv
<1>6. QED
  BY <1>1, <1>2, <1>3, <1>4, <1>5 DEF IInv, Sound, Kept

LEMMA SettleKeeps ==
    ASSUME IInv, Startup, StartupKeeps, faults' \in Nat, NEW r, Good(r.db), Settle(r)
    PROVE  Kept
<1>1. \A h \in Handlers : handler[h].pc \in {"idle", "wait"}
  BY NobodyRuns DEF Startup
<1>2. Good(db') /\ phase' \in {"starting", "up"}
  BY PresentRows DEF Settle, IInv, Sound, TypeOK
<1>3. /\ UNCHANGED <<receipt, handler, lock, unanswered, valid, issued, crashes, toggles, inUse>>
      /\ toggles' \in Nat /\ inUse' \in BOOLEAN
  BY DEF Startup, StartupKeeps, NoProvider, IInv, Sound, TypeOK
<1>4. inUse' => db'.acct.row = "live"
  BY <1>2, <1>3 DEF Good
<1>5. QED
  BY <1>1, <1>2, <1>3, <1>4, WorldKeeps

LEMMA ChargeNat ==
    ASSUME IInv, NEW call, Charge(call)
    PROVE  faults' \in Nat
  BY DEF Charge, IInv, Sound, TypeOK

LEMMA ReconcileKeeps ==
    ASSUME IInv, NEW o \in Operations, Reconcile(o)
    PROVE  Kept
<1> DEFINE op == db.ops[o]
           To(to, code) == Settle(Advance(db, o, op.phase, to, code, inUse))
<1>1. PICK call \in Calls :
         /\ Charge(call)
         /\ \/ To("committed", "none") \/ To("applied", "none")
            \/ To("cancelled", "none") \/ To("recovery", "other")
  BY DEF Reconcile
<1>2. op.phase \in Phases /\ op.phase # "recovery"
  BY OpType DEF Reconcile, Unreconciled
<1>3. \A to \in Phases, code \in Codes :
         Good(Advance(db, o, op.phase, to, code, inUse).db)
  <2> SUFFICES ASSUME NEW to \in Phases, NEW code \in Codes
               PROVE  Good(Advance(db, o, op.phase, to, code, inUse).db)
    OBVIOUS
  <2> QED
    BY <1>2, AdvanceGood, MovableWhen, Here DEF IInv
<1>4. Startup /\ StartupKeeps /\ faults' \in Nat
  BY <1>1, ChargeNat DEF Reconcile
<1>5. \A to \in Phases, code \in Codes : To(to, code) => Kept
  BY <1>3, <1>4, SettleKeeps
<1> HIDE DEF To
<1>6. QED
  BY <1>1, <1>5 DEF Phases, Codes

LEMMA ReconcileLogoutKeeps ==
    ASSUME IInv, NEW o \in Operations, ReconcileLogout(o)
    PROVE  Kept
<1> DEFINE r == DeleteCredential(db, db.ops[o].expected)
           To(d, to, code) == Settle(Advance(d, o, "prepared", to, code, inUse))
<1>1. PICK call \in Calls :
         /\ Charge(call)
         /\ \/ \E d \in {db, r.db} : To(d, "recovery", "other")
            \/ To(db, "applied", "none") \/ Settle(r)
  BY DEF ReconcileLogout
<1>2. SameRows(db) /\ SameRows(r.db)
  BY Here, BindingType, CredentialSameRows DEF IInv
<1>3. \A d \in {db, r.db}, to \in Phases, code \in Codes :
         Good(Advance(d, o, "prepared", to, code, inUse).db)
  <2> SUFFICES ASSUME NEW d \in {db, r.db}, NEW to \in Phases, NEW code \in Codes
               PROVE  Good(Advance(d, o, "prepared", to, code, inUse).db)
    OBVIOUS
  <2>1. SameRows(d) /\ "prepared" \in Phases /\ Movable(o, "prepared", to)
    BY <1>2, MovableWhen DEF Phases
  <2> QED
    BY <2>1, AdvanceGood DEF IInv
<1>4. Startup /\ StartupKeeps /\ faults' \in Nat
  BY <1>1, ChargeNat DEF ReconcileLogout
<1>5. \A d \in {db, r.db}, to \in Phases, code \in Codes : To(d, to, code) => Kept
  BY <1>3, <1>4, SettleKeeps
<1>6. Settle(r) => Kept
  BY <1>2, <1>4, SettleKeeps, SameRowsGood DEF IInv
<1> HIDE DEF To, r
<1>7. QED
  BY <1>1, <1>5, <1>6 DEF Phases, Codes

LEMMA StartupEndsKeeps ==
    ASSUME IInv, StartupEnds
    PROVE  Kept
<1>1. faults' \in Nat /\ phase' = "up" /\ db' = db /\ Startup /\ StartupKeeps
  BY ChargeNat DEF StartupEnds, NoFault, IInv, Sound, TypeOK
<1>2. Settle(Result("stale", db)) /\ Result("stale", db).db = db
  BY <1>1 DEF Settle, Accepted, Result
<1>3. QED
  BY <1>1, <1>2, SettleKeeps, PresentRows DEF IInv

(* An accepted observation cancels a recovery no takeover holds, because a *)
(* takeover would have been shown instead.                                 *)
LEMMA AcceptRecoveryKeeps ==
    ASSUME IInv, NEW o \in Operations, AcceptRecovery(o)
    PROVE  Kept
<1>1. o = UnsettledOperation(db) /\ o # NoOperation
  BY StoreAssumption DEF AcceptRecovery, RejectedRecovery
<1>2. o \in UnsettledOf(db) /\ db.ops[o].kind = "refresh" /\ db.ops[o].target = NoCredential
  BY <1>1, UnsettledChoice, StoreAssumption DEF AcceptRecovery, RejectedRecovery
<1>3. ~Held(db.ops, o)
  <2> SUFFICES ASSUME NEW x \in Operations, IsUnsettled(db.ops[x]), db.ops[x].recovers = o
               PROVE  FALSE
    BY DEF Held
  <2>1. db.ops[o].recovers # NoOperation
    BY <1>1, UnsettledChoice DEF UnsettledOf
  <2>2. Held(db.ops, o)
    BY DEF Held
  <2>3. QED
    BY <2>1, <2>2, HeldIsRecovery DEF IInv, Sound, TypeOK, Database, Rows
<1>4. Good(db')
  <2>1. "recovery" \in Phases /\ "cancelled" \in Phases /\ "none" \in Codes
    BY DEF Phases, Codes
  <2>2. Movable(o, "recovery", "cancelled")
    BY <1>3 DEF Movable
  <2>3. QED
    BY <2>1, <2>2, AdvanceGood, Here DEF AcceptRecovery, IInv
<1>5. \A h \in Handlers : handler[h].pc \in {"idle", "wait"}
  BY NobodyRuns DEF AcceptRecovery
<1>6. /\ UNCHANGED <<receipt, handler, lock, unanswered, valid, issued, crashes, inUse>>
      /\ phase' \in {"starting", "up"} /\ faults' \in Nat /\ toggles' \in Nat
      /\ inUse' \in BOOLEAN
  BY DEF AcceptRecovery, Quiet, NoProvider, NoWorld, NoFault, IInv, Sound, TypeOK
<1>7. inUse' => db'.acct.row = "live"
  BY <1>4, <1>6 DEF Good
<1>8. QED
  BY <1>4, <1>5, <1>6, <1>7, WorldKeeps

LEMMA ToggleKeeps ==
    ASSUME IInv, NEW enabled \in BOOLEAN, Toggle(enabled)
    PROVE  Kept
<1>1. Good(db')
  BY EnabledGood DEF Toggle, IInv
<1>2. \A h \in Handlers : handler[h].pc \in {"idle", "wait"}
  BY NobodyRuns DEF Toggle
<1>3. /\ UNCHANGED <<receipt, handler, lock, unanswered, valid, issued, crashes, inUse>>
      /\ phase' \in {"starting", "up"} /\ faults' \in Nat /\ toggles' \in Nat
      /\ inUse' \in BOOLEAN
  BY DEF Toggle, NoProvider, NoFault, IInv, Sound, TypeOK
<1>4. inUse' => db'.acct.row = "live"
  BY <1>1, <1>3 DEF Good
<1>5. QED
  BY <1>1, <1>2, <1>3, <1>4, WorldKeeps

LEMMA LaunchKeeps ==
    ASSUME IInv, Launch
    PROVE  Kept
<1>1. Good(db') /\ db'.acct.row = "live"
  BY PresentRows DEF Launch, Admitted, IInv
<1>2. \A h \in Handlers : handler[h].pc \in {"idle", "wait"}
  BY NobodyRuns DEF Launch
<1>3. /\ UNCHANGED <<receipt, handler, lock, unanswered, valid, issued, crashes>>
      /\ phase' \in {"starting", "up"} /\ faults' \in Nat /\ toggles' \in Nat
      /\ inUse' \in BOOLEAN
  BY DEF Launch, NoProvider, NoFault, IInv, Sound, TypeOK
<1>4. QED
  BY <1>1, <1>2, <1>3, WorldKeeps

(* Neither a process nor a claim changes the database or a handler.        *)
LEMMA OutsideKeeps ==
    ASSUME IInv, ProcessDies \/ \E o \in Operations : ClaimExpires(o)
    PROVE  Kept
<1>1. /\ UNCHANGED <<db, handler, lock, unanswered, valid, issued, phase, crashes, faults, toggles>>
      /\ inUse' \in BOOLEAN /\ (inUse' => inUse)
  <2>1. inUse \in BOOLEAN
    BY DEF IInv, Sound, TypeOK
  <2>2. CASE ProcessDies
    BY <2>1, <2>2 DEF ProcessDies, NoProvider, NoFault
  <2>3. ASSUME NEW o \in Operations, ClaimExpires(o)
        PROVE  /\ UNCHANGED <<db, handler, lock, unanswered, valid, issued, phase, crashes>>
               /\ UNCHANGED <<faults, toggles, inUse>>
    BY <2>3 DEF ClaimExpires, Quiet, NoProvider, NoWorld, NoFault
  <2>4. QED
    BY <2>1, <2>2, <2>3
<1>2. /\ receipt' \in [Operations -> Receipt]
      /\ \A o \in Operations : receipt'[o].answer = receipt[o].answer
  <2>1. receipt \in [Operations -> Receipt] /\ Free \in Handlers \cup {Free}
    BY DEF IInv, Sound, TypeOK
  <2>2. CASE ProcessDies
    BY <2>1, <2>2 DEF ProcessDies
  <2>3. ASSUME NEW o \in Operations, ClaimExpires(o)
        PROVE  /\ receipt' \in [Operations -> Receipt]
               /\ \A x \in Operations : receipt'[x].answer = receipt[x].answer
    BY <2>1, <2>3 DEF ClaimExpires, Receipt
  <2>4. QED
    BY <2>2, <2>3
<1>3. TypeOK'
  BY <1>1, <1>2 DEF TypeOK, IInv, Sound
<1>4. Busy' /\ Journal(db'.ops) /\ Final
  BY <1>1 DEF Busy, IInv, Sound, Final
<1>5. TombstoneHasNoProcess' /\ AnswerIsTrue'
  BY <1>1, <1>2 DEF TombstoneHasNoProcess, AnswerIsTrue, IInv, Sound
<1>6. QED
  BY <1>3, <1>4, <1>5 DEF Kept, IInv, Sound

LEMMA CrashKeeps ==
    ASSUME IInv, Crash
    PROVE  Kept
<1>1. UNCHANGED <<db, unanswered, valid, issued, inUse, faults, toggles>> /\ lock' = Free
      /\ crashes' \in Nat /\ phase' = "starting"
  BY DEF Crash, NoProvider, NoFault, IInv, Sound, TypeOK
<1>2. handler' = [h \in Handlers |-> IdleHandler] /\ IdleHandler \in Handler
  BY DEF Crash, IdleHandler, Handler, Steps, Results, Reference
<1>3. /\ receipt' \in [Operations -> Receipt]
      /\ \A o \in Operations : receipt'[o].answer = receipt[o].answer
  BY SMTT(30) DEF Crash, IInv, Sound, TypeOK, Receipt
<1>4. TypeOK'
  BY <1>1, <1>2, <1>3 DEF TypeOK, IInv, Sound
<1>5. Busy'
  BY <1>1, <1>2, ServiceAssumption DEF Busy, IdleHandler
<1>6. Journal(db'.ops) /\ Final /\ TombstoneHasNoProcess' /\ AnswerIsTrue'
  BY <1>1, <1>3 DEF TombstoneHasNoProcess, AnswerIsTrue, IInv, Sound, Final
<1>7. QED
  BY <1>4, <1>5, <1>6 DEF Kept, IInv, Sound

(* A command, a task or a retry begins to wait.                            *)
LEMMA WaitKeeps ==
    ASSUME IInv, NEW h \in Handlers, At(h, "idle"), NEW o \in Operations, NEW rev \in Nat,
           NEW cmd \in Commands \cup Tasks \cup Recoveries \cup {"none"},
           handler' = [handler EXCEPT ![h] = Waiting(cmd, o, rev)], Frame,
           UNCHANGED <<db, lock, unanswered>>, receipt' \in [Operations -> Receipt],
           \A x \in Operations : receipt'[x].answer \in {"none", receipt[x].answer}
    PROVE  Kept
<1>1. /\ Waiting(cmd, o, rev) \in Handler /\ Waiting(cmd, o, rev).pc = "wait"
      /\ Waiting(cmd, o, rev).o = o
  BY DEF Waiting, IdleHandler, Handler, Steps, Results, Reference
<1>2. /\ handler' \in [Handlers -> Handler] /\ handler'[h] = Waiting(cmd, o, rev)
      /\ \A g \in Handlers : g # h => handler'[g] = handler[g]
  BY <1>1 DEF IInv, Sound, TypeOK
<1>3. TypeOK'
  BY <1>2 DEF TypeOK, IInv, Sound, Frame
<1>4. Busy'
  BY <1>1, <1>2 DEF Busy, IInv, At, Frame
<1>5. Journal(db'.ops) /\ Final /\ TombstoneHasNoProcess' /\ AnswerIsTrue'
  BY DEF TombstoneHasNoProcess, AnswerIsTrue, IInv, Sound, Final, Frame
<1>6. QED
  BY <1>3, <1>4, <1>5 DEF Kept, IInv, Sound

LEMMA SubmitKeeps ==
    ASSUME IInv, NEW h \in Handlers, NEW o \in Operations, NEW cmd \in Commands, Submit(h, o, cmd)
    PROVE  Kept
<1> DEFINE login == cmd \in {"enroll", "reauth"}
           new == [state |-> "reserved", cmd |-> cmd,
                   rev |-> IF cmd = "enroll" THEN 0 ELSE db.acct.rev,
                   recovers |-> IF cmd = "reauth" THEN ShownRecovery ELSE NoOperation,
                   token |-> IF login THEN issued + 1 ELSE 0,
                   claim |-> h, answer |-> "none"]
<1>1. db.acct.rev \in Nat /\ issued \in Nat /\ receipt \in [Operations -> Receipt]
      /\ faults \in Nat /\ valid \subseteq Nat
  BY OpType DEF IInv, Sound, TypeOK
<1>2. new \in Receipt
  BY <1>1, RecoveryTypes, BindingType DEF Receipt, Answers
<1>3. receipt' = [receipt EXCEPT ![o] = new]
  BY DEF Submit
<1>4. /\ receipt' \in [Operations -> Receipt]
      /\ \A x \in Operations : receipt'[x].answer \in {"none", receipt[x].answer}
  BY <1>1, <1>2, <1>3
<1>5. Frame
  BY <1>1 DEF Submit, Frame, NoWorld, NoFault
<1>6. /\ At(h, "idle") /\ handler' = [handler EXCEPT ![h] = Waiting(cmd, o, db.acct.rev)]
      /\ UNCHANGED <<db, lock, unanswered>>
  BY DEF Submit
<1>7. QED
  BY <1>1, <1>4, <1>5, <1>6, WaitKeeps

LEMMA RetryKeeps ==
    ASSUME IInv, NEW h \in Handlers, NEW o \in Operations, Retry(h, o)
    PROVE  Kept
<1>1. db.acct.rev \in Nat /\ receipt \in [Operations -> Receipt]
  BY OpType DEF IInv, Sound, TypeOK
<1>2. /\ receipt' \in [Operations -> Receipt]
      /\ \A x \in Operations : receipt'[x].answer \in {"none", receipt[x].answer}
  BY <1>1 DEF Retry, Receipt
<1>3. Frame
  BY NoFaultFrame DEF Retry
<1>4. receipt[o].cmd \in Commands \cup {"none"}
  BY <1>1 DEF Receipt
<1>5. QED
  BY <1>1, <1>2, <1>3, <1>4, WaitKeeps DEF Retry

LEMMA TaskKeeps ==
    ASSUME IInv, NEW h \in Handlers, NEW o \in Operations,
           \/ \E cmd \in Tasks : StartTask(h, o, cmd)
           \/ \E cmd \in Recoveries : SubmitRecovery(h, o, cmd)
    PROVE  Kept
<1>1. db.acct.rev \in Nat /\ 0 \in Nat
  BY OpType
<1>2. PICK cmd \in Tasks \cup Recoveries, rev \in Nat :
         handler' = [handler EXCEPT ![h] = Waiting(cmd, o, rev)]
  BY <1>1 DEF StartTask, SubmitRecovery
<1>3. /\ At(h, "idle") /\ Frame /\ UNCHANGED <<db, receipt, lock, unanswered>>
      /\ receipt' \in [Operations -> Receipt]
  BY NoFaultFrame DEF StartTask, SubmitRecovery, IInv, Sound, TypeOK
<1>4. QED
  BY <1>2, <1>3, WaitKeeps

LEMMA NextKeeps ==
    ASSUME IInv, Next
    PROVE  Kept
  BY HandlerStepKeeps, JournalFailsKeeps, SubmitKeeps, TaskKeeps, RetryKeeps, OutsideKeeps,
     AcceptRecoveryKeeps, ReconcileKeeps, ReconcileLogoutKeeps, StartupEndsKeeps, ToggleKeeps,
     LaunchKeeps, CrashKeeps DEF Next, StartupStep

LEMMA InitKeeps == Init => IInv
<1> SUFFICES ASSUME Init PROVE IInv
  OBVIOUS
<1>1. /\ NoOp \in Operation /\ NoOp.phase = "none" /\ NoOp.by = NoOperation
  <2>1. "none" \in Kinds /\ 0 \in Nat
    BY DEF Kinds
  <2>2. NewOperation("none", 0, NoCredential, NoCredential, NoOperation) \in Operation
    BY <2>1, BindingType, NewOperationType
  <2>3. QED
    BY <2>2 DEF NoOp, NewOperation, Operation, Phases
<1>2. NoReceipt \in Receipt /\ NoReceipt.answer = "none"
  BY BindingType DEF NoReceipt, Receipt, Answers
<1>3. IdleHandler \in Handler /\ IdleHandler.pc = "idle"
  BY BindingType DEF IdleHandler, Handler, Steps, Results
<1>4. db \in Database
  BY <1>1, BindingType DEF Init, Database, Account
<1>5. TypeOK
  BY <1>2, <1>3, <1>4 DEF Init, TypeOK
<1>6. \A o \in Operations : db.ops[o] = NoOp
  BY DEF Init
<1>7. Journal(db.ops)
  BY <1>1, <1>6 DEF Journal, IsUnsettled, UnsettledPhases
<1>8. TombstoneHasNoProcess /\ AnswerIsTrue
  BY <1>2 DEF Init, TombstoneHasNoProcess, AnswerIsTrue
<1>9. Busy
  BY <1>3, ServiceAssumption DEF Init, Busy
<1>10. QED
  BY <1>5, <1>7, <1>8, <1>9 DEF IInv, Sound

LEMMA StutterKeeps == IInv /\ UNCHANGED vars => IInv'
  BY DEF IInv, Sound, TypeOK, Journal, TombstoneHasNoProcess, AnswerIsTrue, Busy, At, vars, bounds

LEMMA JournalMeaning == Journal(db.ops) => OneUnsettledOperation /\ TakeoverKeepsItsRecovery
<1> SUFFICES ASSUME Journal(db.ops) PROVE OneUnsettledOperation /\ TakeoverKeepsItsRecovery
  OBVIOUS
<1>1. OneUnsettledOperation
  BY DEF Journal, OneUnsettledOperation, UnsettledOf
<1>2. TakeoverKeepsItsRecovery
  BY DEF Journal, TakeoverKeepsItsRecovery
<1>3. QED
  BY <1>1, <1>2

----------------------------------------------------------------------------
(* The theorems.                                                           *)

(* Whatever handlers, startup, crashes and failing calls do, the journal   *)
(* is well formed, answers are true, and the handler that holds the lock   *)
(* knows the phase of its operation (IInv).                                *)
THEOREM Invariance == Spec => []IInv
<1>1. Init => IInv
  BY InitKeeps
<1>2. IInv /\ [Next]_vars => IInv'
  BY NextKeeps, StutterKeeps DEF Kept
<1>3. QED
  BY <1>1, <1>2, PTL DEF Spec

(* Every variable keeps its type: no path of a command, a task, a recovery *)
(* or a startup leaves a malformed row, receipt or handler.                *)
THEOREM TypeCorrect == Spec => []TypeOK
<1>1. IInv => TypeOK
  BY DEF IInv, Sound
<1>2. QED
  BY <1>1, Invariance, PTL

(* However many commands, tasks and recoveries of an account run, the      *)
(* journal of account_lifecycle.rs has one unsettled operation, and beside *)
(* it at most its takeover.                                                *)
THEOREM OneUnsettled == Spec => []OneUnsettledOperation
<1>1. IInv => OneUnsettledOperation
  BY JournalMeaning DEF IInv, Sound
<1>2. QED
  BY <1>1, Invariance, PTL

(* A takeover and the ambiguity it took over stay linked as the journal    *)
(* requires, so that the takeover can be cancelled until it commits.       *)
THEOREM TakeoverLinked == Spec => []TakeoverKeepsItsRecovery
<1>1. IInv => TakeoverKeepsItsRecovery
  BY JournalMeaning DEF IInv, Sound
<1>2. QED
  BY <1>1, Invariance, PTL

(* What complete_account_operation_command tells a client is what the      *)
(* journal holds, then and later.                                          *)
THEOREM AnswersTrue == Spec => []AnswerIsTrue
<1>1. IInv => AnswerIsTrue
  BY DEF IInv
<1>2. QED
  BY <1>1, Invariance, PTL

(* No process outlives the tombstone of its account.                       *)
THEOREM TombstoneUnused == Spec => []TombstoneHasNoProcess
<1>1. IInv => TombstoneHasNoProcess
  BY DEF IInv, Sound
<1>2. QED
  BY <1>1, Invariance, PTL

(* No step moves an operation that is committed, cancelled or superseded.  *)
THEOREM SettledStays == Spec => SettledIsFinal
<1>1. IInv /\ [Next]_vars =>
         [\A o \in Operations :
             \/ db.ops[o].phase \in {"committed", "cancelled"}
             \/ db.ops[o].by # NoOperation
             => db'.ops[o] = db.ops[o]]_vars
  <2>1. IInv /\ Next => Final
    BY NextKeeps DEF Kept
  <2>2. QED
    BY <2>1 DEF Final, SettledRow
<1>2. QED
  BY <1>1, Invariance, PTL DEF Spec, SettledIsFinal
=============================================================================
