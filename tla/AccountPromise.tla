--------------------------- MODULE AccountPromise ---------------------------
(***************************************************************************)
(* What the credential lifecycle promises the owner of an account.  An     *)
(* operation changes the credential only while it holds the account, and   *)
(* only from the credential it found there; an operation that takes over   *)
(* another finds what that one found.  It is committed when its effect is  *)
(* in place, and cancelled, on an account that is signed in, only when the *)
(* credential is the one it found; then nothing moves it any more.  A      *)
(* process starts on a credential nobody holds, and an account is signed   *)
(* out only when none runs.  Which effects happen, and whether an          *)
(* operation is ever settled, is left open.                                *)
(***************************************************************************)
CONSTANTS Operations, Nobody

VARIABLES
    row,        \* the account: "none", "live" (signed in) or "tombstone"
    cred,       \* the operation that wrote the credential, if there is one
    stage,      \* an operation is new, open, done, undone or replaced
    found,      \* the writer of the credential an operation found
    takes,      \* the open operation an operation took over, if any
    inUse       \* a process of the account may run

accountVars == <<row, cred, stage, found, takes, inUse>>

PromiseInit ==
    /\ row = "none" /\ cred = Nobody /\ inUse = FALSE
    /\ stage = [o \in Operations |-> "new"]
    /\ found = [o \in Operations |-> Nobody]
    /\ takes = [o \in Operations |-> Nobody]

(* An operation holds the account unless another has taken it over.        *)
Holds(o) == stage[o] = "open" /\ \A p \in Operations : stage[p] = "open" => takes[p] # o

(* r is the operation o takes over, Nobody when it takes over none.        *)
Begin(o, r) ==
    /\ stage[o] = "new"
    /\ \A p \in Operations : stage[p] = "open" => p = r
    /\ r # Nobody => stage[r] = "open" /\ takes[r] = Nobody /\ found[r] = cred
    /\ stage' = [stage EXCEPT ![o] = "open"]
    /\ takes' = [takes EXCEPT ![o] = r]
    /\ found' = [found EXCEPT ![o] = IF row = "live" THEN cred ELSE Nobody]
    /\ UNCHANGED <<row, cred, inUse>>

Change(o, writer) ==
    /\ Holds(o) /\ cred = found[o]
    /\ cred' = writer
    /\ UNCHANGED <<row, stage, found, takes, inUse>>

(* With its own credential in place the account is signed in, without one  *)
(* it is signed out.                                                       *)
Commit(o) ==
    /\ Holds(o) /\ cred \in {o, Nobody}
    /\ cred = Nobody => row = "live" /\ ~inUse
    /\ row' = IF cred = o THEN "live" ELSE "tombstone"
    /\ stage' = [p \in Operations |->
                    IF p = o THEN "done" ELSE IF p = takes[o] THEN "replaced" ELSE stage[p]]
    /\ UNCHANGED <<cred, found, takes, inUse>>

Cancel(o) ==
    /\ Holds(o)
    /\ row = "live" => cred = found[o]
    /\ stage' = [stage EXCEPT ![o] = "undone"]
    /\ UNCHANGED <<row, cred, found, takes, inUse>>

Start ==
    /\ row = "live" /\ cred # Nobody
    /\ \A o \in Operations : stage[o] # "open"
    /\ inUse' = TRUE
    /\ UNCHANGED <<row, cred, stage, found, takes>>

Stop ==
    /\ inUse /\ inUse' = FALSE
    /\ UNCHANGED <<row, cred, stage, found, takes>>

PromiseNext ==
    \/ \E o \in Operations :
          \/ \E r \in Operations \cup {Nobody} : Begin(o, r)
          \/ \E writer \in {o, Nobody} : Change(o, writer)
          \/ Commit(o) \/ Cancel(o)
    \/ Start \/ Stop

PromiseSpec == PromiseInit /\ [][PromiseNext]_accountVars
=============================================================================
