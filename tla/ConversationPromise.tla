------------------------ MODULE ConversationPromise ------------------------
(***************************************************************************)
(* What a conversation promises its user: turns one after the other, each  *)
(* input worked on at most once and only while its turn is open and no     *)
(* other input is worked on, and a verdict that is true when it is given   *)
(* and final.  It may also be that a turn is given up: then the promise is *)
(* only that nothing works on its input any more.  Whether the provider    *)
(* ever ends, and whether a turn is ever closed, is left open.             *)
(***************************************************************************)
EXTENDS Naturals

CONSTANT Inputs         \* numbers: the turns in their order

VARIABLES
    verdict,    \* a turn that is new, open or closed with a verdict
    effect      \* what became of its input

promiseVars == <<verdict, effect>>

Verdicts == {"completed", "failed", "given_up"}
Ends == {"ok", "failed", "cut"}

(* Some turns may be over when the promise begins.                         *)
PromiseInit ==
    \E past \in SUBSET Inputs :
        /\ verdict = [t \in Inputs |-> IF t \in past THEN "completed" ELSE "new"]
        /\ effect = [t \in Inputs |-> IF t \in past THEN "ok" ELSE "unsent"]

Open(t) ==
    /\ verdict[t] = "new"
    /\ \A u \in Inputs : IF u < t THEN verdict[u] \in Verdicts ELSE verdict[u] = "new"
    /\ verdict' = [verdict EXCEPT ![t] = "open"]
    /\ UNCHANGED effect

Begin(t) ==
    /\ verdict[t] = "open" /\ effect[t] = "unsent"
    /\ \A u \in Inputs : effect[u] # "running"
    /\ effect' = [effect EXCEPT ![t] = "running"]
    /\ UNCHANGED verdict

(* The provider finishes, or its process is gone and cuts the input off.   *)
End(t, end) ==
    /\ effect[t] = "running"
    /\ effect' = [effect EXCEPT ![t] = end]
    /\ UNCHANGED verdict

Justified(v, e) ==
    /\ v = "completed" => e = "ok"
    /\ v = "failed" => e \in {"unsent", "failed", "cut"}
    /\ v = "given_up" => e # "running"

Close(t, v) ==
    /\ verdict[t] = "open"
    /\ Justified(v, effect[t])
    /\ verdict' = [verdict EXCEPT ![t] = v]
    /\ UNCHANGED effect

PromiseNext ==
    \E t \in Inputs :
        \/ Open(t) \/ Begin(t)
        \/ \E end \in Ends : End(t, end)
        \/ \E v \in Verdicts : Close(t, v)

PromiseSpec == PromiseInit /\ [][PromiseNext]_promiseVars
=============================================================================
