------------------------- MODULE RedemptionPromise -------------------------
(***************************************************************************)
(* What the use of reset cards promises the owner of an account: each      *)
(* confirmed intent sends at most one request for the card it names, a     *)
(* new intent is taken only for a card that is still there and when no     *)
(* other intent is open, and an intent is closed once, with the truth: it  *)
(* was never sent, or it has the provider's answer.  Whether the provider  *)
(* ever takes a request or answers it is left open, and with it whether    *)
(* the intent is ever closed.                                              *)
(***************************************************************************)
CONSTANTS Keys, Cards

VARIABLES
    card,       \* the card an intent names, once it is taken
    verdict,    \* an intent that is new, open, or closed with a verdict
    request     \* where its request is, or what the provider made of it

promiseVars == <<card, verdict, request>>

Answered == {"reset", "not_reset"}

PromiseInit ==
    /\ verdict = [k \in Keys |-> "new"]
    /\ request = [k \in Keys |-> "unsent"]

(* One request redeems a card for good.                                    *)
Redeemed(c) == \E k \in Keys : card[k] = c /\ request[k] = "reset"

Take(k, c) ==
    /\ verdict[k] = "new"
    /\ \A j \in Keys : verdict[j] # "open"
    /\ ~Redeemed(c)
    /\ card' = [card EXCEPT ![k] = c]
    /\ verdict' = [verdict EXCEPT ![k] = "open"]
    /\ UNCHANGED request

Send(k) ==
    /\ verdict[k] = "open" /\ request[k] = "unsent"
    /\ ~Redeemed(card[k])
    /\ request' = [request EXCEPT ![k] = "flying"]
    /\ UNCHANGED <<card, verdict>>

Arrive(k, answer) ==
    /\ request[k] = "flying"
    /\ answer = "reset" => ~Redeemed(card[k])
    /\ request' = [request EXCEPT ![k] = answer]
    /\ UNCHANGED <<card, verdict>>

Close(k, v) ==
    /\ verdict[k] = "open"
    /\ request[k] = IF v = "failed" THEN "unsent" ELSE v
    /\ verdict' = [verdict EXCEPT ![k] = v]
    /\ UNCHANGED <<card, request>>

PromiseNext ==
    \E k \in Keys :
        \/ Send(k)
        \/ \E c \in Cards : Take(k, c)
        \/ \E answer \in Answered : Arrive(k, answer)
        \/ \E v \in Answered \cup {"failed"} : Close(k, v)

PromiseSpec == PromiseInit /\ [][PromiseNext]_promiseVars
=============================================================================
