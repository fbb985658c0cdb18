---------------------------- MODULE AccountSlot ----------------------------
(***************************************************************************)
(* What the process supervisor promises of an account: a slot that one     *)
(* generation holds at a time.  A generation takes the slot before it      *)
(* starts its process, starts it once, and gives the slot back only when   *)
(* the process is over.  A holder may keep the slot for ever.              *)
(***************************************************************************)
CONSTANTS Generations, AccountOf

VARIABLES
    held,       \* generations that hold their account's slot
    spent,      \* generations that ever held it
    started,    \* generations that ever started a process
    running     \* generations with a live process

slotVars == <<held, spent, started, running>>

SlotInit == held = {} /\ spent = {} /\ started = {} /\ running = {}

Claim(g) ==
    /\ g \notin spent
    /\ \A h \in held : AccountOf[h] # AccountOf[g]
    /\ held' = held \cup {g}
    /\ spent' = spent \cup {g}
    /\ UNCHANGED <<started, running>>

Begin(g) ==
    /\ g \in held /\ g \notin started
    /\ started' = started \cup {g}
    /\ running' = running \cup {g}
    /\ UNCHANGED <<held, spent>>

(* Any set of processes ends: one exits, or the host goes down.            *)
End ==
    /\ running' \subseteq running
    /\ UNCHANGED <<held, spent, started>>

Release(g) ==
    /\ g \in held /\ g \notin running
    /\ held' = held \ {g}
    /\ UNCHANGED <<spent, started, running>>

SlotNext == End \/ \E g \in Generations : Claim(g) \/ Begin(g) \/ Release(g)

SlotSpec == SlotInit /\ [][SlotNext]_slotVars

(* Only a holder runs, and one generation of an account holds.             *)
SlotExclusive ==
    /\ running \subseteq held
    /\ \A g, h \in held : AccountOf[g] = AccountOf[h] => g = h
=============================================================================
