------------------------------- MODULE OneShot -------------------------------
(***************************************************************************)
(* What a one-time grant promises: it is offered, is spent at most once,   *)
(* and whoever spent it obtains at most one holder for it.                 *)
(***************************************************************************)
CONSTANTS Grants, Holders

VARIABLES
    state,   \* "unused", "open" or "spent"
    holder   \* what came of the grant, a set with at most one element

vars == <<state, holder>>

Init ==
    /\ state = [g \in Grants |-> "unused"]
    /\ holder = [g \in Grants |-> {}]

Offer(g) ==
    /\ state[g] = "unused"
    /\ state' = [state EXCEPT ![g] = "open"]
    /\ UNCHANGED holder

\* Redeemed by somebody, or withdrawn.
Spend(g) ==
    /\ state[g] # "spent"
    /\ state' = [state EXCEPT ![g] = "spent"]
    /\ UNCHANGED holder

Obtain(g, h) ==
    /\ state[g] = "spent" /\ holder[g] = {}
    /\ holder' = [holder EXCEPT ![g] = {h}]
    /\ UNCHANGED state

Next == \E g \in Grants : Offer(g) \/ Spend(g) \/ \E h \in Holders : Obtain(g, h)

Spec == Init /\ [][Next]_vars
=============================================================================
