----------------------------- MODULE IntentLife -----------------------------
(***************************************************************************)
(* What the components that work on Intents agree about: an Intent is      *)
(* declared, or proposed and adopted; every operation on it counts its     *)
(* revision up by one; and once it is abandoned nothing is done to it.     *)
(***************************************************************************)
EXTENDS Naturals

CONSTANT Intents

VARIABLES state, revision

vars == <<state, revision>>

\* None, but a component may begin with Intents that were declared before.
Init ==
    /\ state \in [Intents -> {"none", "active"}]
    /\ revision = [i \in Intents |-> IF state[i] = "none" THEN 0 ELSE 1]

Operate(i, from, to) ==
    /\ state[i] \in from
    /\ state' = [state EXCEPT ![i] = to]
    /\ revision' = [revision EXCEPT ![i] = @ + 1]

Declare(i) == Operate(i, {"none"}, "active")
Propose(i) == Operate(i, {"none"}, "draft")
Refine(i)  == Operate(i, {"active"}, "active")
Adopt(i)   == Operate(i, {"draft"}, "active")
Abandon(i) == Operate(i, {"draft", "active"}, "abandoned")

Next == \E i \in Intents :
    Declare(i) \/ Propose(i) \/ Refine(i) \/ Adopt(i) \/ Abandon(i)

Spec == Init /\ [][Next]_vars
=============================================================================
