--------------------------- MODULE ApprovedEffect ---------------------------
(***************************************************************************)
(* What a human-approved commitment promises (ADR-019 D4), with the queue, *)
(* the drains and the clock left out: nothing is sent to the provider      *)
(* before a human granted it, at most one command is ever sent, it is sent *)
(* only while the commitment is executing, and the outcome claims no more  *)
(* than what the provider did.                                             *)
(***************************************************************************)
EXTENDS Naturals

CONSTANT Tasks

VARIABLES
    stage,    \* open, granted, executing, withdrawn or an outcome
    command,  \* what became of the provider command
    calls     \* commands sent for the commitment

vars == <<stage, command, calls>>

Init ==
    /\ stage = [t \in Tasks |-> "open"]
    /\ command = [t \in Tasks |-> "none"]
    /\ calls = [t \in Tasks |-> 0]

Move(t, from, to) ==
    /\ stage[t] \in from
    /\ stage' = [stage EXCEPT ![t] = to]
    /\ UNCHANGED <<command, calls>>

Grant(t) == Move(t, {"open"}, "granted")

Withdraw(t) == Move(t, {"open", "granted"}, "withdrawn")

Execute(t) == Move(t, {"granted"}, "executing")

Send(t) ==
    /\ stage[t] = "executing"
    /\ calls[t] = 0
    /\ calls' = [calls EXCEPT ![t] = 1]
    /\ command' = [command EXCEPT ![t] = "inflight"]
    /\ UNCHANGED stage

\* The provider decides on its own time, perhaps after the outcome.
Provide(t, how) ==
    /\ command[t] = "inflight"
    /\ command' = [command EXCEPT ![t] = how]
    /\ UNCHANGED <<stage, calls>>

Conclude(t, outcome) ==
    /\ outcome = "succeeded" => command[t] = "applied"
    /\ outcome = "failed" => command[t] = "refused"
    /\ Move(t, {"executing"}, outcome)

Next == \E t \in Tasks :
    \/ Grant(t) \/ Withdraw(t) \/ Execute(t) \/ Send(t)
    \/ \E how \in {"applied", "refused"} : Provide(t, how)
    \/ \E outcome \in {"succeeded", "failed", "outcome_unknown"} : Conclude(t, outcome)

Spec == Init /\ [][Next]_vars
=============================================================================
