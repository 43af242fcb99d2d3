------------------------------ MODULE TaskLife ------------------------------
(***************************************************************************)
(* What every component that meets a task may take for granted of it: it   *)
(* is created once; it waits, whatever claims and requeues there are,      *)
(* until one session is bound to it; it produces at most one output, while *)
(* its session is bound; and it ends once, with a session or without.      *)
(*                                                                         *)
(* The agent lane is shown to keep this, and so are the components that    *)
(* model no more of the lane than they need.                               *)
(***************************************************************************)
CONSTANTS Tasks, Outputs, Nothing

VARIABLES state, output

vars == <<state, output>>

Init ==
    /\ state \in [Tasks -> {"none", "waiting"}]
    /\ output = [t \in Tasks |-> Nothing]

Move(t, from, to) ==
    /\ state[t] \in from
    /\ state' = [state EXCEPT ![t] = to]
    /\ UNCHANGED output

Create(t) == Move(t, {"none"}, "waiting")

Bind(t) == Move(t, {"waiting"}, "bound")

Produce(t) ==
    /\ state[t] = "bound" /\ output[t] = Nothing
    /\ output'[t] \in Outputs /\ output' = [output EXCEPT ![t] = output'[t]]
    /\ UNCHANGED state

End(t) == Move(t, {"waiting", "bound"}, "ended")

Next == \E t \in Tasks : Create(t) \/ Bind(t) \/ Produce(t) \/ End(t)

Spec == Init /\ [][Next]_vars
=============================================================================
