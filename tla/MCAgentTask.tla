---------------------------- MODULE MCAgentTask ----------------------------
(* Instances of AgentTask for TLC. *)
EXTENDS AgentTask, TLC

OneTask == {1}
TwoTasks == {1, 2}

OneBrand == [t \in Tasks |-> CHOOSE b \in Brands : TRUE]

AtOnce == [t \in Tasks |-> 0]

\* The older task falls due later than the younger one.
OldestLater == [t \in Tasks |-> IF t = 1 THEN 1 ELSE 0]

\* Drains, sessions and Objects are interchangeable.
Interchangeable ==
    Permutations(Drains) \cup Permutations(Sessions) \cup Permutations(Outputs)
=============================================================================
